------------------------------- MODULE History -------------------------------
(***************************************************************************)
(* The replay of recorded frames (modules/sermon/kernel/datamgr.cpp).  A   *)
(* channel's worker executes read_histdata tasks: one with a period starts *)
(* a replay thread, an empty one asks it to stop.  The thread loads the    *)
(* records of the period into rawdatals, writes them to history.txt, sends *)
(* them to the machine one by one and an end marker after them.  It is     *)
(* never joined.                                                           *)
(*                                                                         *)
(* threadExit and historyTask belong to the channel, and rawdatals is a    *)
(* static variable: the threads of all channels share it.  Left out: what  *)
(* is in a frame, how records are searched, what history.txt says, and the *)
(* hub after a task is in its list (module Xbase).                         *)
(*                                                                         *)
(* "broken" becomes the reason once the program has died or reached        *)
(* undefined behaviour; nothing is modelled beyond that.                   *)
(***************************************************************************)
EXTENDS Integers, Sequences

CONSTANTS
  Chans,     \* the channels
  NoChan,    \* a replay that has not been asked for
  Replays,   \* the replay threads (the bound on how many are started)
  MaxRecords \* bound on the records of a period

ASSUME ConstAssumption == NoChan \notin Chans /\ MaxRecords \in Nat

VARIABLES
  threadExit,  \* threadExit[c]
  historyTask, \* the text in historyTask of each channel
  rawdatals,   \* the loaded records that have not been cleared
  pc,          \* where each replay is
  chan,        \* its channel
  text,        \* the text it was asked for with
  nloop,       \* i, the number of records it has passed
  found,       \* found[r]: how many records its period has
  hubStopped,  \* machine::stop has destroyed the machine's events
  mixed,       \* the replays during which another one was under way
  sent,        \* sent[r]: what r has sent, unless it is mixed
  late,        \* -1, or the tasks r has sent since it was asked to stop (or 0)
  failed,      \* the replays whose thread could not be created
  broken       \* "no", or why the program is past defined behaviour

chanVars == <<threadExit, historyTask>>
askVars  == <<chan, text, mixed, failed>>
vars == <<threadExit, historyTask, rawdatals, pc, chan, text, nloop, found,
          hubStopped, mixed, sent, late, failed, broken>>

\* A period, a text without one, and one with a time that the 256 characters for
\* it do not hold.
Texts  == {"period", "nonsense", "overlong"}
Frames == [of : Replays, n : 1 .. MaxRecords]
Marker == [n |-> 0]

At(r, label)   == pc[r] = label
Goto(r, label) == pc' = [pc EXCEPT ![r] = label]
Alive          == {r \in Replays : pc[r] \notin {"free", "ended"}}
AliveOf(c)     == {r \in Alive : chan[r] = c}

-----------------------------------------------------------------------------
(* datamgr::requestHistoryData, on the worker of channel c.                *)

\* The worker is in memcpy or pthread_create.
Starting(c) == \E r \in Replays : At(r, "new") /\ chan[r] = c

\* Mutant of MayStart: a request is served at once.
StartAnyway(c) == TRUE

MayStart(c) == threadExit[c]

\* threadExit = false.  Whoever is under way on the channel sees it too.
Request(c, r, t) ==
  /\ ~Starting(c) /\ At(r, "free")
  /\ MayStart(c)
  /\ threadExit' = [threadExit EXCEPT ![c] = FALSE]
  /\ Goto(r, "new")
  /\ chan' = [chan EXCEPT ![r] = c]
  /\ text' = [text EXCEPT ![r] = t]
  /\ mixed' = IF Alive = {} THEN mixed ELSE mixed \cup Alive \cup {r}
  /\ sent' = [q \in Replays |-> IF q \in mixed' THEN <<>> ELSE sent[q]]
  /\ late' = [q \in Replays |-> IF q \in mixed' /\ late[q] > 0 THEN 0 ELSE late[q]]
  /\ UNCHANGED <<historyTask, rawdatals, nloop, found, hubStopped, failed, broken>>

Create(r) ==
  /\ At(r, "new")
  /\ historyTask' = [historyTask EXCEPT ![chan[r]] = text[r]]
  /\ \/ Goto(r, "begin") /\ UNCHANGED failed
     \/ Goto(r, "ended") /\ failed' = failed \cup {r}
  /\ UNCHANGED <<threadExit, rawdatals, chan, text, nloop, found, hubStopped, sent, late,
                 mixed, broken>>

\* Mutant of Stopping: the flag is left alone.
NotStopping == FALSE

Stopping == TRUE

\* A task with an empty buffer.
StopRequest(c) ==
  /\ ~Starting(c)
  /\ threadExit' = [threadExit EXCEPT ![c] = Stopping \/ @]
  /\ late' = [r \in Replays |-> IF r \in AliveOf(c) /\ late[r] < 0 THEN 0 ELSE late[r]]
  /\ UNCHANGED <<historyTask, rawdatals, pc, askVars, nloop, found, hubStopped, sent, broken>>

-----------------------------------------------------------------------------
(* datamgr::historythread                                                  *)

\* sscanf of the task: without a ";" the thread ends at once.
Begin(r) ==
  /\ At(r, "begin") /\ historyTask[chan[r]] # "overlong"
  /\ Goto(r, IF historyTask[chan[r]] = "period" THEN "load" ELSE "exit")
  /\ UNCHANGED <<chanVars, rawdatals, askVars, nloop, found, hubStopped, sent, late, broken>>

\* datamgr_gethisdata adds the records to rawdatals.
Loaded(r, n) == rawdatals \o [k \in 1 .. n |-> [of |-> r, n |-> k]]

Load(r) ==
  /\ At(r, "load")
  /\ \E n \in 0 .. MaxRecords :
       /\ found' = [found EXCEPT ![r] = n]
       /\ rawdatals' = Loaded(r, n)
  /\ Goto(r, "export")
  /\ UNCHANGED <<chanVars, askVars, nloop, hubStopped, sent, late, broken>>

\* datamgr_exporttofile has written all of rawdatals.
Export(r) ==
  /\ At(r, "export")
  /\ Goto(r, "test")
  /\ UNCHANGED <<chanVars, rawdatals, askVars, nloop, found, hubStopped, sent, late, broken>>

\* What ends the program with no help from another thread: sscanf writes past the
\* array for a time; a row or a blob that cannot be read throws outside the try
\* blocks of the load; fopen fails, for want of the directory or of a descriptor,
\* and fwrite and fclose are given NULL.
Fail(r) ==
  /\ \/ At(r, "begin") /\ historyTask[chan[r]] = "overlong" /\ broken' = "text"
     \/ At(r, "load") /\ broken' = "load"
     \/ At(r, "export") /\ broken' = "file"
  /\ UNCHANGED <<chanVars, rawdatals, pc, askVars, nloop, found, hubStopped, sent, late>>

\* Mutant of MoreLeft: the loop goes one too far.
OneTooMany(r) == nloop[r] <= Len(rawdatals)

MoreLeft(r) == nloop[r] < Len(rawdatals)

\* i<rawdatals.size() && !mgr->threadExit
Test(r) ==
  /\ At(r, "test")
  /\ Goto(r, IF MoreLeft(r) /\ ~threadExit[chan[r]] THEN "frame" ELSE "tested")
  /\ UNCHANGED <<chanVars, rawdatals, askVars, nloop, found, hubStopped, sent, late, broken>>

\* historyTask.trigger->addtask.
Send(r, what) ==
  /\ ~hubStopped
  /\ sent' = IF r \in mixed THEN sent ELSE [sent EXCEPT ![r] = Append(@, what)]
  /\ late' = IF r \in mixed \/ late[r] < 0 THEN late ELSE [late EXCEPT ![r] = @ + 1]

Frame(r) ==
  /\ At(r, "frame") /\ nloop[r] < Len(rawdatals)
  /\ Send(r, rawdatals[nloop[r] + 1])
  /\ nloop' = [nloop EXCEPT ![r] = @ + 1]
  /\ Goto(r, "test")
  /\ UNCHANGED <<chanVars, rawdatals, askVars, found, hubStopped, broken>>

\* if (!mgr->threadExit): the end marker is due.
AllSent(r) ==
  /\ At(r, "tested")
  /\ Goto(r, IF threadExit[chan[r]] THEN "clear" ELSE "marker")
  /\ UNCHANGED <<chanVars, rawdatals, askVars, nloop, found, hubStopped, sent, late, broken>>

SendMarker(r) ==
  /\ At(r, "marker")
  /\ Send(r, Marker)
  /\ Goto(r, "clear")
  /\ UNCHANGED <<chanVars, rawdatals, askVars, nloop, found, hubStopped, broken>>

\* rawdatals.at(i) throws when the vector has become shorter, and nobody
\* catches that on this thread; addtask faults on destroyed events.
Fault(r) ==
  /\ \/ At(r, "frame") /\ nloop[r] >= Len(rawdatals) /\ broken' = "range"
     \/ pc[r] \in {"frame", "marker"} /\ hubStopped /\ broken' = "null"
  /\ UNCHANGED <<chanVars, rawdatals, pc, askVars, nloop, found, hubStopped, sent, late>>

\* Mutant of Cleared: the records stay for the next replay.
NotCleared == rawdatals

Cleared == <<>>

Clear(r) ==
  /\ At(r, "clear")
  /\ rawdatals' = Cleared
  /\ Goto(r, "exit")
  /\ UNCHANGED <<chanVars, askVars, nloop, found, hubStopped, sent, late, broken>>

\* Mutant of Ended: the flag is not raised at the end.
EndedSilently(c) == threadExit

Ended(c) == [threadExit EXCEPT ![c] = TRUE]

\* threadExit = true, whichever replay of the channel the flag is meant for.
Exit(r) ==
  /\ At(r, "exit")
  /\ threadExit' = Ended(chan[r])
  /\ nloop' = [nloop EXCEPT ![r] = 0]
  /\ Goto(r, "ended")
  /\ UNCHANGED <<historyTask, rawdatals, askVars, found, hubStopped, sent, late, broken>>

Replay(r) == \/ Begin(r) \/ Load(r) \/ Export(r) \/ Fail(r) \/ Test(r) \/ Frame(r)
             \/ AllSent(r) \/ SendMarker(r) \/ Fault(r) \/ Clear(r) \/ Exit(r)

-----------------------------------------------------------------------------
\* machine::stop, which stops no replay.
HubStop ==
  /\ ~hubStopped
  /\ hubStopped' = TRUE
  /\ UNCHANGED <<chanVars, rawdatals, pc, askVars, nloop, found, sent, late, broken>>

\* One thread changes rawdatals while another one uses it, or the task is
\* copied while a thread reads it.
Clash ==
  /\ \E r, q \in Replays :
       /\ r # q
       /\ \/ pc[r] \in {"load", "clear"} /\ pc[q] \in {"load", "clear", "export", "test", "frame"}
          \/ At(r, "new") /\ At(q, "begin") /\ chan[r] = chan[q]
  /\ broken' = "race"
  /\ UNCHANGED <<chanVars, rawdatals, pc, askVars, nloop, found, hubStopped, sent, late>>

Init ==
  /\ threadExit = [c \in Chans |-> TRUE]
  /\ historyTask = [c \in Chans |-> "nonsense"]
  /\ rawdatals = <<>>
  /\ pc = [r \in Replays |-> "free"]
  /\ chan = [r \in Replays |-> NoChan]
  /\ text = [r \in Replays |-> "nonsense"]
  /\ nloop = [r \in Replays |-> 0] /\ found = [r \in Replays |-> 0]
  /\ sent = [r \in Replays |-> <<>>] /\ late = [r \in Replays |-> -1]
  /\ hubStopped = FALSE /\ mixed = {} /\ failed = {} /\ broken = "no"

Runnable(A) == broken = "no" /\ A

Next ==
  \/ \E c \in Chans : \/ Runnable(StopRequest(c))
                      \/ \E r \in Replays, t \in Texts : Runnable(Request(c, r, t))
  \/ \E r \in Replays : Runnable(Create(r)) \/ Runnable(Replay(r))
  \/ Runnable(HubStop) \/ Runnable(Clash)

Spec == Init /\ [][Next]_vars

\* The kernel runs the replay threads, and the worker that is starting one.
FairSpec == Spec /\ \A r \in Replays : WF_vars(Runnable(Create(r) \/ Replay(r)))

-----------------------------------------------------------------------------
(* Properties                                                              *)

Labels == {"free", "new", "begin", "load", "export", "test", "frame", "tested", "marker",
           "clear", "exit", "ended"}

\* Every variable has its type.
TypeOK ==
  /\ threadExit \in [Chans -> BOOLEAN]
  /\ historyTask \in [Chans -> Texts]
  /\ rawdatals \in Seq(Frames)
  /\ pc \in [Replays -> Labels]
  /\ chan \in [Replays -> Chans \cup {NoChan}]
  /\ text \in [Replays -> Texts]
  /\ nloop \in [Replays -> Nat] /\ found \in [Replays -> 0 .. MaxRecords]
  /\ hubStopped \in BOOLEAN
  /\ sent \in [Replays -> Seq(Frames \cup {Marker})]
  /\ late \in [Replays -> Nat \cup {-1}]
  /\ mixed \subseteq Replays /\ failed \subseteq Replays
  /\ broken \in {"no", "null", "range", "race", "text", "load", "file"}

\* Two replays of one channel are under way together only after a stop request
\* that another request has overtaken: one that finds the channel busy is
\* ignored (datamgr.cpp:229), but a stop does not wait for the thread, and the
\* thread it was meant for ends the next one as well.
OneAtATime ==
  \A r, q \in Alive : chan[r] = chan[q] /\ r # q =>
    \E p \in mixed : chan[p] = chan[r] /\ late[p] >= 0

\* A replay that no other one meets sends the records of its period in their
\* order, once, and then the end marker; only a stop request or a request that
\* names no period cuts it short.
Faithful ==
  \A r \in Replays \ mixed :
    LET Records(k) == [j \in 1 .. k |-> [of |-> r, n |-> j]]
        Whole      == Append(Records(found[r]), Marker)
    IN  /\ \/ sent[r] = Whole
           \/ \E k \in 0 .. found[r] : sent[r] = Records(k)
        /\ At(r, "ended") /\ r \notin failed /\ text[r] = "period" /\ late[r] < 0
           => sent[r] = Whole

\* A stop takes effect: a replay that no other one meets sends at most one task
\* after it.  (A new request raises the flag again for a thread still asleep.)
StopWorks == \A r \in Replays \ mixed : late[r] <= 1

\* Records never outlive the replays: whatever they did to each other, the next
\* one that starts alone finds rawdatals empty.
Tidy == Alive = {} /\ broken = "no" => rawdatals = <<>>

\* Beyond its own text, what SQLite reads for it and the file it writes (Fail), a
\* replay breaks the program only by meeting another one, in one channel after a
\* stop or in two channels, or by outliving the machine: alone it never leaves
\* rawdatals and never shares it.
BreaksOnlyTogether ==
  /\ broken \in {"race", "range"} => mixed # {}
  /\ broken = "null" => hubStopped

\* A channel serves requests again after a while, unless no thread could be
\* created for one: then the flag stays down until a stop request.
ReadyAgain ==
  \A c \in Chans : ~threadExit[c] ~> \/ threadExit[c] \/ broken # "no"
                                     \/ \E r \in failed : chan[r] = c
=============================================================================
