---------------------------- MODULE HistoryProofs ----------------------------
(***************************************************************************)
(* Proofs about History, for any number of channels, replays and records:  *)
(* types, how replays of one channel can overlap, that a replay no other   *)
(* one meets is faithful and can be stopped, and what breaks the program.  *)
(***************************************************************************)
EXTENDS History, SequenceTheorems, TLAPS

Running == {"export", "test", "frame", "tested", "marker", "clear"}

\* The first k records of replay r, and all it is to send.
Recs(r, k) == [j \in 1 .. k |-> [of |-> r, n |-> j]]
Whole(r)   == Append(Recs(r, found[r]), Marker)

\* A replay has a channel once it is asked for, and nothing before that.
FreeOK ==
  \A r \in Replays :
    /\ pc[r] # "free" => chan[r] \in Chans
    /\ At(r, "free") => /\ nloop[r] = 0 /\ found[r] = 0 /\ late[r] = -1
                        /\ sent[r] = <<>> /\ r \notin mixed
    /\ At(r, "new") => nloop[r] = 0 /\ found[r] = 0

\* Whoever is not mixed is alone.
MixedOK == \A r, q \in Alive : r # q => r \in mixed

\* For a replay that is alone the flag means what it was told.
FlagOK == \A r \in Alive \ mixed : late[r] < 0 <=> ~threadExit[chan[r]]

\* Until a stop has been overtaken, a channel has one replay, with the flag down
\* unless it was told to stop.
Overtaken(c) == \E p \in mixed : chan[p] = c /\ late[p] >= 0

OneOK ==
  \A c \in Chans :
    \/ Overtaken(c)
    \/ \A r, q \in AliveOf(c) : r = q /\ (late[r] < 0 => ~threadExit[c])

TidyOK == rawdatals # <<>> => \E r \in Replays : pc[r] \in Running

\* What a replay that is alone has found, passed and sent at each place.
AloneOK(r) ==
  /\ pc[r] \in {"new", "begin", "load"} => nloop[r] = 0 /\ sent[r] = <<>>
  /\ At(r, "begin") => historyTask[chan[r]] = text[r]
  /\ pc[r] \in Running \cup {"load"} => text[r] = "period"
  /\ pc[r] \in Running => rawdatals = Recs(r, found[r]) /\ nloop[r] <= found[r]
  /\ pc[r] \in Running \ {"clear"} => sent[r] = Recs(r, nloop[r])
  /\ At(r, "frame") => nloop[r] < found[r]
  /\ At(r, "tested") => nloop[r] = found[r] \/ threadExit[chan[r]]
  /\ At(r, "marker") => nloop[r] = found[r]

DataOK == \A r \in Alive \ mixed : AloneOK(r)

\* What it has sent in the end.
Sound(r) ==
  /\ sent[r] = Whole(r) \/ \E k \in 0 .. found[r] : sent[r] = Recs(r, k)
  /\ r \notin failed /\ text[r] = "period" /\ late[r] < 0 => sent[r] = Whole(r)

DoneOK == \A r \in Replays \ mixed : pc[r] \in {"clear", "exit", "ended"} => Sound(r)

\* A replay that is alone and has sent a task after a stop sends no other one.
LateOK ==
  \A r \in Replays \ mixed :
    late[r] <= 1 /\ (late[r] = 1 => pc[r] \notin {"frame", "marker"})

IInv == /\ TypeOK /\ FreeOK /\ MixedOK /\ FlagOK /\ OneOK /\ TidyOK /\ DataOK
        /\ DoneOK /\ LateOK

-----------------------------------------------------------------------------
(* Sequences of records.                                                   *)

LEMMA RecsSeq ==
  ASSUME NEW r \in Replays, NEW k \in 0 .. MaxRecords
  PROVE  Recs(r, k) \in Seq(Frames) /\ Len(Recs(r, k)) = k
<1>1. \A j \in 1 .. k : [of |-> r, n |-> j] \in Frames
  BY ConstAssumption DEF Frames
<1>2. k \in Nat
  BY ConstAssumption
<1> QED
  BY <1>1, <1>2 DEF Recs

LEMMA RecsNext ==
  ASSUME NEW r \in Replays, NEW k \in Nat, k + 1 \in 0 .. MaxRecords
  PROVE  Append(Recs(r, k), [of |-> r, n |-> k + 1]) = Recs(r, k + 1)
<1>1. k \in 0 .. MaxRecords
  BY ConstAssumption
<1> DEFINE s == Append(Recs(r, k), [of |-> r, n |-> k + 1])
           u == Recs(r, k + 1)
<1>2. [of |-> r, n |-> k + 1] \in Frames
  BY ConstAssumption DEF Frames
<1>3. s \in Seq(Frames) /\ u \in Seq(Frames) /\ Len(s) = k + 1 /\ Len(u) = k + 1
  BY <1>1, <1>2, RecsSeq
<1>4. ASSUME NEW j \in 1 .. k + 1 PROVE s[j] = u[j]
  <2>1. CASE j = k + 1
    BY <2>1, <1>1, RecsSeq DEF Recs
  <2>2. CASE j \in 1 .. k
    BY <2>2, <1>1, RecsSeq DEF Recs
  <2>3. j = k + 1 \/ j \in 1 .. k
    BY <1>4
  <2> QED
    BY <2>1, <2>2, <2>3
<1> HIDE DEF s, u
<1>5. s = u
  BY <1>3, <1>4, SeqEqual
<1> QED
  BY <1>5 DEF s, u

LEMMA NoRecs == ASSUME NEW r \in Replays PROVE Recs(r, 0) = <<>>
<1>1. Recs(r, 0) \in Seq(Frames) /\ Len(Recs(r, 0)) = 0
  BY RecsSeq, ConstAssumption
<1> QED
  BY <1>1

\* A replay that is alone and one that is under way are the same.
LEMMA Alone ==
  ASSUME IInv, NEW r \in Alive \ mixed, NEW q \in Alive
  PROVE  q = r
BY DEF IInv, MixedOK

-----------------------------------------------------------------------------
LEMMA InitInv == Init => IInv
<1> SUFFICES ASSUME Init PROVE IInv
  OBVIOUS
<1>1. Alive = {} /\ \A r \in Replays : pc[r] = "free"
  BY DEF Init, Alive
<1>2. TypeOK
  <2>1. <<>> \in Seq(Frames) /\ <<>> \in Seq(Frames \cup {Marker})
    OBVIOUS
  <2>2. found \in [Replays -> 0 .. MaxRecords]
    BY ConstAssumption DEF Init
  <2> QED
    BY <2>1, <2>2 DEF Init, TypeOK, Texts, Labels
<1>3. FreeOK /\ MixedOK /\ FlagOK /\ OneOK /\ TidyOK /\ DataOK
  BY <1>1 DEF Init, FreeOK, MixedOK, FlagOK, OneOK, AliveOf, TidyOK, DataOK, At
<1>4. DoneOK /\ LateOK
  BY <1>1 DEF Init, DoneOK, LateOK
<1> QED
  BY <1>2, <1>3, <1>4 DEF IInv

-----------------------------------------------------------------------------
(* Requests.                                                               *)

LEMMA RequestInv ==
  ASSUME IInv, NEW c \in Chans, NEW r \in Replays, NEW t \in Texts, Request(c, r, t)
  PROVE  IInv'
<1>1. /\ pc[r] = "free" /\ threadExit[c]
      /\ threadExit' = [threadExit EXCEPT ![c] = FALSE]
      /\ pc' = [pc EXCEPT ![r] = "new"]
      /\ chan' = [chan EXCEPT ![r] = c]
      /\ text' = [text EXCEPT ![r] = t]
      /\ mixed' = IF Alive = {} THEN mixed ELSE mixed \cup Alive \cup {r}
      /\ sent' = [q \in Replays |-> IF q \in mixed' THEN <<>> ELSE sent[q]]
      /\ late' = [q \in Replays |-> IF q \in mixed' /\ late[q] > 0 THEN 0 ELSE late[q]]
      /\ UNCHANGED <<historyTask, rawdatals, nloop, found, hubStopped, failed, broken>>
  BY DEF Request, MayStart, At, Goto
<1>2. /\ Alive' = Alive \cup {r} /\ r \notin Alive /\ Alive \subseteq Replays
      /\ \A q \in Replays : q # r => pc'[q] = pc[q] /\ chan'[q] = chan[q] /\ text'[q] = text[q]
      /\ pc'[r] = "new" /\ chan'[r] = c /\ threadExit'[c] = FALSE
      /\ nloop[r] = 0 /\ late[r] = -1 /\ sent[r] = <<>> /\ found[r] = 0
      /\ late'[r] = -1 /\ sent'[r] = <<>>
      /\ mixed \subseteq mixed' /\ mixed' \subseteq Replays
  BY <1>1 DEF IInv, TypeOK, FreeOK, Alive, At, Labels
<1>3. TypeOK'
  <2>1. sent' \in [Replays -> Seq(Frames \cup {Marker})]
    BY <1>1 DEF IInv, TypeOK
  <2>2. late' \in [Replays -> Nat \cup {-1}]
    BY <1>1 DEF IInv, TypeOK
  <2> QED
    BY <1>1, <1>2, <2>1, <2>2 DEF IInv, TypeOK, Labels
<1>4. ASSUME NEW q \in Alive', q \notin mixed' PROVE q = r /\ Alive = {} /\ mixed' = mixed
  BY <1>1, <1>2, <1>4
<1>5. FreeOK'
  <2> SUFFICES ASSUME NEW q \in Replays
               PROVE  /\ pc'[q] # "free" => chan'[q] \in Chans
                      /\ pc'[q] = "free" => /\ nloop'[q] = 0 /\ found'[q] = 0 /\ late'[q] = -1
                                            /\ sent'[q] = <<>> /\ q \notin mixed'
                      /\ pc'[q] = "new" => nloop'[q] = 0 /\ found'[q] = 0
    BY DEF FreeOK, At
  <2>1. CASE q = r
    BY <1>1, <1>2, <2>1
  <2>2. CASE q # r
    BY <1>1, <1>2, <2>2 DEF IInv, FreeOK, Alive, At, TypeOK
  <2> QED
    BY <2>1, <2>2
<1>6. MixedOK'
  BY <1>1, <1>2 DEF IInv, MixedOK
<1>7. FlagOK'
  BY <1>2, <1>4 DEF FlagOK
<1>8. OneOK'
  <2> SUFFICES ASSUME NEW d \in Chans, ~Overtaken(d)'
               PROVE  \A p, q \in AliveOf(d)' : p = q /\ (late'[p] < 0 => ~threadExit'[d])
    BY DEF OneOK
  <2>1. ~Overtaken(d)
    <3>1. ASSUME NEW p \in mixed PROVE p \in mixed' /\ (late[p] >= 0 => late'[p] >= 0) /\ chan'[p] = chan[p]
      BY <1>1, <1>2 DEF IInv, TypeOK, FreeOK, At
    <3> QED
      BY <3>1 DEF Overtaken
  <2>2. CASE d = c
    <3>1. AliveOf(c) = {}
      <4> SUFFICES ASSUME NEW q \in AliveOf(c) PROVE FALSE
        OBVIOUS
      <4>1. q \in Alive /\ chan[q] = c /\ q \in Replays /\ q # r
        BY <1>2 DEF AliveOf
      <4>2. late[q] >= 0
        BY <1>1, <2>1, <2>2, <4>1 DEF IInv, OneOK, TypeOK
      <4>3. q \in mixed' /\ chan'[q] = c /\ late'[q] >= 0
        BY <1>1, <1>2, <4>1, <4>2 DEF IInv, TypeOK
      <4> QED
        BY <4>3, <2>2 DEF Overtaken
    <3>2. AliveOf(c)' = {r}
      BY <1>2, <3>1 DEF AliveOf
    <3> QED
      BY <1>2, <2>2, <3>2
  <2>3. CASE d # c
    <3>1. AliveOf(d)' = AliveOf(d) /\ threadExit'[d] = threadExit[d]
      BY <1>1, <1>2, <2>3 DEF AliveOf, IInv, TypeOK
    <3>2. ASSUME NEW p \in AliveOf(d), late'[p] < 0 PROVE late[p] < 0
      BY <1>1, <1>2, <3>2 DEF AliveOf, IInv, TypeOK
    <3> QED
      BY <2>1, <3>1, <3>2 DEF IInv, OneOK
  <2> QED
    BY <2>2, <2>3
<1>9. TidyOK'
  BY <1>1, <1>2 DEF IInv, TidyOK, Running
<1>10. DataOK'
  BY <1>1, <1>2, <1>4 DEF DataOK, AloneOK, Running, At
<1>11. DoneOK'
  <2> SUFFICES ASSUME NEW q \in Replays, q \notin mixed', pc'[q] \in {"clear", "exit", "ended"}
               PROVE  Sound(q)'
    BY DEF DoneOK
  <2>1. /\ q # r /\ q \notin mixed /\ pc[q] = pc'[q] /\ sent'[q] = sent[q] /\ late'[q] = late[q]
        /\ text'[q] = text[q]
    BY <1>1, <1>2
  <2> QED
    BY <1>1, <2>1 DEF IInv, DoneOK, Sound, Whole
<1>12. LateOK'
  BY <1>1, <1>2 DEF IInv, LateOK, TypeOK
<1> QED
  BY <1>3, <1>5, <1>6, <1>7, <1>8, <1>9, <1>10, <1>11, <1>12 DEF IInv

LEMMA StopRequestInv ==
  ASSUME IInv, NEW c \in Chans, StopRequest(c)
  PROVE  IInv'
<1>1. /\ threadExit' = [threadExit EXCEPT ![c] = TRUE]
      /\ late' = [r \in Replays |-> IF r \in AliveOf(c) /\ late[r] < 0 THEN 0 ELSE late[r]]
      /\ UNCHANGED <<historyTask, rawdatals, pc, chan, text, mixed, failed, nloop, found,
                     hubStopped, sent, broken>>
  BY DEF StopRequest, Stopping, askVars, IInv, TypeOK
<1>2. Alive' = Alive /\ Alive \subseteq Replays /\ \A d \in Chans : AliveOf(d)' = AliveOf(d)
  BY <1>1 DEF Alive, AliveOf
<1>3. TypeOK'
  <2>1. late' \in [Replays -> Nat \cup {-1}]
    BY <1>1 DEF IInv, TypeOK
  <2> QED
    BY <1>1, <2>1 DEF IInv, TypeOK
<1>4. FreeOK' /\ MixedOK' /\ TidyOK'
  BY <1>1, <1>2 DEF IInv, FreeOK, MixedOK, TidyOK, At, Alive, AliveOf
<1>5. FlagOK'
  <2> SUFFICES ASSUME NEW r \in Alive, r \notin mixed
               PROVE  late'[r] < 0 <=> ~threadExit'[chan[r]]
    BY <1>1, <1>2 DEF FlagOK
  <2>1. chan[r] \in Chans
    BY <1>2 DEF IInv, FreeOK, Alive
  <2>2. CASE chan[r] = c
    BY <1>1, <1>2, <2>2 DEF AliveOf, IInv, TypeOK
  <2>3. CASE chan[r] # c
    BY <1>1, <1>2, <2>1, <2>3 DEF AliveOf, IInv, TypeOK, FlagOK
  <2> QED
    BY <2>2, <2>3
<1>6. OneOK'
  <2> SUFFICES ASSUME NEW d \in Chans, ~Overtaken(d)'
               PROVE  \A p, q \in AliveOf(d) : p = q /\ (late'[p] < 0 => ~threadExit'[d])
    BY <1>2 DEF OneOK
  <2>1. ~Overtaken(d)
    <3>1. ASSUME NEW p \in mixed, late[p] >= 0 PROVE late'[p] >= 0
      BY <1>1, <3>1 DEF IInv, TypeOK
    <3> QED
      BY <1>1, <3>1 DEF Overtaken
  <2>2. \A p, q \in AliveOf(d) : p = q /\ (late[p] < 0 => ~threadExit[d])
    BY <2>1 DEF IInv, OneOK
  <2>3. CASE d = c
    BY <1>1, <1>2, <2>2, <2>3 DEF IInv, TypeOK, AliveOf
  <2>4. CASE d # c
    BY <1>1, <1>2, <2>2, <2>4 DEF IInv, TypeOK, AliveOf
  <2> QED
    BY <2>3, <2>4
<1>7. DataOK'
  <2> SUFFICES ASSUME NEW r \in Alive, r \notin mixed PROVE AloneOK(r)'
    BY <1>1, <1>2 DEF DataOK
  <2>1. AloneOK(r) /\ chan[r] \in Chans
    BY <1>2 DEF IInv, DataOK, FreeOK, Alive
  <2>2. threadExit[chan[r]] => threadExit'[chan[r]]
    BY <1>1, <2>1 DEF IInv, TypeOK
  <2> QED
    BY <1>1, <2>1, <2>2 DEF AloneOK, At, Recs
<1>8. DoneOK'
  <2> SUFFICES ASSUME NEW r \in Replays, r \notin mixed, pc[r] \in {"clear", "exit", "ended"}
               PROVE  Sound(r)'
    BY <1>1 DEF DoneOK
  <2>1. Sound(r)
    BY DEF IInv, DoneOK
  <2>2. late'[r] < 0 => late[r] < 0
    BY <1>1 DEF IInv, TypeOK
  <2> QED
    BY <1>1, <2>1, <2>2 DEF Sound, Whole
<1>9. LateOK'
  BY <1>1 DEF IInv, LateOK, TypeOK
<1> QED
  BY <1>3, <1>4, <1>5, <1>6, <1>7, <1>8, <1>9 DEF IInv

-----------------------------------------------------------------------------
(* The steps of a replay.                                                  *)

\* What it takes for a step of replay r that leaves the flags alone.
LEMMA ReplayStep ==
  ASSUME IInv, NEW r \in Alive,
         UNCHANGED <<threadExit, historyTask, chan, text, mixed, failed>>,
         TypeOK', TidyOK',
         \A q \in Replays : q # r => /\ pc'[q] = pc[q] /\ nloop'[q] = nloop[q]
                                   /\ found'[q] = found[q] /\ sent'[q] = sent[q]
                                   /\ late'[q] = late[q],
         pc'[r] \notin {"free", "new"},
         late'[r] < 0 <=> late[r] < 0,
         r \notin mixed /\ pc'[r] # "ended" => AloneOK(r)',
         r \notin mixed /\ pc'[r] \in {"clear", "exit", "ended"} => Sound(r)',
         r \notin mixed => late'[r] <= 1 /\ (late'[r] = 1 => pc'[r] \notin {"frame", "marker"})
  PROVE  IInv'
<1>1. /\ Alive' \subseteq Alive /\ Alive \subseteq Replays /\ r \in Replays
      /\ \A d \in Chans : AliveOf(d)' \subseteq AliveOf(d)
      /\ \A q \in Replays : late'[q] < 0 <=> late[q] < 0
      /\ r \in Alive' <=> pc'[r] # "ended"
  BY DEF Alive, AliveOf
<1>2. \A q \in Replays : late[q] \in Nat \cup {-1} /\ late'[q] \in Nat \cup {-1}
  BY DEF IInv, TypeOK
<1>3. FreeOK'
  <2> SUFFICES ASSUME NEW q \in Replays
               PROVE  /\ pc'[q] # "free" => chan[q] \in Chans
                      /\ pc'[q] = "free" => /\ nloop'[q] = 0 /\ found'[q] = 0 /\ late'[q] = -1
                                            /\ sent'[q] = <<>> /\ q \notin mixed
                      /\ pc'[q] = "new" => nloop'[q] = 0 /\ found'[q] = 0
    BY DEF FreeOK, At
  <2>1. CASE q = r
    BY <1>1, <2>1 DEF IInv, FreeOK, Alive
  <2>2. CASE q # r
    BY <2>2 DEF IInv, FreeOK, At
  <2> QED
    BY <2>1, <2>2
<1>4. MixedOK' /\ FlagOK'
  BY <1>1 DEF IInv, MixedOK, FlagOK
<1>5. OneOK'
  <2>1. \A d \in Chans : Overtaken(d)' <=> Overtaken(d)
    <3>1. ASSUME NEW q \in mixed PROVE q \in Replays /\ (late'[q] >= 0 <=> late[q] >= 0)
      <4>1. q \in Replays
        BY DEF IInv, TypeOK
      <4> QED
        BY <1>1, <1>2, <4>1
    <3> QED
      BY <3>1 DEF Overtaken
  <2> SUFFICES ASSUME NEW d \in Chans, ~Overtaken(d)
               PROVE  \A p, q \in AliveOf(d)' : p = q /\ (late'[p] < 0 => ~threadExit[d])
    BY <2>1 DEF OneOK
  <2>2. \A p, q \in AliveOf(d) : p = q /\ (late[p] < 0 => ~threadExit[d])
    BY DEF IInv, OneOK
  <2> QED
    BY <1>1, <2>2 DEF AliveOf
<1>6. DataOK'
  <2> SUFFICES ASSUME NEW q \in Alive', q \notin mixed PROVE AloneOK(q)'
    BY DEF DataOK
  <2>1. q = r
    BY <1>1, Alone
  <2> QED
    BY <1>1, <2>1
<1>7. DoneOK'
  <2> SUFFICES ASSUME NEW q \in Replays, q \notin mixed, pc'[q] \in {"clear", "exit", "ended"}
               PROVE  Sound(q)'
    BY DEF DoneOK
  <2>1. CASE q = r
    BY <2>1
  <2>2. CASE q # r
    <3>1. Sound(q)
      BY <2>2 DEF IInv, DoneOK
    <3> QED
      BY <2>2, <3>1 DEF Sound, Whole
  <2> QED
    BY <2>1, <2>2
<1>8. LateOK'
  BY <1>1 DEF IInv, LateOK
<1> QED
  BY <1>3, <1>4, <1>5, <1>6, <1>7, <1>8 DEF IInv

LEMMA CreateInv ==
  ASSUME IInv, NEW r \in Replays, Create(r)
  PROVE  IInv'
<1>1. /\ pc[r] = "new" /\ r \in Alive
      /\ historyTask' = [historyTask EXCEPT ![chan[r]] = text[r]]
      /\ UNCHANGED <<threadExit, rawdatals, chan, text, nloop, found, hubStopped, sent, late,
                     mixed, broken>>
  BY DEF Create, At, Alive
<1>2. chan[r] \in Chans /\ nloop[r] = 0 /\ found[r] = 0
  BY <1>1 DEF IInv, FreeOK, At
<1>3. CASE pc' = [pc EXCEPT ![r] = "begin"] /\ failed' = failed
  <2>1. /\ Alive' = Alive /\ \A d \in Chans : AliveOf(d)' = AliveOf(d)
        /\ pc'[r] = "begin" /\ \A q \in Replays : q # r => pc'[q] = pc[q]
    BY <1>1, <1>3 DEF Alive, AliveOf, IInv, TypeOK
  <2>2. TypeOK'
    BY <1>1, <1>3 DEF IInv, TypeOK, Labels
  <2>3. FreeOK' /\ MixedOK' /\ FlagOK' /\ LateOK'
    BY <1>1, <1>2, <2>1 DEF IInv, FreeOK, MixedOK, FlagOK, LateOK, At
  <2>4. OneOK'
    BY <1>1, <2>1 DEF IInv, OneOK, Overtaken
  <2>5. TidyOK'
    BY <1>1, <2>1 DEF IInv, TidyOK, Running
  <2>6. DataOK'
    <3> SUFFICES ASSUME NEW q \in Alive, q \notin mixed PROVE AloneOK(q)'
      BY <1>1, <2>1 DEF DataOK
    <3>1. q = r
      BY <1>1, Alone
    <3>2. AloneOK(r)
      BY <3>1 DEF IInv, DataOK
    <3>3. historyTask'[chan[r]] = text[r]
      BY <1>1, <1>2 DEF IInv, TypeOK
    <3> QED
      BY <1>1, <2>1, <3>1, <3>2, <3>3 DEF AloneOK, Running, At
  <2>7. DoneOK'
    BY <1>1, <1>3, <2>1 DEF IInv, DoneOK, Sound, Whole
  <2> QED
    BY <2>2, <2>3, <2>4, <2>5, <2>6, <2>7 DEF IInv
<1>4. CASE pc' = [pc EXCEPT ![r] = "ended"] /\ failed' = failed \cup {r}
  <2>1. /\ Alive' \subseteq Alive \ {r} /\ \A d \in Chans : AliveOf(d)' \subseteq AliveOf(d)
        /\ pc'[r] = "ended" /\ \A q \in Replays : q # r => pc'[q] = pc[q]
    BY <1>1, <1>4 DEF Alive, AliveOf, IInv, TypeOK
  <2>2. TypeOK'
    BY <1>1, <1>4 DEF IInv, TypeOK, Labels
  <2>3. FreeOK' /\ MixedOK' /\ FlagOK' /\ LateOK'
    BY <1>1, <1>2, <2>1 DEF IInv, FreeOK, MixedOK, FlagOK, LateOK, At
  <2>4. OneOK'
    BY <1>1, <2>1 DEF IInv, OneOK, Overtaken
  <2>5. TidyOK'
    BY <1>1, <2>1 DEF IInv, TidyOK, Running
  <2>6. DataOK'
    <3> SUFFICES ASSUME NEW q \in Alive', q \notin mixed PROVE AloneOK(q)'
      BY <1>1 DEF DataOK
    <3>1. q = r
      BY <1>1, <2>1, Alone
    <3> QED
      BY <2>1, <3>1
  <2>7. DoneOK'
    <3> SUFFICES ASSUME NEW q \in Replays, q \notin mixed, pc'[q] \in {"clear", "exit", "ended"}
                 PROVE  Sound(q)'
      BY <1>1 DEF DoneOK
    <3>1. CASE q = r
      <4>1. AloneOK(r)
        BY <1>1, <3>1 DEF IInv, DataOK
      <4>2. sent[r] = Recs(r, 0)
        BY <1>1, <4>1, NoRecs DEF AloneOK
      <4> QED
        BY <1>1, <1>2, <1>4, <3>1, <4>2 DEF Sound
    <3>2. CASE q # r
      BY <1>1, <1>4, <2>1, <3>2 DEF IInv, DoneOK, Sound, Whole
    <3> QED
      BY <3>1, <3>2
  <2> QED
    BY <2>2, <2>3, <2>4, <2>5, <2>6, <2>7 DEF IInv
<1> QED
  BY <1>3, <1>4 DEF Create, Goto

LEMMA BeginInv ==
  ASSUME IInv, NEW r \in Replays, Begin(r)
  PROVE  IInv'
<1>1. /\ pc[r] = "begin" /\ r \in Alive
      /\ pc' = [pc EXCEPT ![r] = IF historyTask[chan[r]] = "period" THEN "load" ELSE "exit"]
      /\ UNCHANGED <<threadExit, historyTask, rawdatals, chan, text, mixed, failed, nloop,
                     found, hubStopped, sent, late, broken>>
  BY DEF Begin, At, Goto, Alive, chanVars, askVars
<1>2. /\ pc'[r] = (IF historyTask[chan[r]] = "period" THEN "load" ELSE "exit")
      /\ \A q \in Replays : q # r => pc'[q] = pc[q]
  BY <1>1 DEF IInv, TypeOK
<1>3. TypeOK'
  BY <1>1 DEF IInv, TypeOK, Labels
<1>4. TidyOK'
  BY <1>1, <1>2 DEF IInv, TidyOK, Running
<1>5. ASSUME r \notin mixed PROVE AloneOK(r)' /\ (pc'[r] = "exit" => Sound(r)')
  <2>1. AloneOK(r) /\ found[r] \in 0 .. MaxRecords
    BY <1>1, <1>5 DEF IInv, DataOK, TypeOK
  <2>2. sent[r] = Recs(r, 0) /\ 0 \in 0 .. found[r]
    BY <1>1, <2>1, NoRecs, ConstAssumption DEF AloneOK
  <2>3. pc'[r] = "exit" => text[r] # "period"
    BY <1>1, <1>2, <2>1 DEF AloneOK, At
  <2>4. AloneOK(r)'
    BY <1>1, <1>2, <2>1 DEF AloneOK, Running, At
  <2> QED
    BY <1>1, <2>2, <2>3, <2>4 DEF Sound
<1> QED
  BY <1>1, <1>2, <1>3, <1>4, <1>5, ReplayStep DEF IInv, LateOK

LEMMA LoadInv ==
  ASSUME IInv, NEW r \in Replays, Load(r)
  PROVE  IInv'
<1>1. PICK n \in 0 .. MaxRecords : found' = [found EXCEPT ![r] = n] /\ rawdatals' = rawdatals \o Recs(r, n)
  BY DEF Load, Loaded, Recs
<1>2. /\ pc[r] = "load" /\ r \in Alive
      /\ pc' = [pc EXCEPT ![r] = "export"]
      /\ UNCHANGED <<threadExit, historyTask, chan, text, mixed, failed, nloop,
                     hubStopped, sent, late, broken>>
  BY DEF Load, At, Goto, Alive, chanVars, askVars
<1>3. /\ pc'[r] = "export" /\ found'[r] = n
      /\ \A q \in Replays : q # r => pc'[q] = pc[q] /\ found'[q] = found[q]
  BY <1>1, <1>2 DEF IInv, TypeOK
<1>4. TypeOK'
  <2>1. rawdatals' \in Seq(Frames)
    BY <1>1, RecsSeq DEF IInv, TypeOK
  <2> QED
    BY <1>1, <1>2, <2>1 DEF IInv, TypeOK, Labels
<1>5. TidyOK'
  BY <1>3 DEF TidyOK, Running
<1>6. ASSUME r \notin mixed PROVE AloneOK(r)'
  <2>1. AloneOK(r)
    BY <1>2, <1>6 DEF IInv, DataOK
  <2>2. rawdatals = <<>>
    <3> SUFFICES ASSUME NEW q \in Replays, pc[q] \in Running PROVE FALSE
      BY DEF IInv, TidyOK
    <3>1. q \in Alive
      BY DEF Running, Alive
    <3>2. q = r
      BY <1>2, <1>6, <3>1, Alone
    <3> QED
      BY <1>2, <3>2 DEF Running
  <2>3. rawdatals' = Recs(r, n)
    BY <1>1, <2>2, RecsSeq
  <2>4. sent[r] = Recs(r, 0) /\ nloop[r] = 0 /\ n >= 0
    BY <1>2, <2>1, NoRecs, ConstAssumption DEF AloneOK
  <2> QED
    BY <1>2, <1>3, <2>1, <2>3, <2>4 DEF AloneOK, Running, At, Recs
<1> QED
  BY <1>2, <1>3, <1>4, <1>5, <1>6, ReplayStep DEF IInv, LateOK

LEMMA ExportInv ==
  ASSUME IInv, NEW r \in Replays, Export(r)
  PROVE  IInv'
<1>1. /\ pc[r] = "export" /\ r \in Alive
      /\ pc' = [pc EXCEPT ![r] = "test"]
      /\ UNCHANGED <<threadExit, historyTask, rawdatals, chan, text, mixed, failed, nloop,
                     found, hubStopped, sent, late, broken>>
  BY DEF Export, At, Goto, Alive, chanVars, askVars
<1>2. pc'[r] = "test" /\ \A q \in Replays : q # r => pc'[q] = pc[q]
  BY <1>1 DEF IInv, TypeOK
<1>3. TypeOK'
  BY <1>1 DEF IInv, TypeOK, Labels
<1>4. TidyOK'
  BY <1>2 DEF TidyOK, Running
<1>5. ASSUME r \notin mixed PROVE AloneOK(r)'
  <2>1. AloneOK(r)
    BY <1>1, <1>5 DEF IInv, DataOK
  <2> QED
    BY <1>1, <1>2, <2>1 DEF AloneOK, Running, At, Recs
<1> QED
  BY <1>1, <1>2, <1>3, <1>4, <1>5, ReplayStep DEF IInv, LateOK

LEMMA TestInv ==
  ASSUME IInv, NEW r \in Replays, Test(r)
  PROVE  IInv'
<1>1. /\ pc[r] = "test" /\ r \in Alive
      /\ pc' = [pc EXCEPT ![r] = IF nloop[r] < Len(rawdatals) /\ ~threadExit[chan[r]]
                                THEN "frame" ELSE "tested"]
      /\ UNCHANGED <<threadExit, historyTask, rawdatals, chan, text, mixed, failed, nloop,
                     found, hubStopped, sent, late, broken>>
  BY DEF Test, MoreLeft, At, Goto, Alive, chanVars, askVars
<1>2. /\ pc'[r] = (IF nloop[r] < Len(rawdatals) /\ ~threadExit[chan[r]]
                  THEN "frame" ELSE "tested")
      /\ \A q \in Replays : q # r => pc'[q] = pc[q]
  BY <1>1 DEF IInv, TypeOK
<1>3. TypeOK'
  BY <1>1 DEF IInv, TypeOK, Labels
<1>4. TidyOK'
  BY <1>2 DEF TidyOK, Running
<1>5. ASSUME r \notin mixed
      PROVE  AloneOK(r)' /\ late'[r] <= 1 /\ (late'[r] = 1 => pc'[r] \notin {"frame", "marker"})
  <2>1. AloneOK(r) /\ found[r] \in 0 .. MaxRecords /\ nloop[r] \in Nat
    BY <1>1, <1>5 DEF IInv, DataOK, TypeOK
  <2>2. Len(rawdatals) = found[r]
    BY <1>1, <2>1, RecsSeq DEF AloneOK, Running
  <2>3. AloneOK(r)'
    BY <1>1, <1>2, <2>1, <2>2 DEF AloneOK, Running, At, Recs
  <2>4. late[r] = 1 => pc'[r] # "frame"
    BY <1>1, <1>2, <1>5 DEF IInv, FlagOK
  <2> QED
    BY <1>1, <1>2, <1>5, <2>3, <2>4 DEF IInv, LateOK
<1> QED
  BY <1>1, <1>2, <1>3, <1>4, <1>5, ReplayStep

\* What sending does, and that the counter of late tasks is right.
LEMMA SendCounts ==
  ASSUME IInv, NEW r \in Replays, NEW what \in Frames \cup {Marker}, Send(r, what),
         pc[r] \in {"frame", "marker"}
  PROVE  /\ sent' \in [Replays -> Seq(Frames \cup {Marker})]
         /\ late' \in [Replays -> Nat \cup {-1}]
         /\ \A q \in Replays : q # r => sent'[q] = sent[q] /\ late'[q] = late[q]
         /\ late'[r] < 0 <=> late[r] < 0
         /\ r \notin mixed => late'[r] <= 1 /\ sent'[r] = Append(sent[r], what)
<1>1. late[r] \in Nat \cup {-1} /\ sent[r] \in Seq(Frames \cup {Marker})
  BY DEF IInv, TypeOK
<1>2. r \notin mixed => late[r] <= 0
  BY <1>1 DEF IInv, LateOK
<1>3. sent' \in [Replays -> Seq(Frames \cup {Marker})]
  BY <1>1 DEF Send, IInv, TypeOK
<1> QED
  BY <1>1, <1>2, <1>3 DEF Send, IInv, TypeOK

LEMMA FrameInv ==
  ASSUME IInv, NEW r \in Replays, Frame(r)
  PROVE  IInv'
<1> DEFINE what == rawdatals[nloop[r] + 1]
<1>1. /\ pc[r] = "frame" /\ r \in Alive /\ nloop[r] < Len(rawdatals)
      /\ Send(r, what)
      /\ pc' = [pc EXCEPT ![r] = "test"] /\ nloop' = [nloop EXCEPT ![r] = @ + 1]
      /\ UNCHANGED <<threadExit, historyTask, rawdatals, chan, text, mixed, failed,
                     found, hubStopped, broken>>
  BY DEF Frame, At, Goto, Alive, chanVars, askVars
<1>2. /\ pc'[r] = "test" /\ nloop'[r] = nloop[r] + 1 /\ nloop[r] \in Nat
      /\ \A q \in Replays : q # r => pc'[q] = pc[q] /\ nloop'[q] = nloop[q]
      /\ rawdatals \in Seq(Frames) /\ found[r] \in 0 .. MaxRecords
  BY <1>1 DEF IInv, TypeOK
<1>3. what \in Frames
  BY <1>1, <1>2
<1> HIDE DEF what
<1>4. /\ sent' \in [Replays -> Seq(Frames \cup {Marker})]
      /\ late' \in [Replays -> Nat \cup {-1}]
      /\ \A q \in Replays : q # r => sent'[q] = sent[q] /\ late'[q] = late[q]
      /\ late'[r] < 0 <=> late[r] < 0
      /\ r \notin mixed => late'[r] <= 1 /\ sent'[r] = Append(sent[r], what)
  BY <1>1, <1>3, SendCounts
<1>5. TypeOK'
  <2>1. nloop' \in [Replays -> Nat] /\ pc' \in [Replays -> Labels]
    BY <1>1, <1>2 DEF IInv, TypeOK, Labels
  <2> QED
    BY <1>1, <1>4, <2>1 DEF IInv, TypeOK
<1>6. TidyOK'
  BY <1>2 DEF TidyOK, Running
<1>7. ASSUME r \notin mixed PROVE AloneOK(r)'
  <2>1. AloneOK(r)
    BY <1>1, <1>7 DEF IInv, DataOK
  <2>2. /\ nloop[r] < found[r] /\ rawdatals = Recs(r, found[r]) /\ sent[r] = Recs(r, nloop[r])
        /\ text[r] = "period"
    BY <1>1, <2>1 DEF AloneOK, Running, At
  <2>3. what = [of |-> r, n |-> nloop[r] + 1]
    BY <1>2, <2>2 DEF what, Recs
  <2>4. sent'[r] = Append(Recs(r, nloop[r]), [of |-> r, n |-> nloop[r] + 1])
    BY <1>4, <1>7, <2>2, <2>3
  <2>5. nloop[r] + 1 \in 0 .. MaxRecords
    BY <1>2, <2>2, ConstAssumption
  <2>6. sent'[r] = Recs(r, nloop[r] + 1)
    BY <1>2, <2>4, <2>5, RecsNext
  <2> QED
    BY <1>1, <1>2, <2>2, <2>6 DEF AloneOK, Running, At, Recs
<1> QED
  BY <1>1, <1>2, <1>4, <1>5, <1>6, <1>7, ReplayStep

LEMMA AllSentInv ==
  ASSUME IInv, NEW r \in Replays, AllSent(r)
  PROVE  IInv'
<1>1. /\ pc[r] = "tested" /\ r \in Alive
      /\ pc' = [pc EXCEPT ![r] = IF threadExit[chan[r]] THEN "clear" ELSE "marker"]
      /\ UNCHANGED <<threadExit, historyTask, rawdatals, chan, text, mixed, failed, nloop,
                     found, hubStopped, sent, late, broken>>
  BY DEF AllSent, At, Goto, Alive, chanVars, askVars
<1>2. /\ pc'[r] = (IF threadExit[chan[r]] THEN "clear" ELSE "marker")
      /\ \A q \in Replays : q # r => pc'[q] = pc[q]
  BY <1>1 DEF IInv, TypeOK
<1>3. TypeOK'
  BY <1>1 DEF IInv, TypeOK, Labels
<1>4. TidyOK'
  BY <1>2 DEF TidyOK, Running
<1>5. ASSUME r \notin mixed
      PROVE  /\ AloneOK(r)' /\ (pc'[r] = "clear" => Sound(r)')
             /\ late'[r] <= 1 /\ (late'[r] = 1 => pc'[r] \notin {"frame", "marker"})
  <2>1. AloneOK(r) /\ found[r] \in 0 .. MaxRecords /\ nloop[r] \in Nat
    BY <1>1, <1>5 DEF IInv, DataOK, TypeOK
  <2>2. late[r] < 0 <=> ~threadExit[chan[r]]
    BY <1>1, <1>5 DEF IInv, FlagOK
  <2>3. AloneOK(r)'
    BY <1>1, <1>2, <2>1 DEF AloneOK, Running, At, Recs
  <2>4. sent[r] = Recs(r, nloop[r]) /\ nloop[r] \in 0 .. found[r]
    BY <1>1, <2>1, ConstAssumption DEF AloneOK, Running
  <2>5. pc'[r] = "clear" => Sound(r)'
    BY <1>1, <1>2, <2>2, <2>4 DEF Sound, Recs
  <2> QED
    BY <1>1, <1>2, <1>5, <2>2, <2>3, <2>5 DEF IInv, LateOK
<1> QED
  BY <1>1, <1>2, <1>3, <1>4, <1>5, ReplayStep

LEMMA SendMarkerInv ==
  ASSUME IInv, NEW r \in Replays, SendMarker(r)
  PROVE  IInv'
<1>1. /\ pc[r] = "marker" /\ r \in Alive
      /\ Send(r, Marker)
      /\ pc' = [pc EXCEPT ![r] = "clear"]
      /\ UNCHANGED <<threadExit, historyTask, rawdatals, chan, text, mixed, failed, nloop,
                     found, hubStopped, broken>>
  BY DEF SendMarker, At, Goto, Alive, chanVars, askVars
<1>2. pc'[r] = "clear" /\ \A q \in Replays : q # r => pc'[q] = pc[q]
  BY <1>1 DEF IInv, TypeOK
<1>3. /\ sent' \in [Replays -> Seq(Frames \cup {Marker})]
      /\ late' \in [Replays -> Nat \cup {-1}]
      /\ \A q \in Replays : q # r => sent'[q] = sent[q] /\ late'[q] = late[q]
      /\ late'[r] < 0 <=> late[r] < 0
      /\ r \notin mixed => late'[r] <= 1 /\ sent'[r] = Append(sent[r], Marker)
  BY <1>1, SendCounts
<1>4. TypeOK'
  <2>1. pc' \in [Replays -> Labels]
    BY <1>1 DEF IInv, TypeOK, Labels
  <2> QED
    BY <1>1, <1>3, <2>1 DEF IInv, TypeOK
<1>5. TidyOK'
  BY <1>2 DEF TidyOK, Running
<1>6. ASSUME r \notin mixed PROVE AloneOK(r)' /\ Sound(r)'
  <2>1. AloneOK(r)
    BY <1>1, <1>6 DEF IInv, DataOK
  <2>2. sent'[r] = Whole(r)
    BY <1>1, <1>3, <1>6, <2>1 DEF AloneOK, Running, At, Whole
  <2>3. Whole(r)' = Whole(r)
    BY <1>1 DEF Whole, Recs
  <2> QED
    BY <1>1, <1>2, <2>1, <2>2, <2>3 DEF AloneOK, Sound, Running, At, Recs
<1> QED
  BY <1>1, <1>2, <1>3, <1>4, <1>5, <1>6, ReplayStep

LEMMA ClearInv ==
  ASSUME IInv, NEW r \in Replays, Clear(r)
  PROVE  IInv'
<1>1. /\ pc[r] = "clear" /\ r \in Alive /\ rawdatals' = <<>>
      /\ pc' = [pc EXCEPT ![r] = "exit"]
      /\ UNCHANGED <<threadExit, historyTask, chan, text, mixed, failed, nloop, found,
                     hubStopped, sent, late, broken>>
  BY DEF Clear, Cleared, At, Goto, Alive, chanVars, askVars
<1>2. pc'[r] = "exit" /\ \A q \in Replays : q # r => pc'[q] = pc[q]
  BY <1>1 DEF IInv, TypeOK
<1>3. TypeOK'
  BY <1>1 DEF IInv, TypeOK, Labels
<1>4. TidyOK'
  BY <1>1 DEF TidyOK
<1>5. ASSUME r \notin mixed PROVE AloneOK(r)' /\ Sound(r)'
  <2>1. Sound(r)
    BY <1>1, <1>5 DEF IInv, DoneOK
  <2> QED
    BY <1>1, <1>2, <2>1 DEF AloneOK, Sound, Whole, Running, At, Recs
<1> QED
  BY <1>1, <1>2, <1>3, <1>4, <1>5, ReplayStep DEF IInv, LateOK

\* The end of a replay raises the flag of its channel, whoever is to see it.
LEMMA ExitInv ==
  ASSUME IInv, NEW r \in Replays, Exit(r)
  PROVE  IInv'
<1>1. /\ pc[r] = "exit" /\ r \in Alive
      /\ threadExit' = [threadExit EXCEPT ![chan[r]] = TRUE]
      /\ pc' = [pc EXCEPT ![r] = "ended"] /\ nloop' = [nloop EXCEPT ![r] = 0]
      /\ UNCHANGED <<historyTask, rawdatals, chan, text, mixed, failed, found,
                     hubStopped, sent, late, broken>>
  BY DEF Exit, Ended, At, Goto, Alive, askVars
<1>2. /\ pc'[r] = "ended" /\ chan[r] \in Chans
      /\ \A q \in Replays : q # r => pc'[q] = pc[q] /\ nloop'[q] = nloop[q]
      /\ Alive' = Alive \ {r} /\ Alive \subseteq Replays
      /\ \A d \in Chans : AliveOf(d)' = AliveOf(d) \ {r}
  BY <1>1 DEF IInv, TypeOK, FreeOK, Alive, AliveOf
<1>3. TypeOK'
  BY <1>1 DEF IInv, TypeOK, Labels
<1>4. FreeOK' /\ MixedOK' /\ LateOK'
  BY <1>1, <1>2 DEF IInv, FreeOK, MixedOK, LateOK, At
<1>5. \A q \in Alive' : q \in mixed
  BY <1>1, <1>2 DEF IInv, MixedOK
<1>6. FlagOK' /\ DataOK'
  BY <1>1, <1>5 DEF FlagOK, DataOK
<1>7. OneOK'
  <2> SUFFICES ASSUME NEW d \in Chans, ~Overtaken(d)
               PROVE  \A p, q \in AliveOf(d)' : p = q /\ (late[p] < 0 => ~threadExit'[d])
    BY <1>1 DEF OneOK, Overtaken
  <2>1. \A p, q \in AliveOf(d) : p = q /\ (late[p] < 0 => ~threadExit[d])
    BY DEF IInv, OneOK
  <2>2. CASE d = chan[r]
    <3>1. r \in AliveOf(d)
      BY <1>1, <2>2 DEF AliveOf
    <3> QED
      BY <1>2, <2>1, <3>1
  <2>3. CASE d # chan[r]
    BY <1>1, <1>2, <2>1, <2>3 DEF IInv, TypeOK
  <2> QED
    BY <2>2, <2>3
<1>8. TidyOK'
  BY <1>1, <1>2 DEF IInv, TidyOK, Running
<1>9. DoneOK'
  <2> SUFFICES ASSUME NEW q \in Replays, q \notin mixed, pc'[q] \in {"clear", "exit", "ended"}
               PROVE  Sound(q)'
    BY <1>1 DEF DoneOK
  <2>1. Sound(q)
    BY <1>1, <1>2 DEF IInv, DoneOK
  <2> QED
    BY <1>1, <2>1 DEF Sound, Whole
<1> QED
  BY <1>3, <1>4, <1>6, <1>7, <1>8, <1>9 DEF IInv

-----------------------------------------------------------------------------
(* All steps.                                                              *)

\* A step that changes nothing but "broken" or hubStopped.
LEMMA OthersInv ==
  ASSUME IInv,
         UNCHANGED <<threadExit, historyTask, rawdatals, pc, chan, text, mixed, failed, nloop,
                     found, sent, late>>,
         hubStopped' \in BOOLEAN, broken' \in {"no", "null", "range", "race", "text", "load", "file"}
  PROVE  IInv'
<1>1. Alive' = Alive /\ \A d \in Chans : AliveOf(d)' = AliveOf(d)
  BY DEF Alive, AliveOf
<1>2. TypeOK'
  BY DEF IInv, TypeOK
<1>3. FreeOK' /\ MixedOK' /\ FlagOK' /\ OneOK' /\ TidyOK' /\ LateOK'
  BY <1>1 DEF IInv, FreeOK, MixedOK, FlagOK, OneOK, Overtaken, TidyOK, LateOK, At
<1>4. DataOK'
  <2> SUFFICES ASSUME NEW q \in Alive', q \notin mixed PROVE AloneOK(q)'
    BY DEF DataOK
  <2>1. AloneOK(q)
    BY <1>1 DEF IInv, DataOK
  <2> QED
    BY <2>1 DEF AloneOK, Running, At, Recs, Whole
<1>5. DoneOK'
  <2> SUFFICES ASSUME NEW q \in Replays, q \notin mixed, pc[q] \in {"clear", "exit", "ended"}
               PROVE  Sound(q)'
    BY DEF DoneOK
  <2>1. Sound(q)
    BY DEF IInv, DoneOK
  <2> QED
    BY <2>1 DEF Sound, Whole, Recs
<1> QED
  BY <1>2, <1>3, <1>4, <1>5 DEF IInv

\* A replay that is alone stays within rawdatals and races with nobody.
LEMMA BreakStep ==
  ASSUME IInv, Next
  PROVE  BreaksOnlyTogether'
<1>1. broken = "no"
  BY DEF Next, Runnable
<1>2. ASSUME NEW r \in Replays, Fault(r) PROVE BreaksOnlyTogether'
  <2>1. UNCHANGED <<mixed, hubStopped, rawdatals, nloop>>
    BY <1>2 DEF Fault, askVars
  <2>2. CASE pc[r] = "frame" /\ nloop[r] >= Len(rawdatals) /\ broken' = "range"
    <3>1. r \in Alive
      BY <2>2 DEF Alive
    <3>2. r \in mixed
      <4> SUFFICES ASSUME r \notin mixed PROVE FALSE
        OBVIOUS
      <4>1. AloneOK(r) /\ found[r] \in 0 .. MaxRecords /\ nloop[r] \in Nat
        BY <3>1 DEF IInv, DataOK, TypeOK
      <4>2. Len(rawdatals) = found[r] /\ nloop[r] < found[r]
        BY <2>2, <4>1, RecsSeq DEF AloneOK, Running, At
      <4> QED
        BY <2>2, <4>1, <4>2
    <3> QED
      BY <2>1, <2>2, <3>2 DEF BreaksOnlyTogether
  <2>3. CASE hubStopped /\ broken' = "null"
    BY <2>1, <2>3 DEF BreaksOnlyTogether
  <2> QED
    BY <1>2, <2>2, <2>3 DEF Fault, At
<1>3. CASE Clash
  <2>1. PICK r, q \in Replays : r # q /\ r \in Alive /\ q \in Alive
    BY <1>3 DEF Clash, Alive, At
  <2>2. r \in mixed
    BY <2>1 DEF IInv, MixedOK
  <2> QED
    BY <1>3, <2>2 DEF Clash, BreaksOnlyTogether, askVars
<1>4. CASE broken' = broken \/ broken' \in {"text", "load", "file"}
  BY <1>1, <1>4 DEF BreaksOnlyTogether
<1>5. \/ broken' = broken \/ broken' \in {"text", "load", "file"}
      \/ Clash \/ \E r \in Replays : Fault(r)
  BY DEF Next, Runnable, StopRequest, Request, Create, Replay, Begin, Load, Export, Fail, Test,
         Frame, AllSent, SendMarker, Clear, Exit, HubStop
<1> QED
  BY <1>2, <1>3, <1>4, <1>5

LEMMA NextInv == ASSUME IInv, Next PROVE IInv'
<1>1. ASSUME NEW r \in Replays, Replay(r) PROVE IInv'
  <2>1. CASE Fault(r)
    BY <2>1, OthersInv DEF Fault, chanVars, askVars, IInv, TypeOK
  <2>2. CASE Fail(r)
    BY <2>2, OthersInv DEF Fail, chanVars, askVars, IInv, TypeOK
  <2> QED
    BY <1>1, <2>1, <2>2, BeginInv, LoadInv, ExportInv, TestInv, FrameInv, AllSentInv,
       SendMarkerInv, ClearInv, ExitInv
    DEF Replay
<1>2. CASE HubStop
  BY <1>2, OthersInv DEF HubStop, chanVars, askVars, IInv, TypeOK
<1>3. CASE Clash
  BY <1>3, OthersInv DEF Clash, chanVars, askVars, IInv, TypeOK
<1> QED
  BY <1>1, <1>2, <1>3, RequestInv, StopRequestInv, CreateInv DEF Next, Runnable

LEMMA Inductive == Spec => [](IInv /\ BreaksOnlyTogether)
<1>1. Init => IInv /\ BreaksOnlyTogether
  BY InitInv DEF Init, BreaksOnlyTogether
<1>2. IInv /\ BreaksOnlyTogether /\ [Next]_vars => (IInv /\ BreaksOnlyTogether)'
  <2> SUFFICES ASSUME IInv, BreaksOnlyTogether, [Next]_vars
               PROVE  IInv' /\ BreaksOnlyTogether'
    OBVIOUS
  <2>1. CASE Next
    BY <2>1, NextInv, BreakStep
  <2>2. CASE UNCHANGED vars
    BY <2>2, OthersInv DEF vars, IInv, TypeOK, BreaksOnlyTogether
  <2> QED
    BY <2>1, <2>2
<1> QED
  BY <1>1, <1>2, PTL DEF Spec

-----------------------------------------------------------------------------
\* The types of the variables.
THEOREM TypeCorrect == Spec => []TypeOK
<1>1. IInv => TypeOK
  BY DEF IInv
<1> QED
  BY Inductive, <1>1, PTL

\* Replays of a channel overlap only when a request has overtaken a stop.
THEOREM OverlapNeedsStop == Spec => []OneAtATime
<1>1. IInv => OneAtATime
  BY DEF IInv, OneOK, Overtaken, OneAtATime, FreeOK, AliveOf, Alive
<1> QED
  BY Inductive, <1>1, PTL

\* A replay that no other one meets sends what was recorded, and all of it
\* unless it is told to stop.
THEOREM FaithfulAlone == Spec => []Faithful
<1>1. ASSUME IInv PROVE Faithful
  <2> SUFFICES ASSUME NEW r \in Replays, r \notin mixed
               PROVE  /\ \/ sent[r] = Whole(r)
                         \/ \E k \in 0 .. found[r] : sent[r] = Recs(r, k)
                      /\ At(r, "ended") /\ r \notin failed /\ text[r] = "period" /\ late[r] < 0
                         => sent[r] = Whole(r)
    BY DEF Faithful, Whole, Recs
  <2>1. /\ found[r] \in 0 .. MaxRecords /\ nloop[r] \in Nat /\ pc[r] \in Labels
        /\ 0 \in 0 .. found[r]
    BY <1>1, ConstAssumption DEF IInv, TypeOK
  <2>2. CASE pc[r] \in {"clear", "exit", "ended"}
    BY <1>1, <2>2 DEF IInv, DoneOK, Sound
  <2>3. CASE pc[r] = "free"
    BY <1>1, <2>1, <2>3, NoRecs DEF IInv, FreeOK, At
  <2>4. CASE pc[r] \in {"new", "begin", "load", "export", "test", "frame", "tested",
                         "marker"}
    <3>1. AloneOK(r)
      BY <1>1, <2>4 DEF IInv, DataOK, Alive
    <3>2. CASE pc[r] \in {"new", "begin", "load"}
      BY <2>1, <3>1, <3>2, NoRecs DEF AloneOK, At
    <3>3. CASE pc[r] \in {"export", "test", "frame", "tested", "marker"}
      <4>1. sent[r] = Recs(r, nloop[r]) /\ nloop[r] \in 0 .. found[r]
        BY <2>1, <3>1, <3>3, ConstAssumption DEF AloneOK, Running
      <4> QED
        BY <3>3, <4>1 DEF At
    <3> QED
      BY <2>4, <3>2, <3>3
  <2> QED
    BY <2>1, <2>2, <2>3, <2>4 DEF Labels
<1> QED
  BY Inductive, <1>1, PTL

\* A stop request works for a replay that no other one meets.
THEOREM StopTakesEffect == Spec => []StopWorks
<1>1. IInv => StopWorks
  BY DEF IInv, LateOK, StopWorks
<1> QED
  BY Inductive, <1>1, PTL

\* Nothing is left in rawdatals when all replays have ended.
THEOREM NothingLeft == Spec => []Tidy
<1>1. IInv => Tidy
  BY DEF IInv, TidyOK, Tidy, Running, Alive
<1> QED
  BY Inductive, <1>1, PTL

\* Whatever its own text, SQLite and the file do: what replays do to each other's
\* records and to the machine breaks the program only when they are under way
\* together, or after machine::stop.
THEOREM SoundAlone == Spec => []BreaksOnlyTogether
BY Inductive, PTL
=============================================================================
