-------------------------------- MODULE Xbase --------------------------------
(***************************************************************************)
(* A module of sermon (modules/sermon/kernel/xbase.cpp): its task list     *)
(* mytasks, the thread that empties it, the threads that add to it, and    *)
(* stop().  mytasks is guarded by myreccs, an auto-reset event created set *)
(* and used as a mutex; myevent, an auto-reset event created reset, wakes  *)
(* the worker.  Operations on events are the atomic ones of module Event.  *)
(*                                                                         *)
(* stop() is called by the thread of machine::stop for the module that is  *)
(* the machine itself, and by a channel's own worker when it executes a    *)
(* close_channel task (cssp::close).  Left out: what a task does to its    *)
(* device, the replies to the observer, and mystatus, which only dowork    *)
(* reads.                                                                  *)
(*                                                                         *)
(* "broken" becomes the reason once the program has reached undefined      *)
(* behaviour; nothing is modelled beyond that.                             *)
(***************************************************************************)
EXTENDS Naturals, Sequences

CONSTANTS
  Producers,  \* the threads that call addtask
  Stopper,    \* the thread that calls machine::stop
  Worker,     \* the thread workthread
  MaxAdds     \* bound on the tasks each producer adds

ASSUME ConstAssumption ==
  /\ Stopper \notin Producers /\ Worker \notin Producers /\ Stopper # Worker
  /\ MaxAdds \in Nat

VARIABLES
  hub,        \* the module is the machine itself, not one of its channels
  mytasks,    \* tasks added
  worktasks,  \* tasks the worker has taken and not begun
  myevent,    \* "set", "reset" or "gone" (destroyed, the pointer NULL)
  myreccs,    \* the same
  exitthread, \* the flag the worker's loop tests
  pc,         \* where each thread is
  adds,       \* adds[p]: tasks p has added or is adding
  adding,     \* adding[p]: the task p is adding
  done,       \* the tasks the worker has begun, in order
  broken      \* "no", or why the program is past defined behaviour

vars == <<hub, mytasks, worktasks, myevent, myreccs, exitthread, pc, adds, adding,
          done, broken>>
taskVars == <<mytasks, worktasks, done>>
addVars  == <<adds, adding>>

Threads == Producers \cup {Stopper, Worker}
Kinds   == {"work", "close"}
Task    == [from : Producers, n : 1 .. MaxAdds, kind : Kinds]

At(t, label)   == pc[t] = label
Goto(t, label) == pc' = [pc EXCEPT ![t] = label]

-----------------------------------------------------------------------------
(* Operations on the two events.                                           *)

\* Mutant of Passed: the mutex event is created with manual reset.
LeftSet == "set"

\* event_wait on an auto-reset event.
Passed == "reset"

\* The thread goes on from one label to the next if the event still exists;
\* through a NULL handle every operation of event.cpp faults.
Uses(event, t, next) ==
  \/ event # "gone" /\ Goto(t, next) /\ UNCHANGED broken
  \/ event = "gone" /\ broken' = "null" /\ UNCHANGED pc

\* event_wait(myreccs) at label "take": blocks while the event is reset.
TakeReccs(t, next) ==
  /\ At(t, "take")
  /\ myreccs # "reset"
  /\ Uses(myreccs, t, next)
  /\ myreccs' = IF myreccs = "set" THEN Passed ELSE myreccs
  /\ UNCHANGED <<taskVars, myevent, exitthread, addVars>>

\* event_reset(myreccs), which changes nothing unless stop() has come between.
ResetReccs(t, next) ==
  /\ At(t, "reset")
  /\ Uses(myreccs, t, next)
  /\ myreccs' = IF myreccs = "set" THEN "reset" ELSE myreccs
  /\ UNCHANGED <<taskVars, myevent, exitthread, addVars>>

SetReccs(t, label, next) ==
  /\ At(t, label)
  /\ Uses(myreccs, t, next)
  /\ myreccs' = IF myreccs = "gone" THEN "gone" ELSE "set"
  /\ UNCHANGED <<taskVars, myevent, exitthread, addVars>>

Signalled == "set"

SetEvent(t, label, next) ==
  /\ At(t, label)
  /\ Uses(myevent, t, next)
  /\ myevent' = IF myevent = "gone" THEN "gone" ELSE Signalled
  /\ UNCHANGED <<taskVars, myreccs, exitthread, addVars>>

-----------------------------------------------------------------------------
(* xbase::addtask                                                          *)

AddTask(p, kind) ==
  /\ At(p, "idle")
  /\ adds[p] < MaxAdds
  /\ kind = "close" => ~hub
  /\ adds' = [adds EXCEPT ![p] = @ + 1]
  /\ adding' = [adding EXCEPT ![p] = [from |-> p, n |-> adds[p] + 1, kind |-> kind]]
  /\ Goto(p, "take")
  /\ UNCHANGED <<taskVars, myevent, myreccs, exitthread, broken>>

Push(p) ==
  /\ At(p, "push")
  /\ mytasks' = Append(mytasks, adding[p])
  /\ Goto(p, "set")
  /\ UNCHANGED <<worktasks, done, myevent, myreccs, exitthread, addVars, broken>>

Add(p) == \/ TakeReccs(p, "reset") \/ ResetReccs(p, "push") \/ Push(p)
          \/ SetReccs(p, "set", "signal") \/ SetEvent(p, "signal", "idle")

-----------------------------------------------------------------------------
(* xbase::workthread                                                       *)

\* Mutant of LoopOver: the loop reads exitthread once, before it starts.
NeverOver == FALSE

LoopOver == exitthread

LoopTest ==
  /\ At(Worker, "test")
  /\ Goto(Worker, IF LoopOver THEN "ended" ELSE "timedwait")
  /\ UNCHANGED <<taskVars, myevent, myreccs, exitthread, addVars, broken>>

\* event_timedwait(myevent, mydelay): set, or the delay has passed.
TimedWait ==
  /\ At(Worker, "timedwait")
  /\ myevent' \in IF myevent = "set" THEN {"reset"} ELSE {myevent}
  /\ Goto(Worker, "take")
  /\ UNCHANGED <<taskVars, myreccs, exitthread, addVars, broken>>

\* Mutant of SwappedIn: the tasks are copied, not swapped.
CopiedOnly == mytasks

\* What mytasks gets by the swap: the vector cleared after the last batch.
SwappedIn == worktasks

Swap ==
  /\ At(Worker, "push")
  /\ worktasks' = mytasks
  /\ mytasks' = SwappedIn
  /\ Goto(Worker, "set")
  /\ UNCHANGED <<done, myevent, myreccs, exitthread, addVars, broken>>

\* The for loop over worktasks: dotask of the next one.  A close_channel task
\* makes the worker call close() and so stop(); whatever else is in the batch
\* is executed after that all the same.
DoTask ==
  /\ At(Worker, "work")
  /\ worktasks # <<>>
  /\ done' = Append(done, Head(worktasks))
  /\ worktasks' = Tail(worktasks)
  /\ IF Head(worktasks).kind = "close"
     THEN Goto(Worker, "stop")
     ELSE UNCHANGED pc
  /\ UNCHANGED <<mytasks, myevent, myreccs, exitthread, addVars, broken>>

\* worktasks.clear() and dowork().
BatchDone ==
  /\ At(Worker, "work")
  /\ worktasks = <<>>
  /\ Goto(Worker, "test")
  /\ UNCHANGED <<taskVars, myevent, myreccs, exitthread, addVars, broken>>

-----------------------------------------------------------------------------
(* xbase::stop, run by the Stopper or, from close(), by the Worker itself  *)

CallStop ==
  /\ hub
  /\ At(Stopper, "idle")
  /\ Goto(Stopper, "stop")
  /\ UNCHANGED <<taskVars, myevent, myreccs, exitthread, addVars, broken>>

StopFlag(t) ==
  /\ At(t, "stop")
  /\ exitthread' = TRUE
  /\ Goto(t, "stop_event")
  /\ UNCHANGED <<taskVars, myevent, myreccs, addVars, broken>>

\* pthread_join waits for the worker to end; on itself it fails at once.
Join(t) ==
  /\ At(t, "join")
  /\ t = Worker \/ At(Worker, "ended")
  /\ Goto(t, "destroy")
  /\ UNCHANGED <<taskVars, myevent, myreccs, exitthread, addVars, broken>>

Destroy(t) ==
  /\ At(t, "destroy")
  /\ myevent' = "gone"
  /\ myreccs' = "gone"
  /\ Goto(t, IF t = Worker THEN "work" ELSE "ended")
  /\ UNCHANGED <<taskVars, exitthread, addVars, broken>>

Stop(t) == \/ StopFlag(t) \/ SetEvent(t, "stop_event", "stop_reccs")
           \/ SetReccs(t, "stop_reccs", "join") \/ Join(t) \/ Destroy(t)

-----------------------------------------------------------------------------
\* The threads between event_wait and event_set on myreccs.
Critical == {t \in Threads : pc[t] \in {"reset", "push", "set"}}

\* Two threads touch mytasks at once, which std::vector does not survive.
Clash ==
  /\ \E t, u \in Threads : t # u /\ At(t, "push") /\ At(u, "push")
  /\ broken' = "clash"
  /\ UNCHANGED <<taskVars, myevent, myreccs, exitthread, pc, addVars>>

\* Mutant of FirstReccs: event_create(false, false) for both events.
CreatedReset == "reset"

FirstReccs == "set"

\* start() has created the events and the thread.
Init ==
  /\ hub \in BOOLEAN
  /\ mytasks = <<>> /\ worktasks = <<>> /\ done = <<>>
  /\ myevent = "reset" /\ myreccs = FirstReccs
  /\ exitthread = FALSE
  /\ pc = [t \in Threads |-> IF t = Worker THEN "test" ELSE "idle"]
  /\ adds = [p \in Producers |-> 0]
  /\ adding = [p \in Producers |-> [from |-> p, n |-> 1, kind |-> "work"]]
  /\ broken = "no"

Work == \/ LoopTest \/ TimedWait \/ TakeReccs(Worker, "reset")
        \/ ResetReccs(Worker, "push") \/ Swap \/ SetReccs(Worker, "set", "work")
        \/ DoTask \/ BatchDone \/ Stop(Worker)

\* A step of a program that is not broken.
Runnable(A) == broken = "no" /\ A /\ UNCHANGED hub

Next ==
  \/ Runnable(Work) \/ Runnable(CallStop) \/ Runnable(Stop(Stopper)) \/ Runnable(Clash)
  \/ \E p \in Producers : \/ Runnable(Add(p))
                          \/ \E kind \in Kinds : Runnable(AddTask(p, kind))

Spec == Init /\ [][Next]_vars

\* The kernel runs both the worker and those in addtask or stop, and who keeps
\* asking for myreccs gets it: the others hold it for a few instructions at a
\* time.  Nobody has to add a task or to call stop.
FairSpec ==
  /\ Spec
  /\ WF_vars(Runnable(Work)) /\ WF_vars(Runnable(Stop(Stopper)))
  /\ SF_vars(Runnable(TakeReccs(Worker, "reset")))
  /\ \A p \in Producers : /\ WF_vars(Runnable(Add(p)))
                          /\ SF_vars(Runnable(TakeReccs(p, "reset")))

-----------------------------------------------------------------------------
(* Properties                                                              *)

Labels == {"idle", "take", "reset", "push", "set", "signal", "test", "timedwait",
           "work", "stop", "stop_event", "stop_reccs", "join", "destroy", "ended"}
Events == {"set", "reset", "gone"}

\* The module's own variables have their types.
ModuleOK ==
  /\ mytasks \in Seq(Task) /\ worktasks \in Seq(Task) /\ done \in Seq(Task)
  /\ myevent \in Events /\ myreccs \in Events
  /\ exitthread \in BOOLEAN
  /\ pc \in [Threads -> Labels]
  /\ adds \in [Producers -> 0 .. MaxAdds]
  /\ adding \in [Producers -> [from : Producers, n : Nat, kind : Kinds]]
  /\ broken \in {"no", "null", "clash"}

\* Every variable has its type.
TypeOK == hub \in BOOLEAN /\ ModuleOK

\* Until stop() is called the event myreccs is a mutex: one thread at a time is
\* between event_wait and event_set, so that mytasks is never pushed to and
\* swapped at once (xbase.cpp:69-73, 85-89).  stop() sets the event by force.
OneInside == ~exitthread => \A t, u \in Critical : t = u

\* Tasks are executed once each and in the order they were added, whatever the
\* producers, the worker and stop() interleave.
Box == INSTANCE Mailbox WITH Tasks <- Task, box <- worktasks \o mytasks, done <- done
KeepsOrder == Box!MailSpec

\* The worker never goes to sleep on work: while it waits with a task in the
\* list, myevent is set or the thread that added the task is about to set it.
WakeUp ==
  At(Worker, "timedwait") /\ mytasks # <<>> /\ broken = "no" =>
    myevent = "set" \/ \E p \in Producers : pc[p] \in {"set", "signal"}

\* The module breaks only after stop() has begun: a closed channel stays in
\* machine::mymodules after close_channel, and a task added to it (or a second
\* close in the batch of the first) meets destroyed events.
BreaksOnlyAfterStop == broken # "no" => exitthread

\* Without a stop, every task that is being added gets executed.
EveryTaskRuns ==
  \A p \in Producers : \A n \in 1 .. MaxAdds :
    adds[p] = n ~> \/ \E i \in 1 .. Len(done) : done[i].from = p /\ done[i].n = n
                   \/ exitthread \/ broken # "no"

\* machine::stop comes back: its join sees the worker end.
StopReturns == At(Stopper, "stop") ~> (At(Stopper, "ended") \/ broken # "no")
=============================================================================
