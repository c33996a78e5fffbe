----------------------------- MODULE XbaseProofs -----------------------------
(***************************************************************************)
(* Proofs about Xbase, for any number of producers and tasks: types, mutual *)
(* exclusion on the task list until stop(), that the worker never sleeps on *)
(* work, that nothing breaks before stop(), and that the module keeps the   *)
(* promise of Mailbox.                                                      *)
(***************************************************************************)
EXTENDS Xbase, SequenceTheorems, TLAPS

AddLabels    == {"take", "reset", "push", "set", "signal"}
StopLabels   == {"stop", "stop_event", "stop_reccs", "join", "destroy"}
StopBegun    == StopLabels \ {"stop"}
TurnLabels   == {"timedwait", "take", "reset", "push", "set"}
InsideLabels == {"reset", "push", "set"}

\* Where each thread can be.
LabelOK ==
  /\ \A p \in Producers : pc[p] \in AddLabels \cup {"idle"}
  /\ pc[Stopper] \in StopLabels \cup {"idle", "ended"}
  /\ pc[Worker] \in TurnLabels \cup StopLabels \cup {"test", "work", "ended"}

\* A thread in addtask has a task to add.
AddOK == \A p \in Producers : pc[p] \in AddLabels => adding[p] \in Task

\* stop() has set the flag before it does anything else, the events go last,
\* and the worker comes to no event of its own after that.
StopOK ==
  /\ \A t \in Threads : pc[t] \in StopBegun => exitthread
  /\ At(Stopper, "destroy") => At(Worker, "ended")
  /\ myevent = "gone" => exitthread /\ pc[Worker] \notin TurnLabels
  /\ myreccs = "gone" => exitthread

\* Before stop() the event myreccs is set only when nobody is inside.
MutexOK ==
  ~exitthread =>
    /\ myreccs = "set" => \A t \in Threads : pc[t] \notin InsideLabels
    /\ \A t, u \in Threads : pc[t] \in InsideLabels /\ pc[u] \in InsideLabels => t = u

\* The last batch is finished when the next one is taken.
BatchOK ==
  pc[Worker] \in (TurnLabels \ {"set"}) \cup {"test", "ended"} => worktasks = <<>>

\* A task that is in the list with the worker past its swap has been, or is
\* about to be, announced.
AnnouncedOK ==
  /\ pc[Worker] \notin {"take", "reset", "push"} /\ mytasks # <<>> /\ broken = "no"
  => \/ myevent \in {"set", "gone"}
     \/ \E p \in Producers : pc[p] \in {"set", "signal"}

IInv == ModuleOK /\ LabelOK /\ AddOK /\ StopOK /\ MutexOK /\ BatchOK /\ AnnouncedOK

\* Everything broken has been broken after stop() began.
BrokenOK == BreaksOnlyAfterStop

-----------------------------------------------------------------------------
LEMMA InitInv == Init => IInv /\ BrokenOK
<1> SUFFICES ASSUME Init PROVE IInv /\ BrokenOK
  OBVIOUS
<1> USE ConstAssumption DEF Init, Threads, FirstReccs
<1>1. /\ pc[Worker] = "test" /\ pc[Stopper] = "idle"
      /\ \A p \in Producers : pc[p] = "idle"
  OBVIOUS
<1>2. ModuleOK
  <2>1. <<>> \in Seq(Task)
    OBVIOUS
  <2>2. adds \in [Producers -> 0 .. MaxAdds]
    BY 0 \in 0 .. MaxAdds
  <2>3. adding \in [Producers -> [from : Producers, n : Nat, kind : Kinds]]
    BY DEF Kinds
  <2>4. pc \in [Threads -> Labels]
    BY DEF Labels
  <2> QED
    BY <2>1, <2>2, <2>3, <2>4 DEF ModuleOK, Events
<1>3. LabelOK /\ AddOK /\ StopOK
  BY <1>1 DEF LabelOK, AddOK, StopOK, AddLabels, StopLabels, StopBegun, TurnLabels, At
<1>4. MutexOK /\ BatchOK /\ AnnouncedOK /\ BrokenOK
  BY <1>1 DEF MutexOK, BatchOK, AnnouncedOK, BrokenOK, BreaksOnlyAfterStop,
              InsideLabels, TurnLabels
<1> QED
  BY <1>2, <1>3, <1>4 DEF IInv

-----------------------------------------------------------------------------
(* Adding a task.                                                          *)

LEMMA AddTaskInv ==
  ASSUME IInv, NEW p \in Producers, NEW kind \in Kinds, AddTask(p, kind), broken = "no"
  PROVE  IInv'
<1> USE ConstAssumption DEF Threads
<1>1. /\ pc' = [pc EXCEPT ![p] = "take"] /\ pc[p] = "idle"
      /\ adding' = [adding EXCEPT ![p] = [from |-> p, n |-> adds[p] + 1, kind |-> kind]]
      /\ adds' = [adds EXCEPT ![p] = @ + 1] /\ adds[p] < MaxAdds
      /\ UNCHANGED <<mytasks, worktasks, done, myevent, myreccs, exitthread,
                     broken>>
  BY DEF AddTask, At, Goto, taskVars
<1>2. adds[p] \in Nat /\ adds[p] + 1 \in 0 .. MaxAdds /\ adds[p] + 1 \in 1 .. MaxAdds
  BY <1>1 DEF IInv, ModuleOK
<1>3. ModuleOK'
  BY <1>1, <1>2 DEF IInv, ModuleOK, Labels
<1>4. pc' \in [Threads -> Labels] /\ pc'[Worker] = pc[Worker] /\ pc'[Stopper] = pc[Stopper]
  BY <1>1, <1>3 DEF IInv, ModuleOK
<1>5. LabelOK' /\ StopOK'
  BY <1>1, <1>4 DEF IInv, ModuleOK, LabelOK, StopOK, AddLabels, StopBegun, StopLabels, At
<1>6. AddOK'
  BY <1>1, <1>2 DEF IInv, ModuleOK, AddOK, AddLabels, Task
<1>7. MutexOK' /\ BatchOK'
  BY <1>1, <1>4 DEF IInv, ModuleOK, MutexOK, BatchOK, InsideLabels
<1>8. AnnouncedOK'
  BY <1>1, <1>4 DEF IInv, ModuleOK, AnnouncedOK
<1> QED
  BY <1>3, <1>5, <1>6, <1>7, <1>8 DEF IInv

LEMMA PushInv ==
  ASSUME IInv, NEW p \in Producers, Push(p), broken = "no"
  PROVE  IInv'
<1> USE ConstAssumption DEF Threads
<1>1. /\ pc' = [pc EXCEPT ![p] = "set"] /\ pc[p] = "push"
      /\ mytasks' = Append(mytasks, adding[p])
      /\ UNCHANGED <<worktasks, done, myevent, myreccs, exitthread, adds,
                     adding, broken>>
  BY DEF Push, At, Goto, addVars
<1>2. adding[p] \in Task
  BY <1>1 DEF IInv, AddOK, AddLabels
<1>3. mytasks' \in Seq(Task)
  BY <1>1, <1>2 DEF IInv, ModuleOK
<1>4. /\ pc' \in [Threads -> Labels] /\ pc'[p] = "set"
      /\ \A t \in Threads : t # p => pc'[t] = pc[t]
  BY <1>1 DEF IInv, ModuleOK, Labels
<1>5. ModuleOK'
  BY <1>1, <1>3, <1>4 DEF IInv, ModuleOK
<1>6. LabelOK' /\ StopOK'
  BY <1>1, <1>4 DEF IInv, ModuleOK, LabelOK, StopOK, AddLabels, StopBegun, StopLabels, At
<1>7. AddOK'
  BY <1>1, <1>4 DEF IInv, AddOK, AddLabels
<1>8. MutexOK' /\ BatchOK'
  BY <1>1, <1>4 DEF IInv, MutexOK, BatchOK, InsideLabels
<1>9. AnnouncedOK'
  BY <1>1, <1>4 DEF AnnouncedOK
<1> QED
  BY <1>5, <1>6, <1>7, <1>8, <1>9 DEF IInv

\* The operations on events, by any thread that may do them.
LEMMA TakeReccsInv ==
  ASSUME IInv, NEW t \in Producers \cup {Worker}, TakeReccs(t, "reset"), broken = "no"
  PROVE  IInv'
<1> USE ConstAssumption DEF Threads
<1>1. /\ pc[t] = "take" /\ t \in Threads /\ myreccs \in {"set", "gone"}
      /\ UNCHANGED <<mytasks, worktasks, done, myevent, exitthread, adds,
                     adding>>
  BY DEF TakeReccs, At, taskVars, addVars, IInv, ModuleOK, Events
<1>2. CASE myreccs = "gone"
  <2>1. broken' = "null" /\ UNCHANGED <<pc, myreccs>>
    BY <1>2 DEF TakeReccs, Uses
  <2>2. ModuleOK'
    BY <1>1, <2>1 DEF IInv, ModuleOK
  <2> QED
    BY <1>1, <2>1, <2>2
    DEF IInv, LabelOK, AddOK, StopOK, MutexOK, BatchOK, AnnouncedOK, At
<1>3. CASE myreccs = "set"
  <2>1. broken' = broken /\ pc' = [pc EXCEPT ![t] = "reset"] /\ myreccs' = "reset"
    BY <1>3 DEF TakeReccs, Uses, Goto, Passed
  <2>2. /\ pc' \in [Threads -> Labels] /\ pc'[t] = "reset"
        /\ \A u \in Threads : u # t => pc'[u] = pc[u]
    BY <1>1, <2>1 DEF IInv, ModuleOK, Labels
  <2>3. ModuleOK'
    BY <1>1, <2>1, <2>2 DEF IInv, ModuleOK, Events
  <2>4. LabelOK' /\ StopOK'
    BY <1>1, <2>1, <2>2
    DEF IInv, ModuleOK, LabelOK, StopOK, AddLabels, StopBegun, StopLabels, TurnLabels, At
  <2>5. AddOK'
    BY <1>1, <2>2 DEF IInv, AddOK, AddLabels
  <2>6. MutexOK'
    BY <1>1, <1>3, <2>1, <2>2 DEF IInv, MutexOK, InsideLabels
  <2>7. BatchOK' /\ AnnouncedOK'
    BY <1>1, <2>1, <2>2 DEF IInv, BatchOK, AnnouncedOK, TurnLabels
  <2> QED
    BY <2>3, <2>4, <2>5, <2>6, <2>7 DEF IInv
<1> QED
  BY <1>1, <1>2, <1>3

LEMMA ResetReccsInv ==
  ASSUME IInv, NEW t \in Producers \cup {Worker}, ResetReccs(t, "push"), broken = "no"
  PROVE  IInv'
<1> USE ConstAssumption DEF Threads
<1>1. /\ pc[t] = "reset" /\ t \in Threads
      /\ UNCHANGED <<mytasks, worktasks, done, myevent, exitthread, adds,
                     adding>>
      /\ myreccs' = IF myreccs = "set" THEN "reset" ELSE myreccs
  BY DEF ResetReccs, At, taskVars, addVars
<1>2. CASE myreccs = "gone"
  <2>1. broken' = "null" /\ UNCHANGED <<pc, myreccs>>
    BY <1>1, <1>2 DEF ResetReccs, Uses
  <2>2. ModuleOK'
    BY <1>1, <2>1 DEF IInv, ModuleOK
  <2> QED
    BY <1>1, <2>1, <2>2
    DEF IInv, LabelOK, AddOK, StopOK, MutexOK, BatchOK, AnnouncedOK, At
<1>3. CASE myreccs # "gone"
  <2>1. broken' = broken /\ pc' = [pc EXCEPT ![t] = "push"] /\ myreccs' = "reset"
    BY <1>1, <1>3 DEF ResetReccs, Uses, Goto, IInv, ModuleOK, Events
  <2>2. /\ pc' \in [Threads -> Labels] /\ pc'[t] = "push"
        /\ \A u \in Threads : u # t => pc'[u] = pc[u]
    BY <1>1, <2>1 DEF IInv, ModuleOK, Labels
  <2>3. ModuleOK'
    BY <1>1, <2>1, <2>2 DEF IInv, ModuleOK, Events
  <2>4. LabelOK' /\ StopOK'
    BY <1>1, <2>1, <2>2
    DEF IInv, ModuleOK, LabelOK, StopOK, AddLabels, StopBegun, StopLabels, TurnLabels, At
  <2>5. AddOK'
    BY <1>1, <2>2 DEF IInv, AddOK, AddLabels
  <2>6. MutexOK'
    BY <1>1, <2>1, <2>2 DEF IInv, MutexOK, InsideLabels
  <2>7. BatchOK' /\ AnnouncedOK'
    BY <1>1, <2>1, <2>2 DEF IInv, BatchOK, AnnouncedOK, TurnLabels
  <2> QED
    BY <2>3, <2>4, <2>5, <2>6, <2>7 DEF IInv
<1> QED
  BY <1>1, <1>2, <1>3

\* event_set(myreccs), at the end of addtask, of the worker's turn, or in stop().
LEMMA SetReccsInv ==
  ASSUME IInv, broken = "no", NEW t \in Threads, NEW label, NEW next,
         \/ t \in Producers /\ label = "set" /\ next = "signal"
         \/ t = Worker /\ label = "set" /\ next = "work"
         \/ t \in {Worker, Stopper} /\ label = "stop_reccs" /\ next = "join",
         SetReccs(t, label, next)
  PROVE  IInv'
<1> USE ConstAssumption DEF Threads
<1>1. /\ pc[t] = label
      /\ UNCHANGED <<mytasks, worktasks, done, myevent, exitthread, adds,
                     adding>>
      /\ myreccs' = IF myreccs = "gone" THEN "gone" ELSE "set"
  BY DEF SetReccs, At, taskVars, addVars
<1>2. CASE myreccs = "gone"
  <2>1. broken' = "null" /\ UNCHANGED <<pc, myreccs>>
    BY <1>1, <1>2 DEF SetReccs, Uses
  <2>2. ModuleOK'
    BY <1>1, <2>1 DEF IInv, ModuleOK
  <2> QED
    BY <1>1, <2>1, <2>2
    DEF IInv, LabelOK, AddOK, StopOK, MutexOK, BatchOK, AnnouncedOK, At
<1>3. CASE myreccs # "gone"
  <2>1. broken' = broken /\ pc' = [pc EXCEPT ![t] = next] /\ myreccs' = "set"
    BY <1>1, <1>3 DEF SetReccs, Uses, Goto
  <2>2. /\ pc' \in [Threads -> Labels] /\ pc'[t] = next
        /\ \A u \in Threads : u # t => pc'[u] = pc[u]
    BY <1>1, <2>1 DEF IInv, ModuleOK, Labels
  <2>3. ModuleOK'
    BY <1>1, <2>1, <2>2 DEF IInv, ModuleOK, Events
  <2>4. LabelOK'
    BY <1>1, <2>2 DEF IInv, LabelOK, AddLabels, StopLabels, TurnLabels
  <2>5. StopOK'
    BY <1>1, <2>1, <2>2
    DEF IInv, StopOK, LabelOK, AddLabels, StopBegun, StopLabels, TurnLabels, At
  <2>6. AddOK'
    BY <1>1, <2>2 DEF IInv, AddOK, AddLabels, LabelOK
  <2>7. MutexOK'
    BY <1>1, <2>1, <2>2
    DEF IInv, MutexOK, StopOK, InsideLabels, StopBegun, StopLabels
  <2>8. BatchOK'
    BY <1>1, <2>2 DEF IInv, BatchOK, LabelOK, TurnLabels
  <2>9. AnnouncedOK'
    BY <1>1, <2>1, <2>2 DEF IInv, AnnouncedOK, LabelOK, AddLabels
  <2> QED
    BY <2>3, <2>4, <2>5, <2>6, <2>7, <2>8, <2>9 DEF IInv
<1> QED
  BY <1>2, <1>3

\* event_set(myevent), at the end of addtask or in stop().
LEMMA SetEventInv ==
  ASSUME IInv, broken = "no", NEW t \in Threads, NEW label, NEW next,
         \/ t \in Producers /\ label = "signal" /\ next = "idle"
         \/ t \in {Worker, Stopper} /\ label = "stop_event" /\ next = "stop_reccs",
         SetEvent(t, label, next)
  PROVE  IInv'
<1> USE ConstAssumption DEF Threads
<1>1. /\ pc[t] = label
      /\ UNCHANGED <<mytasks, worktasks, done, myreccs, exitthread, adds,
                     adding>>
      /\ myevent' = IF myevent = "gone" THEN "gone" ELSE "set"
  BY DEF SetEvent, At, taskVars, addVars, Signalled
<1>2. CASE myevent = "gone"
  <2>1. broken' = "null" /\ UNCHANGED <<pc, myevent>>
    BY <1>1, <1>2 DEF SetEvent, Uses
  <2>2. ModuleOK'
    BY <1>1, <2>1 DEF IInv, ModuleOK
  <2> QED
    BY <1>1, <2>1, <2>2
    DEF IInv, LabelOK, AddOK, StopOK, MutexOK, BatchOK, AnnouncedOK, At
<1>3. CASE myevent # "gone"
  <2>1. broken' = broken /\ pc' = [pc EXCEPT ![t] = next] /\ myevent' = "set"
    BY <1>1, <1>3 DEF SetEvent, Uses, Goto
  <2>2. /\ pc' \in [Threads -> Labels] /\ pc'[t] = next
        /\ \A u \in Threads : u # t => pc'[u] = pc[u]
    BY <1>1, <2>1 DEF IInv, ModuleOK, Labels
  <2>3. ModuleOK'
    BY <1>1, <2>1, <2>2 DEF IInv, ModuleOK, Events
  <2>4. LabelOK'
    BY <1>1, <2>2 DEF IInv, LabelOK, AddLabels, StopLabels, TurnLabels
  <2>5. StopOK'
    BY <1>1, <2>1, <2>2
    DEF IInv, StopOK, LabelOK, AddLabels, StopBegun, StopLabels, TurnLabels, At
  <2>6. AddOK'
    BY <1>1, <2>2 DEF IInv, AddOK, AddLabels, LabelOK
  <2>7. MutexOK'
    BY <1>1, <2>2 DEF IInv, MutexOK, InsideLabels
  <2>8. BatchOK'
    BY <1>1, <2>2 DEF IInv, BatchOK, LabelOK, TurnLabels
  <2>9. AnnouncedOK'
    BY <1>1, <2>1, <2>2 DEF AnnouncedOK
  <2> QED
    BY <2>3, <2>4, <2>5, <2>6, <2>7, <2>8, <2>9 DEF IInv
<1> QED
  BY <1>2, <1>3

-----------------------------------------------------------------------------
(* The worker.                                                             *)

\* The test of the worker's loop.
LEMMA LoopTestInv ==
  ASSUME IInv, broken = "no", LoopTest
  PROVE  IInv'
<1> USE ConstAssumption DEF Threads
<1>1. /\ pc[Worker] = "test"
      /\ pc' = [pc EXCEPT ![Worker] = IF exitthread THEN "ended" ELSE "timedwait"]
      /\ UNCHANGED <<mytasks, worktasks, done, myevent, myreccs, exitthread, adds,
                     adding, broken>>
  BY DEF LoopTest, LoopOver, At, Goto, taskVars, addVars
<1>2. /\ pc' \in [Threads -> Labels] /\ pc'[Worker] = (IF exitthread THEN "ended" ELSE "timedwait")
      /\ \A u \in Threads : u # Worker => pc'[u] = pc[u]
  BY <1>1 DEF IInv, ModuleOK, Labels
<1>3. ModuleOK'
  BY <1>1, <1>2 DEF IInv, ModuleOK, Events
<1>4. LabelOK'
  BY <1>1, <1>2 DEF IInv, LabelOK, AddLabels, StopLabels, TurnLabels
<1>5. StopOK'
  BY <1>1, <1>2
  DEF IInv, StopOK, LabelOK, AddLabels, StopBegun, StopLabels, TurnLabels, At
<1>6. AddOK'
  BY <1>1, <1>2 DEF IInv, AddOK, AddLabels, LabelOK
<1>7. MutexOK'
  BY <1>1, <1>2 DEF IInv, MutexOK, StopOK, InsideLabels, StopBegun, StopLabels
<1>8. BatchOK'
  BY <1>1, <1>2 DEF IInv, BatchOK, LabelOK, TurnLabels, StopLabels
<1>9. AnnouncedOK'
  BY <1>1, <1>2 DEF IInv, ModuleOK, Events, AnnouncedOK, LabelOK, BatchOK, StopOK,
         TurnLabels, AddLabels, StopLabels
<1> QED
  BY <1>3, <1>4, <1>5, <1>6, <1>7, <1>8, <1>9 DEF IInv

\* The wait for a task, over by a signal or by its delay.
LEMMA TimedWaitInv ==
  ASSUME IInv, broken = "no", TimedWait
  PROVE  IInv'
<1> USE ConstAssumption DEF Threads
<1>1. /\ pc[Worker] = "timedwait"
      /\ pc' = [pc EXCEPT ![Worker] = "take"]
      /\ myevent' \in {"reset", myevent}
      /\ UNCHANGED <<mytasks, worktasks, done, myreccs, exitthread, adds, adding, broken>>
  BY DEF TimedWait, At, Goto, taskVars, addVars
<1>2. /\ pc' \in [Threads -> Labels] /\ pc'[Worker] = "take"
      /\ \A u \in Threads : u # Worker => pc'[u] = pc[u]
  BY <1>1 DEF IInv, ModuleOK, Labels
<1>3. ModuleOK'
  BY <1>1, <1>2 DEF IInv, ModuleOK, Events
<1>4. LabelOK'
  BY <1>1, <1>2 DEF IInv, LabelOK, AddLabels, StopLabels, TurnLabels
<1>5. StopOK'
  BY <1>1, <1>2
  DEF IInv, StopOK, LabelOK, AddLabels, StopBegun, StopLabels, TurnLabels, At
<1>6. AddOK'
  BY <1>1, <1>2 DEF IInv, AddOK, AddLabels, LabelOK
<1>7. MutexOK'
  BY <1>1, <1>2 DEF IInv, MutexOK, StopOK, InsideLabels, StopBegun, StopLabels
<1>8. BatchOK'
  BY <1>1, <1>2 DEF IInv, BatchOK, LabelOK, TurnLabels, StopLabels
<1>9. AnnouncedOK'
  BY <1>1, <1>2 DEF IInv, ModuleOK, Events, AnnouncedOK, LabelOK, BatchOK, StopOK,
         TurnLabels, AddLabels, StopLabels
<1> QED
  BY <1>3, <1>4, <1>5, <1>6, <1>7, <1>8, <1>9 DEF IInv

\* The swap of the two vectors: the second one is empty.
LEMMA SwapInv ==
  ASSUME IInv, broken = "no", Swap
  PROVE  IInv'
<1> USE ConstAssumption DEF Threads
<1>1. /\ pc[Worker] = "push"
      /\ pc' = [pc EXCEPT ![Worker] = "set"]
      /\ worktasks' = mytasks /\ mytasks' = worktasks /\ worktasks = <<>>
      /\ UNCHANGED <<done, myevent, myreccs, exitthread, adds, adding, broken>>
  BY DEF Swap, SwappedIn, At, Goto, addVars, IInv, BatchOK, TurnLabels
<1>2. /\ pc' \in [Threads -> Labels] /\ pc'[Worker] = "set"
      /\ \A u \in Threads : u # Worker => pc'[u] = pc[u]
  BY <1>1 DEF IInv, ModuleOK, Labels
<1>3. ModuleOK'
  BY <1>1, <1>2 DEF IInv, ModuleOK, Events
<1>4. LabelOK'
  BY <1>1, <1>2 DEF IInv, LabelOK, AddLabels, StopLabels, TurnLabels
<1>5. StopOK'
  BY <1>1, <1>2
  DEF IInv, StopOK, LabelOK, AddLabels, StopBegun, StopLabels, TurnLabels, At
<1>6. AddOK'
  BY <1>1, <1>2 DEF IInv, AddOK, AddLabels, LabelOK
<1>7. MutexOK'
  BY <1>1, <1>2 DEF IInv, MutexOK, StopOK, InsideLabels, StopBegun, StopLabels
<1>8. BatchOK'
  BY <1>1, <1>2 DEF IInv, BatchOK, LabelOK, TurnLabels, StopLabels
<1>9. AnnouncedOK'
  BY <1>1, <1>2 DEF IInv, ModuleOK, Events, AnnouncedOK, LabelOK, BatchOK, StopOK,
         TurnLabels, AddLabels, StopLabels
<1> QED
  BY <1>3, <1>4, <1>5, <1>6, <1>7, <1>8, <1>9 DEF IInv

\* The end of a batch.
LEMMA BatchDoneInv ==
  ASSUME IInv, broken = "no", BatchDone
  PROVE  IInv'
<1> USE ConstAssumption DEF Threads
<1>1. /\ pc[Worker] = "work" /\ worktasks = <<>>
      /\ pc' = [pc EXCEPT ![Worker] = "test"]
      /\ UNCHANGED <<mytasks, worktasks, done, myevent, myreccs, exitthread, adds,
                     adding, broken>>
  BY DEF BatchDone, At, Goto, taskVars, addVars
<1>2. /\ pc' \in [Threads -> Labels] /\ pc'[Worker] = "test"
      /\ \A u \in Threads : u # Worker => pc'[u] = pc[u]
  BY <1>1 DEF IInv, ModuleOK, Labels
<1>3. ModuleOK'
  BY <1>1, <1>2 DEF IInv, ModuleOK, Events
<1>4. LabelOK'
  BY <1>1, <1>2 DEF IInv, LabelOK, AddLabels, StopLabels, TurnLabels
<1>5. StopOK'
  BY <1>1, <1>2
  DEF IInv, StopOK, LabelOK, AddLabels, StopBegun, StopLabels, TurnLabels, At
<1>6. AddOK'
  BY <1>1, <1>2 DEF IInv, AddOK, AddLabels, LabelOK
<1>7. MutexOK'
  BY <1>1, <1>2 DEF IInv, MutexOK, StopOK, InsideLabels, StopBegun, StopLabels
<1>8. BatchOK'
  BY <1>1, <1>2 DEF IInv, BatchOK, LabelOK, TurnLabels, StopLabels
<1>9. AnnouncedOK'
  BY <1>1, <1>2 DEF IInv, ModuleOK, Events, AnnouncedOK, LabelOK, BatchOK, StopOK,
         TurnLabels, AddLabels, StopLabels
<1> QED
  BY <1>3, <1>4, <1>5, <1>6, <1>7, <1>8, <1>9 DEF IInv

\* The execution of a task, which may be close_channel.
LEMMA DoTaskInv ==
  ASSUME IInv, broken = "no", DoTask
  PROVE  IInv'
<1> USE ConstAssumption DEF Threads
<1>1. /\ pc[Worker] = "work" /\ worktasks # <<>>
      /\ done' = Append(done, Head(worktasks)) /\ worktasks' = Tail(worktasks)
      /\ UNCHANGED <<mytasks, myevent, myreccs, exitthread, adds, adding, broken>>
      /\ \/ pc' = [pc EXCEPT ![Worker] = "stop"]
         \/ UNCHANGED pc
  BY DEF DoTask, At, Goto, addVars
<1>2. /\ pc' \in [Threads -> Labels] /\ pc'[Worker] \in {"stop", "work"}
      /\ \A u \in Threads : u # Worker => pc'[u] = pc[u]
  BY <1>1 DEF IInv, ModuleOK, Labels
<1>3. Head(worktasks) \in Task /\ Tail(worktasks) \in Seq(Task)
  BY <1>1 DEF IInv, ModuleOK
<1>4. ModuleOK'
  BY <1>1, <1>2, <1>3 DEF IInv, ModuleOK
<1>5. LabelOK' /\ AddOK' /\ BatchOK'
  BY <1>1, <1>2
  DEF IInv, LabelOK, AddOK, BatchOK, AddLabels, StopLabels, TurnLabels
<1>6. StopOK'
  BY <1>1, <1>2
  DEF IInv, StopOK, LabelOK, StopBegun, StopLabels, TurnLabels, At
<1>7. MutexOK'
  BY <1>1, <1>2 DEF IInv, MutexOK, InsideLabels
<1>8. AnnouncedOK'
  BY <1>1, <1>2 DEF IInv, AnnouncedOK, LabelOK, AddLabels
<1> QED
  BY <1>4, <1>5, <1>6, <1>7, <1>8 DEF IInv

-----------------------------------------------------------------------------
(* stop().                                                                 *)

\* The Stopper calls stop().
LEMMA CallStopInv ==
  ASSUME IInv, broken = "no", CallStop
  PROVE  IInv'
<1> USE ConstAssumption DEF Threads
<1>1. /\ pc[Stopper] = "idle"
      /\ pc' = [pc EXCEPT ![Stopper] = "stop"]
      /\ UNCHANGED <<mytasks, worktasks, done, myevent, myreccs, exitthread, adds,
                     adding, broken>>
  BY DEF CallStop, At, Goto, taskVars, addVars
<1>2. /\ pc' \in [Threads -> Labels] /\ pc'[Stopper] = "stop"
      /\ \A u \in Threads : u # Stopper => pc'[u] = pc[u]
  BY <1>1 DEF IInv, ModuleOK, Labels
<1>3. ModuleOK'
  BY <1>1, <1>2 DEF IInv, ModuleOK, Events
<1>4. LabelOK'
  BY <1>1, <1>2 DEF IInv, LabelOK, AddLabels, StopLabels, TurnLabels
<1>5. StopOK'
  BY <1>1, <1>2
  DEF IInv, StopOK, LabelOK, AddLabels, StopBegun, StopLabels, TurnLabels, At
<1>6. AddOK'
  BY <1>1, <1>2 DEF IInv, AddOK, AddLabels, LabelOK
<1>7. MutexOK'
  BY <1>1, <1>2 DEF IInv, MutexOK, StopOK, InsideLabels, StopBegun, StopLabels
<1>8. BatchOK'
  BY <1>1, <1>2 DEF IInv, BatchOK, LabelOK, TurnLabels, StopLabels
<1>9. AnnouncedOK'
  BY <1>1, <1>2 DEF IInv, ModuleOK, Events, AnnouncedOK, LabelOK, BatchOK, StopOK,
         TurnLabels, AddLabels, StopLabels
<1> QED
  BY <1>3, <1>4, <1>5, <1>6, <1>7, <1>8, <1>9 DEF IInv

\* stop() sets the status and the flag.
LEMMA StopFlagInv ==
  ASSUME IInv, broken = "no", NEW t \in {Stopper, Worker}, StopFlag(t)
  PROVE  IInv'
<1> USE ConstAssumption DEF Threads
<1>1. /\ pc[t] = "stop"
      /\ pc' = [pc EXCEPT ![t] = "stop_event"]
      /\ exitthread' = TRUE
      /\ UNCHANGED <<mytasks, worktasks, done, myevent, myreccs, adds, adding, broken>>
  BY DEF StopFlag, At, Goto, taskVars, addVars
<1>2. /\ pc' \in [Threads -> Labels] /\ pc'[t] = "stop_event"
      /\ \A u \in Threads : u # t => pc'[u] = pc[u]
  BY <1>1 DEF IInv, ModuleOK, Labels
<1>3. ModuleOK'
  BY <1>1, <1>2 DEF IInv, ModuleOK, Events
<1>4. LabelOK'
  BY <1>1, <1>2 DEF IInv, LabelOK, AddLabels, StopLabels, TurnLabels
<1>5. StopOK'
  BY <1>1, <1>2
  DEF IInv, StopOK, LabelOK, AddLabels, StopBegun, StopLabels, TurnLabels, At
<1>6. AddOK'
  BY <1>1, <1>2 DEF IInv, AddOK, AddLabels, LabelOK
<1>7. MutexOK'
  BY <1>1, <1>2 DEF IInv, MutexOK, StopOK, InsideLabels, StopBegun, StopLabels
<1>8. BatchOK'
  BY <1>1, <1>2 DEF IInv, BatchOK, LabelOK, TurnLabels, StopLabels
<1>9. AnnouncedOK'
  BY <1>1, <1>2 DEF IInv, ModuleOK, Events, AnnouncedOK, LabelOK, BatchOK, StopOK,
         TurnLabels, AddLabels, StopLabels
<1> QED
  BY <1>3, <1>4, <1>5, <1>6, <1>7, <1>8, <1>9 DEF IInv

\* stop() joins the worker, or fails to join itself.
LEMMA JoinInv ==
  ASSUME IInv, broken = "no", NEW t \in {Stopper, Worker}, Join(t)
  PROVE  IInv'
<1> USE ConstAssumption DEF Threads
<1>1. /\ pc[t] = "join" /\ (t = Worker \/ pc[Worker] = "ended")
      /\ pc' = [pc EXCEPT ![t] = "destroy"]
      /\ UNCHANGED <<mytasks, worktasks, done, myevent, myreccs, exitthread, adds,
                     adding, broken>>
  BY DEF Join, At, Goto, taskVars, addVars
<1>2. /\ pc' \in [Threads -> Labels] /\ pc'[t] = "destroy"
      /\ \A u \in Threads : u # t => pc'[u] = pc[u]
  BY <1>1 DEF IInv, ModuleOK, Labels
<1>3. ModuleOK'
  BY <1>1, <1>2 DEF IInv, ModuleOK, Events
<1>4. LabelOK'
  BY <1>1, <1>2 DEF IInv, LabelOK, AddLabels, StopLabels, TurnLabels
<1>5. StopOK'
  BY <1>1, <1>2
  DEF IInv, StopOK, LabelOK, AddLabels, StopBegun, StopLabels, TurnLabels, At
<1>6. AddOK'
  BY <1>1, <1>2 DEF IInv, AddOK, AddLabels, LabelOK
<1>7. MutexOK'
  BY <1>1, <1>2 DEF IInv, MutexOK, StopOK, InsideLabels, StopBegun, StopLabels
<1>8. BatchOK'
  BY <1>1, <1>2 DEF IInv, BatchOK, LabelOK, TurnLabels, StopLabels
<1>9. AnnouncedOK'
  BY <1>1, <1>2 DEF IInv, ModuleOK, Events, AnnouncedOK, LabelOK, BatchOK, StopOK,
         TurnLabels, AddLabels, StopLabels
<1> QED
  BY <1>3, <1>4, <1>5, <1>6, <1>7, <1>8, <1>9 DEF IInv

\* stop() destroys the events: they were there for the last time.
LEMMA DestroyInv ==
  ASSUME IInv, broken = "no", NEW t \in {Stopper, Worker}, Destroy(t)
  PROVE  IInv'
<1> USE ConstAssumption DEF Threads
<1>1. /\ pc[t] = "destroy"
      /\ pc' = [pc EXCEPT ![t] = IF t = Worker THEN "work" ELSE "ended"]
      /\ myevent' = "gone" /\ myreccs' = "gone"
      /\ UNCHANGED <<mytasks, worktasks, done, exitthread, adds, adding, broken>>
  BY DEF Destroy, At, Goto, taskVars, addVars
<1>2. /\ pc' \in [Threads -> Labels] /\ pc'[t] = (IF t = Worker THEN "work" ELSE "ended")
      /\ \A u \in Threads : u # t => pc'[u] = pc[u]
  BY <1>1 DEF IInv, ModuleOK, Labels
<1>3. ModuleOK'
  BY <1>1, <1>2 DEF IInv, ModuleOK, Events
<1>4. LabelOK'
  BY <1>1, <1>2 DEF IInv, LabelOK, AddLabels, StopLabels, TurnLabels
<1>5. StopOK'
  BY <1>1, <1>2
  DEF IInv, StopOK, LabelOK, AddLabels, StopBegun, StopLabels, TurnLabels, At
<1>6. AddOK'
  BY <1>1, <1>2 DEF IInv, AddOK, AddLabels, LabelOK
<1>7. MutexOK'
  BY <1>1, <1>2 DEF IInv, MutexOK, StopOK, InsideLabels, StopBegun, StopLabels
<1>8. BatchOK'
  BY <1>1, <1>2 DEF IInv, BatchOK, LabelOK, TurnLabels, StopLabels
<1>9. AnnouncedOK'
  BY <1>1, <1>2 DEF IInv, ModuleOK, Events, AnnouncedOK, LabelOK, BatchOK, StopOK,
         TurnLabels, AddLabels, StopLabels
<1> QED
  BY <1>3, <1>4, <1>5, <1>6, <1>7, <1>8, <1>9 DEF IInv

-----------------------------------------------------------------------------
(* All steps.                                                              *)

\* Two threads at "push" are two threads inside: that takes a stop().
LEMMA ClashInv ==
  ASSUME IInv, Clash, broken = "no"
  PROVE  IInv' /\ BrokenOK'
<1>1. /\ UNCHANGED <<mytasks, worktasks, done, myevent, myreccs, exitthread,
                     pc, adds, adding>>
      /\ broken' = "clash"
  BY DEF Clash, taskVars, addVars
<1>2. PICK t, u \in Threads : t # u /\ pc[t] = "push" /\ pc[u] = "push"
  BY DEF Clash, At
<1>3. exitthread
  BY <1>2 DEF IInv, ModuleOK, MutexOK, InsideLabels
<1>4. ModuleOK'
  BY <1>1 DEF IInv, ModuleOK
<1> QED
  BY <1>1, <1>3, <1>4
  DEF IInv, LabelOK, AddOK, StopOK, MutexOK, BatchOK, AnnouncedOK, BrokenOK,
      BreaksOnlyAfterStop, At

\* Every other step leaves "broken" alone or meets a destroyed event, and
\* only stop() destroys events.
LEMMA BrokenStep ==
  ASSUME IInv, Next, ~Clash
  PROVE  BrokenOK'
<1>1. \/ broken' = broken
      \/ broken' = "null" /\ exitthread' = exitthread /\ "gone" \in {myevent, myreccs}
  BY DEF Next, Runnable, Work, Stop, Add, AddTask, Push, LoopTest, TimedWait, Swap, DoTask,
         BatchDone,
         CallStop, StopFlag, Join, Destroy, TakeReccs, ResetReccs, SetReccs, SetEvent,
         Uses

<1>2. broken = "no"
  BY DEF Next, Runnable
<1> QED
  BY <1>1, <1>2 DEF IInv, StopOK, BrokenOK, BreaksOnlyAfterStop

LEMMA NextInv == ASSUME IInv, Next PROVE IInv' /\ BrokenOK'
<1> USE DEF Threads
<1>1. broken = "no"
  BY DEF Next, Runnable
<1>2. CASE Work
  BY <1>1, <1>2, LoopTestInv, TimedWaitInv, TakeReccsInv, ResetReccsInv, SwapInv,
         SetReccsInv,
     DoTaskInv, BatchDoneInv, StopFlagInv, SetEventInv, JoinInv, DestroyInv, BrokenStep,
     ClashInv
  DEF Work, Stop
<1>3. CASE CallStop
  BY <1>1, <1>3, CallStopInv, BrokenStep, ClashInv
<1>4. CASE Stop(Stopper)
  BY <1>1, <1>4, StopFlagInv, SetEventInv, SetReccsInv, JoinInv, DestroyInv, BrokenStep,
     ClashInv
  DEF Stop
<1>5. CASE Clash
  BY <1>1, <1>5, ClashInv
<1>6. ASSUME NEW p \in Producers, Add(p) PROVE IInv' /\ BrokenOK'
  BY <1>1, <1>6, TakeReccsInv, ResetReccsInv, PushInv, SetReccsInv, SetEventInv,
         BrokenStep,
     ClashInv
  DEF Add
<1>7. ASSUME NEW p \in Producers, NEW kind \in Kinds, AddTask(p, kind)
      PROVE  IInv' /\ BrokenOK'
  BY <1>1, <1>7, AddTaskInv, BrokenStep, ClashInv
<1> QED
  BY <1>2, <1>3, <1>4, <1>5, <1>6, <1>7 DEF Next, Runnable

LEMMA Inductive == Spec => [](IInv /\ BrokenOK /\ hub \in BOOLEAN)
<1>1. IInv /\ BrokenOK /\ [Next]_vars => IInv' /\ BrokenOK'
  <2> SUFFICES ASSUME IInv, BrokenOK, [Next]_vars PROVE IInv' /\ BrokenOK'
    OBVIOUS
  <2>1. CASE Next
    BY <2>1, NextInv
  <2>2. CASE UNCHANGED vars
    <3>1. UNCHANGED <<mytasks, worktasks, myevent, myreccs, exitthread, pc, adds,
                      adding, done, broken>>
      BY <2>2 DEF vars
    <3>2. ModuleOK'
      BY <3>1 DEF IInv, ModuleOK
    <3> QED
      BY <3>1, <3>2
      DEF IInv, LabelOK, AddOK, StopOK, MutexOK, BatchOK, AnnouncedOK, BrokenOK,
          BreaksOnlyAfterStop, At
  <2> QED
    BY <2>1, <2>2
<1>2. Init => hub \in BOOLEAN
  BY DEF Init
<1>3. hub \in BOOLEAN /\ [Next]_vars => (hub \in BOOLEAN)'
  BY DEF Next, Runnable, vars
<1> QED
  BY InitInv, <1>1, <1>2, <1>3, PTL DEF Spec

-----------------------------------------------------------------------------
\* The types of a module's variables.
THEOREM TypeCorrect == Spec => []TypeOK
<1>1. IInv /\ hub \in BOOLEAN => TypeOK
  BY DEF IInv, TypeOK
<1> QED
  BY Inductive, <1>1, PTL

\* Before stop() one thread at a time is inside the mutex of mytasks.
THEOREM MutualExclusion == Spec => []OneInside
<1>1. IInv => OneInside
  BY DEF IInv, MutexOK, OneInside, Critical, InsideLabels
<1> QED
  BY Inductive, <1>1, PTL

\* The worker does not sleep on a task nobody announces.
THEOREM NeverSleepsOnWork == Spec => []WakeUp
<1>1. IInv => WakeUp
  BY DEF IInv, AnnouncedOK, StopOK, TurnLabels, WakeUp, At
<1> QED
  BY Inductive, <1>1, PTL

\* Undefined behaviour takes a stop().
THEOREM SoundUntilStop == Spec => []BreaksOnlyAfterStop
<1>1. BrokenOK => BreaksOnlyAfterStop
  BY DEF BrokenOK
<1> QED
  BY Inductive, <1>1, PTL

-----------------------------------------------------------------------------
(* The refinement of Mailbox.  The swap changes both vectors and leaves what *)
(* has to be done, worktasks \o mytasks, as it was.                         *)

LEMMA PushPuts ==
  ASSUME IInv, NEW p \in Producers, Push(p)
  PROVE  Box!MailNext
<1>1. /\ adding[p] \in Task /\ mytasks \in Seq(Task) /\ worktasks \in Seq(Task)
      /\ mytasks' = Append(mytasks, adding[p]) /\ UNCHANGED <<worktasks, done>>
  BY DEF Push, At, IInv, AddOK, AddLabels, ModuleOK
<1>2. (worktasks \o mytasks)' = Append(worktasks \o mytasks, adding[p])
  BY <1>1
<1> QED
  BY <1>1, <1>2 DEF Box!MailNext, Box!Put

LEMMA DoTaskBegins ==
  ASSUME IInv, DoTask
  PROVE  Box!MailNext
<1>1. /\ mytasks \in Seq(Task) /\ worktasks \in Seq(Task) /\ worktasks # <<>>
      /\ done' = Append(done, Head(worktasks)) /\ worktasks' = Tail(worktasks)
      /\ UNCHANGED mytasks
  BY DEF DoTask, IInv, ModuleOK
<1>2. /\ worktasks \o mytasks # <<>>
      /\ Head(worktasks \o mytasks) = Head(worktasks)
      /\ Tail(worktasks \o mytasks) = Tail(worktasks) \o mytasks
  BY <1>1
<1> QED
  BY <1>1, <1>2 DEF Box!MailNext, Box!Begin

LEMMA SwapStutters ==
  ASSUME IInv, Swap
  PROVE  UNCHANGED Box!mailVars
<1>1. /\ mytasks \in Seq(Task) /\ worktasks = <<>> /\ UNCHANGED done
      /\ worktasks' = mytasks /\ mytasks' = <<>>
  BY DEF Swap, SwappedIn, At, IInv, ModuleOK, BatchOK, TurnLabels
<1>2. <<>> \o mytasks = mytasks /\ mytasks \o <<>> = mytasks
  BY <1>1, ConcatEmptySeq
<1> QED
  BY <1>1, <1>2 DEF Box!mailVars

\* The module executes every task it executes once and in the order in which
\* the tasks were added.
THEOREM Fifo == Spec => KeepsOrder
<1>1. Init => Box!MailInit
  <2> SUFFICES ASSUME Init PROVE Box!MailInit
    OBVIOUS
  <2>1. <<>> \o <<>> = <<>>
    OBVIOUS
  <2> QED
    BY <2>1 DEF Init, Box!MailInit
<1>2. IInv /\ [Next]_vars => [Box!MailNext]_(Box!mailVars)
  <2> SUFFICES ASSUME IInv, [Next]_vars PROVE Box!MailNext \/ UNCHANGED Box!mailVars
    OBVIOUS
  <2>1. CASE \E p \in Producers : Push(p)
    BY <2>1, PushPuts
  <2>2. CASE DoTask
    BY <2>2, DoTaskBegins
  <2>3. CASE Swap
    BY <2>3, SwapStutters
  <2>4. CASE ~(DoTask \/ Swap \/ \E p \in Producers : Push(p))
    <3>1. UNCHANGED <<mytasks, worktasks, done>>
      BY <2>4
      DEF vars, Next, Runnable, Work, Stop, Add, AddTask, LoopTest, TimedWait, BatchDone, CallStop,
          StopFlag, Join, Destroy, Clash, TakeReccs, ResetReccs, SetReccs, SetEvent,
          taskVars
    <3> QED
      BY <3>1 DEF Box!mailVars
  <2> QED
    BY <2>1, <2>2, <2>3, <2>4
<1> QED
  BY Inductive, <1>1, <1>2, PTL DEF Spec, KeepsOrder, Box!MailSpec
=============================================================================
