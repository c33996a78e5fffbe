--------------------------- MODULE EventPosixProofs ---------------------------
(***************************************************************************)
(* Proofs about EventPosix, for any number of threads and both kinds of    *)
(* event: types, that no wake-up is lost, and that the implementation with *)
(* a mutex and a condition variable keeps the promise of module Event.     *)
(***************************************************************************)
EXTENDS EventPosix, TLAPS

HeldLabels == {"check", "change", "unlock"}

\* The mutex is held exactly where the code holds it.
MutexOK == \A t \in Threads : pc[t] \in HeldLabels <=> mutex = t

\* Who sleeps is in a wait and has not timed out; who tests the flag has not
\* timed out either; only a timed wait times out.
CallOK ==
  \A t \in Threads :
    /\ t \in sleepers => At(t, "asleep") /\ ~rc[t]
    /\ pc[t] \in {"check", "asleep"} => op[t] \in Waits
    /\ pc[t] \in {"lock", "check", "change"} => ~rc[t]
    /\ At(t, "change") => op[t] \in {"set", "reset"}
    /\ At(t, "asleep") /\ rc[t] => op[t] = "timedwait"

\* While a manual-reset event is set nobody sleeps.
BroadcastOK == manual /\ state => sleepers = {}

IInv == TypeOK /\ MutexOK /\ CallOK /\ BroadcastOK /\ NobodyLeftAsleep

-----------------------------------------------------------------------------
LEMMA InitInv == Init => IInv
BY PosixAssumption
DEF Init, IInv, TypeOK, MutexOK, CallOK, BroadcastOK, NobodyLeftAsleep, HeldLabels, Labels,
    Ops, Waits, At

\* A step of a thread that moves it from one label to the next, with the
\* effects that do not go through the flag or the list of sleepers.
LEMMA StepInv ==
  ASSUME IInv, NEW t \in Threads,
         \/ \E o \in Ops : Enter(t, o)
         \/ Lock(t) \/ Unlock(t) \/ Leave(t)
  PROVE  IInv'
<1> USE PosixAssumption DEF HeldLabels
<1>1. /\ \A u \in Threads : u # t => pc'[u] = pc[u] /\ op'[u] = op[u] /\ rc'[u] = rc[u]
      /\ UNCHANGED <<manual, state, sleepers>>
      /\ t \notin sleepers /\ pc[t] \notin {"check", "asleep"}
      /\ pc' \in [Threads -> Labels] /\ op' \in [Threads -> Ops] /\ rc' \in [Threads -> BOOLEAN]
  BY DEF Enter, Lock, Unlock, Leave, At, Goto, IInv, TypeOK, CallOK, Labels, Ops
<1>2. /\ pc'[t] \in {"lock", "check", "change", "return", "idle"}
      /\ pc'[t] \in {"lock", "check", "change"} => ~rc'[t]
      /\ pc'[t] = "check" => op'[t] \in Waits
      /\ pc'[t] = "change" => op'[t] \in {"set", "reset"}
      /\ \/ mutex = NoThread /\ mutex' = t /\ pc'[t] \in {"check", "change"}
         \/ mutex = t /\ mutex' = NoThread /\ pc'[t] = "return"
         \/ mutex # t /\ mutex' = mutex /\ pc'[t] \in {"lock", "idle"}
  BY DEF Enter, Lock, Unlock, Leave, At, Goto, IInv, TypeOK, CallOK, MutexOK, Labels, Ops, Waits
<1>3. TypeOK' /\ BroadcastOK'
  BY <1>1, <1>2 DEF IInv, TypeOK, BroadcastOK
<1>4. MutexOK'
  BY <1>1, <1>2 DEF IInv, MutexOK, TypeOK
<1>5. CallOK'
  BY <1>1, <1>2 DEF IInv, CallOK, At
<1>6. NobodyLeftAsleep'
  BY <1>1 DEF IInv, NobodyLeftAsleep, At
<1> QED
  BY <1>3, <1>4, <1>5, <1>6 DEF IInv

\* Going to sleep: the flag is down.
LEMMA SleepInv ==
  ASSUME IInv, NEW t \in Threads, Sleep(t)
  PROVE  IInv'
BY PosixAssumption
DEF Sleep, At, Goto, IInv, TypeOK, MutexOK, CallOK, BroadcastOK, NobodyLeftAsleep, HeldLabels,
    Labels

\* Waking without a signal: the thread will test the flag again.
LEMMA SpuriousInv ==
  ASSUME IInv, NEW t \in Threads, Spurious(t)
  PROVE  IInv'
BY DEF Spurious, At, IInv, TypeOK, MutexOK, CallOK, BroadcastOK, NobodyLeftAsleep

\* Giving up: the thread was asleep, so nobody counted on it to test the flag.
LEMMA GiveUpInv ==
  ASSUME IInv, NEW t \in Threads, GiveUp(t)
  PROVE  IInv'
BY DEF GiveUp, At, IInv, TypeOK, MutexOK, CallOK, BroadcastOK, NobodyLeftAsleep, HeldLabels

\* Taking the mutex again after the sleep.
LEMMA RelockInv ==
  ASSUME IInv, NEW t \in Threads, Relock(t)
  PROVE  IInv'
BY PosixAssumption
DEF Relock, Taken, At, Goto, IInv, TypeOK, MutexOK, CallOK, BroadcastOK, NobodyLeftAsleep,
    HeldLabels, Labels

\* Passing: an auto-reset event is down afterwards, and nobody sleeps on a
\* manual-reset event that is set.
LEMMA PassInv ==
  ASSUME IInv, NEW t \in Threads, Pass(t)
  PROVE  IInv'
BY PosixAssumption
DEF Pass, Taken, At, Goto, IInv, TypeOK, MutexOK, CallOK, BroadcastOK, NobodyLeftAsleep,
    HeldLabels, Labels

\* Setting: whoever is woken will test the flag.
LEMMA SetEventInv ==
  ASSUME IInv, NEW t \in Threads, SetEvent(t)
  PROVE  IInv'
<1> USE PosixAssumption
<1>1. /\ pc[t] = "change" /\ state' = TRUE /\ sleepers' \in SUBSET sleepers
      /\ Woken(sleepers')
      /\ pc' = [pc EXCEPT ![t] = "unlock"] /\ UNCHANGED <<manual, mutex, op, rc>>
  BY DEF SetEvent, At, Goto
<1>2. TypeOK' /\ MutexOK' /\ CallOK'
  BY <1>1 DEF IInv, TypeOK, MutexOK, CallOK, HeldLabels, Labels, At
<1>3. BroadcastOK'
  BY <1>1 DEF BroadcastOK, Woken
<1>4. NobodyLeftAsleep'
  <2> SUFFICES ASSUME sleepers' # {} PROVE NobodyLeftAsleep'
    BY DEF NobodyLeftAsleep
  <2>1. PICK u \in sleepers : sleepers' = sleepers \ {u}
    BY <1>1 DEF Woken
  <2>2. u \in Threads /\ pc'[u] = "asleep" /\ u \notin sleepers' /\ ~rc'[u]
    BY <1>1, <2>1 DEF IInv, TypeOK, CallOK, At
  <2> QED
    BY <2>2 DEF NobodyLeftAsleep, At
<1> QED
  BY <1>2, <1>3, <1>4 DEF IInv

\* Resetting: the flag is down.
LEMMA ResetEventInv ==
  ASSUME IInv, NEW t \in Threads, ResetEvent(t)
  PROVE  IInv'
BY PosixAssumption
DEF ResetEvent, At, Goto, IInv, TypeOK, MutexOK, CallOK, BroadcastOK, NobodyLeftAsleep,
    HeldLabels, Labels

LEMMA Inductive == Spec => []IInv
<1>1. IInv /\ [Next]_vars => IInv'
  <2> SUFFICES ASSUME IInv, [Next]_vars PROVE IInv'
    OBVIOUS
  <2>1. CASE Next
    BY <2>1, StepInv, SleepInv, SpuriousInv, GiveUpInv, RelockInv, PassInv, SetEventInv,
       ResetEventInv
    DEF Next, Step
  <2>2. CASE UNCHANGED vars
    BY <2>2
    DEF vars, IInv, TypeOK, MutexOK, CallOK, BroadcastOK, NobodyLeftAsleep, At
  <2> QED
    BY <2>1, <2>2
<1> QED
  BY InitInv, <1>1, PTL DEF Spec

-----------------------------------------------------------------------------
\* The types of the implementation's variables.
THEOREM TypeCorrect == Spec => []TypeOK
<1>1. IInv => TypeOK
  BY DEF IInv
<1> QED
  BY Inductive, <1>1, PTL

\* No wake-up is lost, whatever waits, timed waits, sets and resets interleave.
THEOREM NoLostWakeUp == Spec => []NobodyLeftAsleep
<1>1. IInv => NobodyLeftAsleep
  BY DEF IInv
<1> QED
  BY Inductive, <1>1, PTL

-----------------------------------------------------------------------------
(* The refinement of Event: which step of the promise each step is.        *)

\* The expressions that stand for call and ret in the refinement mapping.
CallOf == [t \in Threads |-> IF At(t, "idle") THEN "none" ELSE op[t]]
RetOf  == [t \in Threads |-> IF pc[t] \notin {"unlock", "return"} THEN "none"
                             ELSE IF rc[t] THEN "timeout" ELSE "ok"]

\* A thread that moves changes nobody else's call or result.
LEMMA OthersKept ==
  ASSUME IInv, NEW t \in Threads, NEW c, NEW r,
         pc' \in [Threads -> Labels], op' \in [Threads -> Ops],
         \A u \in Threads : u # t => pc'[u] = pc[u] /\ op'[u] = op[u] /\ rc'[u] = rc[u],
         c = (IF pc'[t] = "idle" THEN "none" ELSE op'[t]),
         r = (IF pc'[t] \notin {"unlock", "return"} THEN "none"
              ELSE IF rc'[t] THEN "timeout" ELSE "ok")
  PROVE  /\ CallOf' = [CallOf EXCEPT ![t] = c]
         /\ RetOf' = [RetOf EXCEPT ![t] = r]
         /\ CallOf[t] = IF pc[t] = "idle" THEN "none" ELSE op[t]
         /\ RetOf[t] = IF pc[t] \notin {"unlock", "return"} THEN "none"
                       ELSE IF rc[t] THEN "timeout" ELSE "ok"
         /\ (c = CallOf[t] => CallOf' = CallOf)
         /\ (r = RetOf[t] => RetOf' = RetOf)
BY DEF CallOf, RetOf, At

LEMMA EnterStarts ==
  ASSUME IInv, NEW t \in Threads, NEW o \in Ops, Enter(t, o)
  PROVE  Promise!Start(t, o)
<1>1. /\ pc[t] = "idle" /\ pc'[t] = "lock" /\ op'[t] = o /\ UNCHANGED <<manual, state>>
      /\ \A u \in Threads : u # t => pc'[u] = pc[u] /\ op'[u] = op[u] /\ rc'[u] = rc[u]
      /\ pc' \in [Threads -> Labels] /\ op' \in [Threads -> Ops]
  BY DEF Enter, At, Goto, IInv, TypeOK, Labels
<1>2. /\ CallOf' = [CallOf EXCEPT ![t] = o] /\ RetOf' = RetOf /\ CallOf[t] = "none"
  BY <1>1, OthersKept
<1> QED
  BY <1>1, <1>2 DEF Promise!Start, CallOf, RetOf

\* The steps that settle a result.
LEMMA Settles ==
  ASSUME IInv, NEW t \in Threads,
         (Relock(t) /\ rc[t]) \/ Pass(t) \/ SetEvent(t) \/ ResetEvent(t)
  PROVE  /\ CallOf' = CallOf /\ CallOf[t] = op[t]
         /\ RetOf[t] = "none"
         /\ RetOf' = [RetOf EXCEPT ![t] = IF rc[t] THEN "timeout" ELSE "ok"]
<1>1. /\ pc[t] \in {"asleep", "check", "change"} /\ pc'[t] = "unlock"
      /\ op' = op /\ rc' = rc
      /\ \A u \in Threads : u # t => pc'[u] = pc[u]
      /\ pc' \in [Threads -> Labels] /\ op' \in [Threads -> Ops]
  BY DEF Relock, Pass, SetEvent, ResetEvent, At, Goto, IInv, TypeOK, Labels
<1> QED
  BY <1>1, OthersKept

LEMMA LeaveFinishes ==
  ASSUME IInv, NEW t \in Threads, Leave(t)
  PROVE  Promise!Finish(t)
<1>1. /\ pc[t] = "return" /\ pc'[t] = "idle" /\ UNCHANGED <<manual, state, op, rc>>
      /\ \A u \in Threads : u # t => pc'[u] = pc[u]
      /\ pc' \in [Threads -> Labels] /\ op' \in [Threads -> Ops]
  BY DEF Leave, At, Goto, IInv, TypeOK, Labels
<1>2. /\ CallOf' = [CallOf EXCEPT ![t] = "none"] /\ RetOf' = [RetOf EXCEPT ![t] = "none"]
      /\ RetOf[t] # "none"
  BY <1>1, OthersKept
<1> QED
  BY <1>1, <1>2 DEF Promise!Finish, CallOf, RetOf

\* The steps nobody sees: taking and leaving the mutex, sleeping and waking.
LEMMA OthersStutter ==
  ASSUME IInv, NEW t \in Threads,
         \/ Lock(t) \/ Sleep(t) \/ Spurious(t) \/ GiveUp(t) \/ Unlock(t)
         \/ Relock(t) /\ ~rc[t]
  PROVE  UNCHANGED Promise!eventVars
<1>1. /\ UNCHANGED <<manual, state, op>>
      /\ \A u \in Threads : u # t => pc'[u] = pc[u] /\ rc'[u] = rc[u]
      /\ pc' \in [Threads -> Labels] /\ op' \in [Threads -> Ops]
      /\ \/ /\ pc[t] \in {"lock", "check", "asleep"}
            /\ pc'[t] \in {"check", "change", "asleep"}
         \/ pc[t] = "unlock" /\ pc'[t] = "return" /\ rc'[t] = rc[t]
  BY DEF Lock, Sleep, Spurious, GiveUp, Unlock, Relock, At, Goto, IInv, TypeOK, Labels
<1>2. CallOf' = CallOf /\ RetOf' = RetOf
  BY <1>1, OthersKept
<1> QED
  BY <1>1, <1>2 DEF Promise!eventVars, CallOf, RetOf

\* The implementation with a mutex and a condition variable is an event: every
\* call takes effect at one instant, an auto-reset event lets one wait through
\* per set, and a timeout leaves the flag alone.
THEOREM Implements == Spec => KeepsPromise
<1>1. Init => Promise!EventInit
  BY DEF Init, Promise!EventInit, At
<1>2. IInv /\ [Next]_vars => [Promise!EventNext]_(Promise!eventVars)
  <2> SUFFICES ASSUME IInv, [Next]_vars
               PROVE  Promise!EventNext \/ UNCHANGED Promise!eventVars
    OBVIOUS
  <2>1. ASSUME NEW t \in Threads, NEW o \in Ops, Enter(t, o) PROVE Promise!EventNext
    BY <2>1, EnterStarts DEF Promise!EventNext, Ops, Promise!Ops
  <2>2. ASSUME NEW t \in Threads, Pass(t) PROVE Promise!EventNext
    <3>1. /\ op[t] \in Waits /\ state /\ ~rc[t] /\ state' = (manual /\ state) /\ UNCHANGED manual
      BY <2>2 DEF Pass, Taken, At, IInv, TypeOK, CallOK
    <3>2. Promise!Passes(t)
      BY <2>2, <3>1, Settles
      DEF Promise!Passes, Promise!Effect, Promise!Taken, CallOf, RetOf, Waits
    <3> QED
      BY <3>2 DEF Promise!EventNext
  <2>3. ASSUME NEW t \in Threads, Relock(t), rc[t] PROVE Promise!EventNext
    <3>1. op[t] = "timedwait" /\ UNCHANGED <<manual, state>>
      BY <2>3 DEF Relock, Taken, At, IInv, TypeOK, CallOK
    <3>2. Promise!TimesOut(t)
      BY <2>3, <3>1, Settles DEF Promise!TimesOut, Promise!Effect, CallOf, RetOf
    <3> QED
      BY <3>2 DEF Promise!EventNext
  <2>4. ASSUME NEW t \in Threads, SetEvent(t) \/ ResetEvent(t) PROVE Promise!EventNext
    <3>1. /\ pc[t] = "change" /\ UNCHANGED manual
          /\ \/ op[t] = "set" /\ state' = TRUE
             \/ op[t] = "reset" /\ state' = FALSE
      BY <2>4 DEF SetEvent, ResetEvent, At
    <3>2. ~rc[t]
      BY <3>1 DEF IInv, CallOK
    <3>3. Promise!IsSet(t) \/ Promise!IsReset(t)
      BY <2>4, <3>1, <3>2, Settles
      DEF Promise!IsSet, Promise!IsReset, Promise!Effect, CallOf, RetOf
    <3> QED
      BY <3>3 DEF Promise!EventNext
  <2>5. ASSUME NEW t \in Threads, Leave(t) PROVE Promise!EventNext
    BY <2>5, LeaveFinishes DEF Promise!EventNext
  <2>6. CASE UNCHANGED vars
    BY <2>6 DEF vars, Promise!eventVars, At
  <2> QED
    BY <2>1, <2>2, <2>3, <2>4, <2>5, <2>6, OthersStutter DEF Next, Step
<1> QED
  BY Inductive, <1>1, <1>2, PTL DEF Spec, KeepsPromise, Promise!EventSpec
=============================================================================
