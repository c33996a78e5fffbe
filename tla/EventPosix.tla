------------------------------ MODULE EventPosix ------------------------------
(***************************************************************************)
(* The Linux implementation of events (modules/sermon/event.cpp): a flag   *)
(* guarded by a pthread mutex and a condition variable.                    *)
(*                                                                         *)
(* The pthread calls do what the GNU C library promises: cond_wait gives   *)
(* up the mutex and starts to sleep in one step, may wake without a signal *)
(* and takes the mutex again before it returns; cond_signal wakes one of   *)
(* the sleepers if there are any; cond_timedwait may give up sleeping at   *)
(* any time, and a signal that meets it then is passed on to another       *)
(* sleeper (POSIX alone would let it be lost).  Errors of pthread calls    *)
(* and event_destroy are left out.                                         *)
(***************************************************************************)
EXTENDS Naturals

CONSTANTS
  Threads, \* the threads that use the event
  NoThread \* the mutex is free

ASSUME PosixAssumption == NoThread \notin Threads

VARIABLES
  manual,   \* hevent->manual_reset
  state,    \* hevent->state
  mutex,    \* who holds hevent->mutex
  pc,       \* where each thread is in its call
  op,       \* the function each thread has called last
  sleepers, \* the threads asleep on hevent->cond
  rc        \* rc[t]: the last cond_timedwait of t returned ETIMEDOUT

vars == <<manual, state, mutex, pc, op, sleepers, rc>>

Ops   == {"wait", "timedwait", "set", "reset"}
Waits == {"wait", "timedwait"}

At(t, label)   == pc[t] = label
Goto(t, label) == pc' = [pc EXCEPT ![t] = label]

Enter(t, o) ==
  /\ At(t, "idle")
  /\ op' = [op EXCEPT ![t] = o]
  /\ rc' = [rc EXCEPT ![t] = FALSE]
  /\ Goto(t, "lock")
  /\ UNCHANGED <<manual, state, mutex, sleepers>>

\* pthread_mutex_lock at the head of each function.
Lock(t) ==
  /\ At(t, "lock") /\ mutex = NoThread
  /\ mutex' = t
  /\ Goto(t, IF op[t] \in Waits THEN "check" ELSE "change")
  /\ UNCHANGED <<manual, state, op, sleepers, rc>>

\* while (!state) pthread_cond_[timed]wait: the flag is down, go to sleep.
Sleep(t) ==
  /\ At(t, "check") /\ ~state
  /\ mutex' = NoThread
  /\ sleepers' = sleepers \cup {t}
  /\ Goto(t, "asleep")
  /\ UNCHANGED <<manual, state, op, rc>>

\* pthread_cond_wait may return without a signal.
Spurious(t) ==
  /\ At(t, "asleep") /\ t \in sleepers
  /\ sleepers' = sleepers \ {t}
  /\ UNCHANGED <<manual, state, op, mutex, pc, rc>>

GiveUp(t) ==
  /\ At(t, "asleep") /\ t \in sleepers /\ op[t] = "timedwait"
  /\ sleepers' = sleepers \ {t}
  /\ rc' = [rc EXCEPT ![t] = TRUE]
  /\ UNCHANGED <<manual, state, op, mutex, pc>>

\* Mutant of Taken: the flag is taken down whatever the last wait returned.
TakenAnyway(t) == FALSE

\* if (rc == 0 && !manual_reset) state = false
Taken(t) == state /\ (manual \/ rc[t])

\* Awake, and the mutex is had again: a timeout leaves the loop without another
\* look at the flag, else the flag is tested again.
Relock(t) ==
  /\ At(t, "asleep") /\ t \notin sleepers /\ mutex = NoThread
  /\ mutex' = t
  /\ IF rc[t] THEN Goto(t, "unlock") /\ state' = Taken(t)
              ELSE Goto(t, "check") /\ UNCHANGED state
  /\ UNCHANGED <<manual, op, sleepers, rc>>

\* The flag is up: an auto-reset event takes it down.
Pass(t) ==
  /\ At(t, "check") /\ state
  /\ state' = Taken(t)
  /\ Goto(t, "unlock")
  /\ UNCHANGED <<manual, mutex, op, sleepers, rc>>

\* Mutant of Woken: the signal is forgotten.
NobodyWoken(left) == left = sleepers

\* pthread_cond_broadcast for a manual-reset event, else pthread_cond_signal.
Woken(left) ==
  \/ manual /\ left = {}
  \/ ~manual /\ (sleepers = {} => left = {})
     /\ (sleepers # {} => \E t \in sleepers : left = sleepers \ {t})

SetEvent(t) ==
  /\ At(t, "change") /\ op[t] = "set"
  /\ state' = TRUE
  /\ sleepers' \in {left \in SUBSET sleepers : Woken(left)}
  /\ Goto(t, "unlock")
  /\ UNCHANGED <<manual, mutex, op, rc>>

ResetEvent(t) ==
  /\ At(t, "change") /\ op[t] = "reset"
  /\ state' = FALSE
  /\ Goto(t, "unlock")
  /\ UNCHANGED <<manual, mutex, op, sleepers, rc>>

Unlock(t) ==
  /\ At(t, "unlock")
  /\ mutex' = NoThread
  /\ Goto(t, "return")
  /\ UNCHANGED <<manual, state, op, sleepers, rc>>

Leave(t) ==
  /\ At(t, "return")
  /\ Goto(t, "idle")
  /\ UNCHANGED <<manual, state, mutex, op, sleepers, rc>>

Init ==
  /\ manual \in BOOLEAN \* the two arguments of event_create
  /\ state \in BOOLEAN
  /\ mutex = NoThread
  /\ op = [t \in Threads |-> "wait"]
  /\ pc = [t \in Threads |-> "idle"]
  /\ sleepers = {}
  /\ rc = [t \in Threads |-> FALSE]

Step(t) == \/ Lock(t) \/ Sleep(t) \/ Relock(t) \/ Pass(t) \/ SetEvent(t)
           \/ ResetEvent(t) \/ Unlock(t) \/ Leave(t)

Next == \E t \in Threads : \/ \E o \in Ops : Enter(t, o)
                           \/ Step(t) \/ Spurious(t) \/ GiveUp(t)

Spec == Init /\ [][Next]_vars

\* Each thread that is in a call goes on.  A timed wait gives up once its
\* deadline has passed, however often it is woken before: abstime is fixed
\* before the loop.  A thread that keeps asking for the mutex gets it: it is
\* held for a few instructions only.  Nobody has to call anything.
FairSpec == Spec /\ \A t \in Threads : /\ WF_vars(Step(t))
                                       /\ SF_vars(Lock(t) \/ Relock(t))
                                       /\ SF_vars(GiveUp(t))

-----------------------------------------------------------------------------
(* Properties                                                              *)

Labels == {"idle", "lock", "check", "asleep", "change", "unlock", "return"}

\* Every variable has its type.
TypeOK ==
  /\ manual \in BOOLEAN
  /\ state \in BOOLEAN
  /\ op \in [Threads -> Ops]
  /\ mutex \in Threads \cup {NoThread}
  /\ pc \in [Threads -> Labels]
  /\ sleepers \subseteq Threads
  /\ rc \in [Threads -> BOOLEAN]

\* A call has taken effect once its result is settled, under the mutex.
Promise == INSTANCE Event WITH
  call <- [t \in Threads |-> IF At(t, "idle") THEN "none" ELSE op[t]],
  ret  <- [t \in Threads |-> IF pc[t] \notin {"unlock", "return"} THEN "none"
                             ELSE IF rc[t] THEN "timeout" ELSE "ok"]

\* The implementation keeps the promise of module Event: each call has its
\* effect at one instant, an auto-reset event that is set lets one wait through,
\* and a timeout that races with a set neither takes the flag down nor reports
\* success (event.cpp:84-102).
KeepsPromise == Promise!EventSpec

\* No wake-up is lost: while the flag is up, nobody sleeps unless somebody else
\* is on the way to test the flag again.
NobodyLeftAsleep ==
  state /\ sleepers # {} =>
    \E t \in Threads : \/ At(t, "check")
                       \/ At(t, "asleep") /\ t \notin sleepers /\ ~rc[t]

\* A flag that is up and that nobody takes down wakes every wait; and a timed
\* wait returns in any case.
WaitsReturn ==
  \A t \in Threads :
    /\ At(t, "asleep") /\ op[t] = "timedwait" ~> At(t, "idle")
    /\ manual => (At(t, "asleep") /\ state) ~> (At(t, "idle") \/ ~state)
=============================================================================
