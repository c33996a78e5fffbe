-------------------------------- MODULE Event --------------------------------
(***************************************************************************)
(* What an event object promises (modules/sermon/event.h; the same files   *)
(* serve websock, unicom, webcam and dlib): a flag that threads set, reset *)
(* and wait for.  A call takes effect at one instant between its start and *)
(* its return.  A wait returns only when it finds the flag set, and on an  *)
(* auto-reset event it takes the flag down in the same instant, so that a  *)
(* set lets one wait through; a wait that times out leaves the flag alone. *)
(***************************************************************************)
EXTENDS Naturals

CONSTANT Threads \* the threads that use the event

VARIABLES
  manual, \* whether waits leave the flag up: a manual-reset event
  state,  \* the flag
  call,   \* call[t]: the operation t is in, "none" outside
  ret     \* ret[t]: what the call will return, "none" until it takes effect

eventVars == <<manual, state, call, ret>>

Ops     == {"wait", "timedwait", "set", "reset"}
Results == {"ok", "timeout"}

Start(t, op) ==
  /\ call[t] = "none"
  /\ call' = [call EXCEPT ![t] = op]
  /\ UNCHANGED <<manual, state, ret>>

Effect(t, result, newstate) ==
  /\ ret[t] = "none"
  /\ ret' = [ret EXCEPT ![t] = result]
  /\ state' = newstate
  /\ UNCHANGED <<manual, call>>

Taken == manual /\ state

Passes(t)    == /\ call[t] \in {"wait", "timedwait"} /\ state
                /\ Effect(t, "ok", Taken)
TimesOut(t)  == call[t] = "timedwait" /\ Effect(t, "timeout", state)
IsSet(t)     == call[t] = "set" /\ Effect(t, "ok", TRUE)
IsReset(t)   == call[t] = "reset" /\ Effect(t, "ok", FALSE)

Finish(t) ==
  /\ ret[t] # "none"
  /\ call' = [call EXCEPT ![t] = "none"]
  /\ ret' = [ret EXCEPT ![t] = "none"]
  /\ UNCHANGED <<manual, state>>

EventInit == /\ manual \in BOOLEAN
             /\ state \in BOOLEAN
             /\ call = [t \in Threads |-> "none"]
             /\ ret = [t \in Threads |-> "none"]

EventNext == \E t \in Threads :
  \/ \E op \in Ops : Start(t, op)
  \/ Passes(t) \/ TimesOut(t) \/ IsSet(t) \/ IsReset(t) \/ Finish(t)

EventSpec == EventInit /\ [][EventNext]_eventVars
=============================================================================
