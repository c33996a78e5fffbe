---------------------------- MODULE BusinessProofs ----------------------------
(***************************************************************************)
(* Proofs about Business, for any number of states, scripts and timers:    *)
(* types, mutual exclusion where the mutex of a state is taken, that the   *)
(* host breaks only at its edges while in service, that a script has one   *)
(* state, and that no timer is lost or doubled.                            *)
(***************************************************************************)
EXTENDS Business, TLAPS

\* poweroff has not closed the startup state yet.
BeforeClose == pc["main"] \in {"boot", "load", "chunk", "power", "goodbye"}

\* Where each thread can be, and that a thread that works has a state.
LabelOK ==
  /\ pc["main"] \in {"boot", "load", "chunk", "power", "goodbye", "null", "joinlua",
                     "joinweb", "end"}
  /\ pc["lua"] \in {"idle", "lock", "run", "ended"}
  /\ pc["web"] \in {"idle", "reread", "dofile", "lock", "run", "ended"}
  /\ pc["mod"] \in {"idle", "lock", "run", "callback"}
  /\ \A t \in Threads : pc[t] \in Unlocked \cup {"lock", "run"} => at[t] \in States

\* Who runs under the mutex of a state holds it.
HoldOK == \A t \in Threads : At(t, "run") => lock[at[t]] = t

\* The startup state is there and open from its creation to CloseState.
BootOK ==
  /\ At("main", "boot") => theState = NoState
  /\ At("main", "null") => theState \in States
  /\ BeforeClose /\ ~At("main", "boot") =>
       theState \in States /\ life[theState] = "open" /\ script[theState] = Boot
  /\ pc["main"] \in {"load", "chunk", "goodbye"} => at["main"] = theState

\* Until then the map holds only open states, each of its own script.
MapOK ==
  BeforeClose =>
    \A f \in Files : luastates[f] # NoState =>
      life[luastates[f]] = "open" /\ script[luastates[f]] = f

\* A state being loaded by execute is open and nobody has it but its module.
LoadOK ==
  At("web", "dofile") =>
    /\ life[at["web"]] = "open" /\ at["web"] # theState
    /\ \A f \in Files : luastates[f] # at["web"]

\* Until then each caller is on its way to an open state, the module to the
\* state that loaded it.
CallerOK ==
  /\ BeforeClose =>
       /\ pc["lua"] \in {"lock", "run"} => theState # NoState /\ at["lua"] = theState
       /\ pc["web"] \in {"lock", "run"} => life[at["web"]] = "open"
  /\ pc["mod"] \in {"lock", "run", "callback"} => at["mod"] = modState

\* An open state is in the map under its script, or is being loaded for it.
OwnerOK ==
  \A s \in States : life[s] = "open" /\ script[s] # Boot =>
    \/ luastates[script[s]] = s
    \/ At("web", "dofile") /\ at["web"] = s /\ luastates[script[s]] = NoState

\* What the host refers to is never a state whose memory is free.
KeptOK ==
  /\ theState # NoState => life[theState] # "free"
  /\ \A f \in Files : luastates[f] # NoState => life[luastates[f]] # "free"

\* Every timer has been posted by an install().
TimerOK == timers <= installs /\ TimersConserved

IInv == TypeOK /\ LabelOK /\ HoldOK /\ BootOK /\ MapOK /\ LoadOK /\ CallerOK /\ OwnerOK
        /\ KeptOK /\ TimerOK

-----------------------------------------------------------------------------
LEMMA InitInv == Init => IInv /\ BreaksOnlyAtEdges
BY ConstAssumption
DEF Init, IInv, TypeOK, LabelOK, HoldOK, BootOK, MapOK, LoadOK, CallerOK, OwnerOK, KeptOK,
    TimerOK, TimersConserved, BreaksOnlyAtEdges, Threads, Labels, Unlocked, BeforeClose, At

-----------------------------------------------------------------------------
(* start.                                                                  *)

\* The startup state was free, so nobody has it.
LEMMA NewStateInv ==
  ASSUME IInv, NewState
  PROVE  IInv'
<1> USE ConstAssumption DEF Threads
<1>0. PICK s \in States : /\ life[s] = "free" /\ theState' = s
                          /\ life' = [life EXCEPT ![s] = "open"]
                          /\ script' = [script EXCEPT ![s] = Boot]
                          /\ at' = [at EXCEPT !["main"] = s]
  BY DEF NewState
<1>1. /\ pc["main"] = "boot" /\ pc' = [pc EXCEPT !["main"] = "load"]
      /\ theState = NoState
      /\ UNCHANGED <<luastates, lock, modState, timers, installs, broken>>
  BY DEF NewState, IInv, BootOK, At, Goto, timerVars
<1>2. TypeOK'
  BY <1>1, <1>0 DEF IInv, TypeOK, Labels
<1>3. LabelOK'
  BY <1>1, <1>0 DEF IInv, TypeOK, LabelOK, Unlocked
<1>4. HoldOK'
  BY <1>1, <1>0 DEF IInv, TypeOK, HoldOK, At, LabelOK, Unlocked
<1>5. BootOK'
  BY <1>1, <1>0 DEF IInv, TypeOK, BootOK, BeforeClose, At
<1>6. MapOK'
  BY <1>1, <1>0 DEF IInv, TypeOK, MapOK, BeforeClose
<1>7. LoadOK'
  BY <1>1, <1>0 DEF IInv, TypeOK, LoadOK, At, LabelOK, Unlocked
<1>8. CallerOK'
  BY <1>1, <1>0 DEF IInv, TypeOK, CallerOK, BeforeClose, LabelOK, Unlocked
<1>9. OwnerOK'
  BY <1>1, <1>0 DEF IInv, TypeOK, OwnerOK, At
<1>10. KeptOK'
  BY <1>1, <1>0 DEF IInv, TypeOK, KeptOK
<1>11. TimerOK'
  BY <1>1, <1>0 DEF IInv, TypeOK, TimerOK, TimersConserved, At
<1> QED
  BY <1>2, <1>3, <1>4, <1>5, <1>6, <1>7, <1>8, <1>9, <1>10, <1>11 DEF IInv

\* Loading the startup script, or aborting.
LEMMA LoadScriptInv ==
  ASSUME IInv, LoadScript
  PROVE  IInv'
<1> USE ConstAssumption DEF Threads
<1>1. /\ pc["main"] = "load"
      /\ \/ pc' = [pc EXCEPT !["main"] = "chunk"] /\ broken' = broken
         \/ pc' = pc /\ broken' = "abort"
      /\ UNCHANGED <<theState, luastates, life, script, lock, modState, at,
                     timers, installs>>
  BY DEF LoadScript, At, Goto, heapVars, timerVars
<1>2. TypeOK'
  BY <1>1 DEF IInv, TypeOK, Labels
<1>3. LabelOK'
  BY <1>1 DEF IInv, TypeOK, LabelOK, Unlocked
<1>4. HoldOK'
  BY <1>1 DEF IInv, TypeOK, HoldOK, At, LabelOK, Unlocked
<1>5. BootOK'
  BY <1>1 DEF IInv, TypeOK, BootOK, BeforeClose, At
<1>6. MapOK'
  BY <1>1 DEF IInv, TypeOK, MapOK, BeforeClose
<1>7. LoadOK'
  BY <1>1 DEF IInv, TypeOK, LoadOK, At, LabelOK, Unlocked
<1>8. CallerOK'
  BY <1>1 DEF IInv, TypeOK, CallerOK, BeforeClose, LabelOK, Unlocked
<1>9. OwnerOK'
  BY <1>1 DEF IInv, TypeOK, OwnerOK, At
<1>10. KeptOK'
  BY <1>1 DEF IInv, TypeOK, KeptOK
<1>11. TimerOK'
  BY <1>1 DEF IInv, TypeOK, TimerOK, TimersConserved, At
<1> QED
  BY <1>2, <1>3, <1>4, <1>5, <1>6, <1>7, <1>8, <1>9, <1>10, <1>11 DEF IInv

\* The startup state goes into the map, unless a request was first.
LEMMA ChunkDoneInv ==
  ASSUME IInv, ChunkDone
  PROVE  IInv'
<1> USE ConstAssumption DEF Threads
<1>1. /\ pc["main"] = "chunk" /\ pc' = [pc EXCEPT !["main"] = "power"]
      /\ theState \in States /\ life[theState] = "open" /\ script[theState] = Boot
      /\ at' = [at EXCEPT !["main"] = NoState]
      /\ \/ luastates' = luastates
         \/ luastates[Boot] = NoState /\ luastates' = [luastates EXCEPT ![Boot] = theState]
      /\ UNCHANGED <<theState, life, script, lock, modState, timers, installs, broken>>
  BY DEF ChunkDone, Inserted, IInv, TypeOK, BootOK, BeforeClose, At, Goto,
         heapVars, timerVars
<1>2. TypeOK'
  BY <1>1 DEF IInv, TypeOK, Labels
<1>3. LabelOK'
  BY <1>1 DEF IInv, TypeOK, LabelOK, Unlocked
<1>4. HoldOK'
  BY <1>1 DEF IInv, TypeOK, HoldOK, At, LabelOK, Unlocked
<1>5. BootOK'
  BY <1>1 DEF IInv, TypeOK, BootOK, BeforeClose, At
<1>6. MapOK'
  BY <1>1 DEF IInv, TypeOK, MapOK, BeforeClose
<1>7. LoadOK'
  BY <1>1 DEF IInv, TypeOK, LoadOK, At, LabelOK, Unlocked
<1>8. CallerOK'
  BY <1>1 DEF IInv, TypeOK, CallerOK, BeforeClose, LabelOK, Unlocked
<1>9. OwnerOK'
  BY <1>1 DEF IInv, TypeOK, OwnerOK, At
<1>10. KeptOK'
  BY <1>1 DEF IInv, TypeOK, KeptOK
<1>11. TimerOK'
  BY <1>1 DEF IInv, TypeOK, TimerOK, TimersConserved, At
<1> QED
  BY <1>2, <1>3, <1>4, <1>5, <1>6, <1>7, <1>8, <1>9, <1>10, <1>11 DEF IInv

-----------------------------------------------------------------------------
(* What scripts do.                                                        *)

\* install() posts a timer.
LEMMA InstallInv ==
  ASSUME IInv, NEW t \in Threads, Install(t)
  PROVE  IInv'
<1> USE ConstAssumption DEF Threads
<1>1. /\ timers' = timers + 1 /\ installs' = installs + 1 /\ installs < MaxInstalls
      /\ UNCHANGED <<theState, luastates, life, script, lock, modState, pc, at,
                     broken>>
  BY DEF Install, heapVars
<1>2. TypeOK'
  BY <1>1 DEF IInv, TypeOK, Labels, TimerOK
<1>3. LabelOK'
  BY <1>1 DEF IInv, TypeOK, LabelOK, Unlocked
<1>4. HoldOK'
  BY <1>1 DEF IInv, TypeOK, HoldOK, At, LabelOK, Unlocked
<1>5. BootOK'
  BY <1>1 DEF IInv, TypeOK, BootOK, BeforeClose, At
<1>6. MapOK'
  BY <1>1 DEF IInv, TypeOK, MapOK, BeforeClose
<1>7. LoadOK'
  BY <1>1 DEF IInv, TypeOK, LoadOK, At, LabelOK, Unlocked
<1>8. CallerOK'
  BY <1>1 DEF IInv, TypeOK, CallerOK, BeforeClose, LabelOK, Unlocked
<1>9. OwnerOK'
  BY <1>1 DEF IInv, TypeOK, OwnerOK, At
<1>10. KeptOK'
  BY <1>1 DEF IInv, TypeOK, KeptOK
<1>11. TimerOK'
  BY <1>1 DEF IInv, TypeOK, TimerOK, TimersConserved, At
<1> QED
  BY <1>2, <1>3, <1>4, <1>5, <1>6, <1>7, <1>8, <1>9, <1>10, <1>11 DEF IInv

\* A module keeps the first state that loads it.
LEMMA RequireInv ==
  ASSUME IInv, NEW t \in Threads, Require(t)
  PROVE  IInv'
<1> USE ConstAssumption DEF Threads
<1>1. /\ modState = NoState /\ modState' = at[t] /\ at[t] \in States /\ t \in Threads
      /\ UNCHANGED <<theState, luastates, life, script, lock, pc, at, timers,
                     installs, broken>>
  BY DEF Require, heapVars, timerVars, IInv, LabelOK, Unlocked
<1>2. TypeOK'
  BY <1>1 DEF IInv, TypeOK, Labels
<1>3. LabelOK'
  BY <1>1 DEF IInv, TypeOK, LabelOK, Unlocked
<1>4. HoldOK'
  BY <1>1 DEF IInv, TypeOK, HoldOK, At, LabelOK, Unlocked
<1>5. BootOK'
  BY <1>1 DEF IInv, TypeOK, BootOK, BeforeClose, At
<1>6. MapOK'
  BY <1>1 DEF IInv, TypeOK, MapOK, BeforeClose
<1>7. LoadOK'
  BY <1>1 DEF IInv, TypeOK, LoadOK, At, LabelOK, Unlocked
<1>8. CallerOK'
  BY <1>1 DEF IInv, TypeOK, CallerOK, BeforeClose, LabelOK, Unlocked
<1>9. OwnerOK'
  BY <1>1 DEF IInv, TypeOK, OwnerOK, At
<1>10. KeptOK'
  BY <1>1 DEF IInv, TypeOK, KeptOK
<1>11. TimerOK'
  BY <1>1 DEF IInv, TypeOK, TimerOK, TimersConserved, At
<1> QED
  BY <1>2, <1>3, <1>4, <1>5, <1>6, <1>7, <1>8, <1>9, <1>10, <1>11 DEF IInv

-----------------------------------------------------------------------------
(* luaL_lock, a call, luaL_unlock.                                         *)

\* Taking the mutex of a state, or touching one that is closed.
LEMMA LockInv ==
  ASSUME IInv, NEW t \in {"lua", "web", "mod"}, Lock(t)
  PROVE  IInv'
<1> USE ConstAssumption DEF Threads
<1>1. /\ pc[t] = "lock" /\ at[t] \in States
      /\ \/ /\ lock[at[t]] = NoThread /\ lock' = [lock EXCEPT ![at[t]] = t]
            /\ pc' = [pc EXCEPT ![t] = "run"] /\ broken' = broken
         \/ lock' = lock /\ pc' = pc /\ broken' = "closed"
      /\ UNCHANGED <<theState, luastates, life, script, modState, at, timers,
                     installs>>
  BY DEF Lock, LockFree, At, Goto, timerVars, IInv, LabelOK
<1>2. TypeOK'
  BY <1>1 DEF IInv, TypeOK, Labels
<1>3. LabelOK'
  BY <1>1 DEF IInv, TypeOK, LabelOK, Unlocked
<1>4. HoldOK'
  BY <1>1 DEF IInv, TypeOK, HoldOK, At, LabelOK, Unlocked
<1>5. BootOK'
  BY <1>1 DEF IInv, TypeOK, BootOK, BeforeClose, At
<1>6. MapOK'
  BY <1>1 DEF IInv, TypeOK, MapOK, BeforeClose
<1>7. LoadOK'
  BY <1>1 DEF IInv, TypeOK, LoadOK, At, LabelOK, Unlocked
<1>8. CallerOK'
  BY <1>1 DEF IInv, TypeOK, CallerOK, BeforeClose, LabelOK, Unlocked
<1>9. OwnerOK'
  BY <1>1 DEF IInv, TypeOK, OwnerOK, At
<1>10. KeptOK'
  BY <1>1 DEF IInv, TypeOK, KeptOK
<1>11. TimerOK'
  BY <1>1 DEF IInv, TypeOK, TimerOK, TimersConserved, At
<1> QED
  BY <1>2, <1>3, <1>4, <1>5, <1>6, <1>7, <1>8, <1>9, <1>10, <1>11 DEF IInv

\* The end of a call; a timer posts itself again.
LEMMA ReturnInv ==
  ASSUME IInv, broken = "no", NEW t \in {"lua", "web", "mod"}, Return(t), broken' = "no"
  PROVE  IInv'
<1> USE ConstAssumption DEF Threads
<1>1. /\ pc[t] = "run" /\ at[t] \in States
      /\ lock' = [lock EXCEPT ![at[t]] = NoThread]
      /\ timers' = IF t = "lua" THEN timers + 1 ELSE timers
      /\ pc' = [pc EXCEPT ![t] = "idle"] /\ at' = [at EXCEPT ![t] = NoState]
      /\ UNCHANGED <<theState, luastates, life, script, modState, installs, broken>>
  BY DEF Return, Released, Reposted, At, Goto, IInv, TypeOK, LabelOK
<1>2. TypeOK'
  BY <1>1 DEF IInv, TypeOK, Labels, TimerOK, TimersConserved, At
<1>3. LabelOK'
  BY <1>1 DEF IInv, TypeOK, LabelOK, Unlocked
<1>4. HoldOK'
  BY <1>1 DEF IInv, TypeOK, HoldOK, At, LabelOK, Unlocked
<1>5. BootOK'
  BY <1>1 DEF IInv, TypeOK, BootOK, BeforeClose, At
<1>6. MapOK'
  BY <1>1 DEF IInv, TypeOK, MapOK, BeforeClose
<1>7. LoadOK'
  BY <1>1 DEF IInv, TypeOK, LoadOK, At, LabelOK, Unlocked
<1>8. CallerOK'
  BY <1>1 DEF IInv, TypeOK, CallerOK, BeforeClose, LabelOK, Unlocked
<1>9. OwnerOK'
  BY <1>1 DEF IInv, TypeOK, OwnerOK, At
<1>10. KeptOK'
  BY <1>1 DEF IInv, TypeOK, KeptOK
<1>11. TimerOK'
  BY <1>1 DEF IInv, TypeOK, TimerOK, TimersConserved, At
<1> QED
  BY <1>2, <1>3, <1>4, <1>5, <1>6, <1>7, <1>8, <1>9, <1>10, <1>11 DEF IInv

-----------------------------------------------------------------------------
(* The timer, the module's callback, requests.                             *)

\* A timer fires, after start and before poweroff.
LEMMA TimerFiresInv ==
  ASSUME IInv, broken = "no", TimerFires, broken' = "no"
  PROVE  IInv'
<1> USE ConstAssumption DEF Threads
<1>1. /\ pc["lua"] = "idle" /\ timers > 0 /\ timers' = timers - 1
      /\ theState \in States /\ at' = [at EXCEPT !["lua"] = theState]
      /\ pc' = [pc EXCEPT !["lua"] = "lock"]
      /\ UNCHANGED <<theState, luastates, life, script, lock, modState, installs,
                     broken>>
  BY DEF TimerFires, IInv, TypeOK, At, Goto, heapVars, timerVars
<1>2. TypeOK'
  BY <1>1 DEF IInv, TypeOK, Labels
<1>3. LabelOK'
  BY <1>1 DEF IInv, TypeOK, LabelOK, Unlocked
<1>4. HoldOK'
  BY <1>1 DEF IInv, TypeOK, HoldOK, At, LabelOK, Unlocked
<1>5. BootOK'
  BY <1>1 DEF IInv, TypeOK, BootOK, BeforeClose, At
<1>6. MapOK'
  BY <1>1 DEF IInv, TypeOK, MapOK, BeforeClose
<1>7. LoadOK'
  BY <1>1 DEF IInv, TypeOK, LoadOK, At, LabelOK, Unlocked
<1>8. CallerOK'
  BY <1>1 DEF IInv, TypeOK, CallerOK, BeforeClose, LabelOK, Unlocked
<1>9. OwnerOK'
  BY <1>1 DEF IInv, TypeOK, OwnerOK, At
<1>10. KeptOK'
  BY <1>1 DEF IInv, TypeOK, KeptOK
<1>11. TimerOK'
  BY <1>1 DEF IInv, TypeOK, TimerOK, TimersConserved, At
<1> QED
  BY <1>2, <1>3, <1>4, <1>5, <1>6, <1>7, <1>8, <1>9, <1>10, <1>11 DEF IInv

\* A module calls back.
LEMMA ModCallInv ==
  ASSUME IInv, ModCall
  PROVE  IInv'
<1> USE ConstAssumption DEF Threads
<1>1. /\ pc["mod"] = "idle" /\ modState \in States
      /\ at' = [at EXCEPT !["mod"] = modState]
      /\ pc' = [pc EXCEPT !["mod"] = "lock"]
      /\ UNCHANGED <<theState, luastates, life, script, lock, modState, timers,
                     installs, broken>>
  BY DEF ModCall, IInv, TypeOK, At, Goto, heapVars, timerVars
<1>2. TypeOK'
  BY <1>1 DEF IInv, TypeOK, Labels
<1>3. LabelOK'
  BY <1>1 DEF IInv, TypeOK, LabelOK, Unlocked
<1>4. HoldOK'
  BY <1>1 DEF IInv, TypeOK, HoldOK, At, LabelOK, Unlocked
<1>5. BootOK'
  BY <1>1 DEF IInv, TypeOK, BootOK, BeforeClose, At
<1>6. MapOK'
  BY <1>1 DEF IInv, TypeOK, MapOK, BeforeClose
<1>7. LoadOK'
  BY <1>1 DEF IInv, TypeOK, LoadOK, At, LabelOK, Unlocked
<1>8. CallerOK'
  BY <1>1 DEF IInv, TypeOK, CallerOK, BeforeClose, LabelOK, Unlocked
<1>9. OwnerOK'
  BY <1>1 DEF IInv, TypeOK, OwnerOK, At
<1>10. KeptOK'
  BY <1>1 DEF IInv, TypeOK, KeptOK
<1>11. TimerOK'
  BY <1>1 DEF IInv, TypeOK, TimerOK, TimersConserved, At
<1> QED
  BY <1>2, <1>3, <1>4, <1>5, <1>6, <1>7, <1>8, <1>9, <1>10, <1>11 DEF IInv

\* A module calls back without the mutex.
LEMMA ModCallUnlockedInv ==
  ASSUME IInv, broken = "no", ModCallUnlocked, broken' = "no"
  PROVE  IInv'
<1> USE ConstAssumption DEF Threads
<1>1. /\ pc["mod"] = "idle" /\ modState \in States
      /\ at' = [at EXCEPT !["mod"] = modState]
      /\ pc' = [pc EXCEPT !["mod"] = "callback"]
      /\ UNCHANGED <<theState, luastates, life, script, lock, modState, timers,
                     installs, broken>>
  BY DEF ModCallUnlocked, IInv, TypeOK, At, Goto, heapVars, timerVars
<1>2. TypeOK'
  BY <1>1 DEF IInv, TypeOK, Labels
<1>3. LabelOK'
  BY <1>1 DEF IInv, TypeOK, LabelOK, Unlocked
<1>4. HoldOK'
  BY <1>1 DEF IInv, TypeOK, HoldOK, At, LabelOK, Unlocked
<1>5. BootOK'
  BY <1>1 DEF IInv, TypeOK, BootOK, BeforeClose, At
<1>6. MapOK'
  BY <1>1 DEF IInv, TypeOK, MapOK, BeforeClose
<1>7. LoadOK'
  BY <1>1 DEF IInv, TypeOK, LoadOK, At, LabelOK, Unlocked
<1>8. CallerOK'
  BY <1>1 DEF IInv, TypeOK, CallerOK, BeforeClose, LabelOK, Unlocked
<1>9. OwnerOK'
  BY <1>1 DEF IInv, TypeOK, OwnerOK, At
<1>10. KeptOK'
  BY <1>1 DEF IInv, TypeOK, KeptOK
<1>11. TimerOK'
  BY <1>1 DEF IInv, TypeOK, TimerOK, TimersConserved, At
<1> QED
  BY <1>2, <1>3, <1>4, <1>5, <1>6, <1>7, <1>8, <1>9, <1>10, <1>11 DEF IInv

\* That callback returns.
LEMMA CallbackDoneInv ==
  ASSUME IInv, CallbackDone
  PROVE  IInv'
<1> USE ConstAssumption DEF Threads
<1>1. /\ pc["mod"] = "callback" /\ pc' = [pc EXCEPT !["mod"] = "idle"]
      /\ at' = [at EXCEPT !["mod"] = NoState]
      /\ UNCHANGED <<theState, luastates, life, script, lock, modState, timers, installs,
                     broken>>
  BY DEF CallbackDone, IInv, TypeOK, At, Goto, heapVars, timerVars
<1>2. TypeOK'
  BY <1>1 DEF IInv, TypeOK, Labels
<1>3. LabelOK'
  BY <1>1 DEF IInv, TypeOK, LabelOK, Unlocked
<1>4. HoldOK'
  BY <1>1 DEF IInv, TypeOK, HoldOK, At, LabelOK, Unlocked
<1>5. BootOK'
  BY <1>1 DEF IInv, TypeOK, BootOK, BeforeClose, At
<1>6. MapOK'
  BY <1>1 DEF IInv, TypeOK, MapOK, BeforeClose
<1>7. LoadOK'
  BY <1>1 DEF IInv, TypeOK, LoadOK, At, LabelOK, Unlocked
<1>8. CallerOK'
  BY <1>1 DEF IInv, TypeOK, CallerOK, BeforeClose, LabelOK, Unlocked
<1>9. OwnerOK'
  BY <1>1 DEF IInv, TypeOK, OwnerOK, At
<1>10. KeptOK'
  BY <1>1 DEF IInv, TypeOK, KeptOK
<1>11. TimerOK'
  BY <1>1 DEF IInv, TypeOK, TimerOK, TimersConserved, At
<1> QED
  BY <1>2, <1>3, <1>4, <1>5, <1>6, <1>7, <1>8, <1>9, <1>10, <1>11 DEF IInv

\* A request for the startup state.
LEMMA ExecutePlainInv ==
  ASSUME IInv, ExecutePlain
  PROVE  IInv'
<1> USE ConstAssumption DEF Threads
<1>1. /\ pc["web"] = "idle" /\ pc' = [pc EXCEPT !["web"] = "reread"]
      /\ UNCHANGED <<theState, luastates, life, script, lock, modState, at,
                     timers, installs, broken>>
  BY DEF ExecutePlain, At, Goto, heapVars, timerVars
<1>2. TypeOK'
  BY <1>1 DEF IInv, TypeOK, Labels
<1>3. LabelOK'
  BY <1>1 DEF IInv, TypeOK, LabelOK, Unlocked
<1>4. HoldOK'
  BY <1>1 DEF IInv, TypeOK, HoldOK, At, LabelOK, Unlocked
<1>5. BootOK'
  BY <1>1 DEF IInv, TypeOK, BootOK, BeforeClose, At
<1>6. MapOK'
  BY <1>1 DEF IInv, TypeOK, MapOK, BeforeClose
<1>7. LoadOK'
  BY <1>1 DEF IInv, TypeOK, LoadOK, At, LabelOK, Unlocked
<1>8. CallerOK'
  BY <1>1 DEF IInv, TypeOK, CallerOK, BeforeClose, LabelOK, Unlocked
<1>9. OwnerOK'
  BY <1>1 DEF IInv, TypeOK, OwnerOK, At
<1>10. KeptOK'
  BY <1>1 DEF IInv, TypeOK, KeptOK
<1>11. TimerOK'
  BY <1>1 DEF IInv, TypeOK, TimerOK, TimersConserved, At
<1> QED
  BY <1>2, <1>3, <1>4, <1>5, <1>6, <1>7, <1>8, <1>9, <1>10, <1>11 DEF IInv

\* The startup state is read again and is still there.
LEMMA RereadInv ==
  ASSUME IInv, broken = "no", Reread, broken' = "no"
  PROVE  IInv'
<1> USE ConstAssumption DEF Threads
<1>1. /\ pc["web"] = "reread" /\ pc' = [pc EXCEPT !["web"] = "lock"]
      /\ theState \in States /\ at' = [at EXCEPT !["web"] = theState]
      /\ UNCHANGED <<theState, luastates, life, script, lock, modState, timers,
                     installs, broken>>
  BY DEF Reread, IInv, TypeOK, At, Goto, heapVars, timerVars
<1>2. TypeOK'
  BY <1>1 DEF IInv, TypeOK, Labels
<1>3. LabelOK'
  BY <1>1 DEF IInv, TypeOK, LabelOK, Unlocked
<1>4. HoldOK'
  BY <1>1 DEF IInv, TypeOK, HoldOK, At, LabelOK, Unlocked
<1>5. BootOK'
  BY <1>1 DEF IInv, TypeOK, BootOK, BeforeClose, At
<1>6. MapOK'
  BY <1>1 DEF IInv, TypeOK, MapOK, BeforeClose
<1>7. LoadOK'
  BY <1>1 DEF IInv, TypeOK, LoadOK, At, LabelOK, Unlocked
<1>8. CallerOK'
  BY <1>1 DEF IInv, TypeOK, CallerOK, BeforeClose, LabelOK, Unlocked, BootOK, At
<1>9. OwnerOK'
  BY <1>1 DEF IInv, TypeOK, OwnerOK, At
<1>10. KeptOK'
  BY <1>1 DEF IInv, TypeOK, KeptOK
<1>11. TimerOK'
  BY <1>1 DEF IInv, TypeOK, TimerOK, TimersConserved, At
<1> QED
  BY <1>2, <1>3, <1>4, <1>5, <1>6, <1>7, <1>8, <1>9, <1>10, <1>11 DEF IInv

\* A request for a state that is in the map.
LEMMA ExecuteOldInv ==
  ASSUME IInv, NEW f \in Files, ExecuteFile(f), luastates[f] # NoState
  PROVE  IInv'
<1> USE ConstAssumption DEF Threads
<1>1. /\ pc["web"] = "idle" /\ pc' = [pc EXCEPT !["web"] = "lock"]
      /\ luastates[f] \in States /\ at' = [at EXCEPT !["web"] = luastates[f]]
      /\ UNCHANGED <<theState, luastates, life, script, lock, modState, timers,
                     installs, broken>>
  BY DEF ExecuteFile, IInv, TypeOK, At, Goto, timerVars
<1>2. TypeOK'
  BY <1>1 DEF IInv, TypeOK, Labels
<1>3. LabelOK'
  BY <1>1 DEF IInv, TypeOK, LabelOK, Unlocked
<1>4. HoldOK'
  BY <1>1 DEF IInv, TypeOK, HoldOK, At, LabelOK, Unlocked
<1>5. BootOK'
  BY <1>1 DEF IInv, TypeOK, BootOK, BeforeClose, At
<1>6. MapOK'
  BY <1>1 DEF IInv, TypeOK, MapOK, BeforeClose
<1>7. LoadOK'
  BY <1>1 DEF IInv, TypeOK, LoadOK, At, LabelOK, Unlocked
<1>8. CallerOK'
  BY <1>1 DEF IInv, TypeOK, CallerOK, BeforeClose, LabelOK, Unlocked, MapOK
<1>9. OwnerOK'
  BY <1>1 DEF IInv, TypeOK, OwnerOK, At
<1>10. KeptOK'
  BY <1>1 DEF IInv, TypeOK, KeptOK
<1>11. TimerOK'
  BY <1>1 DEF IInv, TypeOK, TimerOK, TimersConserved, At
<1> QED
  BY <1>2, <1>3, <1>4, <1>5, <1>6, <1>7, <1>8, <1>9, <1>10, <1>11 DEF IInv

\* A request for a script without a state: a free one.
LEMMA ExecuteNewInv ==
  ASSUME IInv, NEW f \in Files, ExecuteFile(f), luastates[f] = NoState
  PROVE  IInv'
<1> USE ConstAssumption DEF Threads
<1>0. PICK s \in States : /\ life[s] = "free"
                          /\ life' = [life EXCEPT ![s] = "open"]
                          /\ script' = [script EXCEPT ![s] = f]
                          /\ at' = [at EXCEPT !["web"] = s]
  BY DEF ExecuteFile
<1>1. /\ pc["web"] = "idle" /\ pc' = [pc EXCEPT !["web"] = "dofile"]
      /\ UNCHANGED <<theState, luastates, lock, modState, timers, installs, broken>>
  BY DEF ExecuteFile, At, Goto, timerVars
<1>2. TypeOK'
  BY <1>1, <1>0 DEF IInv, TypeOK, Labels
<1>3. LabelOK'
  BY <1>1, <1>0 DEF IInv, TypeOK, LabelOK, Unlocked
<1>4. HoldOK'
  BY <1>1, <1>0 DEF IInv, TypeOK, HoldOK, At, LabelOK, Unlocked
<1>5. BootOK'
  BY <1>1, <1>0 DEF IInv, TypeOK, BootOK, BeforeClose, At
<1>6. MapOK'
  BY <1>1, <1>0 DEF IInv, TypeOK, MapOK, BeforeClose
<1>7. LoadOK'
  BY <1>1, <1>0 DEF IInv, TypeOK, LoadOK, At, LabelOK, Unlocked, KeptOK
<1>8. CallerOK'
  BY <1>1, <1>0 DEF IInv, TypeOK, CallerOK, BeforeClose, LabelOK, Unlocked
<1>9. OwnerOK'
  BY <1>1, <1>0 DEF IInv, TypeOK, OwnerOK, At
<1>10. KeptOK'
  BY <1>1, <1>0 DEF IInv, TypeOK, KeptOK
<1>11. TimerOK'
  BY <1>1, <1>0 DEF IInv, TypeOK, TimerOK, TimersConserved, At
<1> QED
  BY <1>2, <1>3, <1>4, <1>5, <1>6, <1>7, <1>8, <1>9, <1>10, <1>11 DEF IInv

\* The chunk failed: the state is free again.
LEMMA DofileFailsInv ==
  ASSUME IInv, Dofile, script[at["web"]] \notin Works
  PROVE  IInv'
<1> USE ConstAssumption DEF Threads
<1>1. /\ pc["web"] = "dofile" /\ pc' = [pc EXCEPT !["web"] = "idle"]
      /\ at["web"] \in States /\ at["web"] # theState
      /\ \A f \in Files : luastates[f] # at["web"]
      /\ life' = [life EXCEPT ![at["web"]] = "free"]
      /\ at' = [at EXCEPT !["web"] = NoState]
      /\ broken' \in {broken, "closed"}
      /\ UNCHANGED <<theState, luastates, script, lock, modState, timers, installs>>
  BY DEF Dofile, ClosedBy, IInv, LabelOK, LoadOK, Unlocked, At, Goto, heapVars, timerVars
<1>2. TypeOK'
  BY <1>1 DEF IInv, TypeOK, Labels
<1>3. LabelOK'
  BY <1>1 DEF IInv, TypeOK, LabelOK, Unlocked
<1>4. HoldOK'
  BY <1>1 DEF IInv, TypeOK, HoldOK, At, LabelOK, Unlocked
<1>5. BootOK'
  BY <1>1 DEF IInv, TypeOK, BootOK, BeforeClose, At
<1>6. MapOK'
  BY <1>1 DEF IInv, TypeOK, MapOK, BeforeClose
<1>7. LoadOK'
  BY <1>1 DEF IInv, TypeOK, LoadOK, At, LabelOK, Unlocked
<1>8. CallerOK'
  BY <1>1 DEF IInv, TypeOK, CallerOK, BeforeClose, LabelOK, Unlocked
<1>9. OwnerOK'
  BY <1>1 DEF IInv, TypeOK, OwnerOK, At
<1>10. KeptOK'
  BY <1>1 DEF IInv, TypeOK, KeptOK
<1>11. TimerOK'
  BY <1>1 DEF IInv, TypeOK, TimerOK, TimersConserved, At
<1> QED
  BY <1>2, <1>3, <1>4, <1>5, <1>6, <1>7, <1>8, <1>9, <1>10, <1>11 DEF IInv

\* The chunk has run: the state goes into the map.
LEMMA DofileWorksInv ==
  ASSUME IInv, Dofile, script[at["web"]] \in Works
  PROVE  IInv'
<1> USE ConstAssumption DEF Threads
<1>1. /\ pc["web"] = "dofile" /\ pc' = [pc EXCEPT !["web"] = "lock"]
      /\ at["web"] \in States /\ life[at["web"]] = "open"
      /\ script[at["web"]] \in Files
      /\ luastates' = IF luastates[script[at["web"]]] = NoState
                        THEN [luastates EXCEPT ![script[at["web"]]] = at["web"]] ELSE luastates
      /\ UNCHANGED <<theState, life, script, lock, modState, at, timers, installs,
                     broken>>
  BY DEF Dofile, Inserted, IInv, TypeOK, LabelOK, LoadOK, Unlocked, At, Goto, heapVars,
         timerVars
<1>2. TypeOK'
  BY <1>1 DEF IInv, TypeOK, Labels
<1>3. LabelOK'
  BY <1>1 DEF IInv, TypeOK, LabelOK, Unlocked
<1>4. HoldOK'
  BY <1>1 DEF IInv, TypeOK, HoldOK, At, LabelOK, Unlocked
<1>5. BootOK'
  BY <1>1 DEF IInv, TypeOK, BootOK, BeforeClose, At
<1>6. MapOK'
  BY <1>1 DEF IInv, TypeOK, MapOK, BeforeClose
<1>7. LoadOK'
  BY <1>1 DEF IInv, TypeOK, LoadOK, At, LabelOK, Unlocked
<1>8. CallerOK'
  BY <1>1 DEF IInv, TypeOK, CallerOK, BeforeClose, LabelOK, Unlocked
<1>9. OwnerOK'
  BY <1>1 DEF IInv, TypeOK, OwnerOK, At
<1>10. KeptOK'
  BY <1>1 DEF IInv, TypeOK, KeptOK
<1>11. TimerOK'
  BY <1>1 DEF IInv, TypeOK, TimerOK, TimersConserved, At
<1> QED
  BY <1>2, <1>3, <1>4, <1>5, <1>6, <1>7, <1>8, <1>9, <1>10, <1>11 DEF IInv

-----------------------------------------------------------------------------
(* poweroff.                                                               *)

\* "exit" was typed.
LEMMA StopInv ==
  ASSUME IInv, Stop
  PROVE  IInv'
<1> USE ConstAssumption DEF Threads
<1>1. /\ pc["main"] = "power" /\ pc' = [pc EXCEPT !["main"] = "goodbye"]
      /\ theState \in States /\ at' = [at EXCEPT !["main"] = theState]
      /\ UNCHANGED <<theState, luastates, life, script, lock, modState, timers,
                     installs, broken>>
  BY DEF Stop, InService, IInv, BootOK, BeforeClose, At, Goto, heapVars, timerVars
<1>2. TypeOK'
  BY <1>1 DEF IInv, TypeOK, Labels
<1>3. LabelOK'
  BY <1>1 DEF IInv, TypeOK, LabelOK, Unlocked
<1>4. HoldOK'
  BY <1>1 DEF IInv, TypeOK, HoldOK, At, LabelOK, Unlocked
<1>5. BootOK'
  BY <1>1 DEF IInv, TypeOK, BootOK, BeforeClose, At
<1>6. MapOK'
  BY <1>1 DEF IInv, TypeOK, MapOK, BeforeClose
<1>7. LoadOK'
  BY <1>1 DEF IInv, TypeOK, LoadOK, At, LabelOK, Unlocked
<1>8. CallerOK'
  BY <1>1 DEF IInv, TypeOK, CallerOK, BeforeClose, LabelOK, Unlocked
<1>9. OwnerOK'
  BY <1>1 DEF IInv, TypeOK, OwnerOK, At
<1>10. KeptOK'
  BY <1>1 DEF IInv, TypeOK, KeptOK
<1>11. TimerOK'
  BY <1>1 DEF IInv, TypeOK, TimerOK, TimersConserved, At
<1> QED
  BY <1>2, <1>3, <1>4, <1>5, <1>6, <1>7, <1>8, <1>9, <1>10, <1>11 DEF IInv

\* The startup state is closed, with whoever is inside.
LEMMA CloseStateInv ==
  ASSUME IInv, CloseState
  PROVE  IInv'
<1> USE ConstAssumption DEF Threads
<1>1. /\ pc["main"] = "goodbye" /\ pc' = [pc EXCEPT !["main"] = "null"]
      /\ theState \in States /\ script[theState] = Boot
      /\ life' = [life EXCEPT ![theState] = "closed"]
      /\ at' = [at EXCEPT !["main"] = NoState]
      /\ broken' \in {broken, "closed"}
      /\ UNCHANGED <<theState, luastates, script, lock, modState, timers, installs>>
  BY DEF CloseState, ClosedBy, IInv, BootOK, BeforeClose, At, Goto, heapVars, timerVars
<1>2. TypeOK'
  BY <1>1 DEF IInv, TypeOK, Labels
<1>3. LabelOK'
  BY <1>1 DEF IInv, TypeOK, LabelOK, Unlocked
<1>4. HoldOK'
  BY <1>1 DEF IInv, TypeOK, HoldOK, At, LabelOK, Unlocked
<1>5. BootOK'
  BY <1>1 DEF IInv, TypeOK, BootOK, BeforeClose, At
<1>6. MapOK'
  BY <1>1 DEF IInv, TypeOK, MapOK, BeforeClose
<1>7. LoadOK'
  BY <1>1 DEF IInv, TypeOK, LoadOK, At, LabelOK, Unlocked
<1>8. CallerOK'
  BY <1>1 DEF IInv, TypeOK, CallerOK, BeforeClose, LabelOK, Unlocked
<1>9. OwnerOK'
  BY <1>1 DEF IInv, TypeOK, OwnerOK, At
<1>10. KeptOK'
  BY <1>1 DEF IInv, TypeOK, KeptOK
<1>11. TimerOK'
  BY <1>1 DEF IInv, TypeOK, TimerOK, TimersConserved, At
<1> QED
  BY <1>2, <1>3, <1>4, <1>5, <1>6, <1>7, <1>8, <1>9, <1>10, <1>11 DEF IInv

\* theState is set to NULL.
LEMMA ForgetStateInv ==
  ASSUME IInv, ForgetState
  PROVE  IInv'
<1> USE ConstAssumption DEF Threads
<1>1. /\ pc["main"] = "null" /\ pc' = [pc EXCEPT !["main"] = "joinlua"]
      /\ theState' = NoState
      /\ UNCHANGED <<luastates, life, script, lock, modState, at, timers,
                     installs, broken>>
  BY DEF ForgetState, At, Goto, heapVars, timerVars
<1>2. TypeOK'
  BY <1>1 DEF IInv, TypeOK, Labels
<1>3. LabelOK'
  BY <1>1 DEF IInv, TypeOK, LabelOK, Unlocked
<1>4. HoldOK'
  BY <1>1 DEF IInv, TypeOK, HoldOK, At, LabelOK, Unlocked
<1>5. BootOK'
  BY <1>1 DEF IInv, TypeOK, BootOK, BeforeClose, At
<1>6. MapOK'
  BY <1>1 DEF IInv, TypeOK, MapOK, BeforeClose
<1>7. LoadOK'
  BY <1>1 DEF IInv, TypeOK, LoadOK, At, LabelOK, Unlocked
<1>8. CallerOK'
  BY <1>1 DEF IInv, TypeOK, CallerOK, BeforeClose, LabelOK, Unlocked
<1>9. OwnerOK'
  BY <1>1 DEF IInv, TypeOK, OwnerOK, At
<1>10. KeptOK'
  BY <1>1 DEF IInv, TypeOK, KeptOK
<1>11. TimerOK'
  BY <1>1 DEF IInv, TypeOK, TimerOK, TimersConserved, At
<1> QED
  BY <1>2, <1>3, <1>4, <1>5, <1>6, <1>7, <1>8, <1>9, <1>10, <1>11 DEF IInv

\* A thread is joined.
LEMMA StopThreadInv ==
  ASSUME IInv, NEW t \in {"lua", "web"}, NEW from \in {"joinlua", "joinweb"},
         NEW to \in {"joinweb", "end"}, StopThread(t, from, to)
  PROVE  IInv'
<1> USE ConstAssumption DEF Threads
<1>1. /\ pc["main"] = from /\ pc[t] = "idle"
      /\ pc' = [pc EXCEPT !["main"] = to, ![t] = "ended"]
      /\ timers' = IF t = "lua" THEN 0 ELSE timers
      /\ UNCHANGED <<theState, luastates, life, script, lock, modState, at,
                     installs, broken>>
  BY DEF StopThread, At, Goto, heapVars, timerVars
<1>2. TypeOK'
  BY <1>1 DEF IInv, TypeOK, Labels
<1>3. LabelOK'
  BY <1>1 DEF IInv, TypeOK, LabelOK, Unlocked
<1>4. HoldOK'
  BY <1>1 DEF IInv, TypeOK, HoldOK, At, LabelOK, Unlocked
<1>5. BootOK'
  BY <1>1 DEF IInv, TypeOK, BootOK, BeforeClose, At
<1>6. MapOK'
  BY <1>1 DEF IInv, TypeOK, MapOK, BeforeClose
<1>7. LoadOK'
  BY <1>1 DEF IInv, TypeOK, LoadOK, At, LabelOK, Unlocked
<1>8. CallerOK'
  BY <1>1 DEF IInv, TypeOK, CallerOK, BeforeClose, LabelOK, Unlocked
<1>9. OwnerOK'
  BY <1>1 DEF IInv, TypeOK, OwnerOK, At
<1>10. KeptOK'
  BY <1>1 DEF IInv, TypeOK, KeptOK
<1>11. TimerOK'
  BY <1>1 DEF IInv, TypeOK, TimerOK, TimersConserved, At
<1> QED
  BY <1>2, <1>3, <1>4, <1>5, <1>6, <1>7, <1>8, <1>9, <1>10, <1>11 DEF IInv

-----------------------------------------------------------------------------
(* What breaks the host.                                                   *)

\* A step that only breaks the host leaves the rest as it was.
LEMMA BreakInv ==
  ASSUME IInv, broken' \in {"abort", "clash", "closed", "null", "nil"},
         UNCHANGED <<theState, luastates, life, script, lock, modState, pc, at,
                     timers, installs>>
  PROVE  IInv'
BY DEF IInv, TypeOK, LabelOK, HoldOK, BootOK, MapOK, LoadOK, CallerOK, OwnerOK, KeptOK,
       TimerOK, TimersConserved, BeforeClose, At

\* Two threads in one state: one of them does not hold its mutex.
LEMMA InsideExclusive == ASSUME IInv PROVE Exclusive
BY DEF IInv, HoldOK, Exclusive, Inside, At

\* In service the host breaks only at a request chunk, at a callback without
\* the mutex, or by a module whose first state is gone.
LEMMA BreakStep ==
  ASSUME IInv, Next
  PROVE  BreaksOnlyAtEdges'
<1> SUFFICES ASSUME pc'["main"] = "power", broken' \notin {"no", "nil"}
             PROVE  \/ pc' = pc /\ (pc["web"] = "dofile" \/ pc["mod"] = "callback")
                    \/ ModDangling'
  BY DEF BreaksOnlyAtEdges, InService, At
<1> USE DEF Threads
<1>1. broken = "no"
  BY DEF Next
<1>2. ASSUME NEW t \in {"lua", "web", "mod"}, Lock(t) PROVE ModDangling'
  <2>1. /\ pc' = pc /\ pc[t] = "lock" /\ life[at[t]] # "open" /\ at[t] \in States
        /\ UNCHANGED <<modState, life>>
    BY <1>1, <1>2 DEF Lock, At, IInv, LabelOK
  <2>2. BeforeClose /\ theState \in States /\ life[theState] = "open"
    BY <2>1 DEF IInv, BootOK, BeforeClose, At
  <2>3. t = "mod" /\ at[t] = modState
    BY <2>1, <2>2 DEF IInv, CallerOK
  <2> QED
    BY <2>1, <2>3, ConstAssumption DEF ModDangling
<1>3. CASE Dofile
  <2>1. /\ at["web"] \in States /\ at["web"] # theState
        /\ pc["main"] = "power" /\ ~(Inside(at["web"]) \subseteq {"web"})
        /\ life' = [life EXCEPT ![at["web"]] = "free"] /\ modState' = modState
    BY <1>1, <1>3 DEF Dofile, ClosedBy, At, Goto, IInv, TypeOK, LabelOK, LoadOK, Unlocked
  <2>2. PICK t \in {"main", "lua", "mod"} : /\ pc[t] \in Unlocked \cup {"run"}
                                            /\ at[t] = at["web"]
    BY <2>1 DEF Inside
  <2>3. t = "mod" /\ modState = at["web"]
    BY <2>1, <2>2 DEF IInv, LabelOK, CallerOK, BeforeClose, Unlocked
  <2> QED
    BY <2>1, <2>3, ConstAssumption DEF ModDangling, IInv, TypeOK
<1>4. CASE Clash
  <2>1. pc' = pc /\ \E s \in States : \E t, u \in Inside(s) : t # u
    BY <1>4 DEF Clash
  <2>2. PICK w \in Threads : pc[w] \in Unlocked
    BY <2>1, InsideExclusive DEF Exclusive, Inside
  <2> QED
    BY <2>1, <2>2 DEF IInv, LabelOK, Unlocked
<1>5. CASE TimerFires \/ Reread
  <2>1. theState = NoState /\ pc["main"] = "power"
    BY <1>1, <1>5 DEF TimerFires, Reread, Goto, At, IInv, TypeOK
  <2> QED
    BY <2>1, ConstAssumption DEF IInv, BootOK, BeforeClose, At
<1>6. CASE LoadScript \/ CloseState
  BY <1>1, <1>6 DEF LoadScript, CloseState, At, Goto, IInv, TypeOK
<1>7. ASSUME NEW t \in {"lua", "web", "mod"}, Return(t) PROVE FALSE
  BY <1>1, <1>7 DEF Return
<1>8. CASE ModCallUnlocked
  BY <1>1, <1>8, ConstAssumption DEF ModCallUnlocked, ModDangling, heapVars
<1>9. CASE \/ NewState \/ ChunkDone \/ ForgetState \/ JoinLua \/ JoinWeb \/ Stop \/ Execute
           \/ ModCall \/ CallbackDone \/ \E t \in Threads : Install(t) \/ Require(t)
  BY <1>1, <1>9
  DEF NewState, ChunkDone, ForgetState, JoinLua, JoinWeb, StopThread, Stop, Execute,
      ExecutePlain, ExecuteFile, ModCall, CallbackDone, Install, Require
<1> QED
  BY <1>2, <1>3, <1>4, <1>5, <1>6, <1>7, <1>8, <1>9 DEF Next, Main, Lua, Serve, Mod

-----------------------------------------------------------------------------
(* All steps.                                                              *)

LEMMA BrokenOnce ==
  ASSUME IInv, Next, broken' # "no"
  PROVE  \/ CloseState \/ Dofile
         \/ /\ broken' \in {"abort", "clash", "closed", "null", "nil"}
            /\ UNCHANGED <<theState, luastates, life, script, lock, modState, pc, at,
                           timers, installs>>
<1>1. broken = "no"
  BY DEF Next
<1>2. ASSUME NEW t \in {"lua", "web", "mod"}, Lock(t) \/ Return(t)
      PROVE  /\ broken' \in {"closed", "nil"}
             /\ UNCHANGED <<theState, luastates, life, script, lock, modState, pc,
                            at,
                            timers, installs>>
  BY <1>1, <1>2 DEF Lock, Return, timerVars
<1>3. CASE LoadScript \/ TimerFires \/ Reread \/ Clash \/ ModCallUnlocked
  BY <1>1, <1>3 DEF LoadScript, TimerFires, Reread, Clash, ModCallUnlocked, heapVars,
         timerVars
<1>4. CASE \/ NewState \/ ChunkDone \/ ForgetState \/ JoinLua \/ JoinWeb \/ Stop \/ Execute
           \/ ModCall \/ CallbackDone \/ \E t \in Threads : Install(t) \/ Require(t)
  BY <1>1, <1>4
  DEF NewState, ChunkDone, ForgetState, JoinLua, JoinWeb, StopThread, Stop, Execute,
      ExecutePlain, ExecuteFile, ModCall, CallbackDone, Install, Require
<1> QED
  BY <1>2, <1>3, <1>4 DEF Next, Main, Lua, Serve, Mod

LEMMA NextInv == ASSUME IInv, Next PROVE IInv'
<1>1. broken = "no"
  BY DEF Next
<1>2. CASE CloseState \/ Dofile
  BY <1>2, CloseStateInv, DofileFailsInv, DofileWorksInv
<1>3. CASE broken' # "no" /\ ~CloseState /\ ~Dofile
  BY <1>3, BrokenOnce, BreakInv
<1>4. CASE broken' = "no" /\ ~CloseState /\ ~Dofile
  <2>1. CASE Main
    BY <1>4, <2>1, NewStateInv, LoadScriptInv, ChunkDoneInv, ForgetStateInv, StopThreadInv
    DEF Main, JoinLua, JoinWeb
  <2>2. CASE Lua \/ Mod \/ Serve
    BY <1>1, <1>4, <2>2, LockInv, ReturnInv, TimerFiresInv, ModCallInv, RereadInv,
       ModCallUnlockedInv, CallbackDoneInv
    DEF Lua, Mod, Serve
  <2>3. CASE Execute
    BY <2>3, ExecutePlainInv, ExecuteOldInv, ExecuteNewInv DEF Execute
  <2>4. CASE Stop \/ Clash \/ \E t \in Threads : Install(t) \/ Require(t)
    BY <1>4, <2>4, StopInv, InstallInv, RequireInv DEF Clash
  <2> QED
    BY <2>1, <2>2, <2>3, <2>4 DEF Next
<1> QED
  BY <1>2, <1>3, <1>4

LEMMA Inductive == Spec => [](IInv /\ BreaksOnlyAtEdges)
<1>1. IInv /\ BreaksOnlyAtEdges /\ [Next]_vars => IInv' /\ BreaksOnlyAtEdges'
  <2> SUFFICES ASSUME IInv, BreaksOnlyAtEdges, [Next]_vars
               PROVE  IInv' /\ BreaksOnlyAtEdges'
    OBVIOUS
  <2>1. CASE Next
    BY <2>1, NextInv, BreakStep
  <2>2. CASE UNCHANGED vars
    <3>1. IInv'
      BY <2>2
      DEF vars, IInv, TypeOK, LabelOK, HoldOK, BootOK, MapOK, LoadOK, CallerOK, OwnerOK,
          KeptOK, TimerOK, TimersConserved, BeforeClose, At
    <3>2. BreaksOnlyAtEdges'
      BY <2>2 DEF vars, BreaksOnlyAtEdges, InService, ModDangling, At
    <3> QED
      BY <3>1, <3>2
  <2> QED
    BY <2>1, <2>2
<1> QED
  BY InitInv, <1>1, PTL DEF Spec

-----------------------------------------------------------------------------
\* The types of the host's variables.
THEOREM TypeCorrect == Spec => []TypeOK
<1>1. IInv => TypeOK
  BY DEF IInv
<1> QED
  BY Inductive, <1>1, PTL

\* Timer, requests and module callbacks exclude each other on every state; only
\* a chunk, the close callback or a callback of sermon can run beside them.
THEOREM MutualExclusion == Spec => []Exclusive
<1>1. IInv => Exclusive
  BY InsideExclusive
<1> QED
  BY Inductive, <1>1, PTL

\* In service nothing breaks the host but a script without a string result, a
\* request chunk or a callback that runs unlocked, and a module whose first
\* state is gone.
THEOREM SoundInService == Spec => []BreaksOnlyAtEdges
BY Inductive, PTL

\* One state per script, however requests and the start interleave.
THEOREM StatePerScript == Spec => []OneStatePerScript
<1>1. IInv => OneStatePerScript
  BY ConstAssumption DEF IInv, TypeOK, OwnerOK, OneStatePerScript
<1> QED
  BY Inductive, <1>1, PTL

\* No timer is lost and none is doubled before the LUA thread stops.
THEOREM TimersKept == Spec => []TimersConserved
<1>1. IInv => TimersConserved
  BY DEF IInv, TimerOK
<1> QED
  BY Inductive, <1>1, PTL
=============================================================================
