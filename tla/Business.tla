------------------------------- MODULE Business -------------------------------
(***************************************************************************)
(* The Lua host of quark (platform/quark/business.cpp, Linux branch): the  *)
(* states it creates, the map luastates of one state per script, the       *)
(* global theState of the startup script, its timer, and the threads that  *)
(* enter a state:                                                          *)
(*   "main"  cbusiness::start and stop, called by poweron and poweroff;    *)
(*   "lua"   dotimer, on the message loop taskmgr::LUA;                    *)
(*   "web"   execute, called by onwebtask on the message loop of WEB;      *)
(*   "mod"   a thread of a loaded C module that calls back into Lua, with  *)
(*           luaL_lock (modules/websock/interface.cpp, responsetolua) or   *)
(*           without (modules/sermon/interface.cpp, responsetolua).        *)
(*                                                                         *)
(* A state has one stack and one call chain, so two threads inside it at   *)
(* once corrupt it.  Nothing but luaL_lock, a mutex of the state, keeps    *)
(* them apart, and not every path takes it.                                *)
(*                                                                         *)
(* "broken" becomes the reason once the program has reached undefined      *)
(* behaviour or died; nothing is modelled beyond that.                     *)
(***************************************************************************)
EXTENDS Naturals

CONSTANTS
  States,      \* lua_State objects (the bound on how many are created)
  NoState,     \* the NULL lua_State
  Files,       \* script files a request may name
  Boot,        \* the file of the startup script
  Works,       \* the files that load and whose chunk runs without an error
  NoThread,    \* "the mutex is free"
  ModLocks,    \* whether a module's callback takes luaL_lock: TRUE, FALSE or both
  MaxInstalls, \* bound on the calls of install()
  NilResults   \* whether a script function may return a non-string

ASSUME ConstAssumption ==
  /\ NoState \notin States
  /\ Boot \in Files /\ Works \subseteq Files
  /\ NoThread \notin {"main", "lua", "web", "mod"}
  /\ ModLocks \subseteq BOOLEAN
  /\ MaxInstalls \in Nat
  /\ NilResults \in BOOLEAN

VARIABLES
  theState,  \* the global theState
  luastates, \* luastates[f]: the state of script f, or NoState
  life,      \* life[s]: "free", "open" or "closed"
  script,    \* script[s]: the file loaded into s
  lock,      \* lock[s]: the thread that holds proclock of s
  modState,  \* the theState of the module: the state that loaded it first
  pc,        \* where each thread is
  at,        \* the state each thread works on
  timers,    \* dotimer tasks waiting in the loop of LUA
  installs,  \* calls of install() so far
  broken     \* "no", or why the program is past defined behaviour

vars == <<theState, luastates, life, script, lock, modState, pc, at, 
          timers, installs, broken>>
heapVars  == <<life, script, lock>>
timerVars == <<timers, installs>>

Threads == {"main", "lua", "web", "mod"}

At(t, label)   == pc[t] = label
Goto(t, label) == pc' = [pc EXCEPT ![t] = label]

\* A chunk, the close callback and a callback of sermon run without luaL_lock;
\* the rest runs in "run".
Unlocked == {"load", "chunk", "dofile", "goodbye", "callback"}
Inside(s) == {t \in Threads : pc[t] \in Unlocked \cup {"run"} /\ at[t] = s}

InService == At("main", "power")

\* lua_close frees a state: with another thread inside, it is used when freed.
ClosedBy(t, s) == IF Inside(s) \subseteq {t} THEN broken ELSE "closed"

-----------------------------------------------------------------------------
(* cbusiness::start                                                        *)

\* theState is published before the libraries are opened and the script loaded.
NewState ==
  /\ At("main", "boot")
  /\ \E s \in States :
       /\ life[s] = "free"
       /\ life' = [life EXCEPT ![s] = "open"]
       /\ script' = [script EXCEPT ![s] = Boot]
       /\ theState' = s
       /\ at' = [at EXCEPT !["main"] = s]
  /\ Goto("main", "load")
  /\ UNCHANGED <<luastates, lock, modState, timerVars, broken>>

\* luaL_loadfile and lua_register.  On failure lua_error is raised outside any
\* protected call: after panic() Lua aborts, and start never returns false.
LoadScript ==
  /\ At("main", "load")
  /\ IF Boot \in Works
     THEN Goto("main", "chunk") /\ UNCHANGED broken
     ELSE broken' = "abort" /\ UNCHANGED pc
  /\ UNCHANGED <<theState, luastates, heapVars, modState, at, timerVars>>

\* std::map::insert, which keeps an entry that is there already.
Inserted(f, s) ==
  IF luastates[f] = NoState THEN [luastates EXCEPT ![f] = s] ELSE luastates

\* lua_pcall of the chunk has returned; insert; start returns.
ChunkDone ==
  /\ At("main", "chunk")
  /\ luastates' = Inserted(Boot, theState)
  /\ at' = [at EXCEPT !["main"] = NoState]
  /\ Goto("main", "power")
  /\ UNCHANGED <<theState, life, script, lock, modState, timerVars, broken>>

-----------------------------------------------------------------------------
(* What a running script may do to the host.                               *)

\* install(), registered in the startup state before its chunk runs; it posts
\* a dotimer task each time it is called.  It sets theState to that same state.
Install(t) ==
  /\ pc[t] \in {"chunk", "run", "goodbye", "callback"} /\ ~At("main", "load")
  /\ at[t] = theState
  /\ life[theState] = "open"
  /\ installs < MaxInstalls
  /\ timers' = timers + 1
  /\ installs' = installs + 1
  /\ UNCHANGED <<theState, luastates, heapVars, modState, pc, at, broken>>

\* require of a C module: luaopen keeps the first state it is opened in, and
\* the module's thread is started.
Require(t) ==
  /\ pc[t] \in {"chunk", "dofile", "run", "goodbye", "callback"}
  /\ life[at[t]] = "open"
  /\ modState = NoState
  /\ modState' = at[t]
  /\ UNCHANGED <<theState, luastates, heapVars, pc, at, timerVars, broken>>

-----------------------------------------------------------------------------
(* luaL_lock, the call, luaL_unlock.                                       *)

\* Mutant of LockFree: the pthread_mutex_trylock that lstate.c:372 comments
\* out, by a caller that ignores its result.
LockTried(s) == TRUE

LockFree(s) == lock[s] = NoThread

\* A thread blocks while another holds the mutex of the state.
Lock(t) ==
  /\ At(t, "lock")
  /\ IF life[at[t]] = "open"
     THEN /\ LockFree(at[t])
          /\ lock' = [lock EXCEPT ![at[t]] = t]
          /\ Goto(t, "run")
          /\ UNCHANGED broken
     ELSE /\ broken' = "closed"
          /\ UNCHANGED <<lock, pc>>
  /\ UNCHANGED <<theState, luastates, life, script, modState, at, timerVars>>

\* Mutant of Released: an unlock forgotten.
NotReleased(s) == lock

Released(s) == [lock EXCEPT ![s] = NoThread]

Reposted == timers + 1

\* lua_pcall has returned: the result, luaL_unlock, and for dotimer the next
\* dotimer.  A NULL from lua_tostring is no std::string: it throws.
Return(t) ==
  LET s == at[t]
  IN  /\ At(t, "run")
      /\ \/ /\ t = "web" /\ NilResults
            /\ broken' = "nil"
            /\ UNCHANGED <<lock, pc, at, timers>>
         \/ /\ lock' = Released(s)
            /\ timers' = IF t = "lua" THEN Reposted ELSE timers
            /\ Goto(t, "idle")
            /\ at' = [at EXCEPT ![t] = NoState]
            /\ UNCHANGED broken
  /\ UNCHANGED <<theState, luastates, life, script, modState, installs>>

-----------------------------------------------------------------------------
(* cbusiness::dotimer; the module's callback                               *)

TimerFires ==
  /\ At("lua", "idle")
  /\ timers > 0
  /\ IF theState = NoState
     THEN broken' = "null" /\ UNCHANGED <<timers, pc, at>>
     ELSE /\ timers' = timers - 1
          /\ at' = [at EXCEPT !["lua"] = theState]
          /\ Goto("lua", "lock")
          /\ UNCHANGED broken
  /\ UNCHANGED <<theState, luastates, heapVars, modState, installs>>

ModCall ==
  /\ TRUE \in ModLocks
  /\ At("mod", "idle")
  /\ modState # NoState
  /\ at' = [at EXCEPT !["mod"] = modState]
  /\ Goto("mod", "lock")
  /\ UNCHANGED <<theState, luastates, heapVars, modState, timerVars, broken>>

\* sermon: luaL_glock and luaL_unglock are commented out.
ModCallUnlocked ==
  /\ FALSE \in ModLocks
  /\ At("mod", "idle")
  /\ modState # NoState
  /\ IF life[modState] = "open"
     THEN /\ at' = [at EXCEPT !["mod"] = modState]
          /\ Goto("mod", "callback")
          /\ UNCHANGED broken
     ELSE broken' = "closed" /\ UNCHANGED <<pc, at>>
  /\ UNCHANGED <<theState, luastates, heapVars, modState, timerVars>>

\* Its lua_pcall has returned.
CallbackDone ==
  /\ At("mod", "callback")
  /\ at' = [at EXCEPT !["mod"] = NoState]
  /\ Goto("mod", "idle")
  /\ UNCHANGED <<theState, luastates, life, script, lock, modState, timerVars, broken>>

-----------------------------------------------------------------------------
(* cbusiness::execute                                                      *)

\* ifunc has no '.' and theState is set; the next line reads theState again.
ExecutePlain ==
  /\ At("web", "idle")
  /\ theState # NoState
  /\ Goto("web", "reread")
  /\ UNCHANGED <<theState, luastates, heapVars, modState, at, timerVars, broken>>

Reread ==
  /\ At("web", "reread")
  /\ IF theState = NoState
     THEN broken' = "null" /\ UNCHANGED <<pc, at>>
     ELSE /\ at' = [at EXCEPT !["web"] = theState]
          /\ Goto("web", "lock")
          /\ UNCHANGED broken
  /\ UNCHANGED <<theState, luastates, heapVars, modState, timerVars>>

\* ifunc is "file.func" (or theState is NULL and ifunc is taken for a file):
\* the state of the file, or a new one.
ExecuteFile(f) ==
  /\ At("web", "idle")
  /\ \/ /\ luastates[f] # NoState
        /\ at' = [at EXCEPT !["web"] = luastates[f]]
        /\ Goto("web", "lock")
        /\ UNCHANGED <<life, script>>
     \/ /\ luastates[f] = NoState
        /\ \E s \in States :
             /\ life[s] = "free"
             /\ life' = [life EXCEPT ![s] = "open"]
             /\ script' = [script EXCEPT ![s] = f]
             /\ at' = [at EXCEPT !["web"] = s]
        /\ Goto("web", "dofile")
  /\ UNCHANGED <<theState, luastates, lock, modState, timerVars, broken>>

\* luaL_dofile has returned: on error the state is closed (and its memory may
\* be the next state's), else it is kept in the map and called.
Dofile ==
  LET s == at["web"]
      f == script[s]
  IN  /\ At("web", "dofile")
      /\ \/ /\ f \notin Works
            /\ life' = [life EXCEPT ![s] = "free"]
            /\ broken' = ClosedBy("web", s)
            /\ at' = [at EXCEPT !["web"] = NoState]
            /\ Goto("web", "idle")
            /\ UNCHANGED luastates
         \/ /\ f \in Works
            /\ luastates' = Inserted(f, s)
            /\ Goto("web", "lock")
            /\ UNCHANGED <<life, at, broken>>
  /\ UNCHANGED <<theState, script, lock, modState, timerVars>>

-----------------------------------------------------------------------------
(* cbusiness::stop, then taskmgr::stop                                     *)

\* "exit" was typed on the console.
Stop ==
  /\ InService
  /\ IF theState = NoState
     THEN Goto("main", "joinlua") /\ UNCHANGED at
     ELSE Goto("main", "goodbye") /\ at' = [at EXCEPT !["main"] = theState]
  /\ UNCHANGED <<theState, luastates, heapVars, modState, timerVars, broken>>

\* The close callback has returned; lua_close.  luastates keeps the state.
CloseState ==
  /\ At("main", "goodbye")
  /\ life' = [life EXCEPT ![theState] = "closed"]
  /\ broken' = ClosedBy("main", theState)
  /\ at' = [at EXCEPT !["main"] = NoState]
  /\ Goto("main", "null")
  /\ UNCHANGED <<theState, luastates, script, lock, modState, timerVars>>

ForgetState ==
  /\ At("main", "null")
  /\ theState' = NoState
  /\ Goto("main", "joinlua")
  /\ UNCHANGED <<luastates, heapVars, modState, at, timerVars, broken>>

\* base::Thread::Stop lets the running task end and drops delayed ones.
StopThread(t, from, to) ==
  /\ At("main", from)
  /\ At(t, "idle")
  /\ pc' = [pc EXCEPT !["main"] = to, ![t] = "ended"]
  /\ timers' = IF t = "lua" THEN 0 ELSE timers
  /\ UNCHANGED <<theState, luastates, heapVars, modState, at, installs, broken>>

JoinLua == StopThread("lua", "joinlua", "joinweb")
JoinWeb == StopThread("web", "joinweb", "end")

-----------------------------------------------------------------------------
\* Two threads inside one state: it may be corrupted.
Clash ==
  /\ \E s \in States : \E t, u \in Inside(s) : t # u
  /\ broken' = "clash"
  /\ UNCHANGED <<theState, luastates, heapVars, modState, pc, at, timerVars>>

Init ==
  /\ theState = NoState /\ modState = NoState
  /\ luastates = [f \in Files |-> NoState]
  /\ life = [s \in States |-> "free"]
  /\ script = [s \in States |-> Boot]
  /\ lock = [s \in States |-> NoThread]
  /\ pc = [t \in Threads |-> IF t = "main" THEN "boot" ELSE "idle"]
  /\ at = [t \in Threads |-> NoState]
  /\ timers = 0 /\ installs = 0
  /\ broken = "no"

Main == \/ NewState \/ LoadScript \/ ChunkDone
        \/ CloseState \/ ForgetState \/ JoinLua \/ JoinWeb
Lua  == TimerFires \/ Lock("lua") \/ Return("lua")
Serve == Reread \/ Dofile \/ Lock("web") \/ Return("web")

Execute == ExecutePlain \/ \E f \in Files : ExecuteFile(f)
Mod     == \/ ModCall \/ Lock("mod") \/ Return("mod")
           \/ ModCallUnlocked \/ CallbackDone

Next ==
  /\ broken = "no" /\ ~At("main", "end")
  /\ \/ Main \/ Stop \/ Lua \/ Execute \/ Serve \/ Mod \/ Clash
     \/ \E t \in Threads : Install(t) \/ Require(t)

Spec == Init /\ [][Next]_vars

\* Every thread runs and scripts return.  The mutex of a state is granted to a
\* thread that keeps asking: its other users leave it free between two calls
\* (a timer waits for its delay, a module for its next event).  A loop is told to
\* quit by a task in its own FIFO queue, so that new tasks cannot put it off.
\* Nobody has to send requests, load modules or type "exit".
Runnable(A) == broken = "no" /\ ~At("main", "end") /\ A

FairSpec ==
  /\ Spec
  /\ WF_vars(Runnable(Main)) /\ WF_vars(Runnable(Lua))
  /\ WF_vars(Runnable(Serve)) /\ WF_vars(Runnable(Mod))
  /\ \A t \in {"lua", "web"} : SF_vars(Runnable(Lock(t)))
  /\ SF_vars(Runnable(JoinLua \/ JoinWeb))

-----------------------------------------------------------------------------
(* Properties                                                              *)

Labels == {"boot", "load", "chunk", "power", "goodbye", "null", "joinlua", "joinweb",
           "end", "idle", "ended", "reread", "lock", "run", "dofile", "callback"}

\* Every variable has its type.
TypeOK ==
  /\ theState \in States \cup {NoState} /\ modState \in States \cup {NoState}
  /\ luastates \in [Files -> States \cup {NoState}]
  /\ life \in [States -> {"free", "open", "closed"}]
  /\ script \in [States -> Files]
  /\ lock \in [States -> Threads \cup {NoThread}]
  /\ pc \in [Threads -> Labels]
  /\ at \in [Threads -> States \cup {NoState}]
  /\ timers \in 0 .. MaxInstalls /\ installs \in 0 .. MaxInstalls
  /\ broken \in {"no", "abort", "clash", "closed", "null", "nil"}

\* Two threads are inside one Lua state only while one of them runs a chunk, the
\* close callback or a callback of sermon in it, the code that runs without
\* luaL_lock (business.cpp:88, 96, 139; modules/sermon/interface.cpp:26-36).
\* Timer, requests and the callbacks of other modules exclude each other on
\* every state.
Exclusive ==
  \A s \in States : \A t, u \in Inside(s) :
    t # u => \E w \in Inside(s) : pc[w] \in Unlocked

ModDangling == modState # NoState /\ life[modState] # "open"

\* While the host is in service (after poweron and before poweroff) nothing
\* breaks it, whatever the order of timers, requests and callbacks, but a
\* script that returns no string, one whose chunk is running unlocked while its
\* module calls back, a module whose first state has been closed because its
\* chunk failed (business.cpp:139-141), and a callback without luaL_lock.
BreaksOnlyAtEdges ==
  InService /\ broken \notin {"no", "nil"} =>
    At("web", "dofile") \/ At("mod", "callback") \/ ModDangling

\* There is one state per script, however requests and the start interleave,
\* so that a script's globals are shared by all its callers; only the startup
\* script can get two (execute may run it before start has inserted it).
OneStatePerScript ==
  \A s, q \in States :
    life[s] = "open" /\ life[q] = "open" /\ script[s] = script[q] /\ script[s] # Boot
    => s = q

\* Every install() keeps exactly one timer going, on every path through
\* dotimer, until the LUA thread is stopped: none is lost and none doubles.
TimersConserved ==
  ~At("lua", "ended") => timers + (IF At("lua", "idle") THEN 0 ELSE 1) = installs

\* Who needs a state's mutex gets it, whatever other threads do with the state: a
\* request to execute comes back and a pending timer runs the timer callback,
\* until the host is stopped or breaks.
MutexIsGiven ==
  /\ ~At("web", "idle") ~> (At("web", "idle") \/ At("main", "end") \/ broken # "no")
  /\ timers > 0 ~> (At("lua", "run") \/ At("lua", "ended") \/ broken # "no")

\* poweroff and taskmgr::stop come to their end: none of the threads they join
\* waits forever for the mutex of a state.
PoweroffEnds == At("main", "goodbye") ~> (At("main", "end") \/ broken # "no")

\* "callback function must lock and unlock." (modules/system/interface.cpp:33):
\* a module's thread that runs a callback of a script holds the state's mutex.
CallbacksLocked ==
  pc["mod"] \in {"run", "callback"} /\ broken = "no" => lock[at["mod"]] = "mod"
=============================================================================
