--------------------------------- MODULE Ssh ---------------------------------
(***************************************************************************)
(* The ssh module (modules/ssh/ssh.cpp, interface.cpp): sessions that      *)
(* scripts open and close on their own threads, kept by handle in          *)
(* peerlists, and one thread, g_thread, that runs the commands of all      *)
(* scripts in the order they were posted and answers each by a callback.   *)
(*                                                                         *)
(* The module is one object of the process: theSSH and theState belong to  *)
(* whichever script loaded it first, every other script shares them.  A    *)
(* script is entered by the host with the mutex of its Lua state           *)
(* (Business says where the host does not); the callback takes that of     *)
(* theState.  Nothing guards peerlists.                                    *)
(*                                                                         *)
(* What libssh2 says and sends is left out, and so is a connect that fails *)
(* and returns -1: it changes nothing.  "broken" becomes the reason once   *)
(* the program has reached undefined behaviour or died.                    *)
(***************************************************************************)
EXTENDS Integers, Sequences, FiniteSets

CONSTANTS
  Scripts,     \* Lua states, each entered by a thread of its own
  Kinds,       \* which of connect ("password") and connect_privatekey ("key") are used
  None,        \* no script
  Worker,      \* g_thread
  Temporary,   \* whether scripts make commands that nothing but the call refers to
  MaxLoads,    \* bound on the objects made
  MaxSessions, \* bound on the sessions of libssh2, numbered as they are opened
  MaxRequests  \* bound on the calls of request

ASSUME ConstAssumption ==
  /\ Kinds \subseteq {"password", "key"}
  /\ None \notin Scripts
  /\ Worker \notin Scripts \cup {None}
  /\ Temporary \in BOOLEAN
  /\ MaxLoads \in Nat /\ MaxSessions \in Nat /\ MaxRequests \in Nat

VARIABLES
  theSSH,    \* whether theSSH points to an object
  theState,  \* the state the module calls back into
  loaded,    \* the scripts that have the module's table
  loads,     \* the objects made so far
  lock,      \* lock[s]: the thread inside state s, or None
  pc,        \* where each thread is
  at,        \* at[t]: the session a thread's call is about
  handle,    \* handle[kind]: the static counters of the two connects
  peerlists, \* peerlists[h]: the session under handle h, or 0
  session,   \* session[k]: its life, how and by which script it was opened, its handle
  registry,  \* registry[s]: what luaL_ref keeps in the registry of s
  request,   \* the calls of request so far
  queue,     \* the tasks of g_thread
  stopping,  \* whether Thread::Stop was called
  current,   \* the request of the task that runs, or 0
  target,    \* target[r]: the session the command of r was run on, or 0
  replies,   \* replies[r]: the requests whose answers the callback of r got
  habits,    \* what the scripts did that not every program does
  broken     \* "no", or why the program is past defined behaviour

vars == <<theSSH, theState, loaded, loads, lock, pc, at, handle, peerlists, session, registry,
          request, queue, stopping, current, target, replies, habits, broken>>
moduleVars  == <<theSSH, theState, loaded, loads>>
sessionVars == <<handle, peerlists, session>>
workVars    == <<queue, stopping, current, target>>
luaVars     == <<registry, request, replies>>

Threads  == Scripts \cup {Worker}
Sessions == 1 .. MaxSessions
Handles  == 1 .. MaxSessions
Requests == 1 .. MaxRequests

At(t, label)   == pc[t] = label
Goto(t, label) == pc' = [pc EXCEPT ![t] = label]
Break(why)     == broken' = why
Habit(bad, name) == habits' = IF bad THEN habits \cup {name} ELSE habits

\* The state thread t is in when it calls the module: g_thread does so in a callback.
StateOf(t) == IF t = Worker THEN theState ELSE t
Calls(t)   == At(t, "run") /\ StateOf(t) \in loaded

Fresh == [life |-> "none", kind |-> "none", by |-> None, handle |-> 0]

-----------------------------------------------------------------------------
(* The registry of a state: cell 0 heads the list of free cells.           *)

Nil     == <<"nil">>
Fn(r)   == <<"fn", r>>
Link(i) == <<"next", i>>

\* lua_tointeger of a cell: what is no number counts as 0.
ToInteger(c) == IF c[1] = "next" THEN c[2] ELSE 0

\* lua_rawlen: the last cell in use.
RawLen(reg) == LET used == {i \in Requests : reg[i] # Nil}
               IN  IF used = {} THEN 0 ELSE CHOOSE i \in used : \A j \in used : j <= i

FreeCell(reg) == ToInteger(reg[0])
NewRef(reg)   == IF FreeCell(reg) # 0 THEN FreeCell(reg) ELSE RawLen(reg) + 1

Ref(reg, r) ==
  IF FreeCell(reg) # 0
  THEN [reg EXCEPT ![0] = reg[FreeCell(reg)], ![FreeCell(reg)] = Fn(r)]
  ELSE [reg EXCEPT ![NewRef(reg)] = Fn(r)]

\* Mutant of Unref: the newest cell is freed.
UnrefNewest(reg, i) == [reg EXCEPT ![RawLen(reg)] = reg[0], ![0] = Link(RawLen(reg))]

Unref(reg, i) == [reg EXCEPT ![i] = reg[0], ![0] = Link(i)]

-----------------------------------------------------------------------------
(* What the host does: it enters a state with its mutex, and leaves it.    *)

Enter(s) ==
  /\ At(s, "out") /\ lock[s] = None
  /\ lock' = [lock EXCEPT ![s] = s]
  /\ Goto(s, "run")
  /\ UNCHANGED <<moduleVars, at, sessionVars, luaVars, workVars, habits, broken>>

Leave(s) ==
  /\ At(s, "run")
  /\ lock' = [lock EXCEPT ![s] = None]
  /\ Goto(s, "out")
  /\ UNCHANGED <<moduleVars, at, sessionVars, luaVars, workVars, habits, broken>>

\* luaopen_ssh: the first script makes the object and starts its thread.  The
\* counters of the handles are static and keep their values.
Load(s) ==
  /\ At(s, "run")
  /\ s \notin loaded \/ ~theSSH
  /\ loaded' = loaded \cup {s}
  /\ theSSH' = TRUE
  /\ IF theSSH
     THEN UNCHANGED <<theState, loads, peerlists, pc, queue, stopping>>
     ELSE /\ loads < MaxLoads /\ loads' = loads + 1
          /\ theState' = s
          /\ peerlists' = [h \in Handles |-> 0]
          /\ pc' = [pc EXCEPT ![Worker] = "idle"]
          /\ queue' = <<>> /\ stopping' = FALSE
  /\ UNCHANGED <<lock, at, handle, session, luaVars, current, target, habits, broken>>

-----------------------------------------------------------------------------
(* connect, connect_privatekey, disconnect                                 *)

Queued  == {queue[i] : i \in DOMAIN queue}
Pending == Queued \cup ({current} \ {0})

InMap == {t \in Threads : pc[t] \in {"insert", "erase", "find"}}
Changing == {t \in InMap : pc[t] # "find"}

\* Mutant of NewHandle: the handle is the size of the map.
SizeOfMap(kind) == Cardinality({h \in Handles : peerlists[h] # 0}) + 1

NewHandle(kind) == handle[kind] + 1

\* The session is set up; ++handle, and peerlists[handle] is looked for.
Connect(t, kind) ==
  /\ Calls(t) /\ theSSH
  /\ \E k \in Sessions :
       /\ session[k] = Fresh /\ \A j \in 1 .. k - 1 : session[j] # Fresh
       /\ session' = [session EXCEPT ![k] = [life |-> "open", kind |-> kind,
                                             by |-> StateOf(t), handle |-> 0]]
       /\ at' = [at EXCEPT ![t] = k]
  /\ handle' = [handle EXCEPT ![kind] = NewHandle(kind)]
  /\ Goto(t, "insert")
  /\ broken' = IF InMap # {} THEN "map" ELSE broken
  /\ Habit(t # Worker /\ Pending # {}, "late")
  /\ UNCHANGED <<moduleVars, lock, peerlists, luaVars, workVars>>

\* libssh2_userauth_list gives NULL, when it fails or when the server asks for no
\* proof at all, and strstr is called with it.
NoAuthlist(t) ==
  /\ Calls(t) /\ theSSH
  /\ Break("authlist")
  /\ UNCHANGED <<moduleVars, lock, pc, at, sessionVars, luaVars, workVars, habits>>

\* operator[] takes the counter by reference: it looks for what it is by then.
Insert(t) ==
  /\ At(t, "insert")
  /\ peerlists' = [peerlists EXCEPT ![handle[session[at[t]].kind]] = at[t]]
  /\ Goto(t, "return")
  /\ UNCHANGED <<moduleVars, lock, at, handle, session, luaVars, workVars, habits, broken>>

\* return handle, read again from the static counter.
Return(t) ==
  /\ At(t, "return")
  /\ session' = [session EXCEPT ![at[t]].handle = handle[session[at[t]].kind]]
  /\ at' = [at EXCEPT ![t] = 0]
  /\ Goto(t, "run")
  /\ UNCHANGED <<moduleVars, lock, handle, peerlists, luaVars, workVars, habits, broken>>

\* A session the script of thread t opened and knows the handle of.
Knows(t, k) == session[k].by = StateOf(t) /\ session[k].handle # 0

Using == IF At(Worker, "exec") THEN target[current] ELSE 0

\* shutdown up to erase: whatever session is under the handle is freed.
Disconnect(t, k) ==
  /\ Calls(t) /\ theSSH /\ Knows(t, k)
  /\ LET x == peerlists[session[k].handle]
     IN  /\ x # 0
         /\ session' = [session EXCEPT ![x].life = "freed"]
         /\ broken' = IF session[x].life = "freed" \/ x = Using THEN "freed"
                      ELSE IF InMap # {} THEN "map" ELSE broken
  /\ at' = [at EXCEPT ![t] = k]
  /\ Goto(t, "erase")
  /\ Habit(t # Worker, "outside")
  /\ UNCHANGED <<moduleVars, lock, handle, peerlists, luaVars, workVars>>

\* Mutant of Erased: the handle keeps its entry.
NotErased(h) == peerlists

Erased(h) == [peerlists EXCEPT ![h] = 0]

Erase(t) ==
  /\ At(t, "erase")
  /\ peerlists' = Erased(session[at[t]].handle)
  /\ at' = [at EXCEPT ![t] = 0]
  /\ Goto(t, "run")
  /\ UNCHANGED <<moduleVars, lock, handle, session, luaVars, workVars, habits, broken>>

-----------------------------------------------------------------------------
(* request and the thread that serves it                                   *)

\* The callback is kept in the registry of the caller's state.  The command is
\* posted as a bare pointer into a string of that state.
Request(t, k) ==
  /\ Calls(t) /\ theSSH /\ ~At(Worker, "gone") /\ Knows(t, k)
  /\ Len(request) < MaxRequests
  /\ LET s == StateOf(t)  r == Len(request) + 1
     IN  /\ request' = Append(request, [by |-> s, want |-> k, ref |-> NewRef(registry[s])])
         /\ registry' = [registry EXCEPT ![s] = Ref(@, r)]
         /\ queue' = Append(queue, r)
         /\ Habit(s # theState, "others")
  /\ UNCHANGED <<moduleVars, lock, pc, at, sessionVars, stopping, current, target, replies, broken>>

\* Any call without the object, and request once the thread has ended.
UseNull(t) ==
  /\ Calls(t) /\ (~theSSH \/ At(Worker, "gone"))
  /\ Break("null")
  /\ UNCHANGED <<moduleVars, lock, pc, at, sessionVars, luaVars, workVars, habits>>

Take ==
  /\ At(Worker, "idle") /\ queue # <<>>
  /\ current' = Head(queue)
  /\ queue' = Tail(queue)
  /\ Goto(Worker, "find")
  /\ broken' = IF Changing # {} THEN "map" ELSE broken
  /\ UNCHANGED <<moduleVars, lock, at, sessionVars, luaVars, stopping, target, habits>>

\* do_execute returns at an unknown handle: nobody calls or frees the callback.
\* A command that only the call referred to may have been collected by now.
Find ==
  /\ At(Worker, "find")
  /\ LET x == peerlists[session[request[current].want].handle]
     IN  IF x = 0
         THEN /\ Goto(Worker, "idle")
              /\ current' = 0
              /\ UNCHANGED <<target, broken>>
         ELSE /\ Goto(Worker, "exec")
              /\ target' = [target EXCEPT ![current] = x]
              /\ \/ broken' = IF session[x].life = "freed" THEN "freed" ELSE broken
                 \/ Temporary /\ Break("text")
              /\ UNCHANGED current
  /\ UNCHANGED <<moduleVars, lock, at, sessionVars, luaVars, queue, stopping, habits>>

\* The shell has answered, or no channel could be opened.
Executed ==
  /\ At(Worker, "exec")
  /\ Goto(Worker, "lock")
  /\ UNCHANGED <<moduleVars, lock, at, sessionVars, luaVars, workVars, habits, broken>>

\* luaL_lock(theState), lua_rawgeti, lua_pcall: what is no function fails quietly.
Call ==
  /\ At(Worker, "lock") /\ lock[theState] = None
  /\ lock' = [lock EXCEPT ![theState] = Worker]
  /\ LET cell == registry[theState][request[current].ref]
     IN  replies' = IF cell[1] = "fn" THEN [replies EXCEPT ![cell[2]] = @ \cup {current}]
                                      ELSE replies
  /\ Goto(Worker, "run")
  /\ UNCHANGED <<moduleVars, at, sessionVars, registry, request, workVars, habits, broken>>

\* What ends g_thread's program by itself: the socket has a number beyond fd_set, or
\* the answer fills retbuf, which then has no final zero for lua_pushstring.
Overrun ==
  /\ \/ At(Worker, "exec") /\ Break("socket")
     \/ At(Worker, "lock") /\ lock[theState] = None /\ Break("retbuf")
  /\ UNCHANGED <<moduleVars, lock, pc, at, sessionVars, luaVars, workVars, habits>>

\* Mutant of Unlocked: luaL_unlock is left out.
StillLocked == lock

Unlocked == [lock EXCEPT ![theState] = None]

\* The callback is over: luaL_unref, luaL_unlock.
Called ==
  /\ At(Worker, "run")
  /\ registry' = [registry EXCEPT ![theState] = Unref(@, request[current].ref)]
  /\ lock' = Unlocked
  /\ current' = 0
  /\ Goto(Worker, "idle")
  /\ UNCHANGED <<moduleVars, at, sessionVars, request, replies, queue, stopping, target, habits,
                 broken>>

-----------------------------------------------------------------------------
(* destory                                                                 *)

\* Thread::Stop posts the end and joins.  The thread cannot join itself, and two
\* threads must not join it.
Destory(t) ==
  /\ Calls(t) /\ theSSH
  /\ habits' = habits \cup {"destory"}
  /\ IF t = Worker \/ \E u \in Scripts : At(u, "join")
     THEN Break("join") /\ UNCHANGED <<pc, stopping>>
     ELSE Goto(t, "join") /\ stopping' = TRUE /\ UNCHANGED broken
  /\ UNCHANGED <<moduleVars, lock, at, sessionVars, luaVars, queue, current, target>>

\* Mutant of LoopOver: the loop does not see that it is told to quit.
NeverOver == FALSE

\* QuitWhenIdle: what was posted before the end of the loop is still run.
LoopOver == stopping /\ queue = <<>>

End ==
  /\ At(Worker, "idle") /\ LoopOver
  /\ Goto(Worker, "gone")
  /\ UNCHANGED <<moduleVars, lock, at, sessionVars, luaVars, workVars, habits, broken>>

\* stop returns; the object is deleted, and the sessions it held stay open.
Joined(t) ==
  /\ At(t, "join") /\ At(Worker, "gone")
  /\ theSSH' = FALSE
  /\ Goto(t, "run")
  /\ broken' = IF InMap # {} THEN "deleted" ELSE broken
  /\ UNCHANGED <<theState, loaded, loads, lock, at, sessionVars, luaVars, workVars, habits>>

-----------------------------------------------------------------------------

Init ==
  /\ theSSH = FALSE /\ theState = None /\ loaded = {} /\ loads = 0
  /\ lock = [s \in Scripts |-> None]
  /\ pc = [t \in Threads |-> IF t = Worker THEN "gone" ELSE "out"]
  /\ at = [t \in Threads |-> 0]
  /\ handle = [kind \in Kinds |-> 0]
  /\ peerlists = [h \in Handles |-> 0]
  /\ session = [k \in Sessions |-> Fresh]
  /\ registry = [s \in Scripts |-> [i \in 0 .. MaxRequests |-> Nil]]
  /\ request = <<>> /\ queue = <<>> /\ stopping = FALSE /\ current = 0
  /\ target = [r \in Requests |-> 0]
  /\ replies = [r \in Requests |-> {}]
  /\ habits = {} /\ broken = "no"

Runnable(A) == broken = "no" /\ A

\* A call of the module that is under way goes on to its end.
Goes(t) == Insert(t) \/ Return(t) \/ Erase(t) \/ Joined(t)

Script(t) ==
  \/ \E kind \in Kinds : Connect(t, kind)
  \/ NoAuthlist(t)
  \/ \E k \in Sessions : Disconnect(t, k) \/ Request(t, k)
  \/ UseNull(t) \/ Destory(t) \/ Goes(t)

Serve == Take \/ Find \/ Executed \/ Called \/ End

Next ==
  \/ \E s \in Scripts : Runnable(Enter(s)) \/ Runnable(Leave(s)) \/ Runnable(Load(s))
  \/ \E t \in Threads : Runnable(Script(t))
  \/ Runnable(Serve) \/ Runnable(Call) \/ Runnable(Overrun)

Spec == Init /\ [][Next]_vars

\* The kernel runs the threads, scripts return to the host, the network calls of
\* libssh2 return, and who asks for a mutex again and again gets it.
FairSpec ==
  /\ Spec
  /\ \A s \in Scripts : WF_vars(Runnable(Leave(s)))
  /\ \A t \in Threads : WF_vars(Runnable(Goes(t)))
  /\ WF_vars(Runnable(Serve)) /\ SF_vars(Runnable(Call))

-----------------------------------------------------------------------------
(* Properties                                                              *)

\* Every variable has its type.
TypeOK ==
  /\ theSSH \in BOOLEAN /\ theState \in Scripts \cup {None} /\ loaded \subseteq Scripts
  /\ loads \in 0 .. MaxLoads
  /\ lock \in [Scripts -> Threads \cup {None}]
  /\ pc \in [Threads -> {"out", "run", "insert", "return", "erase", "join", "gone", "idle",
                         "find", "exec", "lock"}]
  /\ at \in [Threads -> 0 .. MaxSessions]
  /\ handle \in [Kinds -> Nat]
  /\ peerlists \in [Handles -> 0 .. MaxSessions]
  /\ session \in [Sessions -> [life : {"none", "open", "freed"}, kind : Kinds \cup {"none"},
                               by : Scripts \cup {None}, handle : Nat]]
  /\ request \in Seq([by : Scripts, want : Sessions, ref : Requests])
  /\ queue \in Seq(Requests) /\ stopping \in BOOLEAN /\ current \in 0 .. MaxRequests
  /\ target \in [Requests -> 0 .. MaxSessions]
  /\ replies \in [Requests -> SUBSET Requests]
  /\ habits \subseteq {"late", "outside", "others", "destory"}
  /\ broken \in {"no", "map", "freed", "null", "text", "join", "deleted", "authlist", "socket",
                 "retbuf"}

Opened == {k \in Sessions : session[k] # Fresh}

OneKind   == \A j, k \in Opened : session[j].kind = session[k].kind
OneOpener == \A j, k \in Opened : session[j].by = session[k].by

\* A command runs on the session whose handle it was given, if the scripts use
\* one of the two connects, which count their handles apart (ssh.cpp:120, 203),
\* and one script opens the sessions.
RightSession ==
  OneKind /\ OneOpener => \A r \in DOMAIN request : target[r] \in {0, request[r].want}

\* The command of r was run and its callback has been called.
Answered(r) == target[r] # 0 /\ ~(r = current /\ pc[Worker] \in {"exec", "lock"})

\* A callback is called once, with the answer to its own request, if that was run,
\* as long as only the script that loaded the module first makes requests: others
\* keep their callbacks in a registry do_execute does not look into (ssh.cpp:276).
OwnReply ==
  "others" \notin habits =>
    \A r \in Requests : replies[r] = IF Answered(r) THEN {r} ELSE {}

\* What one call may do by itself: the command was collected before it ran
\* (ssh.cpp:241), NULL is searched for the way to log in (ssh.cpp:97, 166), a socket
\* is beyond fd_set (ssh.cpp:222), the answer fills retbuf (ssh.cpp:258, 278).
Lone == {"authlist", "socket", "retbuf"} \cup IF Temporary THEN {"text"} ELSE {}

\* Beyond these four, a program that opens its sessions in one script and while
\* nothing is asked of them, closes them from callbacks alone and never calls
\* destory is not broken: no thread meets another in the map, uses a session that
\* was freed or an object that was deleted, or joins itself.
BreaksOnlyOutOfOrder ==
  OneOpener /\ habits \subseteq {"others"} => broken \in {"no"} \cup Lone

\* Every request is answered, or dropped at an unknown handle, unless destory is
\* called in the state of the callbacks.
Replied ==
  \A r \in Requests :
    r \in Pending ~> \/ r \notin Pending \/ broken # "no"
                     \/ theState # None /\ pc[theState] = "join"

\* destory returns, unless it holds the mutex that a request it waits for needs:
\* then neither the script nor g_thread ever goes on.
DestoryReturns ==
  \A s \in Scripts :
    At(s, "join") ~> \/ ~At(s, "join") \/ broken # "no"
                     \/ At(Worker, "lock") /\ theState = s
=============================================================================
