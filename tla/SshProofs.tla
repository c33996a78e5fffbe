------------------------------ MODULE SshProofs ------------------------------
(* Proofs about module Ssh: on which session a command runs, whose callback  *)
(* gets its answer, and what can break a program.                            *)
EXTENDS Ssh, SequenceTheorems, TLAPS

-----------------------------------------------------------------------------
(* Types.  The numbers luaL_ref gives out are left open here: only the       *)
(* answers depend on them (CellsOK).                                         *)

ScriptLabels == {"out", "run", "insert", "return", "erase", "join"}
WorkerLabels == {"gone", "idle", "find", "exec", "lock", "run", "insert", "return", "erase"}

SessionType == [life : {"none", "open", "freed"}, kind : Kinds \cup {"none"},
                by : Scripts \cup {None}, handle : 0 .. MaxSessions]

Calling(R) == [by : Scripts, want : Sessions, ref : R]

ModuleType ==
  /\ theSSH \in BOOLEAN /\ theState \in Scripts \cup {None} /\ loaded \subseteq Scripts
  /\ stopping \in BOOLEAN
  /\ habits \subseteq {"late", "outside", "others", "destory"}
LockType == lock \in [Scripts -> Threads \cup {None}]
PcType ==
  /\ pc \in [Threads -> ScriptLabels \cup WorkerLabels]
  /\ \A s \in Scripts : pc[s] \in ScriptLabels
  /\ pc[Worker] \in WorkerLabels
AtType      == at \in [Threads -> 0 .. MaxSessions]
HandleType  == handle \in [Kinds -> 0 .. MaxSessions]
ListType    == peerlists \in [Handles -> 0 .. MaxSessions]
OpenedType  == session \in [Sessions -> SessionType]
RequestType == \E R : request \in Seq(Calling(R))
QueueType   == queue \in Seq(Requests) /\ current \in 0 .. MaxRequests
TargetType  == target \in [Requests -> 0 .. MaxSessions]

TypeInv ==
  /\ ModuleType /\ LockType /\ PcType /\ AtType /\ HandleType /\ ListType /\ OpenedType
  /\ RequestType /\ QueueType /\ TargetType

\* Sessions are made in the order of their numbers, and no counter is ahead.
OrderOK ==
  \A k \in Sessions : session[k] = Fresh =>
    /\ \A j \in Sessions : j > k => session[j] = Fresh
    /\ \A kind \in Kinds : handle[kind] < k

\* g_thread runs only while there is an object, and the object has a state.
ObjectOK ==
  /\ theSSH => theState \in Scripts
  /\ pc[Worker] # "gone" => theSSH

\* Whoever is in a state has its mutex.
InState == {"run", "insert", "return", "erase", "join"}
LockOK == \A t \in Threads : pc[t] \in InState => lock[StateOf(t)] = t

\* What a thread is about while it is in a call of the module.
CallOK ==
  \A t \in Threads :
    /\ pc[t] \in {"insert", "return"} =>
         /\ at[t] \in Sessions /\ session[at[t]] # Fresh
         /\ session[at[t]].handle = 0 /\ session[at[t]].by = StateOf(t)
         /\ session[at[t]].kind \in Kinds
    /\ pc[t] = "erase" =>
         /\ at[t] \in Sessions
         /\ session[at[t]].handle # 0 /\ session[at[t]].by = StateOf(t)

\* A handle is one its counter has passed.
HandleOK ==
  \A k \in Sessions :
    LET n == session[k].handle
    IN  n # 0 => session[k].kind \in Kinds /\ n <= handle[session[k].kind]

\* Requests name sessions whose handle their script knew, and are run once made.
RequestOK ==
  /\ Len(request) <= MaxRequests
  /\ \A r \in DOMAIN request : /\ session[request[r].want].handle # 0
                               /\ session[request[r].want].by = request[r].by
  /\ \A i \in DOMAIN queue : queue[i] \in DOMAIN request
  /\ current # 0 => current \in DOMAIN request
  /\ pc[Worker] \notin {"gone", "idle"} <=> current # 0
  /\ \A r \in Requests : target[r] # 0 => r \in DOMAIN request

\* Entries are sessions that were opened.
ListOK == \A h \in Handles : peerlists[h] # 0 => session[peerlists[h]] # Fresh

BaseInv ==
  /\ TypeInv /\ OrderOK /\ ObjectOK /\ LockOK /\ CallOK /\ HandleOK /\ RequestOK /\ ListOK

-----------------------------------------------------------------------------
(* What holds while the sessions are of one kind and of one script.          *)

Entered(t) == pc[t] \in {"insert", "return"}
Counter(t) == handle[session[at[t]].kind]

HandlesApart ==
  \A j, k \in Sessions :
    session[j].handle # 0 /\ session[j].handle = session[k].handle => j = k

CounterNew ==
  \A t \in Threads, k \in Sessions : Entered(t) => session[k].handle # Counter(t)

EntriesOwn ==
  \A h \in Handles :
    LET k == peerlists[h]
    IN  k # 0 => /\ session[k] # Fresh
                 /\ \/ session[k].handle = h
                    \/ \E t \in Threads : pc[t] = "return" /\ at[t] = k /\ Counter(t) = h

OneInv ==
  OneKind /\ OneOpener =>
    HandlesApart /\ CounterNew /\ EntriesOwn /\ RightSession

-----------------------------------------------------------------------------
(* What holds in a program that keeps to the order.                          *)

InOrder == OneOpener /\ habits \subseteq {"others"}

NobodyEnds ==
  /\ ~stopping
  /\ \A s \in Scripts : pc[s] \notin {"erase", "join"}
  /\ loaded # {} => theSSH
  /\ theSSH => pc[Worker] # "gone"

NothingPending == \A s \in Scripts : Entered(s) => current = 0 /\ queue = <<>>

EntriesApart ==
  \A h, g \in Handles : peerlists[h] # 0 /\ peerlists[h] = peerlists[g] => h = g

EntriesOpen ==
  \A h \in Handles : peerlists[h] # 0 =>
    \/ session[peerlists[h]].life = "open"
    \/ pc[Worker] = "erase" /\ session[at[Worker]].handle = h

ToInsert ==
  \A t \in Threads : pc[t] = "insert" =>
    /\ session[at[t]].life = "open"
    /\ \A h \in Handles : peerlists[h] # at[t]

OrderCore == NobodyEnds /\ NothingPending /\ EntriesApart /\ EntriesOpen /\ ToInsert
Sound     == broken \in {"no"} \cup Lone

OrderInv == InOrder => OrderCore /\ Sound

-----------------------------------------------------------------------------
(* The types, step by step.                                                  *)

LEMMA ThreadFacts ==
  /\ Worker \in Threads /\ Worker \notin Scripts /\ None \notin Threads /\ None \notin Scripts
  /\ \A t \in Threads : t \in Scripts \/ t = Worker
  /\ \A s \in Scripts : s \in Threads /\ s # Worker
BY ConstAssumption DEF Threads

LEMMA GotoType ==
  ASSUME PcType, NEW t \in Threads, NEW l, pc' = [pc EXCEPT ![t] = l],
         t \in Scripts => l \in ScriptLabels, t = Worker => l \in WorkerLabels
  PROVE  PcType'
BY ThreadFacts DEF PcType, ScriptLabels, WorkerLabels

LEMMA WantIsSession ==
  ASSUME RequestType
  PROVE  \A r \in DOMAIN request : request[r].want \in Sessions /\ request[r].by \in Scripts
<1>1. PICK R : request \in Seq(Calling(R))
  BY DEF RequestType
<1>2. \A r \in DOMAIN request : request[r] \in Calling(R)
  BY <1>1
<1> QED
  BY <1>2 DEF Calling

LEMMA CurrentFacts ==
  ASSUME BaseInv, pc[Worker] \notin {"gone", "idle"}
  PROVE  LET k == request[current].want
         IN  /\ current \in DOMAIN request /\ current \in Requests
             /\ k \in Sessions /\ session[k].handle \in Handles
             /\ peerlists[session[k].handle] \in 0 .. MaxSessions
<1> USE ConstAssumption DEF BaseInv
<1>1. current \in DOMAIN request /\ current \in Requests
  BY DEF RequestOK, TypeInv, QueueType, Requests
<1>2. request[current].want \in Sessions
  BY <1>1, WantIsSession DEF TypeInv
<1>3. session[request[current].want].handle \in Handles
  BY <1>1, <1>2 DEF RequestOK, TypeInv, OpenedType, SessionType, Handles
<1>4. peerlists[session[request[current].want].handle] \in 0 .. MaxSessions
  BY <1>3 DEF TypeInv, ListType
<1> QED
  BY <1>1, <1>2, <1>3, <1>4

LEMMA InitBase == Init => BaseInv
<1> SUFFICES ASSUME Init PROVE BaseInv
  OBVIOUS
<1> USE ConstAssumption DEF Init, Threads, Sessions, Handles, Requests
<1>1. RequestType
  <2>1. request \in Seq(Calling({}))
    OBVIOUS
  <2> QED
    BY <2>1 DEF RequestType
<1>2. LockType /\ AtType /\ HandleType /\ ListType /\ TargetType
  BY DEF LockType, AtType, HandleType, ListType, TargetType
<1>6. ModuleType
  BY DEF ModuleType
<1>7. QueueType
  BY DEF QueueType
<1>3. PcType
  BY DEF PcType, ScriptLabels, WorkerLabels
<1>4. OpenedType
  BY DEF OpenedType, SessionType, Fresh
<1>5. OrderOK /\ ObjectOK /\ LockOK /\ CallOK /\ HandleOK /\ RequestOK /\ ListOK
  BY DEF OrderOK, ObjectOK, LockOK, InState, CallOK, HandleOK, RequestOK, ListOK, Fresh
<1> QED
  BY <1>1, <1>2, <1>3, <1>4, <1>5, <1>6, <1>7 DEF BaseInv, TypeInv

LEMMA HostType ==
  ASSUME BaseInv, NEW s \in Scripts, Enter(s) \/ Leave(s) \/ Load(s)
  PROVE  TypeInv'
<1> USE ConstAssumption, ThreadFacts DEF BaseInv, TypeInv
<1>1. s \in Threads
  BY DEF Threads
<1>2. ModuleType'
  BY DEF ModuleType, Enter, Leave, Load, moduleVars, workVars
<1>3. LockType'
  BY <1>1 DEF LockType, Enter, Leave, Load
<1>4. PcType'
  <2>1. "run" \in ScriptLabels /\ "out" \in ScriptLabels /\ "idle" \in WorkerLabels
    BY DEF ScriptLabels, WorkerLabels
  <2>2. CASE Enter(s) \/ Leave(s)
    BY <1>1, <2>1, <2>2, GotoType DEF Enter, Leave, Goto
  <2>3. CASE Load(s) /\ ~theSSH
    BY <2>1, <2>3, GotoType DEF Load
  <2> QED
    BY <2>2, <2>3 DEF Load, PcType
<1>5. AtType' /\ HandleType' /\ OpenedType'
  BY DEF AtType, HandleType, OpenedType, Enter, Leave, Load, sessionVars
<1>6. ListType'
  BY DEF ListType, Enter, Leave, Load, sessionVars
<1>7. QueueType'
  <2>1. << >> \in Seq(Requests)
    OBVIOUS
  <2> QED
    BY <2>1 DEF QueueType, Enter, Leave, Load, workVars
<1>8. RequestType' /\ TargetType'
  BY DEF RequestType, TargetType, Enter, Leave, Load, luaVars, workVars
<1> QED
  BY <1>2, <1>3, <1>4, <1>5, <1>6, <1>7, <1>8

LEMMA ConnectType ==
  ASSUME BaseInv, NEW t \in Threads, NEW kind \in Kinds, Connect(t, kind)
  PROVE  TypeInv'
<1> USE ConstAssumption, ThreadFacts DEF BaseInv, TypeInv
<1>1. PICK k \in Sessions :
        /\ session[k] = Fresh
        /\ session' = [session EXCEPT ![k] = [life |-> "open", kind |-> kind, by |-> StateOf(t),
                                             handle |-> 0]]
        /\ at' = [at EXCEPT ![t] = k]
  BY DEF Connect
<1>2. HandleType'
  <2>1. handle[kind] < k
    BY <1>1 DEF OrderOK
  <2> QED
    BY <2>1 DEF Connect, NewHandle, HandleType, Sessions
<1>3. OpenedType'
  <2>1. StateOf(t) \in Scripts
    BY DEF StateOf, Connect, Calls, ModuleType
  <2>2. [life |-> "open", kind |-> kind, by |-> StateOf(t), handle |-> 0] \in SessionType
    BY <2>1 DEF SessionType
  <2> QED
    BY <1>1, <2>2 DEF OpenedType
<1>4. PcType'
  BY DEF Connect, Goto, ScriptLabels, WorkerLabels, PcType
<1>5. ModuleType'
  BY DEF Connect, Habit, ModuleType, moduleVars, workVars
<1>6. AtType'
  BY <1>1 DEF AtType, Sessions
<1>7. LockType' /\ ListType' /\ RequestType' /\ QueueType' /\ TargetType'
  BY DEF Connect, LockType, ListType, RequestType, QueueType, TargetType, luaVars, workVars
<1> QED
  BY <1>2, <1>3, <1>4, <1>5, <1>6, <1>7

LEMMA GoesType ==
  ASSUME BaseInv, NEW t \in Threads, Goes(t)
  PROVE  TypeInv'
<1> USE ConstAssumption, ThreadFacts DEF BaseInv, TypeInv, Goes
<1>1. ModuleType' /\ LockType' /\ RequestType' /\ QueueType' /\ TargetType'
  BY DEF Insert, Return, Erase, Joined, ModuleType, LockType, RequestType, QueueType, TargetType,
         moduleVars, luaVars, workVars
<1>2. PcType'
  <2>1. {"run", "return"} \subseteq ScriptLabels /\ {"run", "return"} \subseteq WorkerLabels
    BY DEF ScriptLabels, WorkerLabels
  <2> QED
    BY <2>1, GotoType DEF Insert, Return, Erase, Joined, Goto
<1>3. AtType'
  BY DEF Insert, Return, Erase, Joined, AtType
<1>4. HandleType'
  BY DEF Insert, Return, Erase, Joined, HandleType, sessionVars
<1>5. ListType'
  BY DEF Insert, Return, Erase, Joined, Erased, ListType, AtType, sessionVars
<1>6. OpenedType'
  <2>1. CASE Return(t)
    <3>1. at[t] \in Sessions /\ session[at[t]].kind \in Kinds
      BY <2>1 DEF Return, CallOK, At
    <3>2. session[at[t]] \in SessionType /\ handle[session[at[t]].kind] \in 0 .. MaxSessions
      BY <3>1 DEF OpenedType, HandleType
    <3>3. [session[at[t]] EXCEPT !.handle = handle[session[at[t]].kind]] \in SessionType
      BY <3>2 DEF SessionType
    <3> QED
      BY <2>1, <3>3 DEF Return, OpenedType
  <2> QED
    BY <2>1 DEF Insert, Erase, Joined, OpenedType, sessionVars
<1> QED
  BY <1>1, <1>2, <1>3, <1>4, <1>5, <1>6

LEMMA DisconnectType ==
  ASSUME BaseInv, NEW t \in Threads, NEW k \in Sessions, Disconnect(t, k)
  PROVE  TypeInv'
<1> USE ConstAssumption, ThreadFacts DEF BaseInv, TypeInv
<1> DEFINE x == peerlists[session[k].handle]
<1>1. OpenedType'
  <2>1. session' = [session EXCEPT ![x] = [session[x] EXCEPT !.life = "freed"]]
    BY DEF Disconnect
  <2>2. x \in Sessions => [session[x] EXCEPT !.life = "freed"] \in SessionType
    BY DEF SessionType, OpenedType
  <2> QED
    BY <2>1, <2>2 DEF OpenedType
<1>2. PcType'
  BY DEF Disconnect, Goto, PcType, ScriptLabels, WorkerLabels
<1>3. ModuleType' /\ AtType'
  BY DEF Disconnect, Habit, ModuleType, AtType, Sessions, moduleVars, workVars
<1>4. LockType' /\ HandleType' /\ ListType' /\ RequestType' /\ QueueType' /\ TargetType'
  BY DEF Disconnect, LockType, HandleType, ListType, RequestType, QueueType, TargetType, luaVars,
         workVars
<1> QED
  BY <1>1, <1>2, <1>3, <1>4

LEMMA RequestMade ==
  ASSUME BaseInv, NEW t \in Threads, NEW k \in Sessions, Request(t, k)
  PROVE  /\ StateOf(t) \in Scripts
         /\ Len(request) \in Nat /\ Len(request') = Len(request) + 1
         /\ Len(request) + 1 \in Requests
         /\ \A r \in DOMAIN request : request'[r] = request[r]
         /\ request'[Len(request) + 1].by = StateOf(t)
         /\ request'[Len(request) + 1].want = k
         /\ queue' = Append(queue, Len(request) + 1)
         /\ RequestType'
<1> DEFINE call == [by |-> StateOf(t), want |-> k, ref |-> NewRef(registry[StateOf(t)])]
<1>1. StateOf(t) \in Scripts
  BY DEF Request, Calls, StateOf, BaseInv, TypeInv, ModuleType
<1>2. PICK R : request \in Seq(Calling(R))
  BY DEF BaseInv, TypeInv, RequestType
<1>3. /\ request' = Append(request, call)
      /\ queue' = Append(queue, Len(request) + 1)
      /\ Len(request) < MaxRequests
  BY DEF Request
<1>4. request \in Seq(Calling(R \cup {call.ref}))
  <2>1. Calling(R) \subseteq Calling(R \cup {call.ref})
    BY DEF Calling
  <2> QED
    BY <1>2, <2>1, SeqMonotonic
<1>5. call \in Calling(R \cup {call.ref})
  BY <1>1 DEF Calling
<1>6. RequestType'
  BY <1>3, <1>4, <1>5, AppendProperties DEF RequestType
<1>7. Len(request) \in Nat /\ Len(request) + 1 \in Requests
  BY <1>2, <1>3, ConstAssumption DEF Requests
<1>8. /\ Len(request') = Len(request) + 1
      /\ \A r \in DOMAIN request : request'[r] = request[r]
      /\ request'[Len(request) + 1] = call
  BY <1>3, <1>4, <1>5
<1> QED
  BY <1>1, <1>3, <1>6, <1>7, <1>8

LEMMA ScriptType ==
  ASSUME BaseInv, NEW t \in Threads, NEW k,
         (k \in Sessions /\ Request(t, k)) \/ UseNull(t) \/ Destory(t)
  PROVE  TypeInv'
<1> USE ConstAssumption, ThreadFacts DEF BaseInv, TypeInv
<1>1. CASE k \in Sessions /\ Request(t, k)
  <2>1. RequestType'
    BY <1>1, RequestMade
  <2>2. QueueType'
    BY <1>1, RequestMade, AppendProperties DEF QueueType, Request
  <2> QED
    BY <1>1, <2>1, <2>2 DEF Request, Habit, ModuleType, LockType, PcType, AtType, HandleType,
       ListType, OpenedType, TargetType, moduleVars, sessionVars
<1>2. CASE UseNull(t)
  BY <1>2 DEF UseNull, ModuleType, LockType, PcType, AtType, HandleType, ListType, OpenedType,
     RequestType, QueueType, TargetType, moduleVars, sessionVars, luaVars, workVars
<1>3. CASE Destory(t)
  <2>1. PcType'
    <3>1. CASE Goto(t, "join") /\ t # Worker
      BY <3>1, GotoType DEF Goto, ScriptLabels
    <3> QED
      BY <1>3, <3>1 DEF Destory, PcType
  <2> QED
    BY <1>3, <2>1 DEF Destory, Break, ModuleType, LockType, AtType, HandleType, ListType,
       OpenedType, RequestType, QueueType, TargetType, moduleVars, sessionVars, luaVars
<1> QED
  BY <1>1, <1>2, <1>3

LEMMA ServeType ==
  ASSUME BaseInv, Serve \/ Call
  PROVE  TypeInv'
<1> USE ConstAssumption, ThreadFacts DEF BaseInv, TypeInv, Serve
<1>1. PcType'
  <2>1. \A l : Goto(Worker, l) /\ l \in WorkerLabels => PcType'
    BY GotoType DEF Goto
  <2> QED
    BY <2>1 DEF Take, Find, Executed, Called, End, Call, WorkerLabels
<1>2. LockType'
  BY DEF Take, Find, Executed, Called, End, Call, Unlocked, LockType
<1>3. QueueType'
  <2>1. queue # << >> => Head(queue) \in Requests /\ Tail(queue) \in Seq(Requests)
    BY HeadTailProperties DEF QueueType
  <2>2. \A r \in Requests : r \in 0 .. MaxRequests
    BY DEF Requests
  <2>3. CASE Take
    BY <2>1, <2>2, <2>3 DEF Take, QueueType
  <2> QED
    BY <2>3 DEF Find, Executed, Called, End, Call, workVars, QueueType
<1>4. TargetType'
  <2>1. CASE Find
    <3>1. /\ pc[Worker] \notin {"gone", "idle"}
          /\ target' = target \/ target' = [target EXCEPT ![current] =
                                peerlists[session[request[current].want].handle]]
      BY <2>1 DEF Find, At
    <3> QED
      BY <3>1, CurrentFacts DEF TargetType
  <2> QED
    BY <2>1 DEF Take, Executed, Called, End, Call, workVars, TargetType
<1>5. ModuleType' /\ AtType' /\ HandleType' /\ ListType' /\ OpenedType'
  <2>1. UNCHANGED <<moduleVars, at, sessionVars, stopping, habits>>
    BY DEF Take, Find, Executed, Called, End, Call, workVars
  <2> QED
    BY <2>1 DEF ModuleType, AtType, HandleType, ListType, OpenedType, moduleVars, sessionVars
<1>6. RequestType'
  BY DEF Take, Find, Executed, Called, End, Call, RequestType, luaVars
<1> QED
  BY <1>1, <1>2, <1>3, <1>4, <1>5, <1>6

-----------------------------------------------------------------------------
(* The rest of the base, step by step.                                       *)

\* What no step takes back.
Kept ==
  \A k \in Sessions : session[k] # Fresh =>
    /\ session'[k] # Fresh
    /\ session'[k].kind = session[k].kind /\ session'[k].by = session[k].by
    /\ session[k].handle # 0 => session'[k].handle = session[k].handle

LEMMA StateIsScript ==
  ASSUME BaseInv, NEW t \in Threads, pc[t] # "gone"
  PROVE  StateOf(t) \in Scripts
BY ThreadFacts DEF StateOf, BaseInv, ObjectOK

\* No two threads are in one state.
LEMMA OneInState ==
  ASSUME BaseInv, NEW t \in Threads, NEW u \in Threads,
         pc[t] \in InState, pc[u] \in InState, StateOf(t) = StateOf(u)
  PROVE  t = u
BY DEF BaseInv, LockOK

LEMMA HostBase ==
  ASSUME BaseInv, NEW s \in Scripts, Enter(s) \/ Leave(s) \/ Load(s)
  PROVE  BaseInv' /\ Kept
<1> USE ConstAssumption, ThreadFacts
<1>1. TypeInv'
  BY HostType
<1>2. /\ UNCHANGED <<at, handle, session, request, current, target>>
      /\ peerlists' = peerlists \/ peerlists' = [h \in Handles |-> 0]
      /\ queue' = queue \/ queue' = << >>
  BY DEF Enter, Leave, Load, sessionVars, luaVars, workVars
<1>3. Kept /\ OrderOK' /\ HandleOK'
  BY <1>2 DEF Kept, OrderOK, HandleOK, BaseInv
<1>4. ListOK'
  BY <1>2 DEF ListOK, BaseInv
<1>5. /\ s \in Threads /\ pc \in [Threads -> ScriptLabels \cup WorkerLabels]
      /\ lock \in [Scripts -> Threads \cup {None}]
  BY DEF Threads, BaseInv, TypeInv, PcType, LockType
<1>6. CASE Enter(s) \/ Leave(s)
  <2>1. /\ theState' = theState /\ theSSH' = theSSH
        /\ pc[s] \in {"out", "run"} /\ pc'[s] \in {"out", "run"}
        /\ \A t \in Threads : t # s => pc'[t] = pc[t]
    BY <1>5, <1>6 DEF Enter, Leave, At, Goto, moduleVars
  <2>2. ObjectOK' /\ CallOK'
    BY <1>2, <2>1 DEF BaseInv, ObjectOK, CallOK, StateOf
  <2>3. RequestOK'
    BY <1>2, <1>6, <2>1 DEF BaseInv, RequestOK, Enter, Leave, workVars
  <2>4. LockOK'
    <3> SUFFICES ASSUME NEW t \in Threads, pc'[t] \in InState
                 PROVE  lock'[StateOf(t)'] = t
      BY DEF LockOK
    <3>1. CASE t = s
      BY <1>5, <1>6, <2>1, <3>1 DEF Enter, Leave, Goto, StateOf, InState
    <3>2. CASE t # s
      <4>1. pc[t] \in InState /\ lock[StateOf(t)] = t /\ StateOf(t) \in Scripts
        BY <2>1, <3>2, StateIsScript DEF BaseInv, LockOK, InState
      <4>2. StateOf(t) # s
        <5>1. CASE Enter(s)
          BY <4>1, <5>1 DEF Enter
        <5>2. CASE Leave(s)
          BY <1>5, <3>2, <4>1, <5>2 DEF Leave, At, BaseInv, LockOK, InState, StateOf
        <5> QED
          BY <1>6, <5>1, <5>2
      <4> QED
        BY <1>5, <1>6, <2>1, <4>1, <4>2 DEF Enter, Leave, StateOf
    <3> QED
      BY <3>1, <3>2
  <2> QED
    BY <1>1, <1>3, <1>4, <2>2, <2>3, <2>4 DEF BaseInv
<1>7. CASE Load(s) /\ theSSH
  <2>1. UNCHANGED <<theSSH, theState, pc, lock, queue>>
    BY <1>7 DEF Load
  <2>2. ObjectOK' /\ CallOK' /\ LockOK' /\ RequestOK'
    BY <1>2, <2>1 DEF BaseInv, ObjectOK, CallOK, LockOK, RequestOK, StateOf
  <2> QED
    BY <1>1, <1>3, <1>4, <2>2 DEF BaseInv
<1>8. CASE Load(s) /\ ~theSSH
  <2>1. /\ theSSH' /\ theState' = s /\ lock' = lock /\ queue' = << >>
        /\ pc[Worker] = "gone" /\ pc'[Worker] = "idle"
        /\ \A t \in Threads : t # Worker => pc'[t] = pc[t]
    BY <1>5, <1>8 DEF Load, BaseInv, ObjectOK
  <2>2. ObjectOK'
    BY <2>1 DEF ObjectOK
  <2>3. CallOK' /\ LockOK'
    BY <1>2, <2>1 DEF BaseInv, CallOK, LockOK, StateOf, InState
  <2>4. RequestOK'
    BY <1>2, <2>1 DEF BaseInv, RequestOK
  <2> QED
    BY <1>1, <1>3, <1>4, <2>2, <2>3, <2>4 DEF BaseInv
<1> QED
  BY <1>6, <1>7, <1>8

LEMMA ConnectBase ==
  ASSUME BaseInv, NEW t \in Threads, NEW kind \in Kinds, Connect(t, kind)
  PROVE  BaseInv' /\ Kept
<1> USE ConstAssumption, ThreadFacts
<1>1. TypeInv'
  BY ConnectType
<1>2. PICK k \in Sessions :
        /\ session[k] = Fresh /\ \A j \in 1 .. k - 1 : session[j] # Fresh
        /\ session' = [session EXCEPT ![k] = [life |-> "open", kind |-> kind, by |-> StateOf(t),
                                             handle |-> 0]]
        /\ at' = [at EXCEPT ![t] = k]
  BY DEF Connect
<1>3. /\ session \in [Sessions -> SessionType] /\ at \in [Threads -> 0 .. MaxSessions]
      /\ handle \in [Kinds -> 0 .. MaxSessions]
      /\ pc \in [Threads -> ScriptLabels \cup WorkerLabels]
  BY DEF BaseInv, TypeInv, OpenedType, AtType, HandleType, PcType
<1>4. /\ session'[k] # Fresh /\ session'[k].handle = 0
      /\ session'[k].kind = kind /\ session'[k].by = StateOf(t)
      /\ \A j \in Sessions : j # k => session'[j] = session[j]
  BY <1>2, <1>3 DEF Fresh
<1>5. /\ pc[t] = "run" /\ pc'[t] = "insert" /\ at'[t] = k
      /\ \A u \in Threads : u # t => pc'[u] = pc[u] /\ at'[u] = at[u]
      /\ UNCHANGED <<moduleVars, lock, peerlists, luaVars, workVars>>
  BY <1>2, <1>3 DEF Connect, Calls, At, Goto
<1>6. /\ handle'[kind] = handle[kind] + 1
      /\ \A n \in Kinds : handle'[n] \in {handle[n], handle[n] + 1}
  BY <1>3 DEF Connect, NewHandle
<1>7. Kept
  BY <1>2, <1>4 DEF Kept
<1>8. OrderOK'
  <2> SUFFICES ASSUME NEW j \in Sessions, session'[j] = Fresh
               PROVE  /\ \A i \in Sessions : i > j => session'[i] = Fresh
                      /\ \A n \in Kinds : handle'[n] < j
    BY DEF OrderOK
  <2>1. j > k /\ session[j] = Fresh
    BY <1>2, <1>4 DEF Sessions
  <2>2. \A n \in Kinds : handle[n] < k
    BY <1>2 DEF BaseInv, OrderOK
  <2>3. \A n \in Kinds : handle'[n] < j
    BY <1>3, <1>6, <2>1, <2>2 DEF Sessions
  <2>4. \A i \in Sessions : i > j => session'[i] = Fresh
    BY <1>4, <2>1 DEF BaseInv, OrderOK, Sessions
  <2> QED
    BY <2>3, <2>4
<1>9. ObjectOK'
  BY <1>5 DEF BaseInv, ObjectOK, moduleVars
<1>10. LockOK'
  BY <1>5 DEF BaseInv, LockOK, InState, StateOf, moduleVars
<1>11. CallOK'
  <2> SUFFICES ASSUME NEW u \in Threads, u # t
               PROVE  /\ pc'[u] \in {"insert", "return"} =>
                           /\ at'[u] \in Sessions /\ session'[at'[u]] # Fresh
                           /\ session'[at'[u]].handle = 0 /\ session'[at'[u]].by = StateOf(u)'
                           /\ session'[at'[u]].kind \in Kinds
                      /\ pc'[u] = "erase" =>
                           /\ at'[u] \in Sessions
                           /\ session'[at'[u]].handle # 0 /\ session'[at'[u]].by = StateOf(u)'
    BY <1>4, <1>5 DEF CallOK, StateOf, moduleVars
  <2>1. StateOf(u)' = StateOf(u) /\ pc'[u] = pc[u] /\ at'[u] = at[u]
    BY <1>5 DEF StateOf, moduleVars
  <2>2. pc[u] \in {"insert", "return", "erase"} => at[u] \in Sessions /\ at[u] # k
    BY <1>2 DEF BaseInv, CallOK, Fresh
  <2> QED
    BY <1>4, <2>1, <2>2 DEF BaseInv, CallOK
<1>12. HandleOK'
  <2> SUFFICES ASSUME NEW j \in Sessions, session'[j].handle # 0
               PROVE  /\ session'[j].kind \in Kinds
                      /\ session'[j].handle <= handle'[session'[j].kind]
    BY DEF HandleOK
  <2>1. session'[j] = session[j] /\ session[j].handle \in 0 .. MaxSessions
    BY <1>3, <1>4 DEF SessionType
  <2>2. session[j].kind \in Kinds /\ session[j].handle <= handle[session[j].kind]
    BY <2>1 DEF BaseInv, HandleOK
  <2>3. PICK n \in Kinds : n = session[j].kind
    BY <2>1, <2>2
  <2>4. handle[n] \in 0 .. MaxSessions /\ handle'[n] \in {handle[n], handle[n] + 1}
    BY <1>3, <1>6
  <2>5. session[j].handle <= handle'[n]
    BY <2>1, <2>2, <2>3, <2>4
  <2> QED
    BY <2>1, <2>3, <2>5
<1>13. RequestOK'
  <2>1. \A r \in DOMAIN request : request[r].want \in Sessions
    BY WantIsSession DEF BaseInv, TypeInv
  <2>2. \A r \in DOMAIN request :
          session'[request[r].want].handle # 0 /\ session'[request[r].want].by = request[r].by
    BY <1>2, <1>4, <2>1 DEF BaseInv, RequestOK, Fresh
  <2>3. pc'[Worker] \in {"gone", "idle"} <=> pc[Worker] \in {"gone", "idle"}
    BY <1>5
  <2> QED
    BY <1>5, <2>2, <2>3 DEF BaseInv, RequestOK, luaVars, workVars
<1>14. ListOK'
  <2>1. \A h \in Handles : peerlists[h] # 0 => peerlists[h] \in Sessions
    BY DEF BaseInv, TypeInv, ListType, Sessions, Handles
  <2> QED
    BY <1>5, <1>7, <2>1 DEF BaseInv, ListOK, Kept
<1> QED
  BY <1>1, <1>7, <1>8, <1>9, <1>10, <1>11, <1>12, <1>13, <1>14 DEF BaseInv

LEMMA ReturnBase ==
  ASSUME BaseInv, NEW t \in Threads, Return(t)
  PROVE  BaseInv' /\ Kept
<1> USE ConstAssumption, ThreadFacts
<1> DEFINE k == at[t]
<1>1. TypeInv'
  BY GoesType DEF Goes
<1>2. /\ k \in Sessions /\ session[k] # Fresh /\ session[k].handle = 0
      /\ session[k].by = StateOf(t) /\ session[k].kind \in Kinds
  BY DEF Return, At, BaseInv, CallOK
<1>3. /\ session \in [Sessions -> SessionType] /\ at \in [Threads -> 0 .. MaxSessions]
      /\ handle \in [Kinds -> 0 .. MaxSessions]
      /\ pc \in [Threads -> ScriptLabels \cup WorkerLabels]
  BY DEF BaseInv, TypeInv, OpenedType, AtType, HandleType, PcType
<1>4. /\ session'[k].handle = handle[session[k].kind]
      /\ session'[k].kind = session[k].kind /\ session'[k].by = session[k].by
      /\ \A j \in Sessions : j # k => session'[j] = session[j]
  BY <1>2, <1>3 DEF Return, SessionType
<1>5. /\ pc[t] = "return" /\ pc'[t] = "run"
      /\ \A u \in Threads : u # t => pc'[u] = pc[u] /\ at'[u] = at[u]
      /\ UNCHANGED <<moduleVars, lock, handle, peerlists, luaVars, workVars>>
  BY <1>3 DEF Return, At, Goto
<1>6. session'[k] # Fresh
  BY <1>2, <1>4 DEF Fresh
<1>7. Kept
  BY <1>2, <1>4, <1>6 DEF Kept
<1>8. OrderOK'
  <2>1. \A j \in Sessions : session'[j] = Fresh <=> session[j] = Fresh
    BY <1>2, <1>4, <1>6
  <2> QED
    BY <1>5, <2>1 DEF BaseInv, OrderOK
<1>9. ObjectOK' /\ LockOK'
  BY <1>5 DEF BaseInv, ObjectOK, LockOK, InState, StateOf, moduleVars
<1>10. CallOK'
  <2> SUFFICES ASSUME NEW u \in Threads, u # t
               PROVE  /\ pc'[u] \in {"insert", "return"} =>
                           /\ at'[u] \in Sessions /\ session'[at'[u]] # Fresh
                           /\ session'[at'[u]].handle = 0 /\ session'[at'[u]].by = StateOf(u)'
                           /\ session'[at'[u]].kind \in Kinds
                      /\ pc'[u] = "erase" =>
                           /\ at'[u] \in Sessions
                           /\ session'[at'[u]].handle # 0 /\ session'[at'[u]].by = StateOf(u)'
    BY <1>5 DEF CallOK, StateOf, moduleVars
  <2>1. StateOf(u)' = StateOf(u) /\ pc'[u] = pc[u] /\ at'[u] = at[u]
    BY <1>5 DEF StateOf, moduleVars
  <2>2. pc[u] \in {"insert", "return", "erase"} => at[u] # k
    BY <1>2, <1>5, OneInState DEF BaseInv, CallOK, InState
  <2> QED
    BY <1>4, <2>1, <2>2 DEF BaseInv, CallOK
<1>11. HandleOK'
  <2>1. handle[session[k].kind] \in Nat
    <3>1. PICK n \in Kinds : n = session[k].kind
      BY <1>2
    <3>2. handle[n] \in 0 .. MaxSessions
      BY <1>3
    <3> QED
      BY <3>1, <3>2
  <2> QED
    BY <1>2, <1>4, <1>5, <2>1 DEF BaseInv, HandleOK
<1>12. RequestOK'
  <2>1. \A r \in DOMAIN request :
          session'[request[r].want].handle # 0 /\ session'[request[r].want].by = request[r].by
    BY <1>2, <1>4, WantIsSession DEF BaseInv, RequestOK, TypeInv
  <2>2. pc'[Worker] \in {"gone", "idle"} <=> pc[Worker] \in {"gone", "idle"}
    BY <1>5
  <2> QED
    BY <1>5, <2>1, <2>2 DEF BaseInv, RequestOK, luaVars, workVars
<1>13. ListOK'
  <2>1. \A h \in Handles : peerlists[h] # 0 => peerlists[h] \in Sessions
    BY DEF BaseInv, TypeInv, ListType, Sessions, Handles
  <2> QED
    BY <1>5, <1>7, <2>1 DEF BaseInv, ListOK, Kept
<1> QED
  BY <1>1, <1>7, <1>8, <1>9, <1>10, <1>11, <1>12, <1>13 DEF BaseInv

LEMMA MapBase ==
  ASSUME BaseInv, NEW t \in Threads, Insert(t) \/ Erase(t) \/ Joined(t)
  PROVE  BaseInv' /\ Kept
<1> USE ConstAssumption, ThreadFacts
<1>1. TypeInv'
  BY GoesType DEF Goes
<1>2. pc \in [Threads -> ScriptLabels \cup WorkerLabels] /\ at \in [Threads -> 0 .. MaxSessions]
  BY DEF BaseInv, TypeInv, PcType, AtType
<1>3. /\ pc[t] \in {"insert", "erase", "join"}
      /\ pc'[t] = IF Insert(t) THEN "return" ELSE "run"
      /\ pc[t] = "insert" => Insert(t) /\ at' = at
      /\ \A u \in Threads : u # t => pc'[u] = pc[u] /\ at'[u] = at[u]
      /\ UNCHANGED <<theState, lock, handle, session, luaVars, workVars>>
  BY <1>2 DEF Insert, Erase, Joined, At, Goto, moduleVars, sessionVars
<1>4. Kept /\ OrderOK' /\ HandleOK'
  BY <1>3 DEF Kept, OrderOK, HandleOK, BaseInv
<1>5. ObjectOK'
  <2>1. CASE Joined(t)
    <3>1. t # Worker
      BY <2>1 DEF Joined, At
    <3> QED
      BY <1>3, <2>1, <3>1 DEF Joined, At, ObjectOK
  <2> QED
    BY <1>3, <2>1 DEF Insert, Erase, moduleVars, BaseInv, ObjectOK
<1>6. LockOK'
  BY <1>3 DEF BaseInv, LockOK, InState, StateOf
<1>7. CallOK'
  <2>1. \A u \in Threads : StateOf(u)' = StateOf(u)
    BY <1>3 DEF StateOf
  <2>2. \A u \in Threads : u # t => pc'[u] = pc[u] /\ at'[u] = at[u]
    BY <1>3
  <2>3. pc'[t] \in {"run", "return"} /\ (pc'[t] = "return" => pc[t] = "insert" /\ at' = at)
    BY <1>2, <1>3 DEF Insert, At
  <2>4. session' = session
    BY <1>3
  <2> QED
    BY <2>1, <2>2, <2>3, <2>4 DEF BaseInv, CallOK
<1>8. RequestOK'
  <2>1. pc'[Worker] \in {"gone", "idle"} <=> pc[Worker] \in {"gone", "idle"}
    BY <1>3
  <2> QED
    BY <1>3, <2>1 DEF BaseInv, RequestOK, luaVars, workVars
<1>9. ListOK'
  <2>1. CASE Insert(t)
    <3>1. session[at[t]] # Fresh
      BY <2>1 DEF Insert, At, BaseInv, CallOK
    <3> QED
      BY <1>3, <2>1, <3>1 DEF Insert, BaseInv, ListOK, TypeInv, ListType
  <2>2. CASE ~Insert(t)
    BY <1>3, <2>2 DEF Erase, Erased, Joined, sessionVars, BaseInv, ListOK, TypeInv, ListType
  <2> QED
    BY <2>1, <2>2
<1> QED
  BY <1>1, <1>4, <1>5, <1>6, <1>7, <1>8, <1>9 DEF BaseInv

LEMMA DisconnectBase ==
  ASSUME BaseInv, NEW t \in Threads, NEW k \in Sessions, Disconnect(t, k)
  PROVE  BaseInv' /\ Kept
<1> USE ConstAssumption, ThreadFacts
<1> DEFINE x == peerlists[session[k].handle]
<1>1. TypeInv'
  BY DisconnectType
<1>2. /\ session \in [Sessions -> SessionType] /\ at \in [Threads -> 0 .. MaxSessions]
      /\ pc \in [Threads -> ScriptLabels \cup WorkerLabels]
  BY DEF BaseInv, TypeInv, OpenedType, AtType, PcType
<1>3. /\ session' = [session EXCEPT ![x].life = "freed"]
      /\ \A j \in Sessions : /\ session'[j].kind = session[j].kind
                             /\ session'[j].by = session[j].by
                             /\ session'[j].handle = session[j].handle
                             /\ session'[j] = session[j] \/ (session'[j].life = "freed" /\ j = x)
  <2>1. session' = [session EXCEPT ![x].life = "freed"]
    BY DEF Disconnect
  <2>2. \A j \in Sessions : j # x => session'[j] = session[j]
    BY <1>2, <2>1
  <2>3. x \in Sessions => session'[x] = [session[x] EXCEPT !.life = "freed"]
    BY <1>2, <2>1
  <2>4. x \in Sessions => session[x] \in SessionType
    BY <1>2
  <2>5. x \in Sessions => /\ session'[x].kind = session[x].kind
                          /\ session'[x].by = session[x].by
                          /\ session'[x].handle = session[x].handle
                          /\ session'[x].life = "freed"
    BY <2>3, <2>4 DEF SessionType
  <2> QED
    BY <2>1, <2>2, <2>5
<1>4. /\ pc[t] = "run" /\ pc'[t] = "erase" /\ at'[t] = k
      /\ \A u \in Threads : u # t => pc'[u] = pc[u] /\ at'[u] = at[u]
      /\ UNCHANGED <<moduleVars, lock, handle, peerlists, luaVars, workVars>>
  BY <1>2 DEF Disconnect, Calls, At, Goto
<1>5. session[k].handle # 0 /\ session[k].by = StateOf(t)
  BY DEF Disconnect, Knows
<1>6. \A j \in Sessions : session'[j] = Fresh <=> session[j] = Fresh
  <2>1. session[k].handle \in Handles
    BY <1>2, <1>5 DEF SessionType, Handles
  <2>2. session[x] # Fresh
    BY <2>1 DEF Disconnect, BaseInv, ListOK
  <2> QED
    BY <1>3, <2>2 DEF Fresh
<1>7. Kept
  BY <1>3, <1>6 DEF Kept
<1>8. OrderOK' /\ HandleOK'
  BY <1>3, <1>4, <1>6 DEF BaseInv, OrderOK, HandleOK
<1>9. ObjectOK' /\ LockOK'
  BY <1>4 DEF BaseInv, ObjectOK, LockOK, InState, StateOf, moduleVars
<1>10. CallOK'
  BY <1>3, <1>4, <1>5, <1>6 DEF BaseInv, CallOK, StateOf, moduleVars
<1>11. RequestOK'
  <2>1. \A r \in DOMAIN request :
          session'[request[r].want].handle # 0 /\ session'[request[r].want].by = request[r].by
    BY <1>3, WantIsSession DEF BaseInv, RequestOK, TypeInv
  <2>2. pc'[Worker] \in {"gone", "idle"} <=> pc[Worker] \in {"gone", "idle"}
    BY <1>4
  <2> QED
    BY <1>4, <2>1, <2>2 DEF BaseInv, RequestOK, luaVars, workVars
<1>12. ListOK'
  <2>1. \A h \in Handles : peerlists[h] # 0 => peerlists[h] \in Sessions
    BY DEF BaseInv, TypeInv, ListType, Sessions, Handles
  <2> QED
    BY <1>4, <1>7, <2>1 DEF BaseInv, ListOK, Kept
<1> QED
  BY <1>1, <1>7, <1>8, <1>9, <1>10, <1>11, <1>12 DEF BaseInv

LEMMA ScriptBase ==
  ASSUME BaseInv, NEW t \in Threads, NEW k,
         (k \in Sessions /\ Request(t, k)) \/ UseNull(t) \/ Destory(t)
  PROVE  BaseInv' /\ Kept
<1> USE ConstAssumption, ThreadFacts
<1>1. TypeInv'
  BY ScriptType
<1>2. /\ UNCHANGED <<moduleVars, lock, at, sessionVars, current, target>>
      /\ \A u \in Threads : pc'[u] = pc[u] \/ (pc[u] = "run" /\ pc'[u] = "join" /\ u # Worker)
  <2>1. CASE (k \in Sessions /\ Request(t, k)) \/ UseNull(t)
    BY <2>1 DEF Request, UseNull, Habit, Break, moduleVars, sessionVars, workVars
  <2>2. CASE Destory(t)
    <3>1. pc' = pc \/ (t # Worker /\ pc' = [pc EXCEPT ![t] = "join"])
      BY <2>2 DEF Destory, Goto, Break
    <3>2. pc[t] = "run" /\ UNCHANGED <<moduleVars, lock, at, sessionVars, current, target>>
      BY <2>2 DEF Destory, Calls, At
    <3>3. pc \in [Threads -> ScriptLabels \cup WorkerLabels]
      BY DEF BaseInv, TypeInv, PcType
    <3> QED
      BY <3>1, <3>2, <3>3
  <2> QED
    BY <2>1, <2>2
<1>3. Kept /\ OrderOK' /\ HandleOK' /\ ListOK'
  BY <1>2 DEF Kept, OrderOK, HandleOK, ListOK, BaseInv, sessionVars
<1>4. ObjectOK' /\ LockOK'
  BY <1>2 DEF BaseInv, ObjectOK, LockOK, InState, StateOf, moduleVars
<1>5. CallOK'
  BY <1>2 DEF BaseInv, CallOK, StateOf, moduleVars, sessionVars
<1>6. RequestOK'
  <2>1. CASE k \in Sessions /\ Request(t, k)
    <3> DEFINE r == Len(request) + 1
    <3>1. Len(request') = r /\ r \in Requests /\ Len(request) \in Nat
      BY <2>1, RequestMade
    <3>2. DOMAIN request = 1 .. Len(request) /\ DOMAIN request' = 1 .. Len(request')
      BY <1>1 DEF BaseInv, TypeInv, RequestType
    <3>3. /\ session'[request'[r].want].handle # 0
          /\ session'[request'[r].want].by = request'[r].by
      BY <1>2, <2>1, RequestMade DEF Request, Knows, sessionVars
    <3>4. \A i \in DOMAIN request : /\ session'[request'[i].want].handle # 0
                                    /\ session'[request'[i].want].by = request'[i].by
      BY <1>2, <2>1, RequestMade DEF BaseInv, RequestOK, sessionVars
    <3>5. \A i \in DOMAIN queue' : queue'[i] \in DOMAIN request \cup {r}
      <4>1. queue \in Seq(Requests) /\ queue' = Append(queue, r)
        BY <2>1, RequestMade DEF BaseInv, TypeInv, QueueType
      <4> QED
        BY <4>1 DEF BaseInv, RequestOK
    <3>6. DOMAIN request' = DOMAIN request \cup {r}
      BY <3>1, <3>2
    <3>7. Len(request') <= MaxRequests
      BY <3>1 DEF Requests
    <3>8. pc' = pc
      BY <2>1 DEF Request
    <3> QED
      BY <1>2, <3>3, <3>4, <3>5, <3>6, <3>7, <3>8 DEF BaseInv, RequestOK
  <2>2. CASE UseNull(t) \/ Destory(t)
    <3>1. UNCHANGED <<request, queue>>
      BY <2>2 DEF UseNull, Destory, luaVars, workVars
    <3> QED
      BY <1>2, <3>1 DEF BaseInv, RequestOK, sessionVars
  <2> QED
    BY <2>1, <2>2
<1> QED
  BY <1>1, <1>3, <1>4, <1>5, <1>6 DEF BaseInv

LEMMA ServeBase ==
  ASSUME BaseInv, Serve \/ Call
  PROVE  BaseInv' /\ Kept
<1> USE ConstAssumption, ThreadFacts
<1>1. TypeInv'
  BY ServeType
<1>2. /\ pc \in [Threads -> ScriptLabels \cup WorkerLabels]
      /\ lock \in [Scripts -> Threads \cup {None}]
  BY DEF BaseInv, TypeInv, PcType, LockType
<1>3. /\ UNCHANGED <<moduleVars, at, sessionVars, request>>
      /\ pc[Worker] \in WorkerLabels \ {"gone"}
      /\ pc'[Worker] \in {"gone", "idle", "find", "exec", "lock", "run"}
      /\ \A s \in Scripts : pc'[s] = pc[s]
  <2>1. UNCHANGED <<moduleVars, at, sessionVars, request>>
    BY DEF Serve, Take, Find, Executed, Called, End, Call, luaVars
  <2>2. pc[Worker] \in {"idle", "find", "exec", "lock", "run"}
    BY DEF Serve, Take, Find, Executed, Called, End, Call, At
  <2>3. PICK l \in {"gone", "idle", "find", "exec", "lock", "run"} : pc' = [pc EXCEPT ![Worker] = l]
    BY DEF Serve, Take, Find, Executed, Called, End, Call, Goto
  <2> QED
    BY <1>2, <2>1, <2>2, <2>3 DEF WorkerLabels
<1>4. Kept /\ OrderOK' /\ HandleOK' /\ ListOK'
  BY <1>3 DEF Kept, OrderOK, HandleOK, ListOK, BaseInv, sessionVars
<1>5. ObjectOK'
  BY <1>3 DEF BaseInv, ObjectOK, moduleVars
<1>6. CallOK'
  BY <1>3 DEF BaseInv, CallOK, StateOf, moduleVars, sessionVars
<1>7. theState \in Scripts /\ theState' = theState
  BY <1>3 DEF BaseInv, ObjectOK, moduleVars
<1>8. LockOK'
  <2>1. CASE Call
    <3>1. lock[theState] = None /\ lock' = [lock EXCEPT ![theState] = Worker]
      BY <2>1 DEF Call
    <3>2. \A s \in Scripts : pc[s] \in InState => lock[s] = s /\ s # theState
      BY <3>1 DEF BaseInv, LockOK, StateOf
    <3> QED
      BY <1>2, <1>3, <1>7, <3>1, <3>2 DEF LockOK, StateOf
  <2>2. CASE Called
    <3>1. pc[Worker] = "run" /\ pc'[Worker] = "idle" /\ lock' = [lock EXCEPT ![theState] = None]
      BY <1>2, <2>2 DEF Called, At, Goto, Unlocked
    <3>2. lock[theState] = Worker
      BY <3>1 DEF BaseInv, LockOK, StateOf, InState
    <3>3. \A s \in Scripts : pc[s] \in InState => lock[s] = s /\ s # theState
      BY <3>2 DEF BaseInv, LockOK, StateOf
    <3> QED
      BY <1>2, <1>3, <1>7, <3>1, <3>3 DEF LockOK, StateOf, InState
  <2>3. CASE Take \/ Find \/ Executed \/ End
    <3>1. lock' = lock /\ pc'[Worker] \notin InState
      BY <1>2, <2>3 DEF Take, Find, Executed, End, At, Goto, InState
    <3> QED
      BY <1>3, <1>7, <3>1 DEF BaseInv, LockOK, StateOf
  <2> QED
    BY <2>1, <2>2, <2>3 DEF Serve
<1>9. RequestOK'
  <2>1. CASE Take
    <3>1. queue \in Seq(Requests) /\ queue # << >>
      BY <2>1 DEF Take, BaseInv, TypeInv, QueueType
    <3>2. Head(queue) = queue[1] /\ 1 \in DOMAIN queue
      BY <3>1
    <3>3. \A i \in DOMAIN Tail(queue) : i + 1 \in DOMAIN queue /\ Tail(queue)[i] = queue[i + 1]
      BY <3>1
    <3>4. current' \in DOMAIN request /\ current' # 0
      BY <2>1, <3>1, <3>2, ElementOfSeq DEF Take, BaseInv, RequestOK, Requests
    <3>5. \A i \in DOMAIN queue' : queue'[i] \in DOMAIN request
      BY <2>1, <3>3 DEF Take, BaseInv, RequestOK
    <3>6. pc'[Worker] = "find" /\ target' = target
      BY <1>2, <2>1 DEF Take, Goto
    <3> QED
      BY <1>3, <3>4, <3>5, <3>6 DEF BaseInv, RequestOK, sessionVars
  <2>2. CASE Find
    <3>1. queue' = queue /\ pc[Worker] = "find" /\ current \in DOMAIN request /\ current # 0
      BY <2>2, CurrentFacts DEF Find, At, Requests
    <3>2. \/ pc'[Worker] = "idle" /\ current' = 0 /\ target' = target
          \/ /\ pc'[Worker] = "exec" /\ current' = current
             /\ \A r \in Requests : target'[r] # target[r] => r = current
      BY <1>2, <2>2 DEF Find, Goto, BaseInv, TypeInv, TargetType
    <3> QED
      BY <1>3, <3>1, <3>2 DEF BaseInv, RequestOK, sessionVars
  <2>3. CASE Executed \/ Call
    <3>1. /\ UNCHANGED <<queue, current, target>>
          /\ pc[Worker] \in {"exec", "lock"} /\ pc'[Worker] \in {"lock", "run"}
      <4>1. CASE Executed
        BY <1>2, <4>1 DEF Executed, At, Goto, workVars
      <4>2. CASE Call
        BY <1>2, <4>2 DEF Call, At, Goto, workVars
      <4> QED
        BY <2>3, <4>1, <4>2
    <3> QED
      BY <1>3, <3>1 DEF BaseInv, RequestOK, sessionVars
  <2>4. CASE Called
    <3>1. current' = 0 /\ pc'[Worker] = "idle" /\ UNCHANGED <<queue, target>>
      BY <1>2, <2>4 DEF Called, Goto
    <3> QED
      BY <1>3, <3>1 DEF BaseInv, RequestOK, sessionVars
  <2>5. CASE End
    <3>1. pc[Worker] = "idle" /\ pc'[Worker] = "gone" /\ UNCHANGED workVars
      BY <1>2, <2>5 DEF End, At, Goto
    <3> QED
      BY <1>3, <3>1 DEF BaseInv, RequestOK, sessionVars, workVars
  <2> QED
    BY <2>1, <2>2, <2>3, <2>4, <2>5 DEF Serve
<1> QED
  BY <1>1, <1>4, <1>5, <1>6, <1>8, <1>9 DEF BaseInv

\* Which steps there are.
HostStep    == \E s \in Scripts : Enter(s) \/ Leave(s) \/ Load(s)
ConnectStep == \E t \in Threads, kind \in Kinds : Connect(t, kind)
DisconnectStep == \E t \in Threads, k \in Sessions : Disconnect(t, k)
CallStep    == \E t \in Threads : \E k :
                 (k \in Sessions /\ Request(t, k)) \/ UseNull(t) \/ Destory(t)
GoesStep    == \E t \in Threads : Goes(t)
ServeStep   == Serve \/ Call
EndStep     == Overrun \/ \E t \in Threads : NoAuthlist(t)

\* What stays when the program ends at a call of its own.
restVars ==
  <<theSSH, theState, loaded, loads, lock, pc, at, handle, peerlists, session, registry, request,
    queue, stopping, current, target, replies, habits>>

LEMMA StepCases ==
  ASSUME [Next]_vars
  PROVE  /\ \/ HostStep \/ ConnectStep \/ DisconnectStep \/ CallStep \/ GoesStep \/ ServeStep
            \/ EndStep \/ UNCHANGED vars
         /\ EndStep \/ UNCHANGED vars => UNCHANGED restVars
<1>1. \/ HostStep \/ ConnectStep \/ DisconnectStep \/ CallStep \/ GoesStep \/ ServeStep
      \/ EndStep \/ UNCHANGED vars
  BY DEF Next, Runnable, Script, HostStep, ConnectStep, DisconnectStep, CallStep, GoesStep,
         ServeStep, EndStep
<1>2. EndStep => UNCHANGED restVars
  BY DEF EndStep, Overrun, NoAuthlist, restVars, moduleVars, sessionVars, luaVars, workVars
<1>3. UNCHANGED vars => UNCHANGED restVars
  BY DEF vars, restVars
<1> QED
  BY <1>1, <1>2, <1>3

LEMMA BaseStep ==
  ASSUME BaseInv, [Next]_vars
  PROVE  BaseInv' /\ Kept
<1>1. CASE HostStep
  BY <1>1, HostBase DEF HostStep
<1>2. CASE ConnectStep
  BY <1>2, ConnectBase DEF ConnectStep
<1>3. CASE DisconnectStep
  BY <1>3, DisconnectBase DEF DisconnectStep
<1>4. CASE CallStep
  BY <1>4, ScriptBase DEF CallStep
<1>5. CASE GoesStep
  BY <1>5, ReturnBase, MapBase DEF GoesStep, Goes
<1>6. CASE ServeStep
  BY <1>6, ServeBase DEF ServeStep
<1>7. CASE UNCHANGED restVars
  BY <1>7 DEF restVars, Kept, BaseInv, TypeInv, ModuleType, LockType, PcType, AtType, HandleType,
     ListType, OpenedType, RequestType, QueueType, TargetType, OrderOK, ObjectOK, LockOK, StateOf,
     CallOK, HandleOK, RequestOK, ListOK
<1> QED
  BY <1>1, <1>2, <1>3, <1>4, <1>5, <1>6, <1>7, StepCases

\* The variables keep their types; whoever is in a state has its mutex; requests name
\* sessions whose handle their script knew.
THEOREM BaseAlways == Spec => []BaseInv
<1>1. BaseInv /\ [Next]_vars => BaseInv'
  BY BaseStep
<1> QED
  BY InitBase, <1>1, PTL DEF Spec

-----------------------------------------------------------------------------
(* On which session a command runs.                                          *)

One == OneKind /\ OneOpener

\* What was one kind and one opener before is so after no step alone.
LEMMA OneBefore ==
  ASSUME BaseInv, Kept, One'
  PROVE  One
<1> SUFFICES ASSUME NEW j \in Opened, NEW k \in Opened
             PROVE  session[j].kind = session[k].kind /\ session[j].by = session[k].by
  BY DEF One, OneKind, OneOpener
<1>1. j \in Opened' /\ k \in Opened'
  BY DEF Kept, Opened, Sessions
<1> QED
  BY <1>1 DEF One, OneKind, OneOpener, Kept, Opened

\* While one script opens the sessions, one thread at most is in a connect.
LEMMA OneEnters ==
  ASSUME BaseInv, OneOpener, NEW t \in Threads, NEW u \in Threads, Entered(t), Entered(u)
  PROVE  t = u
<1>1. at[t] \in Opened /\ at[u] \in Opened
  BY DEF Entered, BaseInv, CallOK, Opened
<1>2. session[at[t]].by = StateOf(t) /\ session[at[u]].by = StateOf(u)
  BY DEF Entered, BaseInv, CallOK
<1>3. StateOf(t) = StateOf(u)
  BY <1>1, <1>2 DEF OneOpener
<1> QED
  BY <1>3, OneInState DEF Entered, InState

\* Steps that open no session, enter nothing and run nothing.
Quiet ==
  /\ handle' = handle
  /\ \A k \in Sessions : /\ session'[k] = Fresh <=> session[k] = Fresh
                         /\ session'[k].kind = session[k].kind /\ session'[k].by = session[k].by
                         /\ session'[k].handle = session[k].handle
  /\ \A h \in Handles : peerlists'[h] \in {peerlists[h], 0}
  /\ \A t \in Threads : /\ pc'[t] = "insert" <=> pc[t] = "insert"
                        /\ pc'[t] = "return" <=> pc[t] = "return"
                        /\ Entered(t) => at'[t] = at[t]
  /\ target' = target
  /\ \A r \in DOMAIN request' : target[r] # 0 => /\ r \in DOMAIN request
                                                 /\ request'[r] = request[r]

LEMMA QuietOne ==
  ASSUME BaseInv, OneInv, Quiet
  PROVE  OneInv'
<1> SUFFICES ASSUME OneKind', OneOpener'
             PROVE  (HandlesApart /\ CounterNew /\ EntriesOwn /\ RightSession)'
  BY DEF OneInv
<1>1. Opened' = Opened
  BY DEF Quiet, Opened
<1>2. OneKind /\ OneOpener
  BY <1>1 DEF OneKind, OneOpener, Quiet, Opened
<1>3. HandlesApart'
  BY <1>2 DEF OneInv, HandlesApart, Quiet
<1>4. \A t \in Threads : Entered(t)' => Entered(t) /\ at'[t] = at[t] /\ Counter(t)' = Counter(t)
  BY DEF Quiet, Entered, Counter, BaseInv, CallOK
<1>5. CounterNew'
  BY <1>2, <1>4 DEF OneInv, CounterNew, Quiet
<1>6. EntriesOwn'
  <2> SUFFICES ASSUME NEW h \in Handles, peerlists'[h] # 0
               PROVE  /\ session'[peerlists'[h]] # Fresh
                      /\ \/ session'[peerlists'[h]].handle = h
                         \/ \E t \in Threads : /\ pc'[t] = "return" /\ at'[t] = peerlists'[h]
                                               /\ Counter(t)' = h
    BY DEF EntriesOwn
  <2>1. peerlists'[h] = peerlists[h] /\ peerlists[h] \in Sessions
    BY DEF Quiet, BaseInv, TypeInv, ListType, Sessions
  <2>2. session'[peerlists'[h]] # Fresh
    BY <2>1 DEF Quiet, BaseInv, ListOK
  <2>3. CASE session[peerlists[h]].handle = h
    BY <2>1, <2>2, <2>3 DEF Quiet
  <2>4. CASE session[peerlists[h]].handle # h
    <3>1. PICK t \in Threads : pc[t] = "return" /\ at[t] = peerlists[h] /\ Counter(t) = h
      BY <1>2, <2>1, <2>4 DEF OneInv, EntriesOwn
    <3>2. pc'[t] = "return" /\ Entered(t)'
      BY <3>1 DEF Quiet, Entered
    <3> QED
      BY <1>4, <2>1, <2>2, <3>1, <3>2
  <2> QED
    BY <2>3, <2>4
<1>7. RightSession'
  <2> SUFFICES ASSUME NEW r \in DOMAIN request', target'[r] # 0
               PROVE  target'[r] = request'[r].want
    BY DEF RightSession
  <2> QED
    BY <1>2 DEF OneInv, RightSession, Quiet
<1> QED
  BY <1>3, <1>5, <1>6, <1>7

LEMMA ConnectOne ==
  ASSUME BaseInv, OneInv, NEW t \in Threads, NEW kind \in Kinds, Connect(t, kind)
  PROVE  OneInv'
<1> SUFFICES ASSUME OneKind', OneOpener'
             PROVE  (HandlesApart /\ CounterNew /\ EntriesOwn /\ RightSession)'
  BY DEF OneInv
<1>1. BaseInv' /\ Kept
  BY ConnectBase
<1>2. One
  BY <1>1, OneBefore DEF One
<1>3. PICK k \in Sessions :
        /\ session[k] = Fresh
        /\ session' = [session EXCEPT ![k] = [life |-> "open", kind |-> kind, by |-> StateOf(t),
                                             handle |-> 0]]
        /\ at' = [at EXCEPT ![t] = k]
  BY DEF Connect
<1>4. /\ session \in [Sessions -> SessionType] /\ at \in [Threads -> 0 .. MaxSessions]
      /\ handle \in [Kinds -> 0 .. MaxSessions]
      /\ pc \in [Threads -> ScriptLabels \cup WorkerLabels]
  BY DEF BaseInv, TypeInv, OpenedType, AtType, HandleType, PcType
<1>5. /\ session'[k].handle = 0 /\ session'[k].kind = kind /\ session'[k] # Fresh
      /\ \A j \in Sessions : j # k => session'[j] = session[j]
  BY <1>3, <1>4 DEF Fresh
<1>6. /\ pc[t] = "run" /\ pc'[t] = "insert" /\ at'[t] = k
      /\ \A u \in Threads : u # t => pc'[u] = pc[u] /\ at'[u] = at[u]
      /\ UNCHANGED <<peerlists, request, target>>
      /\ handle'[kind] = handle[kind] + 1
  BY <1>3, <1>4 DEF Connect, Calls, At, Goto, NewHandle, luaVars, workVars
<1>7. \A u \in Threads : u # t => ~Entered(u)
  <2> SUFFICES ASSUME NEW u \in Threads, u # t, Entered(u) PROVE FALSE
    OBVIOUS
  <2>1. at[u] \in Opened' /\ session'[at[u]].by = StateOf(u)
    BY <1>1 DEF Entered, BaseInv, CallOK, Kept, Opened
  <2>2. k \in Opened' /\ session'[k].by = StateOf(t)
    BY <1>3, <1>4, <1>5 DEF Opened, Sessions
  <2>3. StateOf(t) = StateOf(u)
    BY <2>1, <2>2 DEF OneOpener
  <2> QED
    BY <1>6, <2>3, OneInState DEF Entered, InState
<1>8. HandlesApart'
  BY <1>2, <1>3, <1>5 DEF OneInv, One, HandlesApart, Fresh
<1>9. CounterNew'
  <2> SUFFICES ASSUME NEW u \in Threads, NEW j \in Sessions, Entered(u)'
               PROVE  session'[j].handle # Counter(u)'
    BY DEF CounterNew
  <2>1. u = t /\ Counter(u)' = handle[kind] + 1 /\ handle[kind] \in Nat
    BY <1>4, <1>5, <1>6, <1>7 DEF Entered, Counter
  <2>2. CASE session'[j].handle = 0
    BY <2>1, <2>2
  <2>3. CASE session'[j].handle # 0
    <3>1. j # k /\ session'[j] = session[j] /\ session[j].handle # 0
      BY <1>5, <2>3
    <3>2. j \in Opened' /\ k \in Opened'
      BY <1>5, <3>1 DEF Opened, Fresh, Sessions
    <3>3. session[j].kind = kind
      BY <1>5, <3>1, <3>2 DEF OneKind
    <3>4. session[j].handle <= handle[kind] /\ session[j].handle \in Nat
      BY <1>4, <3>1, <3>3 DEF BaseInv, HandleOK, SessionType
    <3> QED
      BY <2>1, <3>1, <3>4
  <2> QED
    BY <2>2, <2>3
<1>10. EntriesOwn'
  <2> SUFFICES ASSUME NEW h \in Handles, peerlists'[h] # 0
               PROVE  session'[peerlists'[h]] # Fresh /\ session'[peerlists'[h]].handle = h
    BY DEF EntriesOwn
  <2>1. peerlists'[h] = peerlists[h] /\ peerlists[h] \in Sessions
    BY <1>6 DEF BaseInv, TypeInv, ListType, Sessions
  <2>2. session[peerlists[h]] # Fresh /\ peerlists[h] # k
    BY <1>3, <2>1 DEF BaseInv, ListOK
  <2>3. session[peerlists[h]].handle = h
    BY <1>2, <1>6, <1>7, <2>1 DEF OneInv, One, EntriesOwn, Entered
  <2> QED
    BY <1>5, <2>1, <2>2, <2>3
<1>11. RightSession'
  BY <1>2, <1>6 DEF OneInv, One, RightSession
<1> QED
  BY <1>8, <1>9, <1>10, <1>11

LEMMA InsertOne ==
  ASSUME BaseInv, OneInv, NEW t \in Threads, Insert(t)
  PROVE  OneInv'
<1> SUFFICES ASSUME OneKind', OneOpener'
             PROVE  (HandlesApart /\ CounterNew /\ EntriesOwn /\ RightSession)'
  BY DEF OneInv
<1>1. /\ pc \in [Threads -> ScriptLabels \cup WorkerLabels]
      /\ peerlists \in [Handles -> 0 .. MaxSessions]
  BY DEF BaseInv, TypeInv, PcType, ListType
<1>2. /\ pc[t] = "insert" /\ pc'[t] = "return" /\ UNCHANGED <<at, handle, session, request, target>>
      /\ \A u \in Threads : u # t => pc'[u] = pc[u]
      /\ peerlists' = [peerlists EXCEPT ![Counter(t)] = at[t]]
  BY <1>1 DEF Insert, At, Goto, luaVars, workVars, Counter
<1>3. OneKind /\ OneOpener
  BY <1>2 DEF OneKind, OneOpener, Opened
<1>4. \A u \in Threads : (Entered(u)' <=> Entered(u)) /\ Counter(u)' = Counter(u)
  BY <1>2 DEF Entered, Counter
<1>5. HandlesApart' /\ CounterNew' /\ RightSession'
  BY <1>2, <1>3, <1>4 DEF OneInv, HandlesApart, CounterNew, RightSession
<1>6. EntriesOwn'
  <2> SUFFICES ASSUME NEW h \in Handles, peerlists'[h] # 0
               PROVE  /\ session'[peerlists'[h]] # Fresh
                      /\ \/ session'[peerlists'[h]].handle = h
                         \/ \E u \in Threads : /\ pc'[u] = "return" /\ at'[u] = peerlists'[h]
                                               /\ Counter(u)' = h
    BY DEF EntriesOwn
  <2>1. CASE h = Counter(t)
    BY <1>1, <1>2, <1>4, <2>1 DEF BaseInv, CallOK
  <2>2. CASE h # Counter(t)
    <3>1. peerlists'[h] = peerlists[h]
      BY <1>1, <1>2, <2>2
    <3>2. \A u \in Threads : pc[u] = "return" => pc'[u] = "return"
      BY <1>2
    <3> QED
      BY <1>2, <1>3, <1>4, <3>1, <3>2 DEF OneInv, EntriesOwn
  <2> QED
    BY <2>1, <2>2
<1> QED
  BY <1>5, <1>6

LEMMA ReturnOne ==
  ASSUME BaseInv, OneInv, NEW t \in Threads, Return(t)
  PROVE  OneInv'
<1> SUFFICES ASSUME OneKind', OneOpener'
             PROVE  (HandlesApart /\ CounterNew /\ EntriesOwn /\ RightSession)'
  BY DEF OneInv
<1>1. BaseInv' /\ Kept
  BY ReturnBase
<1>2. One
  BY <1>1, OneBefore DEF One
<1>3. /\ pc \in [Threads -> ScriptLabels \cup WorkerLabels]
      /\ session \in [Sessions -> SessionType] /\ at[t] \in Sessions
  BY DEF BaseInv, TypeInv, PcType, OpenedType, CallOK, Return, At
<1>4. /\ pc[t] = "return" /\ pc'[t] = "run" /\ UNCHANGED <<handle, peerlists, request, target>>
      /\ \A u \in Threads : u # t => pc'[u] = pc[u]
      /\ session' = [session EXCEPT ![at[t]].handle = Counter(t)]
  BY <1>3 DEF Return, At, Goto, luaVars, workVars, Counter
<1>5. /\ session'[at[t]].handle = Counter(t)
      /\ \A j \in Sessions : j # at[t] => session'[j] = session[j]
  BY <1>3, <1>4 DEF SessionType
<1>6. \A u \in Threads : ~Entered(u)'
  BY <1>2, <1>4, OneEnters DEF Entered, One
<1>7. HandlesApart'
  <2>1. \A j \in Sessions : session[j].handle # Counter(t)
    BY <1>2, <1>4 DEF OneInv, One, CounterNew, Entered
  <2> QED
    BY <1>2, <1>5, <2>1 DEF OneInv, One, HandlesApart
<1>8. CounterNew'
  BY <1>6 DEF CounterNew
<1>9. EntriesOwn'
  <2> SUFFICES ASSUME NEW h \in Handles, peerlists'[h] # 0
               PROVE  session'[peerlists'[h]] # Fresh /\ session'[peerlists'[h]].handle = h
    BY DEF EntriesOwn
  <2>1. peerlists'[h] = peerlists[h] /\ peerlists[h] \in Sessions
    BY <1>4 DEF BaseInv, TypeInv, ListType, Sessions
  <2>2. session'[peerlists[h]] # Fresh
    BY <1>1, <2>1 DEF BaseInv, ListOK, Kept
  <2>3. CASE session[peerlists[h]].handle = h
    <3>1. h # 0
      BY DEF Handles
    <3>2. session'[peerlists[h]].handle = h
      BY <1>1, <2>1, <2>3, <3>1 DEF BaseInv, ListOK, Kept
    <3> QED
      BY <2>1, <2>2, <3>2
  <2>4. CASE session[peerlists[h]].handle # h
    <3>1. PICK u \in Threads : pc[u] = "return" /\ at[u] = peerlists[h] /\ Counter(u) = h
      BY <1>2, <2>1, <2>4 DEF OneInv, One, EntriesOwn
    <3>2. u = t
      BY <1>2, <1>4, <3>1, OneEnters DEF Entered, One
    <3> QED
      BY <1>5, <2>1, <2>2, <3>1, <3>2
  <2> QED
    BY <2>3, <2>4
<1>10. RightSession'
  BY <1>2, <1>4 DEF OneInv, One, RightSession
<1> QED
  BY <1>7, <1>8, <1>9, <1>10

\* do_execute looks the handle of the request up: the session found has that
\* handle, and it alone.
LEMMA FindOne ==
  ASSUME BaseInv, OneInv, Find
  PROVE  OneInv'
<1> SUFFICES ASSUME OneKind', OneOpener'
             PROVE  (HandlesApart /\ CounterNew /\ EntriesOwn /\ RightSession)'
  BY DEF OneInv
<1> DEFINE want == request[current].want
           x == peerlists[session[want].handle]
<1>1. /\ pc \in [Threads -> ScriptLabels \cup WorkerLabels]
      /\ target \in [Requests -> 0 .. MaxSessions]
  BY DEF BaseInv, TypeInv, PcType, TargetType
<1>2. /\ pc[Worker] = "find" /\ pc'[Worker] \in {"idle", "exec"}
      /\ \A u \in Threads : u # Worker => pc'[u] = pc[u]
      /\ UNCHANGED <<at, handle, peerlists, session, request>>
      /\ target' = target \/ (x # 0 /\ target' = [target EXCEPT ![current] = x])
  <2>1. pc[Worker] = "find" /\ UNCHANGED <<at, handle, peerlists, session, request>>
    BY DEF Find, At, sessionVars, luaVars
  <2>2. /\ pc' = [pc EXCEPT ![Worker] = "idle"] \/ pc' = [pc EXCEPT ![Worker] = "exec"]
        /\ target' = target \/ (x # 0 /\ target' = [target EXCEPT ![current] = x])
    BY DEF Find, Goto, Break
  <2> QED
    BY <1>1, <2>1, <2>2, ThreadFacts
<1>3. OneKind /\ OneOpener
  BY <1>2 DEF OneKind, OneOpener, Opened
<1>4. /\ \A u \in Threads : (Entered(u)' <=> Entered(u)) /\ Counter(u)' = Counter(u)
      /\ \A u \in Threads : pc'[u] = "return" <=> pc[u] = "return"
  BY <1>2 DEF Entered, Counter
<1>5. HandlesApart' /\ CounterNew' /\ EntriesOwn'
  BY <1>2, <1>3, <1>4 DEF OneInv, HandlesApart, CounterNew, EntriesOwn
<1>6. /\ current \in DOMAIN request /\ current \in Requests
      /\ want \in Sessions /\ session[want].handle \in Handles /\ x \in 0 .. MaxSessions
  BY <1>2, CurrentFacts
<1>7. x # 0 => x = want
  <2> SUFFICES ASSUME x # 0 PROVE x = want
    OBVIOUS
  <2>1. x \in Sessions /\ session[want].handle # 0
    BY <1>6 DEF Sessions, Handles
  <2>2. ~\E u \in Threads : pc[u] = "return" /\ Counter(u) = session[want].handle
    BY <1>3, <1>6 DEF OneInv, CounterNew, Entered
  <2>3. session[x].handle = session[want].handle
    BY <1>3, <1>6, <2>2 DEF OneInv, EntriesOwn
  <2> QED
    BY <1>3, <1>6, <2>1, <2>3 DEF OneInv, HandlesApart
<1>8. RightSession'
  <2>1. \A r \in DOMAIN request : r \in Requests /\ target[r] \in {0, request[r].want}
    <3>1. DOMAIN request = 1 .. Len(request) /\ Len(request) <= MaxRequests /\ Len(request) \in Nat
      BY DEF BaseInv, TypeInv, RequestType, RequestOK
    <3> QED
      BY <1>3, <3>1, ConstAssumption DEF OneInv, RightSession, Requests
  <2> QED
    BY <1>1, <1>2, <1>6, <1>7, <2>1 DEF RightSession
<1> QED
  BY <1>5, <1>8

LEMMA QuietSteps ==
  ASSUME BaseInv, HostStep \/ DisconnectStep \/ CallStep \/ UNCHANGED restVars
                  \/ (\E t \in Threads : Erase(t) \/ Joined(t))
                  \/ Take \/ Executed \/ Called \/ End \/ Call
  PROVE  Quiet
<1> USE ThreadFacts
<1>1. /\ pc \in [Threads -> ScriptLabels \cup WorkerLabels]
      /\ at \in [Threads -> 0 .. MaxSessions]
      /\ peerlists \in [Handles -> 0 .. MaxSessions]
      /\ session \in [Sessions -> SessionType]
      /\ \A r \in Requests : target[r] # 0 => r \in DOMAIN request
      /\ \A r \in DOMAIN request : r \in Requests
  <2>1. DOMAIN request = 1 .. Len(request) /\ Len(request) <= MaxRequests /\ Len(request) \in Nat
    BY DEF BaseInv, TypeInv, RequestType, RequestOK
  <2> QED
    BY <2>1, ConstAssumption
    DEF BaseInv, TypeInv, PcType, AtType, ListType, OpenedType, RequestOK, Requests
<1>2. CASE HostStep
  <2>1. PICK s \in Scripts : Enter(s) \/ Leave(s) \/ Load(s)
    BY <1>2 DEF HostStep
  <2>2. /\ UNCHANGED <<at, handle, session, request, target>>
        /\ peerlists' = peerlists \/ peerlists' = [h \in Handles |-> 0]
    BY <2>1 DEF Enter, Leave, Load, sessionVars, luaVars, workVars
  <2>3. \A t \in Threads : /\ pc'[t] = "insert" <=> pc[t] = "insert"
                           /\ pc'[t] = "return" <=> pc[t] = "return"
    <3>1. CASE Enter(s) \/ Leave(s)
      BY <1>1, <2>1, <3>1 DEF Enter, Leave, At, Goto
    <3>2. CASE Load(s)
      BY <1>1, <3>2 DEF Load, BaseInv, ObjectOK
    <3> QED
      BY <2>1, <3>1, <3>2
  <2>4. \A r \in DOMAIN request' : target[r] # 0 => r \in DOMAIN request /\ request'[r] = request[r]
    BY <2>2
  <2> QED
    BY <2>2, <2>3, <2>4 DEF Quiet
<1>3. CASE DisconnectStep
  <2>1. PICK t \in Threads, k \in Sessions : Disconnect(t, k)
    BY <1>3 DEF DisconnectStep
  <2> DEFINE x == peerlists[session[k].handle]
  <2>2. session' = [session EXCEPT ![x].life = "freed"]
    BY <2>1 DEF Disconnect
  <2>3. \A j \in Sessions : /\ session'[j].kind = session[j].kind /\ session'[j].by = session[j].by
                            /\ session'[j].handle = session[j].handle
    <3> SUFFICES ASSUME NEW j \in Sessions
                 PROVE  /\ session'[j].kind = session[j].kind /\ session'[j].by = session[j].by
                        /\ session'[j].handle = session[j].handle
      OBVIOUS
    <3>1. session[j] \in SessionType
      BY <1>1
    <3>2. session'[j] = session[j] \/ session'[j] = [session[j] EXCEPT !.life = "freed"]
      BY <1>1, <2>2
    <3> QED
      BY <3>1, <3>2 DEF SessionType
  <2>4. \A j \in Sessions : session'[j] = Fresh <=> session[j] = Fresh
    <3>1. Kept
      BY <2>1, DisconnectBase
    <3>2. session[k].handle \in Handles /\ x # 0
      BY <1>1, <2>1 DEF Disconnect, Knows, SessionType, Handles
    <3>3. session[x] # Fresh
      BY <3>2 DEF BaseInv, ListOK
    <3>4. \A j \in Sessions : j # x => session'[j] = session[j]
      BY <1>1, <2>2
    <3> QED
      BY <3>1, <3>3, <3>4 DEF Kept
  <2>5. \A u \in Threads : /\ pc'[u] = "insert" <=> pc[u] = "insert"
                           /\ pc'[u] = "return" <=> pc[u] = "return"
                           /\ Entered(u) => at'[u] = at[u]
    BY <1>1, <2>1 DEF Disconnect, Calls, At, Goto, Entered
  <2>6. UNCHANGED <<handle, peerlists, target, request>>
    BY <2>1 DEF Disconnect, luaVars, workVars
  <2> QED
    BY <2>3, <2>4, <2>5, <2>6 DEF Quiet
<1>4. CASE CallStep
  <2>1. PICK t \in Threads : \E k :
          (k \in Sessions /\ Request(t, k)) \/ UseNull(t) \/ Destory(t)
    BY <1>4 DEF CallStep
  <2>2. PICK k : (k \in Sessions /\ Request(t, k)) \/ UseNull(t) \/ Destory(t)
    BY <2>1
  <2>3. /\ UNCHANGED <<at, handle, session, peerlists, target>>
        /\ pc' = pc \/ (pc[t] = "run" /\ pc' = [pc EXCEPT ![t] = "join"])
    BY <2>2 DEF Request, UseNull, Destory, Calls, At, Goto, sessionVars, workVars
  <2>4. \A r \in DOMAIN request' : target[r] # 0 => r \in DOMAIN request /\ request'[r] = request[r]
    <3>1. CASE k \in Sessions /\ Request(t, k)
      <4>1. /\ Len(request') = Len(request) + 1 /\ Len(request) + 1 \in Requests
            /\ Len(request) \in Nat /\ RequestType'
            /\ \A r \in DOMAIN request : request'[r] = request[r]
        BY <3>1, RequestMade
      <4>2. DOMAIN request' = 1 .. Len(request') /\ DOMAIN request = 1 .. Len(request)
        BY <4>1 DEF RequestType, BaseInv, TypeInv
      <4>3. \A r \in DOMAIN request' : r \in Requests
        <5> DEFINE n == Len(request)
        <5>1. n \in Nat /\ n + 1 <= MaxRequests
          BY <4>1 DEF Requests
        <5>2. \A r \in 1 .. n + 1 : r \in 1 .. MaxRequests
          BY <5>1, ConstAssumption
        <5> QED
          BY <4>1, <4>2, <5>2 DEF Requests
      <4> QED
        BY <1>1, <4>1, <4>3
    <3>2. CASE request' = request
      BY <3>2
    <3> QED
      BY <2>2, <3>1, <3>2 DEF UseNull, Destory, luaVars
  <2>5. \A u \in Threads : /\ pc'[u] = "insert" <=> pc[u] = "insert"
                           /\ pc'[u] = "return" <=> pc[u] = "return"
    BY <1>1, <2>3
  <2> QED
    BY <2>3, <2>4, <2>5 DEF Quiet
<1>5. CASE UNCHANGED restVars
  BY <1>5 DEF restVars, Quiet
<1>6. CASE \E t \in Threads : Erase(t) \/ Joined(t)
  <2>1. PICK t \in Threads : Erase(t) \/ Joined(t)
    BY <1>6
  <2>2. /\ UNCHANGED <<handle, session, target, request>>
        /\ pc[t] \in {"erase", "join"} /\ pc' = [pc EXCEPT ![t] = "run"]
        /\ at' = at \/ at' = [at EXCEPT ![t] = 0]
        /\ peerlists' = peerlists
             \/ peerlists' = [peerlists EXCEPT ![session[at[t]].handle] = 0]
    BY <2>1 DEF Erase, Erased, Joined, At, Goto, sessionVars, luaVars, workVars
  <2> QED
    BY <1>1, <2>2 DEF Quiet, Entered
<1>7. CASE Take
  <2>1. /\ UNCHANGED <<at, handle, session, peerlists, target, request>>
        /\ pc[Worker] = "idle" /\ pc' = [pc EXCEPT ![Worker] = "find"]
    BY <1>7 DEF Take, At, Goto, sessionVars, luaVars
  <2> QED
    BY <1>1, <2>1 DEF Quiet
<1>8. CASE Executed
  <2>1. /\ UNCHANGED <<at, handle, session, peerlists, target, request>>
        /\ pc[Worker] = "exec" /\ pc' = [pc EXCEPT ![Worker] = "lock"]
    BY <1>8 DEF Executed, At, Goto, sessionVars, luaVars, workVars
  <2> QED
    BY <1>1, <2>1 DEF Quiet
<1>9. CASE Called
  <2>1. /\ UNCHANGED <<at, handle, session, peerlists, target, request>>
        /\ pc[Worker] = "run" /\ pc' = [pc EXCEPT ![Worker] = "idle"]
    BY <1>9 DEF Called, At, Goto, sessionVars
  <2> QED
    BY <1>1, <2>1 DEF Quiet
<1>10. CASE End
  <2>1. /\ UNCHANGED <<at, handle, session, peerlists, target, request>>
        /\ pc[Worker] = "idle" /\ pc' = [pc EXCEPT ![Worker] = "gone"]
    BY <1>10 DEF End, At, Goto, sessionVars, luaVars, workVars
  <2> QED
    BY <1>1, <2>1 DEF Quiet
<1>11. CASE Call
  <2>1. /\ UNCHANGED <<at, handle, session, peerlists, target, request>>
        /\ pc[Worker] = "lock" /\ pc' = [pc EXCEPT ![Worker] = "run"]
    BY <1>11 DEF Call, At, Goto, sessionVars, workVars
  <2> QED
    BY <1>1, <2>1 DEF Quiet
<1> QED
  BY <1>2, <1>3, <1>4, <1>5, <1>6, <1>7, <1>8, <1>9, <1>10, <1>11

LEMMA OneStep ==
  ASSUME BaseInv, OneInv, [Next]_vars
  PROVE  OneInv'
<1>1. CASE ConnectStep
  BY <1>1, ConnectOne DEF ConnectStep
<1>2. CASE GoesStep
  BY <1>2, InsertOne, ReturnOne, QuietSteps, QuietOne DEF GoesStep, Goes
<1>3. CASE ServeStep
  BY <1>3, FindOne, QuietSteps, QuietOne DEF ServeStep, Serve
<1>4. CASE HostStep \/ DisconnectStep \/ CallStep \/ UNCHANGED restVars
  BY <1>4, QuietSteps, QuietOne
<1> QED
  BY <1>1, <1>2, <1>3, <1>4, StepCases

LEMMA InitOne == Init => OneInv
BY DEF Init, OneInv, HandlesApart, CounterNew, EntriesOwn, RightSession, Entered, Threads, Fresh

\* A command runs on the session whose handle it was given, while one script opens
\* the sessions and by one of the two connects.
THEOREM RightTarget == Spec => []RightSession
<1>1. BaseInv /\ OneInv /\ [Next]_vars => BaseInv' /\ OneInv'
  BY BaseStep, OneStep
<1>2. OneInv => RightSession
  BY DEF OneInv, RightSession
<1> QED
  BY InitBase, InitOne, <1>1, <1>2, PTL DEF Spec

-----------------------------------------------------------------------------
(* What can break a program.                                                 *)

LEMMA HabitsStay ==
  ASSUME [Next]_vars
  PROVE  habits \subseteq habits' /\ (broken = "no" \/ UNCHANGED vars)
<1>1. CASE UNCHANGED vars
  BY <1>1 DEF vars
<1>2. CASE Next
  <2>1. broken = "no"
    BY <1>2 DEF Next, Runnable
  <2>2. CASE HostStep
    BY <2>1, <2>2 DEF HostStep, Enter, Leave, Load
  <2>3. CASE ConnectStep \/ DisconnectStep
    BY <2>1, <2>3 DEF ConnectStep, Connect, DisconnectStep, Disconnect, Habit
  <2>4. CASE CallStep
    BY <2>1, <2>4 DEF CallStep, Request, UseNull, Destory, Habit
  <2>5. CASE GoesStep
    BY <2>1, <2>5 DEF GoesStep, Goes, Insert, Return, Erase, Joined
  <2>6. CASE ServeStep
    BY <2>1, <2>6 DEF ServeStep, Serve, Take, Find, Executed, Called, End, Call
  <2>7. CASE EndStep
    BY <2>1, <2>7, StepCases DEF restVars
  <2> QED
    BY <1>1, <2>1, <2>2, <2>3, <2>4, <2>5, <2>6, <2>7, StepCases
<1> QED
  BY <1>1, <1>2

LEMMA InOrderBefore ==
  ASSUME BaseInv, Kept, habits \subseteq habits', InOrder'
  PROVE  InOrder
<1>1. habits \subseteq {"others"}
  BY DEF InOrder
<1>2. OneOpener
  <2> SUFFICES ASSUME NEW j \in Opened, NEW k \in Opened
               PROVE  session[j].by = session[k].by
    BY DEF OneOpener
  <2>1. j \in Opened' /\ k \in Opened'
    BY DEF Kept, Opened, Sessions
  <2> QED
    BY <2>1 DEF InOrder, OneOpener, Kept, Opened
<1> QED
  BY <1>1, <1>2 DEF InOrder

\* While g_thread is at work, no script is in a connect; while it is at nothing
\* but the map, nobody else is.
LEMMA WorkerAlone ==
  ASSUME BaseInv, OrderCore, NEW t \in Threads, t # Worker
  PROVE  /\ pc[t] \notin {"erase", "join", "find"}
         /\ current # 0 \/ queue # << >> => pc[t] \notin {"insert", "return"}
BY ThreadFacts DEF OrderCore, NobodyEnds, NothingPending, Entered, BaseInv, TypeInv, PcType,
                   ScriptLabels

LEMMA HostOrder ==
  ASSUME BaseInv, InOrder, OrderCore, broken = "no", HostStep
  PROVE  OrderCore' /\ Sound'
<1> USE ConstAssumption, ThreadFacts
<1>1. PICK s \in Scripts : Enter(s) \/ Leave(s) \/ Load(s)
  BY DEF HostStep
<1>2. pc \in [Threads -> ScriptLabels \cup WorkerLabels]
  BY DEF BaseInv, TypeInv, PcType
<1>3. UNCHANGED <<at, session, current>> /\ broken' = broken
  BY <1>1 DEF Enter, Leave, Load, sessionVars, workVars
<1>4. CASE Enter(s) \/ Leave(s)
  <2>1. /\ UNCHANGED <<theSSH, loaded, peerlists, queue, stopping>>
        /\ pc[s] \in {"out", "run"} /\ pc'[s] \in {"out", "run"}
        /\ \A t \in Threads : t # s => pc'[t] = pc[t]
    BY <1>2, <1>4 DEF Enter, Leave, At, Goto, moduleVars, sessionVars, workVars
  <2>2. NobodyEnds'
    BY <2>1 DEF OrderCore, NobodyEnds
  <2>3. NothingPending' /\ EntriesApart' /\ EntriesOpen' /\ ToInsert'
    BY <1>3, <2>1 DEF OrderCore, NothingPending, Entered, EntriesApart, EntriesOpen, ToInsert
  <2> QED
    BY <1>3, <2>2, <2>3 DEF OrderCore, Sound
<1>5. CASE Load(s) /\ theSSH
  <2>1. /\ UNCHANGED <<peerlists, queue, stopping, pc>> /\ theSSH' = theSSH
    BY <1>5 DEF Load
  <2>2. NobodyEnds'
    BY <1>5, <2>1 DEF OrderCore, NobodyEnds
  <2>3. NothingPending' /\ EntriesApart' /\ EntriesOpen' /\ ToInsert'
    BY <1>3, <2>1 DEF OrderCore, NothingPending, Entered, EntriesApart, EntriesOpen, ToInsert
  <2> QED
    BY <1>3, <2>2, <2>3 DEF OrderCore, Sound
<1>6. CASE Load(s) /\ ~theSSH
  <2>1. /\ theSSH' /\ queue' = << >> /\ stopping' = FALSE
        /\ peerlists' = [h \in Handles |-> 0]
        /\ pc[Worker] = "gone" /\ pc'[Worker] = "idle"
        /\ \A t \in Threads : t # Worker => pc'[t] = pc[t]
    BY <1>2, <1>6 DEF Load, BaseInv, ObjectOK
  <2>2. NobodyEnds'
    BY <2>1 DEF OrderCore, NobodyEnds
  <2>3. NothingPending'
    BY <1>3, <2>1 DEF BaseInv, RequestOK, NothingPending
  <2>4. EntriesApart' /\ EntriesOpen' /\ ToInsert'
    BY <1>3, <2>1 DEF OrderCore, EntriesApart, EntriesOpen, ToInsert, BaseInv, CallOK, Sessions
  <2> QED
    BY <1>3, <2>2, <2>3, <2>4 DEF OrderCore, Sound
<1> QED
  BY <1>1, <1>4, <1>5, <1>6

LEMMA ConnectOrder ==
  ASSUME BaseInv, InOrder, OrderCore, broken = "no", InOrder', ConnectStep
  PROVE  OrderCore' /\ Sound'
<1> USE ConstAssumption, ThreadFacts
<1>1. PICK t \in Threads, kind \in Kinds : Connect(t, kind)
  BY DEF ConnectStep
<1>2. PICK k \in Sessions :
        /\ session[k] = Fresh
        /\ session' = [session EXCEPT ![k] = [life |-> "open", kind |-> kind, by |-> StateOf(t),
                                             handle |-> 0]]
        /\ at' = [at EXCEPT ![t] = k]
  BY <1>1 DEF Connect
<1>3. /\ session \in [Sessions -> SessionType] /\ at \in [Threads -> 0 .. MaxSessions]
      /\ pc \in [Threads -> ScriptLabels \cup WorkerLabels]
  BY DEF BaseInv, TypeInv, OpenedType, AtType, PcType
<1>4. /\ session'[k].life = "open" /\ session'[k].by = StateOf(t) /\ session'[k] # Fresh
      /\ \A j \in Sessions : j # k => session'[j] = session[j]
  BY <1>2, <1>3 DEF Fresh
<1>5. /\ pc[t] = "run" /\ pc'[t] = "insert" /\ at'[t] = k
      /\ \A u \in Threads : u # t => pc'[u] = pc[u] /\ at'[u] = at[u]
      /\ UNCHANGED <<theSSH, loaded, peerlists, queue, stopping, current>>
  BY <1>1, <1>2, <1>3 DEF Connect, Calls, At, Goto, moduleVars, workVars
<1>6. \A u \in Threads : ~Entered(u)
  <2> SUFFICES ASSUME NEW u \in Threads, Entered(u) PROVE FALSE
    OBVIOUS
  <2>1. at[u] \in Sessions /\ session[at[u]] # Fresh /\ session[at[u]].by = StateOf(u)
    BY DEF Entered, BaseInv, CallOK
  <2>2. at[u] \in Opened' /\ session'[at[u]].by = StateOf(u)
    BY <1>2, <1>4, <2>1 DEF Opened, Sessions
  <2>3. k \in Opened'
    BY <1>4 DEF Opened, Sessions
  <2>4. StateOf(t) = StateOf(u)
    BY <1>4, <2>2, <2>3 DEF InOrder, OneOpener
  <2> QED
    BY <1>5, <2>4, OneInState DEF Entered, InState
<1>7. t # Worker => current = 0 /\ queue = << >>
  <2>1. t # Worker => Pending = {}
    BY <1>1 DEF Connect, Habit, InOrder
  <2>2. Pending = {} => current = 0 /\ queue = << >>
    BY DEF Pending, Queued, BaseInv, TypeInv, QueueType
  <2> QED
    BY <2>1, <2>2
<1>8. InMap = {}
  <2> SUFFICES ASSUME NEW u \in Threads, pc[u] \in {"insert", "erase", "find"} PROVE FALSE
    BY DEF InMap
  <2>1. pc[u] # "insert"
    BY <1>6 DEF Entered
  <2>2. u = Worker
    BY <2>1, WorkerAlone
  <2>3. current # 0
    BY <2>2 DEF BaseInv, RequestOK
  <2> QED
    BY <1>5, <1>7, <2>2, <2>3
<1>9. broken' = "no"
  BY <1>1, <1>8 DEF Connect
<1>10. NobodyEnds'
  BY <1>5 DEF OrderCore, NobodyEnds
<1>11. NothingPending'
  BY <1>5, <1>6, <1>7 DEF NothingPending, Entered
<1>12. EntriesApart'
  BY <1>5 DEF OrderCore, EntriesApart
<1>13. \A h \in Handles : peerlists[h] # 0 => peerlists[h] \in Sessions /\ peerlists[h] # k
  BY <1>2 DEF BaseInv, TypeInv, ListType, ListOK, Sessions
<1>14. EntriesOpen'
  <2> SUFFICES ASSUME NEW h \in Handles, peerlists[h] # 0
               PROVE  \/ session'[peerlists[h]].life = "open"
                      \/ pc'[Worker] = "erase" /\ session'[at'[Worker]].handle = h
    BY <1>5 DEF EntriesOpen
  <2>1. CASE session[peerlists[h]].life = "open"
    BY <1>4, <1>13, <2>1
  <2>2. CASE pc[Worker] = "erase" /\ session[at[Worker]].handle = h
    <3>1. t # Worker /\ at[Worker] \in Sessions /\ session[at[Worker]].handle # 0
      BY <1>5, <2>2 DEF BaseInv, CallOK
    <3>2. at[Worker] # k
      BY <1>2, <3>1 DEF Fresh
    <3> QED
      BY <1>4, <1>5, <2>2, <3>1, <3>2
  <2> QED
    BY <2>1, <2>2 DEF OrderCore, EntriesOpen
<1>15. ToInsert'
  <2>1. \A u \in Threads : pc'[u] = "insert" => u = t
    BY <1>5, <1>6 DEF Entered
  <2>2. \A h \in Handles : peerlists'[h] # k
    BY <1>5, <1>13 DEF Sessions
  <2> QED
    BY <1>4, <1>5, <2>1, <2>2 DEF ToInsert
<1> QED
  BY <1>9, <1>10, <1>11, <1>12, <1>14, <1>15 DEF OrderCore, Sound

LEMMA InsertOrder ==
  ASSUME BaseInv, InOrder, OrderCore, broken = "no", NEW t \in Threads, Insert(t)
  PROVE  OrderCore' /\ Sound'
<1> USE ConstAssumption, ThreadFacts
<1>1. /\ pc \in [Threads -> ScriptLabels \cup WorkerLabels]
      /\ peerlists \in [Handles -> 0 .. MaxSessions]
  BY DEF BaseInv, TypeInv, PcType, ListType
<1>2. /\ pc[t] = "insert" /\ pc'[t] = "return"
      /\ \A u \in Threads : u # t => pc'[u] = pc[u]
      /\ UNCHANGED <<theSSH, loaded, at, handle, session, queue, stopping, current, broken>>
      /\ peerlists' = [peerlists EXCEPT ![Counter(t)] = at[t]]
  BY <1>1 DEF Insert, At, Goto, moduleVars, workVars, Counter
<1>3. at[t] \in Sessions /\ session[at[t]].life = "open" /\ \A h \in Handles : peerlists[h] # at[t]
  BY <1>2 DEF BaseInv, CallOK, OrderCore, ToInsert
<1>4. NobodyEnds'
  BY <1>2 DEF OrderCore, NobodyEnds
<1>5. NothingPending'
  <2>1. \A s \in Scripts : Entered(s)' => Entered(s)
    BY <1>2 DEF Entered
  <2> QED
    BY <1>2, <2>1 DEF OrderCore, NothingPending
<1>6. EntriesApart'
  BY <1>1, <1>2, <1>3 DEF OrderCore, EntriesApart
<1>7. EntriesOpen'
  <2> SUFFICES ASSUME NEW h \in Handles, peerlists'[h] # 0
               PROVE  \/ session[peerlists'[h]].life = "open"
                      \/ pc'[Worker] = "erase" /\ session[at[Worker]].handle = h
    BY <1>2 DEF EntriesOpen
  <2>1. CASE h = Counter(t)
    BY <1>1, <1>2, <1>3, <2>1
  <2>2. CASE h # Counter(t)
    <3>1. peerlists'[h] = peerlists[h]
      BY <1>1, <1>2, <2>2
    <3>2. pc[Worker] = "erase" => pc'[Worker] = "erase"
      BY <1>2
    <3> QED
      BY <3>1, <3>2 DEF OrderCore, EntriesOpen
  <2> QED
    BY <2>1, <2>2
<1>8. ToInsert'
  <2>1. \A u \in Threads : pc'[u] # "insert"
    BY <1>2, OneEnters DEF Entered, InOrder
  <2> QED
    BY <2>1 DEF ToInsert
<1> QED
  BY <1>2, <1>4, <1>5, <1>6, <1>7, <1>8 DEF OrderCore, Sound

LEMMA ReturnOrder ==
  ASSUME BaseInv, InOrder, OrderCore, broken = "no", NEW t \in Threads, Return(t)
  PROVE  OrderCore' /\ Sound'
<1> USE ConstAssumption, ThreadFacts
<1>1. /\ pc \in [Threads -> ScriptLabels \cup WorkerLabels]
      /\ session \in [Sessions -> SessionType] /\ at \in [Threads -> 0 .. MaxSessions]
  BY DEF BaseInv, TypeInv, PcType, OpenedType, AtType
<1>2. /\ pc[t] = "return" /\ pc'[t] = "run"
      /\ \A u \in Threads : u # t => pc'[u] = pc[u] /\ at'[u] = at[u]
      /\ UNCHANGED <<theSSH, loaded, peerlists, queue, stopping, current, broken>>
  BY <1>1 DEF Return, At, Goto, moduleVars, workVars
<1>3. Kept
  BY ReturnBase
<1>4. \A j \in Sessions : session'[j].life = session[j].life
  <2>1. session' = [session EXCEPT ![at[t]].handle = handle[session[at[t]].kind]]
    BY DEF Return
  <2> QED
    BY <1>1, <2>1 DEF SessionType
<1>5. NobodyEnds'
  BY <1>2 DEF OrderCore, NobodyEnds
<1>6. NothingPending'
  <2>1. \A s \in Scripts : Entered(s)' => Entered(s)
    BY <1>2 DEF Entered
  <2> QED
    BY <1>2, <2>1 DEF OrderCore, NothingPending
<1>7. EntriesApart'
  BY <1>2 DEF OrderCore, EntriesApart
<1>8. EntriesOpen'
  <2> SUFFICES ASSUME NEW h \in Handles, peerlists[h] # 0
               PROVE  \/ session'[peerlists[h]].life = "open"
                      \/ pc'[Worker] = "erase" /\ session'[at'[Worker]].handle = h
    BY <1>2 DEF EntriesOpen
  <2>1. CASE session[peerlists[h]].life = "open"
    BY <1>4, <2>1 DEF BaseInv, TypeInv, ListType, Sessions
  <2>2. CASE pc[Worker] = "erase" /\ session[at[Worker]].handle = h
    <3>1. t # Worker /\ at[Worker] \in Sessions /\ session[at[Worker]].handle # 0
      BY <1>2, <2>2 DEF BaseInv, CallOK
    <3>2. session'[at[Worker]].handle = h
      BY <1>3, <2>2, <3>1 DEF Kept, Fresh
    <3> QED
      BY <1>2, <2>2, <3>1, <3>2
  <2> QED
    BY <2>1, <2>2 DEF OrderCore, EntriesOpen
<1>9. ToInsert'
  <2>1. \A u \in Threads : pc'[u] # "insert"
    BY <1>2, OneEnters DEF Entered, InOrder
  <2> QED
    BY <2>1 DEF ToInsert
<1> QED
  BY <1>2, <1>5, <1>6, <1>7, <1>8, <1>9 DEF OrderCore, Sound

\* Nobody but g_thread is at erase, and nobody waits for its end.
LEMMA EraseOrder ==
  ASSUME BaseInv, InOrder, OrderCore, broken = "no", NEW t \in Threads, Erase(t) \/ Joined(t)
  PROVE  OrderCore' /\ Sound'
<1> USE ConstAssumption, ThreadFacts
<1>1. /\ pc \in [Threads -> ScriptLabels \cup WorkerLabels]
      /\ peerlists \in [Handles -> 0 .. MaxSessions]
      /\ at \in [Threads -> 0 .. MaxSessions]
  BY DEF BaseInv, TypeInv, PcType, ListType, AtType
<1>2. t = Worker /\ Erase(t)
  <2>1. pc[Worker] # "join"
    BY DEF BaseInv, TypeInv, PcType, WorkerLabels
  <2> QED
    BY <2>1, WorkerAlone DEF Erase, Joined, At
<1> DEFINE g == session[at[Worker]].handle
<1>3. /\ pc[Worker] = "erase" /\ pc'[Worker] = "run"
      /\ \A u \in Threads : u # Worker => pc'[u] = pc[u] /\ at'[u] = at[u]
      /\ UNCHANGED <<theSSH, loaded, session, queue, stopping, current, broken>>
      /\ peerlists' = [peerlists EXCEPT ![g] = 0]
  BY <1>1, <1>2 DEF Erase, Erased, At, Goto, moduleVars, workVars
<1>4. \A h \in Handles : peerlists'[h] # 0 => peerlists'[h] = peerlists[h] /\ h # g
  BY <1>1, <1>3
<1>5. NobodyEnds'
  BY <1>3 DEF OrderCore, NobodyEnds
<1>6. NothingPending'
  BY <1>3 DEF OrderCore, NothingPending, Entered
<1>7. EntriesApart'
  BY <1>4 DEF OrderCore, EntriesApart
<1>8. EntriesOpen'
  BY <1>3, <1>4 DEF OrderCore, EntriesOpen
<1>9. ToInsert'
  <2> SUFFICES ASSUME NEW u \in Threads, pc'[u] = "insert"
               PROVE  session'[at'[u]].life = "open" /\ \A h \in Handles : peerlists'[h] # at'[u]
    BY DEF ToInsert
  <2>1. u # Worker /\ pc[u] = "insert" /\ at'[u] = at[u] /\ at[u] \in Sessions
    BY <1>3 DEF BaseInv, CallOK
  <2>2. at[u] # 0
    BY <2>1 DEF Sessions
  <2> QED
    BY <1>3, <1>4, <2>1, <2>2 DEF OrderCore, ToInsert
<1> QED
  BY <1>3, <1>5, <1>6, <1>7, <1>8, <1>9 DEF OrderCore, Sound

LEMMA DisconnectOrder ==
  ASSUME BaseInv, InOrder, OrderCore, broken = "no", InOrder', DisconnectStep
  PROVE  OrderCore' /\ Sound'
<1> USE ConstAssumption, ThreadFacts
<1>1. PICK t \in Threads, k \in Sessions : Disconnect(t, k)
  BY DEF DisconnectStep
<1> DEFINE g == session[k].handle
           x == peerlists[g]
<1>2. /\ pc \in [Threads -> ScriptLabels \cup WorkerLabels]
      /\ session \in [Sessions -> SessionType] /\ at \in [Threads -> 0 .. MaxSessions]
      /\ peerlists \in [Handles -> 0 .. MaxSessions]
  BY DEF BaseInv, TypeInv, PcType, OpenedType, AtType, ListType
<1>3. t = Worker
  BY <1>1 DEF Disconnect, Habit, InOrder
<1>4. /\ pc[Worker] = "run" /\ pc'[Worker] = "erase" /\ at'[Worker] = k /\ x # 0
      /\ \A u \in Threads : u # Worker => pc'[u] = pc[u]
      /\ UNCHANGED <<theSSH, loaded, handle, peerlists, queue, stopping, current>>
      /\ session' = [session EXCEPT ![x].life = "freed"]
  BY <1>1, <1>2, <1>3 DEF Disconnect, Calls, At, Goto, moduleVars, workVars
<1>5. g \in Handles /\ x \in Sessions
  BY <1>1, <1>2, <1>4 DEF Disconnect, Knows, SessionType, Handles, Sessions
<1>6. /\ session'[k].handle = g
      /\ \A j \in Sessions : j # x => session'[j] = session[j]
  BY <1>2, <1>4, <1>5 DEF SessionType
<1>7. current # 0
  BY <1>4 DEF BaseInv, RequestOK
<1>8. \A u \in Threads : u # Worker => pc[u] \notin {"insert", "return", "erase", "join", "find"}
  BY <1>7, WorkerAlone
<1>9. broken' = "no"
  <2>1. session[x].life = "open"
    BY <1>4, <1>5 DEF OrderCore, EntriesOpen
  <2>2. x # Using
    BY <1>4 DEF Using, At
  <2>3. InMap = {}
    BY <1>4, <1>8 DEF InMap
  <2> QED
    BY <1>1, <2>1, <2>2, <2>3 DEF Disconnect
<1>10. NobodyEnds'
  BY <1>4 DEF OrderCore, NobodyEnds
<1>11. NothingPending' /\ ToInsert'
  BY <1>4, <1>8 DEF NothingPending, ToInsert, Entered
<1>12. EntriesApart'
  BY <1>4 DEF OrderCore, EntriesApart
<1>13. EntriesOpen'
  <2> SUFFICES ASSUME NEW h \in Handles, peerlists[h] # 0, h # g
               PROVE  session'[peerlists[h]].life = "open"
    BY <1>4, <1>6 DEF EntriesOpen
  <2>1. session[peerlists[h]].life = "open" /\ peerlists[h] \in Sessions
    BY <1>2, <1>4 DEF OrderCore, EntriesOpen, Sessions
  <2>2. peerlists[h] # x
    BY <1>5 DEF OrderCore, EntriesApart
  <2> QED
    BY <1>6, <2>1, <2>2
<1> QED
  BY <1>9, <1>10, <1>11, <1>12, <1>13 DEF OrderCore, Sound

LEMMA CallOrder ==
  ASSUME BaseInv, InOrder, OrderCore, broken = "no", InOrder', CallStep
  PROVE  OrderCore' /\ Sound'
<1> USE ConstAssumption, ThreadFacts
<1>1. PICK t \in Threads : \E k : (k \in Sessions /\ Request(t, k)) \/ UseNull(t) \/ Destory(t)
  BY DEF CallStep
<1>2. PICK k : (k \in Sessions /\ Request(t, k)) \/ UseNull(t) \/ Destory(t)
  BY <1>1
<1>3. ~UseNull(t)
  BY DEF UseNull, Calls, At, OrderCore, NobodyEnds
<1>4. ~Destory(t)
  BY DEF Destory, InOrder
<1>5. k \in Sessions /\ Request(t, k)
  BY <1>2, <1>3, <1>4
<1>6. UNCHANGED <<theSSH, loaded, pc, at, peerlists, session, stopping, current, broken>>
  BY <1>5 DEF Request, moduleVars, sessionVars
<1>7. \A s \in Scripts : ~Entered(s)
  <2> SUFFICES ASSUME NEW s \in Scripts, Entered(s) PROVE FALSE
    OBVIOUS
  <2>1. at[s] \in Opened /\ session[at[s]].by = StateOf(s)
    BY DEF Entered, BaseInv, CallOK, Opened
  <2>2. session[k].handle # 0 /\ session[k].by = StateOf(t) /\ pc[t] = "run"
    BY <1>5 DEF Request, Knows, Calls, At
  <2>3. k \in Opened
    BY <1>5, <2>2 DEF Opened, Fresh
  <2>4. StateOf(s) = StateOf(t)
    BY <2>1, <2>2, <2>3 DEF InOrder, OneOpener
  <2> QED
    BY <2>2, <2>4, OneInState DEF Entered, InState
<1>8. NobodyEnds' /\ EntriesApart' /\ EntriesOpen' /\ ToInsert'
  BY <1>6 DEF OrderCore, NobodyEnds, EntriesApart, EntriesOpen, ToInsert
<1>9. NothingPending'
  BY <1>6, <1>7 DEF NothingPending, Entered
<1> QED
  BY <1>6, <1>8, <1>9 DEF OrderCore, Sound

LEMMA ServeOrder ==
  ASSUME BaseInv, InOrder, OrderCore, broken = "no", ServeStep
  PROVE  OrderCore' /\ Sound'
<1> USE ConstAssumption, ThreadFacts
<1>1. pc \in [Threads -> ScriptLabels \cup WorkerLabels]
  BY DEF BaseInv, TypeInv, PcType
<1>2. ~End
  BY DEF End, LoopOver, OrderCore, NobodyEnds
<1>3. /\ UNCHANGED <<theSSH, loaded, at, peerlists, session, stopping>>
      /\ pc[Worker] \notin {"gone", "erase", "insert"}
      /\ pc'[Worker] \notin {"gone", "erase", "insert"}
      /\ \A u \in Threads : u # Worker => pc'[u] = pc[u]
  <2>1. UNCHANGED <<theSSH, loaded, at, peerlists, session, stopping>>
    BY <1>2 DEF ServeStep, Serve, Take, Find, Executed, Called, Call, moduleVars, sessionVars,
                workVars
  <2>2. pc[Worker] \in {"idle", "find", "exec", "lock", "run"}
    BY <1>2 DEF ServeStep, Serve, Take, Find, Executed, Called, Call, At
  <2>3. PICK l \in {"idle", "find", "exec", "lock", "run"} : pc' = [pc EXCEPT ![Worker] = l]
    BY <1>2 DEF ServeStep, Serve, Take, Find, Executed, Called, Call, Goto
  <2> QED
    BY <1>1, <2>1, <2>2, <2>3
<1>4. NobodyEnds' /\ EntriesApart'
  BY <1>3 DEF OrderCore, NobodyEnds, EntriesApart
<1>5. EntriesOpen'
  BY <1>3 DEF OrderCore, EntriesOpen
<1>6. ToInsert'
  BY <1>3 DEF OrderCore, ToInsert
<1>7. current # 0 \/ queue # << >>
  <2>1. CASE Take
    BY <2>1 DEF Take
  <2>2. CASE Find \/ Executed \/ Called \/ Call
    BY <2>2 DEF Find, Executed, Called, Call, At, BaseInv, RequestOK
  <2> QED
    BY <1>2, <2>1, <2>2 DEF ServeStep, Serve
<1>8. \A u \in Threads : u # Worker => pc[u] \notin {"insert", "return", "erase"}
  BY <1>7, WorkerAlone
<1>9. NothingPending'
  BY <1>3, <1>8 DEF NothingPending, Entered
<1>10. Sound'
  <2>1. CASE Take
    <3>1. Changing = {}
      BY <1>3, <1>8 DEF Changing, InMap
    <3> QED
      BY <2>1, <3>1 DEF Take, Sound
  <2>2. CASE Find
    <3> DEFINE x == peerlists[session[request[current].want].handle]
    <3>1. pc[Worker] = "find" /\ session[request[current].want].handle \in Handles
      BY <2>2, CurrentFacts DEF Find, At
    <3>2. x # 0 => session[x].life = "open"
      BY <3>1 DEF OrderCore, EntriesOpen
    <3> QED
      BY <2>2, <3>2 DEF Find, Break, Sound, Lone
  <2>3. CASE Executed \/ Called \/ Call
    BY <2>3 DEF Executed, Called, Call, Sound
  <2> QED
    BY <1>2, <2>1, <2>2, <2>3 DEF ServeStep, Serve
<1> QED
  BY <1>4, <1>5, <1>6, <1>9, <1>10 DEF OrderCore

LEMMA OrderStep ==
  ASSUME BaseInv, OrderInv, [Next]_vars
  PROVE  OrderInv'
<1>1. CASE UNCHANGED vars
  BY <1>1 DEF vars, OrderInv, InOrder, OneOpener, Opened, OrderCore, NobodyEnds, NothingPending,
              Entered, EntriesApart, EntriesOpen, ToInsert, Sound
<1>2. CASE ~UNCHANGED vars
  <2> SUFFICES ASSUME InOrder' PROVE OrderCore' /\ Sound'
    BY DEF OrderInv
  <2>1. InOrder /\ broken = "no"
    BY <1>2, BaseStep, HabitsStay, InOrderBefore
  <2>2. OrderCore
    BY <2>1 DEF OrderInv
  <2>3. CASE HostStep \/ ConnectStep \/ DisconnectStep \/ CallStep \/ ServeStep
    BY <2>1, <2>2, <2>3, HostOrder, ConnectOrder, DisconnectOrder, CallOrder, ServeOrder
  <2>4. CASE GoesStep
    BY <2>1, <2>2, <2>4, InsertOrder, ReturnOrder, EraseOrder DEF GoesStep, Goes
  <2>5. CASE EndStep
    <3>1. UNCHANGED restVars
      BY <2>5, StepCases
    <3>2. OrderCore'
      BY <2>2, <3>1 DEF restVars, OrderCore, NobodyEnds, NothingPending, Entered, EntriesApart,
                        EntriesOpen, ToInsert
    <3>3. Sound'
      BY <2>5 DEF EndStep, Overrun, NoAuthlist, Break, Sound, Lone
    <3> QED
      BY <3>2, <3>3
  <2> QED
    BY <1>2, <2>3, <2>4, <2>5, StepCases
<1> QED
  BY <1>1, <1>2

LEMMA InitOrder == Init => OrderInv
BY ThreadFacts DEF Init, OrderInv, OrderCore, NobodyEnds, NothingPending, Entered, EntriesApart,
                   EntriesOpen, ToInsert, Sound, Threads

\* A program that keeps to the order is broken by no other thread: only by what one
\* call may do by itself (Lone).
THEOREM SoundInOrder == Spec => []BreaksOnlyOutOfOrder
<1>1. BaseInv /\ OrderInv /\ [Next]_vars => BaseInv' /\ OrderInv'
  BY BaseStep, OrderStep
<1>2. OrderInv => BreaksOnlyOutOfOrder
  BY DEF OrderInv, InOrder, Sound, BreaksOnlyOutOfOrder
<1> QED
  BY InitBase, InitOrder, <1>1, <1>2, PTL DEF Spec

-----------------------------------------------------------------------------
(* The registry.  The cells luaL_ref has used are 1 .. n; the free ones are   *)
(* linked from cell 0, each from one place, and one cell, the last of the     *)
(* chain, holds nil: cell 0 itself when none is free.                         *)

Cells == {Nil} \cup {Fn(r) : r \in Requests} \cup {Link(i) : i \in Requests}
Index == 0 .. MaxRequests

NoCallback(c) == \A r \in Requests : c # Fn(r)

WellLinked(reg, n, e) ==
  /\ reg \in [Index -> Cells]
  /\ \A i \in Index : reg[i] = Nil <=> i = e \/ i > n
  /\ NoCallback(reg[0])
  /\ \A i \in Index, j \in Requests : reg[i] = Link(j) =>
       /\ j <= n
       /\ NoCallback(reg[j])
       /\ \A k \in Index : reg[k] = Link(j) => k = i

LEMMA CellFacts ==
  /\ \A r : Fn(r) # Nil /\ Fn(r)[1] = "fn" /\ Fn(r)[2] = r /\ ToInteger(Fn(r)) = 0
  /\ \A i : Link(i) # Nil /\ ToInteger(Link(i)) = i
  /\ \A i, r : Link(i) # Fn(r)
  /\ \A i, j : Link(i) = Link(j) => i = j
  /\ ToInteger(Nil) = 0
<1>1. \A r : Fn(r)[1] = "fn" /\ Fn(r)[2] = r
  BY DEF Fn
<1>2. \A i : Link(i)[1] = "next" /\ Link(i)[2] = i
  BY DEF Link
<1>3. Nil[1] = "nil"
  BY DEF Nil
<1> QED
  BY <1>1, <1>2, <1>3 DEF ToInteger

\* luaL_ref takes a cell that holds no callback, and touches none that does.
LEMMA RefCell ==
  ASSUME NEW reg, NEW n \in 0 .. MaxRequests - 1, NEW e \in 0 .. n, WellLinked(reg, n, e),
         NEW r \in Requests
  PROVE  /\ NewRef(reg) \in Requests
         /\ NoCallback(reg[NewRef(reg)])
         /\ Ref(reg, r)[NewRef(reg)] = Fn(r)
         /\ \A i \in Requests : i # NewRef(reg) => Ref(reg, r)[i] = reg[i]
         /\ \E m \in 0 .. n + 1 : \E d \in 0 .. m : WellLinked(Ref(reg, r), m, d)
<1> USE ConstAssumption, CellFacts DEF Requests, Index, FreeCell
<1>1. reg \in [Index -> Cells] /\ reg[0] \in Cells /\ Fn(r) \in Cells
  BY DEF WellLinked, Cells
<1>2. CASE e # 0
  <2>1. PICK h \in Requests : reg[0] = Link(h)
    <3>1. reg[0] # Nil /\ NoCallback(reg[0])
      BY <1>2 DEF WellLinked
    <3> QED
      BY <1>1, <3>1 DEF Cells, NoCallback
  <2>2. FreeCell(reg) = h /\ NewRef(reg) = h
    BY <2>1 DEF NewRef
  <2> DEFINE new == [reg EXCEPT ![0] = reg[h], ![h] = Fn(r)]
  <2>3. Ref(reg, r) = new
    BY <2>2 DEF Ref
  <2>4. h <= n /\ NoCallback(reg[h]) /\ \A k \in Index : reg[k] = Link(h) => k = 0
    BY <2>1 DEF WellLinked
  <2>5. /\ new[0] = reg[h] /\ new[h] = Fn(r) /\ reg[h] \in Cells
        /\ \A i \in Index : i # 0 /\ i # h => new[i] = reg[i]
        /\ new \in [Index -> Cells]
    BY <1>1
  <2> DEFINE d == IF e = h THEN 0 ELSE e
  <2>6. \A i \in Index : new[i] = Nil <=> i = d \/ i > n
    BY <1>2, <2>4, <2>5 DEF WellLinked
  <2>7. ASSUME NEW i \in Index, NEW j \in Requests, new[i] = Link(j)
        PROVE  /\ j <= n
               /\ NoCallback(new[j])
               /\ \A k \in Index : new[k] = Link(j) => k = i
    <3> DEFINE from(k) == IF k = 0 THEN h ELSE k
    <3>1. \A k \in Index : new[k] = Link(j) => k # h /\ from(k) \in Index /\ reg[from(k)] = Link(j)
      BY <2>5
    <3>2. reg[from(i)] = Link(j) /\ j # h
      <4>1. reg[from(i)] = Link(j) /\ from(i) \in Index /\ from(i) # 0
        BY <2>7, <3>1
      <4> QED
        BY <2>4, <4>1
    <3>3. /\ j <= n /\ NoCallback(reg[j])
          /\ \A k \in Index : reg[k] = Link(j) => k = from(i)
      BY <2>7, <3>1, <3>2 DEF WellLinked
    <3>4. NoCallback(new[j])
      BY <2>5, <3>2, <3>3
    <3>5. \A k \in Index : new[k] = Link(j) => k = i
      BY <2>7, <3>1, <3>3
    <3> QED
      BY <3>3, <3>4, <3>5
  <2>8. WellLinked(new, n, d)
    BY <2>4, <2>5, <2>6, <2>7 DEF WellLinked
  <2>9. \E m \in 0 .. n + 1 : \E c \in 0 .. m : WellLinked(Ref(reg, r), m, c)
    BY <2>3, <2>8
  <2> QED
    BY <2>2, <2>3, <2>4, <2>5, <2>9
<1>3. CASE e = 0
  <2>1. reg[0] = Nil /\ FreeCell(reg) = 0
    BY <1>3 DEF WellLinked
  <2> DEFINE used == {i \in Requests : reg[i] # Nil}
  <2>2. used = 1 .. n
    BY <1>3 DEF WellLinked
  <2>3. RawLen(reg) = n
    <3>1. CASE n = 0
      BY <2>2, <3>1 DEF RawLen
    <3>2. CASE n # 0
      <4>1. n \in used /\ (\A j \in used : j <= n)
        BY <2>2, <3>2
      <4>2. \A i \in used : (\A j \in used : j <= i) => i = n
        BY <2>2, <4>1
      <4> QED
        BY <4>1, <4>2 DEF RawLen
    <3> QED
      BY <3>1, <3>2
  <2>4. NewRef(reg) = n + 1
    BY <2>1, <2>3 DEF NewRef
  <2> DEFINE new == [reg EXCEPT ![n + 1] = Fn(r)]
  <2>5. Ref(reg, r) = new
    BY <2>1, <2>4 DEF Ref
  <2>6. /\ new[n + 1] = Fn(r) /\ new \in [Index -> Cells] /\ n + 1 \in Requests /\ reg[n + 1] = Nil
        /\ \A i \in Index : i # n + 1 => new[i] = reg[i]
    BY <1>1 DEF WellLinked
  <2>7. \A i \in Index : new[i] = Nil <=> i = 0 \/ i > n + 1
    BY <1>3, <2>6 DEF WellLinked
  <2>8. ASSUME NEW i \in Index, NEW j \in Requests, new[i] = Link(j)
        PROVE  /\ j <= n + 1
               /\ NoCallback(new[j])
               /\ \A k \in Index : new[k] = Link(j) => k = i
    <3>1. i # n + 1 /\ reg[i] = Link(j)
      BY <2>6, <2>8
    <3>2. j <= n /\ NoCallback(reg[j]) /\ \A k \in Index : reg[k] = Link(j) => k = i
      BY <3>1 DEF WellLinked
    <3>3. \A k \in Index : new[k] = Link(j) => reg[k] = Link(j)
      BY <2>6
    <3> QED
      BY <2>6, <3>2, <3>3
  <2>9. WellLinked(new, n + 1, 0)
    <3>1. NoCallback(new[0])
      BY <2>6 DEF WellLinked
    <3> QED
      BY <2>6, <2>7, <2>8, <3>1 DEF WellLinked
  <2>10. NoCallback(reg[n + 1])
    BY <2>6 DEF NoCallback
  <2>11. \E m \in 0 .. n + 1 : \E c \in 0 .. m : WellLinked(Ref(reg, r), m, c)
    BY <2>5, <2>9
  <2> QED
    BY <2>4, <2>5, <2>6, <2>10, <2>11
<1> QED
  BY <1>2, <1>3

\* luaL_unref of a callback's cell touches no other callback.
LEMMA UnrefCell ==
  ASSUME NEW reg, NEW n \in Index, NEW e \in 0 .. n, WellLinked(reg, n, e),
         NEW i \in Requests, NEW r \in Requests, reg[i] = Fn(r)
  PROVE  /\ \A j \in Requests : j # i => Unref(reg, i)[j] = reg[j]
         /\ \E d \in 0 .. n : WellLinked(Unref(reg, i), n, d)
<1> USE ConstAssumption, CellFacts DEF Requests, Index
<1> DEFINE new == [reg EXCEPT ![i] = reg[0], ![0] = Link(i)]
           d == IF e = 0 THEN i ELSE e
<1>1. Unref(reg, i) = new
  BY DEF Unref
<1>2. /\ reg \in [Index -> Cells] /\ reg[0] \in Cells /\ Link(i) \in Cells
      /\ i <= n /\ i # e /\ NoCallback(reg[0])
  <2>1. /\ reg \in [Index -> Cells] /\ NoCallback(reg[0])
        /\ \A j \in Index : reg[j] = Nil <=> j = e \/ j > n
    BY DEF WellLinked
  <2>2. i \in Index /\ reg[i] # Nil /\ 0 \in Index /\ Link(i) \in Cells
    BY DEF Cells
  <2>3. i # e /\ ~(i > n)
    BY <2>1, <2>2
  <2> QED
    BY <2>1, <2>2, <2>3
<1>3. /\ new[0] = Link(i) /\ new[i] = reg[0] /\ new \in [Index -> Cells]
      /\ \A j \in Index : j # 0 /\ j # i => new[j] = reg[j]
  BY <1>2
<1>4. \A j \in Index : reg[j] # Link(i)
  BY DEF WellLinked, NoCallback
<1>5. \A j \in Index : new[j] = Nil <=> j = d \/ j > n
  BY <1>2, <1>3 DEF WellLinked
<1>6. ASSUME NEW k \in Index, NEW j \in Requests, new[k] = Link(j)
      PROVE  /\ j <= n
             /\ NoCallback(new[j])
             /\ \A l \in Index : new[l] = Link(j) => l = k
  <2>1. CASE j = i
    <3>1. \A l \in Index : new[l] = Link(i) => l = 0
      BY <1>3, <1>4
    <3> QED
      BY <1>2, <1>3, <1>6, <2>1, <3>1
  <2>2. CASE j # i
    <3> DEFINE from(l) == IF l = i THEN 0 ELSE l
    <3>1. \A l \in Index : new[l] = Link(j) => l # 0 /\ from(l) \in Index /\ reg[from(l)] = Link(j)
      BY <1>3, <2>2
    <3>2. /\ j <= n /\ NoCallback(reg[j])
          /\ \A l \in Index : reg[l] = Link(j) => l = from(k)
      BY <1>6, <3>1 DEF WellLinked
    <3> QED
      BY <1>3, <1>6, <2>2, <3>1, <3>2
  <2> QED
    BY <2>1, <2>2
<1>7. WellLinked(new, n, d)
  <2>1. NoCallback(new[0])
    BY <1>3 DEF NoCallback
  <2> QED
    BY <1>3, <1>5, <1>6, <2>1 DEF WellLinked
<1> QED
  BY <1>1, <1>2, <1>3, <1>7

-----------------------------------------------------------------------------
(* Whose answer a callback gets, while only the state of the callbacks makes  *)
(* requests.                                                                  *)

CellsOK ==
  /\ registry \in [Scripts -> [Index -> Cells]]
  /\ \A s \in Scripts :
       \E n \in 0 .. Len(request) : \E e \in 0 .. n : WellLinked(registry[s], n, e)

\* The callback of a request that is still to be answered is where it was put.
PendingOK ==
  \A r \in Pending :
    /\ request[r].ref \in Requests /\ theState \in Scripts
    /\ registry[theState][request[r].ref] = Fn(r)

\* A task is posted once, and none is left when the thread has ended.
QueueOK ==
  /\ \A i, j \in DOMAIN queue : queue[i] = queue[j] => i = j
  /\ \A i \in DOMAIN queue : queue[i] # current
  /\ pc[Worker] = "gone" => queue = << >>

TargetOK ==
  /\ \A i \in DOMAIN queue : target[queue[i]] = 0
  /\ pc[Worker] = "find" => target[current] = 0
  /\ pc[Worker] \notin {"gone", "idle", "find"} => target[current] # 0

RepliesOK ==
  /\ replies \in [Requests -> SUBSET Requests]
  /\ \A r \in Requests : replies[r] = IF Answered(r) THEN {r} ELSE {}

ReplyCore == CellsOK /\ PendingOK /\ QueueOK /\ TargetOK /\ RepliesOK
ReplyInv  == "others" \notin habits => ReplyCore

LEMMA PendingType ==
  ASSUME BaseInv
  PROVE  /\ request \in Seq({request[r] : r \in DOMAIN request})
         /\ Len(request) \in 0 .. MaxRequests /\ DOMAIN request = 1 .. Len(request)
         /\ queue \in Seq(Requests) /\ Len(queue) \in Nat /\ DOMAIN queue = 1 .. Len(queue)
         /\ Pending \subseteq DOMAIN request /\ DOMAIN request \subseteq Requests
<1> USE ConstAssumption DEF BaseInv
<1>1. PICK R : request \in Seq(Calling(R))
  BY DEF TypeInv, RequestType
<1>2. Len(request) \in 0 .. MaxRequests /\ DOMAIN request = 1 .. Len(request)
  BY <1>1 DEF RequestOK
<1>3. queue \in Seq(Requests)
  BY DEF TypeInv, QueueType
<1>4. Pending \subseteq DOMAIN request
  BY DEF Pending, Queued, RequestOK
<1>5. request \in Seq({request[r] : r \in DOMAIN request})
  BY <1>1
<1> QED
  BY <1>2, <1>3, <1>4, <1>5 DEF Requests

\* The steps that neither make, nor take, nor answer a request.
LEMMA AsideReply ==
  ASSUME BaseInv, ReplyCore, BaseInv',
         UNCHANGED <<registry, request, queue, current, target, replies>>,
         theState' = theState \/ Pending = {},
         pc'[Worker] = "find" <=> pc[Worker] = "find",
         pc'[Worker] \in {"exec", "lock"} <=> pc[Worker] \in {"exec", "lock"},
         pc'[Worker] = "gone" => queue = << >>
  PROVE  ReplyCore'
<1>1. pc'[Worker] \in {"gone", "idle"} <=> pc[Worker] \in {"gone", "idle"}
  BY DEF BaseInv, RequestOK
<1>2. CellsOK'
  BY DEF ReplyCore, CellsOK
<1>3. PendingOK'
  <2>1. Pending' = Pending
    BY DEF Pending, Queued
  <2> QED
    BY <2>1 DEF ReplyCore, PendingOK
<1>4. QueueOK' /\ TargetOK'
  BY <1>1 DEF ReplyCore, QueueOK, TargetOK
<1>5. RepliesOK'
  BY DEF ReplyCore, RepliesOK, Answered
<1> QED
  BY <1>2, <1>3, <1>4, <1>5 DEF ReplyCore

LEMMA AsideSteps ==
  ASSUME BaseInv, ReplyCore, BaseInv',
         \/ HostStep \/ ConnectStep \/ DisconnectStep \/ GoesStep \/ Executed \/ End
         \/ \E t \in Threads : UseNull(t) \/ Destory(t)
  PROVE  ReplyCore'
<1> USE ConstAssumption, ThreadFacts
<1>1. pc \in [Threads -> ScriptLabels \cup WorkerLabels] /\ pc[Worker] \in WorkerLabels
  BY DEF BaseInv, TypeInv, PcType
<1>2. CASE HostStep
  <2>1. PICK s \in Scripts : Enter(s) \/ Leave(s) \/ Load(s)
    BY <1>2 DEF HostStep
  <2>2. CASE Load(s) /\ ~theSSH
    <3>1. pc[Worker] = "gone" /\ pc'[Worker] = "idle"
      BY <1>1, <2>2 DEF Load, BaseInv, ObjectOK
    <3>2. queue = << >> /\ current = 0
      BY <3>1 DEF ReplyCore, QueueOK, BaseInv, RequestOK
    <3>3. Pending = {}
      BY <3>2 DEF Pending, Queued
    <3>4. UNCHANGED <<registry, request, queue, current, target, replies>>
      BY <2>2, <3>2 DEF Load, luaVars
    <3> QED
      BY <3>1, <3>3, <3>4, AsideReply
  <2>3. CASE Enter(s) \/ Leave(s) \/ (Load(s) /\ theSSH)
    <3>1. UNCHANGED <<theState, registry, request, queue, current, target, replies>>
      BY <2>3 DEF Enter, Leave, Load, moduleVars, luaVars, workVars
    <3>2. pc'[Worker] = pc[Worker]
      BY <1>1, <2>3 DEF Enter, Leave, Load, Goto
    <3> QED
      BY <3>1, <3>2, AsideReply DEF ReplyCore, QueueOK
  <2> QED
    BY <2>1, <2>2, <2>3
<1>3. CASE ConnectStep \/ DisconnectStep \/ GoesStep
  <2>1. UNCHANGED <<theState, registry, request, queue, current, target, replies>>
    <3>1. CASE ConnectStep
      BY <3>1 DEF ConnectStep, Connect, moduleVars, luaVars, workVars
    <3>2. CASE DisconnectStep
      <4>1. PICK t \in Threads, k \in Sessions : Disconnect(t, k)
        BY <3>2 DEF DisconnectStep
      <4>2. UNCHANGED moduleVars /\ UNCHANGED luaVars /\ UNCHANGED workVars
        BY <4>1 DEF Disconnect
      <4> QED
        BY <4>2 DEF moduleVars, luaVars, workVars
    <3>3. CASE GoesStep
      BY <3>3 DEF GoesStep, Goes, Insert, Return, Erase, Joined, moduleVars, luaVars, workVars
    <3> QED
      BY <1>3, <3>1, <3>2, <3>3
  <2>2. PICK t \in Threads, l \in {"insert", "erase", "return", "run"} :
          /\ pc' = [pc EXCEPT ![t] = l]
          /\ pc[t] \in {"run", "insert", "return", "erase", "join"}
    <3>1. CASE ConnectStep
      <4>1. PICK u \in Threads, kind \in Kinds : Connect(u, kind)
        BY <3>1 DEF ConnectStep
      <4>2. pc' = [pc EXCEPT ![u] = "insert"] /\ pc[u] = "run"
        BY <4>1 DEF Connect, Calls, At, Goto
      <4> QED
        BY <4>2
    <3>2. CASE DisconnectStep
      <4>1. PICK u \in Threads, k \in Sessions : Disconnect(u, k)
        BY <3>2 DEF DisconnectStep
      <4>2. pc' = [pc EXCEPT ![u] = "erase"] /\ pc[u] = "run"
        BY <4>1 DEF Disconnect, Calls, At, Goto
      <4> QED
        BY <4>2
    <3>3. CASE GoesStep
      BY <3>3 DEF GoesStep, Goes, Insert, Return, Erase, Joined, At, Goto
    <3> QED
      BY <1>3, <3>1, <3>2, <3>3
  <2>3. /\ pc'[Worker] = "find" <=> pc[Worker] = "find"
        /\ pc'[Worker] \in {"exec", "lock"} <=> pc[Worker] \in {"exec", "lock"}
        /\ pc'[Worker] = "gone" <=> pc[Worker] = "gone"
    BY <1>1, <2>2
  <2> QED
    BY <2>1, <2>3, AsideReply DEF ReplyCore, QueueOK
<1>4. CASE Executed \/ End
  <2>1. UNCHANGED <<theState, registry, request, queue, current, target, replies>>
    BY <1>4 DEF Executed, End, moduleVars, luaVars, workVars
  <2>2. /\ pc'[Worker] = "find" <=> pc[Worker] = "find"
        /\ pc'[Worker] \in {"exec", "lock"} <=> pc[Worker] \in {"exec", "lock"}
        /\ pc'[Worker] = "gone" => queue = << >>
    BY <1>1, <1>4 DEF Executed, End, LoopOver, At, Goto
  <2> QED
    BY <2>1, <2>2, AsideReply
<1>5. CASE \E t \in Threads : UseNull(t) \/ Destory(t)
  <2>1. UNCHANGED <<theState, registry, request, queue, current, target, replies>>
    BY <1>5 DEF UseNull, Destory, moduleVars, luaVars, workVars
  <2>2. pc'[Worker] = pc[Worker]
    BY <1>1, <1>5 DEF UseNull, Destory, Goto, Break
  <2> QED
    BY <2>1, <2>2, AsideReply DEF ReplyCore, QueueOK
<1> QED
  BY <1>2, <1>3, <1>4, <1>5

\* A request puts its callback into a cell of its own.
LEMMA RequestReply ==
  ASSUME BaseInv, ReplyCore, "others" \notin habits',
         NEW t \in Threads, NEW k \in Sessions, Request(t, k)
  PROVE  ReplyCore'
<1> USE ConstAssumption
<1> DEFINE r == Len(request) + 1
           reg == registry[theState]
           new == NewRef(reg)
<1>1. /\ theState \in Scripts /\ StateOf(t) = theState
      /\ UNCHANGED <<theState, pc, current, target, replies>>
      /\ queue' = Append(queue, r) /\ r \in Requests
      /\ request' = Append(request, [by |-> theState, want |-> k, ref |-> new])
      /\ registry' = [registry EXCEPT ![theState] = Ref(reg, r)]
  BY RequestMade DEF Request, Habit, moduleVars
<1>2. /\ Len(request) \in Nat /\ Len(request') = r /\ DOMAIN request = 1 .. Len(request)
      /\ request'[r].ref = new /\ \A q \in DOMAIN request : request'[q] = request[q]
  BY <1>1, PendingType
<1>3. /\ Len(queue) \in Nat /\ DOMAIN queue = 1 .. Len(queue)
      /\ DOMAIN queue' = 1 .. Len(queue) + 1 /\ queue'[Len(queue) + 1] = r
      /\ \A i \in DOMAIN queue : queue'[i] = queue[i]
  BY <1>1, PendingType
<1>4. PICK n \in 0 .. Len(request) : \E e \in 0 .. n : WellLinked(reg, n, e)
  BY <1>1 DEF ReplyCore, CellsOK
<1>5. PICK e \in 0 .. n : WellLinked(reg, n, e)
  BY <1>4
<1>6. n \in 0 .. MaxRequests - 1
  BY <1>1, <1>2 DEF Requests
<1>7. /\ new \in Requests /\ NoCallback(reg[new]) /\ Ref(reg, r)[new] = Fn(r)
      /\ \A i \in Requests : i # new => Ref(reg, r)[i] = reg[i]
      /\ \E m \in 0 .. n + 1 : \E d \in 0 .. m : WellLinked(Ref(reg, r), m, d)
  BY <1>1, <1>5, <1>6, RefCell
<1>8. registry'[theState] = Ref(reg, r)
  BY <1>1 DEF ReplyCore, CellsOK
<1>9. CellsOK'
  <2>1. \E m \in 0 .. Len(request') : \E d \in 0 .. m : WellLinked(Ref(reg, r), m, d)
    BY <1>2, <1>7
  <2>2. Ref(reg, r) \in [Index -> Cells]
    BY <2>1 DEF WellLinked
  <2>3. registry' \in [Scripts -> [Index -> Cells]]
    BY <1>1, <2>2 DEF ReplyCore, CellsOK
  <2>4. ASSUME NEW s \in Scripts
        PROVE  \E m \in 0 .. Len(request') : \E d \in 0 .. m : WellLinked(registry'[s], m, d)
    <3>1. CASE s = theState
      BY <1>8, <2>1, <3>1
    <3>2. CASE s # theState
      <4>1. registry'[s] = registry[s]
        BY <1>1, <3>2 DEF ReplyCore, CellsOK
      <4>2. \E m \in 0 .. Len(request) : \E d \in 0 .. m : WellLinked(registry[s], m, d)
        BY DEF ReplyCore, CellsOK
      <4> QED
        BY <1>2, <4>1, <4>2
    <3> QED
      BY <3>1, <3>2
  <2> QED
    BY <2>3, <2>4 DEF CellsOK
<1>10. Pending' \subseteq Pending \cup {r}
  BY <1>1, <1>3 DEF Pending, Queued
<1>11. PendingOK'
  <2> SUFFICES ASSUME NEW q \in Pending'
               PROVE  /\ request'[q].ref \in Requests
                      /\ registry'[theState][request'[q].ref] = Fn(q)
    BY <1>1 DEF PendingOK
  <2>1. CASE q = r
    BY <1>2, <1>7, <1>8, <2>1
  <2>2. CASE q \in Pending
    <3>1. /\ request'[q] = request[q] /\ q \in Requests
          /\ request[q].ref \in Requests /\ reg[request[q].ref] = Fn(q)
      BY <1>2, <2>2, PendingType DEF ReplyCore, PendingOK
    <3>2. request[q].ref # new
      BY <1>7, <3>1 DEF NoCallback
    <3> QED
      BY <1>7, <1>8, <3>1, <3>2
  <2> QED
    BY <1>10, <2>1, <2>2
<1>12. \A i \in DOMAIN queue : queue[i] \in DOMAIN request
  BY DEF BaseInv, RequestOK
<1>13. QueueOK'
  <2>1. r # current /\ \A i \in DOMAIN queue : queue[i] # r
    BY <1>2, <1>12 DEF BaseInv, RequestOK
  <2>2. pc[Worker] # "gone"
    BY DEF Request, At
  <2> QED
    BY <1>1, <1>3, <2>1, <2>2 DEF ReplyCore, QueueOK
<1>14. TargetOK'
  <2>1. target[r] = 0
    BY <1>1, <1>2 DEF BaseInv, RequestOK
  <2> QED
    BY <1>1, <1>3, <2>1 DEF ReplyCore, TargetOK
<1>15. RepliesOK'
  BY <1>1 DEF ReplyCore, RepliesOK, Answered
<1> QED
  BY <1>9, <1>11, <1>13, <1>14, <1>15 DEF ReplyCore

\* The first task is taken out of the queue.
LEMMA TakeReply ==
  ASSUME BaseInv, ReplyCore, Take
  PROVE  ReplyCore'
<1> USE ConstAssumption, ThreadFacts
<1>1. /\ pc[Worker] = "idle" /\ pc'[Worker] = "find" /\ current = 0
      /\ current' = queue[1] /\ queue' = Tail(queue) /\ queue # << >>
      /\ UNCHANGED <<theState, registry, request, target, replies>>
  BY DEF Take, At, Goto, moduleVars, luaVars, BaseInv, TypeInv, PcType, RequestOK
<1>2. /\ Len(queue) \in Nat \ {0} /\ DOMAIN queue = 1 .. Len(queue)
      /\ DOMAIN queue' = 1 .. Len(queue) - 1
      /\ \A i \in DOMAIN queue' : queue'[i] = queue[i + 1]
  BY <1>1, PendingType
<1>3. CellsOK'
  BY <1>1 DEF ReplyCore, CellsOK
<1>4. PendingOK'
  <2>1. \A q \in Pending' : q \in Pending
    BY <1>1, <1>2 DEF Pending, Queued
  <2> QED
    BY <1>1, <2>1 DEF ReplyCore, PendingOK
<1>5. QueueOK'
  BY <1>1, <1>2 DEF ReplyCore, QueueOK
<1>6. TargetOK'
  BY <1>1, <1>2 DEF ReplyCore, TargetOK
<1>7. RepliesOK'
  <2>1. target[current'] = 0
    BY <1>1, <1>2 DEF ReplyCore, TargetOK
  <2>2. \A r \in Requests : Answered(r)' = Answered(r)
    BY <1>1, <2>1, PendingType DEF Answered, Requests
  <2> QED
    BY <1>1, <2>2 DEF ReplyCore, RepliesOK
<1> QED
  BY <1>3, <1>4, <1>5, <1>6, <1>7 DEF ReplyCore

LEMMA FindReply ==
  ASSUME BaseInv, ReplyCore, Find
  PROVE  ReplyCore'
<1> USE ConstAssumption, ThreadFacts
<1> DEFINE x == peerlists[session[request[current].want].handle]
<1>1. /\ pc \in [Threads -> ScriptLabels \cup WorkerLabels]
      /\ target \in [Requests -> 0 .. MaxSessions]
      /\ \A i \in DOMAIN queue : queue[i] \in Requests
  BY PendingType DEF BaseInv, TypeInv, PcType, TargetType
<1>2. /\ pc[Worker] = "find" /\ current \in Requests /\ target[current] = 0
      /\ UNCHANGED <<theState, registry, request, queue, replies>>
  BY CurrentFacts DEF Find, At, moduleVars, luaVars, ReplyCore, TargetOK
<1>3. CellsOK'
  BY <1>2 DEF ReplyCore, CellsOK
<1>4. \A i \in DOMAIN queue : queue[i] # current /\ queue[i] # 0
  BY <1>1 DEF ReplyCore, QueueOK, Requests
<1>5. CASE x = 0
  <2>1. pc'[Worker] = "idle" /\ current' = 0 /\ target' = target
    BY <1>1, <1>5 DEF Find, Goto
  <2>2. PendingOK'
    <3>1. \A q \in Pending' : q \in Pending
      BY <1>2, <2>1 DEF Pending, Queued
    <3> QED
      BY <1>2, <3>1 DEF ReplyCore, PendingOK
  <2>3. QueueOK' /\ TargetOK'
    BY <1>2, <1>4, <2>1 DEF ReplyCore, QueueOK, TargetOK
  <2>4. RepliesOK'
    BY <1>2, <2>1 DEF ReplyCore, RepliesOK, Answered
  <2> QED
    BY <1>3, <2>2, <2>3, <2>4 DEF ReplyCore
<1>6. CASE x # 0
  <2>1. pc'[Worker] = "exec" /\ current' = current /\ target' = [target EXCEPT ![current] = x]
    BY <1>1, <1>6 DEF Find, Goto
  <2>2. PendingOK'
    <3>1. \A q \in Pending' : q \in Pending
      BY <1>2, <2>1 DEF Pending, Queued
    <3> QED
      BY <1>2, <3>1 DEF ReplyCore, PendingOK
  <2>3. /\ target'[current] # 0
        /\ \A r \in Requests : r # current => target'[r] = target[r]
    BY <1>1, <1>2, <1>6, <2>1
  <2>4. QueueOK' /\ TargetOK'
    BY <1>1, <1>2, <1>4, <2>1, <2>3 DEF ReplyCore, QueueOK, TargetOK
  <2>5. RepliesOK'
    BY <1>2, <2>1, <2>3 DEF ReplyCore, RepliesOK, Answered
  <2> QED
    BY <1>3, <2>2, <2>4, <2>5 DEF ReplyCore
<1> QED
  BY <1>5, <1>6

\* The callback in the cell of the request is the one that is called.
LEMMA CallReply ==
  ASSUME BaseInv, ReplyCore, Call
  PROVE  ReplyCore'
<1> USE ConstAssumption, ThreadFacts
<1>1. /\ pc[Worker] = "lock" /\ pc'[Worker] = "run" /\ current \in Requests
      /\ UNCHANGED <<theState, registry, request, queue, current, target>>
  BY CurrentFacts DEF Call, At, Goto, moduleVars, workVars, BaseInv, TypeInv, PcType
<1>2. registry[theState][request[current].ref] = Fn(current)
  <2>1. current \in Pending
    BY <1>1 DEF Pending, Requests
  <2> QED
    BY <2>1 DEF ReplyCore, PendingOK
<1>3. replies' = [replies EXCEPT ![current] = @ \cup {current}]
  BY <1>2, CellFacts DEF Call
<1>4. target[current] # 0
  BY <1>1 DEF ReplyCore, TargetOK
<1>5. CellsOK'
  BY <1>1 DEF ReplyCore, CellsOK
<1>6. PendingOK'
  <2>1. Pending' = Pending
    BY <1>1 DEF Pending, Queued
  <2> QED
    BY <1>1, <2>1 DEF ReplyCore, PendingOK
<1>7. QueueOK' /\ TargetOK'
  BY <1>1, <1>4 DEF ReplyCore, QueueOK, TargetOK
<1>8. RepliesOK'
  BY <1>1, <1>3, <1>4 DEF ReplyCore, RepliesOK, Answered
<1> QED
  BY <1>5, <1>6, <1>7, <1>8 DEF ReplyCore

\* The cell of an answered request is freed, and no other.
LEMMA CalledReply ==
  ASSUME BaseInv, ReplyCore, Called
  PROVE  ReplyCore'
<1> USE ConstAssumption, ThreadFacts
<1> DEFINE reg == registry[theState]
           i == request[current].ref
<1>1. /\ pc[Worker] = "run" /\ pc'[Worker] = "idle" /\ current \in Requests /\ current' = 0
      /\ UNCHANGED <<theState, request, queue, target, replies>>
      /\ registry' = [registry EXCEPT ![theState] = Unref(reg, i)]
  BY CurrentFacts DEF Called, At, Goto, moduleVars, BaseInv, TypeInv, PcType
<1>2. theState \in Scripts /\ i \in Requests /\ reg[i] = Fn(current)
  <2>1. current \in Pending
    BY <1>1 DEF Pending, Requests
  <2> QED
    BY <2>1 DEF ReplyCore, PendingOK
<1>3. PICK n \in 0 .. Len(request) : \E e \in 0 .. n : WellLinked(reg, n, e)
  BY <1>2 DEF ReplyCore, CellsOK
<1>4. PICK e \in 0 .. n : WellLinked(reg, n, e)
  BY <1>3
<1>5. n \in Index
  BY PendingType DEF Index
<1>6. /\ \A j \in Requests : j # i => Unref(reg, i)[j] = reg[j]
      /\ \E d \in 0 .. n : WellLinked(Unref(reg, i), n, d)
  BY <1>1, <1>2, <1>4, <1>5, UnrefCell
<1>7. registry'[theState] = Unref(reg, i)
  BY <1>1, <1>2 DEF ReplyCore, CellsOK
<1>8. CellsOK'
  <2>1. Unref(reg, i) \in [Index -> Cells]
    BY <1>6 DEF WellLinked
  <2>2. registry' \in [Scripts -> [Index -> Cells]]
    BY <1>1, <2>1 DEF ReplyCore, CellsOK
  <2>3. ASSUME NEW s \in Scripts
        PROVE  \E m \in 0 .. Len(request) : \E d \in 0 .. m : WellLinked(registry'[s], m, d)
    <3>1. CASE s = theState
      BY <1>6, <1>7, <3>1
    <3>2. CASE s # theState
      BY <1>1, <3>2 DEF ReplyCore, CellsOK
    <3> QED
      BY <3>1, <3>2
  <2> QED
    BY <1>1, <2>2, <2>3 DEF CellsOK
<1>9. PendingOK'
  <2> SUFFICES ASSUME NEW q \in Pending'
               PROVE  /\ request[q].ref \in Requests
                      /\ registry'[theState][request[q].ref] = Fn(q)
    BY <1>1, <1>2 DEF PendingOK
  <2>1. q \in Pending /\ q # current
    BY <1>1 DEF Pending, Queued, ReplyCore, QueueOK
  <2>2. request[q].ref \in Requests /\ reg[request[q].ref] = Fn(q)
    BY <2>1 DEF ReplyCore, PendingOK
  <2>3. request[q].ref # i
    BY <1>2, <2>1, <2>2, CellFacts
  <2> QED
    BY <1>6, <1>7, <2>2, <2>3
<1>10. QueueOK' /\ TargetOK'
  <2>1. \A j \in DOMAIN queue : queue[j] # 0
    BY PendingType DEF Requests
  <2> QED
    BY <1>1, <2>1 DEF ReplyCore, QueueOK, TargetOK
<1>11. RepliesOK'
  BY <1>1 DEF ReplyCore, RepliesOK, Answered
<1> QED
  BY <1>8, <1>9, <1>10, <1>11 DEF ReplyCore

LEMMA ReplyStep ==
  ASSUME BaseInv, ReplyInv, [Next]_vars
  PROVE  ReplyInv'
<1> SUFFICES ASSUME "others" \notin habits' PROVE ReplyCore'
  BY DEF ReplyInv
<1>1. ReplyCore /\ BaseInv'
  BY BaseStep, HabitsStay DEF ReplyInv
<1>2. CASE UNCHANGED restVars
  BY <1>1, <1>2, AsideReply DEF restVars, ReplyCore, QueueOK
<1>3. CASE HostStep \/ ConnectStep \/ DisconnectStep \/ GoesStep
  BY <1>1, <1>3, AsideSteps
<1>4. CASE CallStep
  <2>1. CASE \E t \in Threads : UseNull(t) \/ Destory(t)
    BY <1>1, <2>1, AsideSteps
  <2>2. CASE \E t \in Threads, k \in Sessions : Request(t, k)
    BY <1>1, <2>2, RequestReply
  <2> QED
    BY <1>4, <2>1, <2>2 DEF CallStep
<1>5. CASE ServeStep
  BY <1>1, <1>5, AsideSteps, TakeReply, FindReply, CallReply, CalledReply DEF ServeStep, Serve
<1> QED
  BY <1>2, <1>3, <1>4, <1>5, StepCases

LEMMA InitReply == Init => ReplyInv
<1> SUFFICES ASSUME Init PROVE ReplyCore
  BY DEF ReplyInv
<1> USE ConstAssumption, CellFacts DEF Init
<1>1. CellsOK
  <2>1. ASSUME NEW s \in Scripts PROVE WellLinked(registry[s], 0, 0)
    BY DEF WellLinked, Index, Cells, NoCallback
  <2>2. Len(request) = 0
    OBVIOUS
  <2>3. registry \in [Scripts -> [Index -> Cells]]
    BY DEF Index, Cells
  <2> QED
    BY <2>1, <2>2, <2>3 DEF CellsOK
<1>2. PendingOK /\ QueueOK /\ TargetOK
  BY ThreadFacts DEF PendingOK, Pending, Queued, QueueOK, TargetOK
<1>3. RepliesOK
  BY DEF RepliesOK, Answered
<1> QED
  BY <1>1, <1>2, <1>3 DEF ReplyCore

\* As long as only the script that loaded the module first makes requests, each
\* callback is called once, with the answer to its own request, if that was run.
THEOREM AnswersOwn == Spec => []OwnReply
<1>1. BaseInv /\ ReplyInv /\ [Next]_vars => BaseInv' /\ ReplyInv'
  BY BaseStep, ReplyStep
<1>2. ReplyInv => OwnReply
  BY DEF ReplyInv, ReplyCore, RepliesOK, OwnReply
<1> QED
  BY InitBase, InitReply, <1>1, <1>2, PTL DEF Spec
=============================================================================
