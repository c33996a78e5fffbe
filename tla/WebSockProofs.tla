---------------------------- MODULE WebSockProofs ----------------------------
(***************************************************************************)
(* Proofs about WebSock, for any number of clients, slots, descriptors and *)
(* starts: types, what the numbers in fdarray and myclient stand for while *)
(* the server is in service, what breaks the program then, and who gets    *)
(* the header and the body of a message; and about WsFrames, for headers   *)
(* and frames of any length.                                               *)
(***************************************************************************)
EXTENDS WebSock, WsFrames, TLAPS

Kinds == {"free", "other", "bare", "listen"}
Busy  == {"recv", "dispath", "notify", "noted", "callback", "answer", "close", "forget"}

\* The work thread looks at a slot.
Placed == \A w \in Workers : pc[w] \in Busy => slot[w] \in Slots

-----------------------------------------------------------------------------
(* Types.                                                                  *)

NetTypes   == /\ fdtab \in [Fds -> Clients \cup Kinds]
              /\ conn \in [Clients -> {"out", "waiting", "open", "left"}]
ArrayTypes == fdarray \in [Slots -> Fds \cup {0}] /\ maxfd \in Fds \cup {0}
SendTypes  == /\ head \in [to : Clients \cup Kinds, result : Int]
              /\ choked \subseteq Clients /\ torn \subseteq Clients
              /\ call \in {"none", "body", "closing", "socket", "bind"}
              /\ myclient \in Fds \cup {0, -1}
ReadTypes  == /\ read \in [Clients -> Nat]
              /\ job \in [Workers -> [sock : Fds \cup {0}, upgrade : BOOLEAN]]
Why        == {"no", "console", "pipe", "stray", "unset", "head"}

TypeInv == TypeOK /\ Placed

LEMMA OwnerType == ASSUME TypeOK, NEW f PROVE Owner(f) \in Clients \cup Kinds
  BY DEF TypeOK, Owner, Kinds

LEMMA ResultType ==
  ASSUME NEW f, NEW n \in Nat, NEW r \in SendResults(f, n) PROVE r \in Int
<1>1. CASE Owner(f) = "free"
  BY <1>1 DEF SendResults
<1>2. CASE Owner(f) \in {"other", "bare", "listen"}
  BY <1>2 DEF SendResults
<1>3. CASE Owner(f) \notin {"free", "other", "bare", "listen"}
  <2>1. SendResults(f, n) = {-1, n} \cup 1 .. n
    BY <1>3 DEF SendResults
  <2> QED
    BY <2>1
<1> QED
  BY <1>1, <1>2, <1>3

LEMMA CloseType ==
  ASSUME TypeOK, NEW f, Close(f)
  PROVE  NetTypes'
  BY DEF TypeOK, Close, NetTypes, Kinds

\* What all steps of a work thread leave alone.
LEMMA WorkTypes ==
  ASSUME TypeInv, NEW w \in Workers, Work(w) PROVE TypeInv'
<1> USE DEF TypeInv, NetTypes, ArrayTypes, ReadTypes, SendTypes, Kinds, Why
<1>1. CASE Test(w)
  BY <1>1 DEF TypeOK, Placed, Test, Goto, Labels, codeVars, netVars, scriptVars, noteVars, Busy
<1>2. CASE Select(w)
  <2>1. FirstMaxfd \in Fds \cup {0}
    BY DEF FirstMaxfd, TypeOK
  <2>2. \A R \in SUBSET Watched(FirstMaxfd) : R \subseteq Fds
    BY DEF Watched
  <2>3. /\ maxfd' \in Fds \cup {0}
        /\ ready' \in [Workers -> SUBSET Fds]
        /\ \/ pc' = [pc EXCEPT ![w] = "test"] \/ pc' = [pc EXCEPT ![w] = "accept"]
           \/ pc' = [pc EXCEPT ![w] = "scan"]
    BY <1>2, <2>1, <2>2 DEF Select, Goto, TypeOK
  <2>4. UNCHANGED <<m_bExit, mysocket, myclient, fdarray, netVars, slot, job, scriptVars,
                    noteVars, broken>>
    BY <1>2 DEF Select
  <2>5. pc' \in [Workers -> Labels] /\ \A v \in Workers : pc'[v] \in Busy => pc[v] \in Busy
    <3>1. pc \in [Workers -> Labels]
      BY DEF TypeOK
    <3> QED
      BY <2>3, <3>1 DEF Labels, Busy
  <2>6. TypeOK'
    BY <2>3, <2>4, <2>5 DEF TypeOK, netVars, scriptVars, noteVars
  <2> QED
    BY <2>4, <2>5, <2>6 DEF Placed
<1>3. CASE Accept(w)
  <2>1. NetTypes' /\ ArrayTypes'
    <3>1. CASE UNCHANGED <<conn, fdtab, fdarray, maxfd>>
      BY <3>1 DEF TypeOK
    <3>2. ASSUME NEW c \in Clients, NEW f \in Fds, conn' = [conn EXCEPT ![c] = "open"],
                 UNCHANGED <<fdtab, fdarray, maxfd>>
          PROVE  NetTypes' /\ ArrayTypes'
      BY <3>2 DEF TypeOK
    <3>3. ASSUME NEW c \in Clients, NEW f \in Fds, conn' = [conn EXCEPT ![c] = "open"],
                 NEW s \in Slots, fdtab' = [fdtab EXCEPT ![f] = c],
                 fdarray' = [fdarray EXCEPT ![s] = f], maxfd' = RaiseTo(f)
          PROVE  NetTypes' /\ ArrayTypes'
      BY <3>3 DEF TypeOK, RaiseTo
    <3> QED
      BY <1>3, <3>1, <3>2, <3>3 DEF Accept, FreeSlots
  <2>2. pc' \in [Workers -> Labels] /\ \A v \in Workers : pc'[v] \in Busy => pc[v] \in Busy
    BY <1>3 DEF TypeOK, Accept, Goto, Labels, Busy
  <2>3. TypeOK'
    BY <1>3, <2>1, <2>2 DEF TypeOK, Accept, scriptVars, noteVars
  <2> QED
    BY <1>3, <2>2, <2>3 DEF Placed, Accept
<1>4. CASE Scan(w)
  <2> DEFINE hits == {s \in Slots : s > slot[w] /\ fdarray[s] \in ready[w]}
  <2>1. CASE hits = {}
    <3>1. /\ slot' = [slot EXCEPT ![w] = 0] /\ ready' = [ready EXCEPT ![w] = {}]
          /\ pc' = [pc EXCEPT ![w] = "test"]
      BY <1>4, <2>1 DEF Scan, Goto
    <3>2. slot' \in [Workers -> Slots \cup {0}] /\ pc' \in [Workers -> Labels]
          /\ ready' \in [Workers -> SUBSET Fds]
      BY <3>1 DEF TypeOK, Labels
    <3>3. TypeOK'
      BY <1>4, <3>2 DEF TypeOK, Scan, codeVars, netVars, scriptVars, noteVars
    <3> QED
      BY <3>1, <3>3 DEF TypeOK, Placed, Busy
  <2>2. CASE hits # {}
    <3>1. PICK s \in Slots : slot' = [slot EXCEPT ![w] = s]
      BY <1>4, <2>2 DEF Scan
    <3>2. pc' = [pc EXCEPT ![w] = "recv"]
      BY <1>4, <2>2 DEF Scan, Goto
    <3>3. slot' \in [Workers -> Slots \cup {0}] /\ pc' \in [Workers -> Labels]
      BY <3>1, <3>2 DEF TypeOK, Labels
    <3>4. TypeOK'
      BY <1>4, <2>2, <3>3 DEF TypeOK, Scan, codeVars, netVars, scriptVars, noteVars
    <3> QED
      BY <3>1, <3>2, <3>4 DEF TypeOK, Placed
  <2> QED
    BY <2>1, <2>2
<1>5. CASE Recv(w)
  <2>1. fdarray[slot[w]] \in Fds \cup {0}
    BY <1>5 DEF Recv, TypeOK, Placed, Busy, At
  <2>2. \A c \in Clients : \A n \in read[c] + 1 .. said[c] : n \in Nat
    BY DEF TypeOK
  <2>3. ReadTypes'
    <3>1. CASE UNCHANGED <<read, job>>
      BY <3>1 DEF TypeOK
    <3>2. ASSUME NEW c \in Clients, NEW n \in read[c] + 1 .. said[c], NEW u \in BOOLEAN,
                 read' = [read EXCEPT ![c] = n],
                 job' = [job EXCEPT ![w] = [sock |-> fdarray[slot[w]], upgrade |-> u]]
          PROVE  ReadTypes'
      <4>1. n \in Nat
        BY <2>2
      <4> QED
        BY <2>1, <3>2, <4>1 DEF TypeOK
    <3> QED
      BY <1>5, <3>1, <3>2 DEF Recv
  <2>4. /\ pc' \in [Workers -> Labels] /\ broken' \in Why
        /\ \A v \in Workers : pc'[v] = pc[v] \/ v = w
    BY <1>5 DEF Recv, TypeOK, Goto, Break, Labels
  <2>5. slot[w] \in Slots
    BY <1>5 DEF Recv, Placed, Busy, At
  <2> QED
    BY <1>5, <2>3, <2>4, <2>5 DEF TypeOK, Placed, Recv, codeVars, scriptVars, noteVars
<1>6. CASE Frame(w)
  BY <1>6 DEF TypeOK, Placed, Frame, At, Goto, Labels, codeVars, netVars, scriptVars,
              noteVars, Busy
<1>7. CASE Handshake(w)
  <2>1. myclient' \in Fds \cup {0, -1} /\ last' \in Clients \cup {NoClient}
    BY <1>7 DEF Handshake, TypeOK, NewClient
  <2>2. /\ pc' \in [Workers -> Labels] /\ \A v \in Workers : pc'[v] = pc[v] \/ v = w
    BY <1>7 DEF Handshake, TypeOK, Goto, Labels
  <2>3. broken' \in Why
    BY <1>7 DEF Handshake, TypeOK, SendFails, Break
  <2>4. job' \in [Workers -> [sock : Fds \cup {0}, upgrade : BOOLEAN]]
    <3>1. job' = job \/ job' = [job EXCEPT ![w] = NoJob]
      BY <1>7 DEF Handshake
    <3>2. NoJob \in [sock : Fds \cup {0}, upgrade : BOOLEAN]
      BY DEF NoJob
    <3>3. job \in [Workers -> [sock : Fds \cup {0}, upgrade : BOOLEAN]]
      BY DEF TypeOK
    <3> QED
      BY <3>1, <3>2, <3>3
  <2>5. slot[w] \in Slots
    BY <1>7 DEF Handshake, Placed, Busy, At
  <2> QED
    BY <1>7, <2>1, <2>2, <2>3, <2>4, <2>5 DEF TypeOK, Placed, Handshake, netVars, scriptVars
<1>8. CASE Drop(w)
  BY <1>8 DEF TypeOK, Placed, Drop, At, Goto, Labels, NoJob, codeVars, netVars, scriptVars,
              noteVars, Busy
<1>9. CASE Callback(w)
  BY <1>9 DEF TypeOK, Placed, Callback, At, Goto, Labels, codeVars, netVars, noteVars, Busy
<1>10. CASE Return(w)
  BY <1>10 DEF TypeOK, Placed, Return, At, Goto, Labels, NoJob, codeVars, netVars, noteVars, Busy
<1>11. CASE CloseSock(w)
  <2>1. NetTypes'
    BY <1>11, CloseType DEF CloseSock, Shut, TypeOK
  <2>2. /\ pc' \in [Workers -> Labels] /\ \A v \in Workers : pc'[v] = pc[v] \/ v = w
        /\ broken' \in Why
    BY <1>11 DEF CloseSock, TypeOK, Goto, Labels, Break
  <2>3. slot[w] \in Slots
    BY <1>11 DEF CloseSock, Placed, Busy, At
  <2>4. TypeOK'
    BY <1>11, <2>1, <2>2 DEF TypeOK, CloseSock, codeVars, scriptVars, noteVars
  <2> QED
    BY <1>11, <2>2, <2>3, <2>4 DEF Placed, CloseSock
<1>12. CASE Forget(w)
  <2>1. ready' \in [Workers -> SUBSET Fds] /\ fdarray' \in [Slots -> Fds \cup {0}]
    BY <1>12 DEF Forget, TypeOK, Emptied
  <2> QED
    BY <1>12, <2>1 DEF TypeOK, Placed, Forget, Forgotten, At, Goto, Labels, netVars, scriptVars,
                       noteVars, Busy
<1>13. CASE BadHead(w)
  BY <1>13 DEF TypeOK, Placed, BadHead, Break, codeVars, netVars, scriptVars, noteVars
<1> QED
  BY <1>1, <1>2, <1>3, <1>4, <1>5, <1>6, <1>7, <1>8, <1>9, <1>10, <1>11, <1>12, <1>13 DEF Work

\* The script and the rest of the world.
LEMMA OtherTypes ==
  ASSUME TypeInv,
         \/ \E c \in Clients : Connect(c) \/ Say(c) \/ Leave(c)
         \/ OtherOpens \/ OtherCloses \/ Enter \/ Module
  PROVE  TypeInv'
<1> USE DEF TypeInv, Placed, NetTypes, SendTypes, Kinds, Why
<1>1. ASSUME NEW c \in Clients, Connect(c) \/ Say(c) \/ Leave(c) PROVE TypeInv'
  BY <1>1 DEF TypeOK, Connect, Say, Leave, codeVars, workVars, scriptVars, noteVars
<1>2. CASE OtherOpens \/ OtherCloses
  <2>1. fdtab' \in [Fds -> Clients \cup {"free", "other", "bare", "listen"}]
    BY <1>2 DEF TypeOK, OtherOpens, OtherCloses
  <2> QED
    BY <1>2, <2>1 DEF TypeOK, OtherOpens, OtherCloses, codeVars, workVars, scriptVars, noteVars
<1>3. CASE Enter \/ Exit
  BY <1>3 DEF TypeOK, Enter, Exit, codeVars, netVars, workVars, noteVars
<1>4. CASE SendHead
  <2>1. SendTypes' /\ broken' \in Why
    <3> /\ UNCHANGED <<torn, myclient>> /\ torn \subseteq Clients
        /\ myclient \in Fds \cup {0, -1}
      BY <1>4 DEF SendHead, codeVars, TypeOK
    <3>1. CASE starts = 0
      BY <1>4, <3>1 DEF SendHead, Break, TypeOK
    <3>2. CASE starts # 0 /\ SendFails(myclient) /\ UNCHANGED <<call, head, choked>>
      BY <1>4, <3>2 DEF SendHead, SendFails, Break, TypeOK
    <3>3. ASSUME NEW r \in SendResults(myclient, 2),
                 head' = [to |-> Owner(myclient), result |-> r],
                 choked' = (IF Owner(myclient) \in Clients /\ r < 2
                            THEN choked \cup {Owner(myclient)} ELSE choked),
                 call' = "body", broken' = broken
          PROVE  SendTypes' /\ broken' \in Why
      <4>1. r \in Int /\ Owner(myclient) \in Clients \cup {"free", "other", "bare", "listen"}
        BY ResultType, OwnerType DEF Kinds
      <4> QED
        BY <3>3, <4>1 DEF TypeOK
    <3> QED
      BY <1>4, <3>1, <3>2, <3>3 DEF SendHead
  <2> QED
    BY <1>4, <2>1 DEF TypeOK, SendHead, codeVars, netVars, workVars
<1>5. CASE SendBody
  <2>1. SendTypes' /\ broken' \in Why
    BY <1>5 DEF SendBody, SendFails, Break, NoHead, TypeOK
  <2> QED
    BY <1>5, <2>1 DEF TypeOK, SendBody, netVars, workVars
<1>6. CASE StopFlag
  <2>1. NetTypes'
    BY <1>6, CloseType DEF StopFlag, TypeOK
  <2>2. /\ m_bExit' \in BOOLEAN /\ stopped' \in BOOLEAN /\ broken' \in Why
        /\ call' \in {"none", "body", "closing", "socket", "bind"}
    BY <1>6 DEF TypeOK, StopFlag, Break
  <2> QED
    BY <1>6, <2>1, <2>2 DEF TypeOK, StopFlag, workVars, noteVars
<1>7. CASE StopSlots
  <2>1. NetTypes'
    BY <1>7 DEF StopSlots, TypeOK
  <2> QED
    BY <1>7, <2>1 DEF TypeOK, StopSlots, Break, codeVars, workVars
<1>8. CASE StartFlag
  <2>1. starts' \in 0 .. MaxStarts
    BY <1>8, ConstAssumption DEF TypeOK, StartFlag
  <2>2. /\ m_bExit' \in BOOLEAN /\ call' \in {"none", "body", "closing", "socket", "bind"}
        /\ UNCHANGED <<mysocket, myclient, fdarray, maxfd, netVars, workVars, lock, head,
                       stopped, noteVars, broken>>
    BY <1>8 DEF StartFlag
  <2> QED
    BY <2>1, <2>2 DEF TypeOK, netVars, workVars, noteVars
<1>9. CASE StartSocket
  <2>1. /\ fdtab' \in [Fds -> Clients \cup {"free", "other", "bare", "listen"}]
        /\ mysocket' \in Fds \cup {0}
    BY <1>9 DEF StartSocket, TypeOK
  <2> QED
    BY <1>9, <2>1 DEF TypeOK, StartSocket, workVars, noteVars
<1>10. CASE StartThread
  <2>1. /\ fdtab' \in [Fds -> Clients \cup {"free", "other", "bare", "listen"}]
        /\ pc' \in [Workers -> Labels]
    BY <1>10 DEF StartThread, TypeOK, Labels
  <2>2. \A w \in Workers : pc'[w] \in Busy => pc[w] \in Busy
    BY <1>10 DEF StartThread, TypeOK, Busy
  <2> QED
    BY <1>10, <2>1, <2>2 DEF TypeOK, StartThread, codeVars, noteVars
<1> QED
  BY <1>1, <1>2, <1>3, <1>4, <1>5, <1>6, <1>7, <1>8, <1>9, <1>10 DEF Module

LEMMA TypeInitially == Init => TypeInv
<1> SUFFICES ASSUME Init PROVE TypeInv
  OBVIOUS
<1>1. /\ fdtab \in [Fds -> {"free"}] /\ conn \in [Clients -> {"out"}]
      /\ said \in [Clients -> Nat] /\ read \in [Clients -> Nat]
      /\ fdarray \in [Slots -> {0}]
  BY DEF Init
<1>2. /\ pc \in [Workers -> {"new"}] /\ slot \in [Workers -> {0}]
      /\ ready \in [Workers -> SUBSET Fds] /\ job \in [Workers -> {NoJob}]
  BY DEF Init
<1>3. NoJob \in [sock : Fds \cup {0}, upgrade : BOOLEAN]
  BY DEF NoJob
<1>4. head \in [to : Clients \cup Kinds, result : Int]
  BY DEF Init, NoHead, Kinds
<1>5. starts \in 0 .. MaxStarts
  BY ConstAssumption DEF Init
<1>6. job \in [Workers -> [sock : Fds \cup {0}, upgrade : BOOLEAN]]
  BY <1>2, <1>3
<1>7. pc \in [Workers -> Labels]
  BY <1>2 DEF Labels
<1>8. TypeOK
  BY <1>1, <1>2, <1>4, <1>5, <1>6, <1>7 DEF TypeOK, Init, Kinds
<1> QED
  BY <1>2, <1>8 DEF TypeInv, Placed, Busy

LEMMA TypeKept == TypeInv /\ [Next]_vars => TypeInv'
<1>1. CASE UNCHANGED vars
  BY <1>1 DEF TypeInv, TypeOK, Placed, vars, codeVars, netVars, workVars, scriptVars, noteVars
<1>2. TypeInv /\ Next => TypeInv'
  BY WorkTypes, OtherTypes DEF Next, Runnable
<1> QED
  BY <1>1, <1>2

\* Every variable has its type.
THEOREM TypeCorrect == Spec => []TypeOK
<1>1. Spec => []TypeInv
  BY TypeInitially, TypeKept, PTL DEF Spec
<1>2. TypeInv => TypeOK
  BY DEF TypeInv
<1> QED
  BY <1>1, <1>2, PTL

-----------------------------------------------------------------------------
(* Clients, their descriptors, and who shook hands last.                   *)

\* A connection that the program holds is open or left, and held once.
ConnOK == \A f \in Fds : fdtab[f] \in Clients => conn[fdtab[f]] \in {"open", "left"}
OneFd  == \A f, g \in Fds : fdtab[f] \in Clients /\ fdtab[f] = fdtab[g] => f = g
LastOK == last # NoClient => conn[last] \in {"open", "left"}

NetInv == ConnOK /\ OneFd /\ LastOK

\* Nobody is forgotten by the kernel: who is open or left stays one of both.
ConnStep == \A c \in Clients : conn[c] \in {"open", "left"} => conn'[c] \in {"open", "left"}

\* Steps that give no descriptor to a client.
LEMMA NetFewer ==
  ASSUME TypeOK, NetInv, ConnStep, \A f \in Fds : fdtab'[f] \in Clients => fdtab'[f] = fdtab[f],
         last' = last \/ last' = NoClient
  PROVE  NetInv'
  BY DEF TypeOK, NetInv, ConnOK, OneFd, LastOK, ConnStep

LEMMA NoKind == ASSUME NEW c \in Clients PROVE c # NoClient /\ c \notin Kinds
  BY ConstAssumption DEF Kinds

LEMMA CloseNet ==
  ASSUME TypeOK, NEW f, Close(f)
  PROVE  ConnStep /\ \A g \in Fds : fdtab'[g] \in Clients => fdtab'[g] = fdtab[g]
<1>1. ConnStep
  BY DEF Close, TypeOK, ConnStep
<1>2. ASSUME NEW g \in Fds, fdtab'[g] \in Clients PROVE fdtab'[g] = fdtab[g]
  <2>1. CASE f \in Fds /\ g = f
    <3>1. fdtab'[g] = "free"
      BY <2>1 DEF Close, TypeOK
    <3> QED
      BY <1>2, <3>1, NoKind DEF Kinds
  <2>2. CASE ~(f \in Fds /\ g = f)
    BY <2>2 DEF Close, TypeOK
  <2> QED
    BY <2>1, <2>2
<1> QED
  BY <1>1, <1>2

LEMMA NetWork ==
  ASSUME TypeInv, NetInv, NEW w \in Workers, Work(w) PROVE NetInv'
<1> USE DEF TypeInv
<1>1. CASE UNCHANGED <<fdtab, conn, last>>
  BY <1>1 DEF NetInv, ConnOK, OneFd, LastOK
<1>2. CASE Accept(w)
  <2>0. last' = last
    BY <1>2 DEF Accept, noteVars
  <2>1. CASE UNCHANGED <<conn, fdtab>>
    BY <1>1, <2>0, <2>1
  <2>2. ASSUME NEW c \in Clients, conn[c] = "waiting", conn' = [conn EXCEPT ![c] = "open"]
        PROVE  ConnStep /\ conn'[c] = "open"
    BY <2>2 DEF ConnStep, TypeOK
  <2>3. ASSUME NEW c \in Clients, conn[c] = "waiting", conn' = [conn EXCEPT ![c] = "open"],
               fdtab' = fdtab
        PROVE  NetInv'
    BY <2>0, <2>2, <2>3, NetFewer
  <2>4. ASSUME NEW c \in Clients, conn[c] = "waiting", conn' = [conn EXCEPT ![c] = "open"],
               NEW f \in Fds, fdtab' = [fdtab EXCEPT ![f] = c]
        PROVE  NetInv'
    <3>1. \A g \in Fds : fdtab[g] # c
      BY <2>4 DEF NetInv, ConnOK
    <3>2. \A g \in Fds : fdtab'[g] = IF g = f THEN c ELSE fdtab[g]
      BY <2>4 DEF TypeOK
    <3>3. ConnStep /\ conn'[c] = "open"
      BY <2>2, <2>4
    <3>4. OneFd'
      BY <3>1, <3>2 DEF NetInv, OneFd
    <3>5. ConnOK' /\ LastOK'
      BY <2>0, <3>2, <3>3 DEF NetInv, ConnOK, LastOK, ConnStep, TypeOK
    <3> QED
      BY <3>4, <3>5 DEF NetInv
  <2> QED
    BY <1>2, <2>1, <2>3, <2>4 DEF Accept
<1>3. CASE Handshake(w)
  <2>1. UNCHANGED <<fdtab, conn>>
    BY <1>3 DEF Handshake, netVars
  <2>2. last' = last \/ last' = NoClient \/ \E f \in Fds : last' = fdtab[f] /\ fdtab[f] \in Clients
    BY <1>3, NoKind DEF Handshake, Owner, Kinds
  <2> QED
    BY <2>1, <2>2 DEF NetInv, ConnOK, OneFd, LastOK
<1>4. CASE CloseSock(w)
  <2>1. last' = last
    BY <1>4 DEF CloseSock, noteVars
  <2>2. CASE UNCHANGED <<fdtab, conn>>
    BY <1>1, <2>1, <2>2
  <2>3. CASE Close(fdarray[slot[w]])
    BY <2>1, <2>3, CloseNet, NetFewer
  <2> QED
    BY <1>4, <2>2, <2>3 DEF CloseSock, Shut
<1>5. CASE Test(w) \/ Select(w) \/ Scan(w) \/ Recv(w) \/ Frame(w) \/ BadHead(w) \/ Drop(w)
           \/ Callback(w) \/ Return(w) \/ Forget(w)
  <2>1. UNCHANGED <<fdtab, conn, last>>
    BY <1>5 DEF Test, Select, Scan, Recv, Frame, BadHead, Drop, Callback, Return, Forget,
                netVars, noteVars
  <2> QED
    BY <1>1, <2>1
<1> QED
  BY <1>2, <1>3, <1>4, <1>5 DEF Work

LEMMA NetOther ==
  ASSUME TypeInv, NetInv,
         \/ \E c \in Clients : Connect(c) \/ Say(c) \/ Leave(c)
         \/ OtherOpens \/ OtherCloses \/ Enter \/ Module
  PROVE  NetInv'
<1> USE DEF TypeInv
<1>1. CASE UNCHANGED <<fdtab, conn, last>>
  BY <1>1 DEF NetInv, ConnOK, OneFd, LastOK
<1>2. ASSUME NEW c \in Clients, Connect(c) \/ Leave(c) PROVE NetInv'
  <2>1. ConnStep /\ UNCHANGED <<fdtab, last>>
    BY <1>2 DEF Connect, Leave, ConnStep, TypeOK, noteVars
  <2> QED
    BY <2>1, NetFewer
<1>3. ASSUME NEW c \in Clients, Say(c) PROVE NetInv'
  BY <1>1, <1>3 DEF Say, noteVars
<1>4. CASE OtherOpens \/ OtherCloses
  <2>1. UNCHANGED <<conn, last>>
    BY <1>4 DEF OtherOpens, OtherCloses, noteVars
  <2>2. PICK f \in Fds : fdtab' = [fdtab EXCEPT ![f] = "other"] \/ fdtab' = [fdtab EXCEPT ![f] = "free"]
    BY <1>4 DEF OtherOpens, OtherCloses
  <2>3. \A g \in Fds : fdtab'[g] \in Clients => fdtab'[g] = fdtab[g]
    BY <2>2, NoKind DEF TypeOK, Kinds
  <2> QED
    BY <2>1, <2>3, NetFewer DEF ConnStep
<1>5. CASE Enter \/ Exit \/ SendHead \/ SendBody \/ StartFlag
  BY <1>1, <1>5 DEF Enter, Exit, SendHead, SendBody, StartFlag, netVars, noteVars
<1>6. CASE StopFlag
  <2>1. last' = last
    BY <1>6 DEF StopFlag, noteVars
  <2>2. CASE UNCHANGED <<fdtab, conn>>
    BY <1>1, <2>1, <2>2
  <2>3. CASE Close(mysocket)
    BY <2>1, <2>3, CloseNet, NetFewer
  <2> QED
    BY <1>6, <2>2, <2>3 DEF StopFlag
<1>7. CASE StopSlots
  <2>1. CASE UNCHANGED <<fdtab, conn, last>>
    BY <1>1, <2>1
  <2>2. CASE ~UNCHANGED <<fdtab, conn, last>>
    <3>1. last' = NoClient
      BY <1>7, <2>2 DEF StopSlots
    <3>2. ConnStep
      BY <1>7, <2>2 DEF StopSlots, ConnStep, TypeOK
    <3>3. \A f \in Fds : fdtab'[f] = fdtab[f] \/ fdtab'[f] = "free"
      BY <1>7, <2>2 DEF StopSlots
    <3>4. \A f \in Fds : fdtab'[f] \in Clients => fdtab'[f] = fdtab[f]
      BY <3>3, NoKind DEF Kinds
    <3> QED
      BY <3>1, <3>2, <3>4, NetFewer
  <2> QED
    BY <2>1, <2>2
<1>8. CASE StartSocket \/ StartThread
  <2>1. UNCHANGED <<conn, last>>
    BY <1>8 DEF StartSocket, StartThread, noteVars
  <2>2. \A g \in Fds : fdtab'[g] = fdtab[g] \/ fdtab'[g] \in {"bare", "listen"}
    BY <1>8 DEF StartSocket, StartThread, TypeOK
  <2>3. \A g \in Fds : fdtab'[g] \in Clients => fdtab'[g] = fdtab[g]
    BY <2>2, NoKind DEF Kinds
  <2> QED
    BY <2>1, <2>3, NetFewer DEF ConnStep
<1> QED
  BY <1>2, <1>3, <1>4, <1>5, <1>6, <1>7, <1>8 DEF Module

LEMMA NetKept == TypeInv /\ NetInv /\ [Next]_vars => NetInv'
<1>1. CASE UNCHANGED vars
  BY <1>1 DEF NetInv, ConnOK, OneFd, LastOK, vars, netVars, noteVars
<1>2. TypeInv /\ NetInv /\ Next => NetInv'
  BY NetWork, NetOther DEF Next, Runnable
<1> QED
  BY <1>1, <1>2

-----------------------------------------------------------------------------
(* Before the first work thread, and the one work thread of a first start. *)

Fresh == starts = 0 \/ (starts = 1 /\ call \in {"socket", "bind"})
FreshOK ==
  Fresh => /\ \A w \in Workers : pc[w] = "new"
           /\ \A s \in Slots : fdarray[s] = 0
           /\ \A f \in Fds : fdtab[f] \notin Clients
           /\ last = NoClient /\ myclient \notin Fds
BareOK  == starts = 0 \/ (starts = 1 /\ call = "socket") =>
             \A f \in Fds : fdtab[f] \notin {"bare", "listen"}
IdleOK  == starts = 0 => call = "none" /\ ~stopped
CloseOK == call = "closing" => stopped
StartOK == \A w \in Workers : pc[w] # "new" => w <= starts

RunInv == FreshOK /\ BareOK /\ IdleOK /\ CloseOK /\ StartOK

LEMMA OneWorker ==
  ASSUME TypeOK, StartOK, starts = 1, NEW v \in Workers, NEW w \in Workers,
         pc[v] # "new", pc[w] # "new"
  PROVE  v = w
  BY DEF StartOK, Workers

LEMMA NotNew == ASSUME NEW w \in Workers, Work(w) PROVE pc[w] # "new"
  BY DEF Work, Test, Select, Accept, Scan, Recv, Frame, Handshake, BadHead, Drop, Callback, Return,
         CloseSock, Forget, At

\* A step of a work thread moves that one only, and never back to "new".
LEMMA WorkMoves ==
  ASSUME TypeOK, NEW w \in Workers, Work(w)
  PROVE  /\ \A v \in Workers : v # w => pc'[v] = pc[v]
         /\ starts' = starts /\ call' = call /\ stopped' = stopped
<1>1. \A v \in Workers : v # w => pc'[v] = pc[v]
  <2>0. pc \in [Workers -> Labels]
    BY DEF TypeOK
  <2>1. CASE Test(w) \/ Select(w) \/ Accept(w) \/ Scan(w) \/ Recv(w) \/ Frame(w)
    BY <2>0, <2>1 DEF Test, Select, Accept, Scan, Recv, Frame, Goto
  <2>2. CASE \/ Handshake(w) \/ BadHead(w) \/ Drop(w) \/ Callback(w) \/ Return(w)
             \/ CloseSock(w) \/ Forget(w)
    BY <2>0, <2>2 DEF Handshake, BadHead, Drop, Callback, Return, CloseSock, Forget, Goto
  <2> QED
    BY <2>1, <2>2 DEF Work
<1>2. starts' = starts /\ call' = call /\ stopped' = stopped
  BY DEF Work, Test, Select, Accept, Scan, Recv, Frame, Handshake, BadHead, Drop, Callback, Return,
         CloseSock, Forget, scriptVars
<1> QED
  BY <1>1, <1>2

LEMMA RunWork ==
  ASSUME TypeInv, RunInv, NEW w \in Workers, Work(w) PROVE RunInv'
<1>0. TypeOK
  BY DEF TypeInv
<1>1. pc[w] # "new"
  BY NotNew
<1>2. ~Fresh
  BY <1>1 DEF RunInv, FreshOK
<1>3. /\ \A v \in Workers : v # w => pc'[v] = pc[v]
      /\ starts' = starts /\ call' = call /\ stopped' = stopped
  BY <1>0, WorkMoves
<1>4. w <= starts
  BY <1>1 DEF RunInv, StartOK
<1>5. StartOK' /\ CloseOK'
  BY <1>3, <1>4 DEF RunInv, StartOK, CloseOK
<1>6. FreshOK' /\ BareOK' /\ IdleOK'
  BY <1>2, <1>3 DEF FreshOK, BareOK, IdleOK, Fresh
<1> QED
  BY <1>5, <1>6 DEF RunInv

LEMMA RunOther ==
  ASSUME TypeInv, RunInv,
         \/ \E c \in Clients : Connect(c) \/ Say(c) \/ Leave(c)
         \/ OtherOpens \/ OtherCloses \/ Enter \/ Module
  PROVE  RunInv'
<1> USE DEF TypeInv, RunInv
<1>1. CASE UNCHANGED <<pc, fdarray, fdtab, last, myclient, starts, call, stopped>>
  BY <1>1 DEF FreshOK, Fresh, BareOK, IdleOK, CloseOK, StartOK
<1>2. ASSUME NEW c \in Clients, Connect(c) \/ Say(c) \/ Leave(c) PROVE RunInv'
  BY <1>1, <1>2 DEF Connect, Say, Leave, codeVars, workVars, scriptVars, noteVars
<1>3. CASE Enter \/ Exit
  BY <1>1, <1>3 DEF Enter, Exit, codeVars, netVars, workVars, noteVars
<1>4. CASE OtherOpens \/ OtherCloses
  <2>1. UNCHANGED <<pc, fdarray, last, myclient, starts, call, stopped>>
    BY <1>4 DEF OtherOpens, OtherCloses, codeVars, workVars, scriptVars, noteVars
  <2>2. \A f \in Fds : fdtab'[f] = fdtab[f] \/ fdtab'[f] \in {"other", "free"}
    BY <1>4 DEF OtherOpens, OtherCloses, TypeOK
  <2>3. \A f \in Fds : /\ fdtab[f] \notin Clients => fdtab'[f] \notin Clients
                       /\ fdtab[f] \notin {"bare", "listen"} => fdtab'[f] \notin {"bare", "listen"}
    BY <2>2, NoKind DEF Kinds
  <2> QED
    BY <2>1, <2>3 DEF FreshOK, Fresh, BareOK, IdleOK, CloseOK, StartOK
<1>5. CASE SendHead
  <2>1. CASE starts = 0
    BY <1>1, <1>5, <2>1 DEF SendHead, codeVars, netVars, workVars
  <2>2. CASE starts # 0
    <3>1. UNCHANGED <<pc, fdarray, fdtab, last, myclient, starts, stopped>>
      BY <1>5 DEF SendHead, codeVars, netVars, workVars
    <3>2. call' = "body" \/ call' = call
      BY <1>5, <2>2 DEF SendHead
    <3> QED
      BY <2>2, <3>1, <3>2 DEF FreshOK, Fresh, BareOK, IdleOK, CloseOK, StartOK
  <2> QED
    BY <2>1, <2>2
<1>6. CASE SendBody
  <2>1. UNCHANGED <<pc, fdarray, fdtab, last, starts, stopped>>
    BY <1>6 DEF SendBody, netVars, workVars
  <2>2. call = "body" /\ (call' = "none" \/ call' = "body")
    BY <1>6 DEF SendBody
  <2> QED
    BY <2>1, <2>2 DEF FreshOK, Fresh, BareOK, IdleOK, CloseOK, StartOK
<1>7. CASE StopFlag
  <2>1. call = "none" /\ UNCHANGED <<pc, fdarray, last, myclient, starts>>
    BY <1>7 DEF StopFlag, Calls, workVars, noteVars
  <2>2. CASE UNCHANGED <<fdtab, call, stopped>>
    BY <1>1, <2>1, <2>2
  <2>3. CASE call' = "closing" /\ stopped' /\ starts # 0
    BY <2>1, <2>3 DEF FreshOK, Fresh, BareOK, IdleOK, CloseOK, StartOK
  <2> QED
    BY <1>7, <2>2, <2>3 DEF StopFlag
<1>8. CASE StopSlots
  <2>1. /\ call = "closing" /\ call' \in {"none", "closing"}
        /\ UNCHANGED <<pc, fdarray, myclient, starts, stopped>>
    BY <1>8 DEF StopSlots, codeVars, workVars
  <2> QED
    BY <2>1 DEF FreshOK, Fresh, BareOK, IdleOK, CloseOK, StartOK
<1>9. CASE StartFlag
  <2>1. /\ call = "none" /\ starts' = starts + 1 /\ call' = "socket"
        /\ UNCHANGED <<pc, fdarray, fdtab, last, myclient, stopped>>
    BY <1>9 DEF StartFlag, Calls, netVars, workVars, noteVars
  <2>2. starts \in Nat
    BY ConstAssumption DEF TypeOK
  <2>3. Fresh' => starts = 0
    BY <2>1, <2>2 DEF Fresh
  <2>4. FreshOK' /\ BareOK'
    BY <2>1, <2>2, <2>3 DEF FreshOK, Fresh, BareOK
  <2>5. IdleOK' /\ CloseOK' /\ StartOK'
    BY <2>1, <2>2 DEF IdleOK, CloseOK, StartOK, Workers
  <2> QED
    BY <2>4, <2>5
<1>10. CASE StartSocket
  <2>1. /\ call = "socket" /\ call' = "bind" /\ \A s \in Slots : fdarray'[s] = 0
        /\ myclient' = 0 /\ UNCHANGED <<pc, last, starts, stopped>>
    BY <1>10 DEF StartSocket, workVars, noteVars
  <2>2. \A f \in Fds : fdtab'[f] = fdtab[f] \/ fdtab'[f] = "bare"
    BY <1>10 DEF StartSocket, TypeOK
  <2>3. \A f \in Fds : fdtab[f] \notin Clients => fdtab'[f] \notin Clients
    BY <2>2, NoKind DEF Kinds
  <2>4. 0 \notin Fds
    BY DEF Fds
  <2>5. FreshOK'
    BY <2>1, <2>3, <2>4 DEF FreshOK, Fresh
  <2> QED
    BY <2>1, <2>5 DEF BareOK, IdleOK, CloseOK, StartOK
<1>11. CASE StartThread
  <2>1. /\ call = "bind" /\ call' = "none"
        /\ UNCHANGED <<fdarray, myclient, last, starts, stopped>>
    BY <1>11 DEF StartThread, codeVars, noteVars
  <2>2. starts # 0
    BY <2>1 DEF IdleOK
  <2>3. \A v \in Workers : pc'[v] = pc[v] \/ v = starts
    BY <1>11 DEF StartThread, TypeOK
  <2>4. starts \in Nat
    BY ConstAssumption DEF TypeOK
  <2>5. StartOK'
    BY <2>1, <2>3, <2>4 DEF StartOK, Workers
  <2> QED
    BY <2>1, <2>2, <2>5 DEF FreshOK, Fresh, BareOK, IdleOK, CloseOK
<1> QED
  BY <1>2, <1>3, <1>4, <1>5, <1>6, <1>7, <1>8, <1>9, <1>10, <1>11 DEF Module

LEMMA RunKept == TypeInv /\ RunInv /\ [Next]_vars => RunInv'
<1>1. CASE UNCHANGED vars
  BY <1>1 DEF RunInv, FreshOK, Fresh, BareOK, IdleOK, CloseOK, StartOK, vars, codeVars, netVars,
              workVars, scriptVars, noteVars
<1>2. TypeInv /\ RunInv /\ Next => RunInv'
  BY RunWork, RunOther DEF Next, Runnable
<1> QED
  BY <1>1, <1>2

-----------------------------------------------------------------------------
(* The slot the work thread has in hand.                                   *)

HandOK ==
  starts = 1 => \A w \in Workers :
    pc[w] \in Busy => /\ fdarray[slot[w]] # 0
                      /\ pc[w] = "dispath" => job[w].sock = fdarray[slot[w]]

\* With one start there is one work thread.
LEMMA Solo ==
  ASSUME TypeOK, RunInv, starts = 1, NEW w \in Workers, Work(w)
  PROVE  \A v \in Workers : v # w => pc[v] = "new" /\ pc'[v] = "new"
  BY NotNew, OneWorker, WorkMoves DEF RunInv

LEMMA HandWork ==
  ASSUME TypeInv, RunInv, HandOK, NEW w \in Workers, Work(w) PROVE HandOK'
<1> SUFFICES ASSUME starts = 1, pc'[w] \in Busy
             PROVE  /\ fdarray'[slot'[w]] # 0
                    /\ pc'[w] = "dispath" => job'[w].sock = fdarray'[slot'[w]]
  <2>1. TypeOK
    BY DEF TypeInv
  <2>2. starts' = starts
    BY <2>1, WorkMoves
  <2>3. starts = 1 => \A v \in Workers : v # w => pc'[v] \notin Busy
    BY <2>1, Solo DEF Busy
  <2> QED
    BY <2>2, <2>3 DEF HandOK
<1> USE DEF TypeInv
<1>0. pc \in [Workers -> Labels]
  BY DEF TypeOK
<1>1. CASE Test(w) \/ Select(w) \/ Accept(w) \/ Drop(w) \/ Forget(w)
  <2>1. pc'[w] \in {"select", "ended", "test", "accept", "scan"}
    BY <1>0, <1>1 DEF Test, Select, Accept, Drop, Forget, Goto
  <2> QED
    BY <2>1 DEF Busy
<1>2. CASE Scan(w)
  <2>1. PICK s \in Slots : /\ fdarray[s] \in ready[w] /\ slot' = [slot EXCEPT ![w] = s]
                           /\ pc'[w] = "recv"
    BY <1>0, <1>2 DEF Scan, Goto, Busy
  <2>2. fdarray[s] # 0
    BY <2>1 DEF TypeOK, Fds
  <2>3. slot'[w] = s /\ fdarray' = fdarray
    BY <1>2, <2>1 DEF Scan, TypeOK, codeVars
  <2> QED
    BY <2>1, <2>2, <2>3
<1>3. CASE Recv(w)
  <2>1. pc[w] \in Busy /\ UNCHANGED <<fdarray, slot>>
    BY <1>3 DEF Recv, At, Busy, codeVars
  <2>2. pc'[w] = "dispath" => job'[w].sock = fdarray[slot[w]]
    BY <1>0, <1>3 DEF Recv, At, Goto, TypeOK
  <2> QED
    BY <2>1, <2>2 DEF HandOK
<1>4. CASE Frame(w) \/ Callback(w) \/ CloseSock(w)
  <2>1. pc[w] \in Busy /\ UNCHANGED <<fdarray, slot>> /\ pc'[w] # "dispath"
    BY <1>0, <1>4 DEF Frame, Callback, CloseSock, At, Goto, Busy, codeVars
  <2> QED
    BY <2>1 DEF HandOK
<1>5. CASE Handshake(w)
  <2>1. pc[w] = "dispath" /\ UNCHANGED <<fdarray, slot>>
    BY <1>5 DEF Handshake, At
  <2>2. pc'[w] # "dispath" \/ SendFails(job[w].sock)
    BY <1>0, <1>5 DEF Handshake, Goto
  <2>3. fdarray[slot[w]] # 0 /\ job[w].sock = fdarray[slot[w]]
    BY <2>1 DEF HandOK, Busy
  <2>4. job'[w].sock = job[w].sock \/ pc'[w] # "dispath"
    BY <1>0, <1>5, <2>1 DEF Handshake, Goto, TypeOK
  <2> QED
    BY <2>1, <2>3, <2>4
<1>6. CASE Return(w)
  <2>1. pc[w] \in Busy /\ UNCHANGED <<fdarray, slot>> /\ pc'[w] # "dispath"
    BY <1>0, <1>6 DEF Return, At, Goto, Busy, codeVars
  <2> QED
    BY <2>1 DEF HandOK
<1>7. CASE BadHead(w)
  BY <1>7 DEF BadHead, At, HandOK, Busy, codeVars
<1> QED
  BY <1>1, <1>2, <1>3, <1>4, <1>5, <1>6, <1>7 DEF Work

LEMMA HandOther ==
  ASSUME TypeInv, RunInv, HandOK,
         \/ \E c \in Clients : Connect(c) \/ Say(c) \/ Leave(c)
         \/ OtherOpens \/ OtherCloses \/ Enter \/ Module
  PROVE  HandOK'
<1> USE DEF TypeInv, RunInv
<1>1. CASE UNCHANGED <<pc, fdarray, slot, job, starts>>
  BY <1>1 DEF HandOK
<1>2. ASSUME NEW c \in Clients, Connect(c) \/ Say(c) \/ Leave(c) PROVE HandOK'
  BY <1>1, <1>2 DEF Connect, Say, Leave, codeVars, workVars, scriptVars
<1>3. CASE OtherOpens \/ OtherCloses \/ Enter \/ Exit
  BY <1>1, <1>3 DEF OtherOpens, OtherCloses, Enter, Exit, codeVars, workVars, scriptVars
<1>4. CASE SendHead \/ SendBody \/ StopFlag \/ StopSlots
  BY <1>1, <1>4 DEF SendHead, SendBody, StopFlag, StopSlots, codeVars, workVars
<1>5. CASE StartFlag
  <2>1. starts' = starts + 1 /\ pc' = pc /\ starts \in Nat
    BY <1>5, ConstAssumption DEF StartFlag, workVars, TypeOK
  <2> QED
    BY <2>1 DEF HandOK, FreshOK, Fresh, Busy
<1>6. CASE StartSocket
  <2>1. call = "socket" /\ UNCHANGED <<pc, starts>>
    BY <1>6 DEF StartSocket, workVars
  <2> QED
    BY <2>1 DEF HandOK, FreshOK, Fresh, Busy
<1>7. CASE StartThread
  <2>1. /\ UNCHANGED <<fdarray, slot, job, starts>>
        /\ \A v \in Workers : pc'[v] \in Busy => pc'[v] = pc[v]
    BY <1>7 DEF StartThread, TypeOK, codeVars, Busy
  <2> QED
    BY <2>1 DEF HandOK
<1> QED
  BY <1>2, <1>3, <1>4, <1>5, <1>6, <1>7 DEF Module

LEMMA HandKept == TypeInv /\ RunInv /\ HandOK /\ [Next]_vars => HandOK'
<1>1. CASE UNCHANGED vars
  BY <1>1 DEF HandOK, vars, codeVars, netVars, workVars, scriptVars
<1>2. TypeInv /\ RunInv /\ HandOK /\ Next => HandOK'
  BY HandWork, HandOther DEF Next, Runnable
<1> QED
  BY <1>1, <1>2

-----------------------------------------------------------------------------
(* In service: what the numbers in fdarray stand for.                      *)

\* Slot s is between close and Forget.
Shutting(s) == \E w \in Workers : pc[w] = "forget" /\ slot[w] = s

SlotOK ==
  \A s \in Slots : fdarray[s] # 0 => \/ Owner(fdarray[s]) \in Clients
                                     \/ Shutting(s) /\ Owner(fdarray[s]) \in {"free", "other"}
HeldOK ==
  \A f \in Fds : fdtab[f] \in Clients => \E s \in Slots : fdarray[s] = f /\ ~Shutting(s)
Apart == \A s, t \in Slots : fdarray[s] # 0 /\ fdarray[s] = fdarray[t] => s = t

\* The listening socket is there.
ListenOK == call # "socket" => Owner(mysocket) \in {"bare", "listen"}

SlotInv == InService => SlotOK /\ HeldOK /\ Apart /\ ListenOK

Inv == TypeInv /\ NetInv /\ RunInv /\ HandOK

\* Steps of the work thread that touch no descriptor and no slot.
LEMMA Untouched ==
  ASSUME NEW w \in Workers,
         \/ Test(w) \/ Select(w) \/ Scan(w) \/ Recv(w) \/ Frame(w) \/ BadHead(w)
         \/ Handshake(w) \/ Drop(w) \/ Callback(w) \/ Return(w)
  PROVE  /\ UNCHANGED <<fdarray, fdtab, mysocket, starts, stopped, call>>
         /\ pc[w] # "forget"
         /\ TypeOK => pc'[w] # "forget"
<1>1. CASE Test(w) \/ Select(w) \/ Scan(w)
  BY <1>1 DEF Test, Select, Scan, At, Goto, TypeOK, codeVars, netVars, scriptVars
<1>2. CASE Recv(w) \/ Frame(w) \/ Handshake(w)
  BY <1>2 DEF Recv, Frame, Handshake, At, Goto, TypeOK, codeVars, netVars, scriptVars
<1>3. CASE BadHead(w) \/ Drop(w) \/ Callback(w) \/ Return(w)
  BY <1>3 DEF BadHead, Drop, Callback, Return, At, Goto, TypeOK, codeVars, netVars, scriptVars
<1> QED
  BY <1>1, <1>2, <1>3

LEMMA SlotWork ==
  ASSUME Inv, SlotInv, NEW w \in Workers, Work(w) PROVE SlotInv'
<1>0. TypeOK
  BY DEF Inv, TypeInv
<1>1. starts' = starts /\ stopped' = stopped /\ call' = call
  BY <1>0, WorkMoves
<1> SUFFICES ASSUME InService PROVE (SlotOK /\ HeldOK /\ Apart /\ ListenOK)'
  BY <1>1 DEF SlotInv, InService
<1>2. SlotOK /\ HeldOK /\ Apart /\ ListenOK
  BY DEF SlotInv
<1>3. starts = 1
  BY DEF InService
<1>4. \A v \in Workers : v # w => pc[v] = "new" /\ pc'[v] = "new"
  BY <1>0, <1>3, Solo DEF Inv
<1>5. CASE \/ Test(w) \/ Select(w) \/ Scan(w) \/ Recv(w) \/ Frame(w) \/ BadHead(w)
           \/ Handshake(w) \/ Drop(w) \/ Callback(w) \/ Return(w)
  <2>1. /\ UNCHANGED <<fdarray, fdtab, mysocket>>
        /\ pc[w] # "forget" /\ pc'[w] # "forget"
    BY <1>0, <1>5, Untouched
  <2>2. \A s \in Slots : ~Shutting(s) /\ ~Shutting(s)'
    BY <1>4, <2>1 DEF Shutting
  <2> QED
    BY <1>1, <1>2, <2>1, <2>2 DEF SlotOK, HeldOK, Apart, ListenOK, Owner
<1>6. CASE Accept(w)
  <2>1. pc[w] = "accept" /\ pc'[w] = "test" /\ mysocket' = mysocket
    BY <1>0, <1>6 DEF Accept, At, Goto, TypeOK
  <2>2. \A s \in Slots : ~Shutting(s) /\ ~Shutting(s)'
    BY <1>4, <2>1 DEF Shutting
  <2>3. CASE UNCHANGED <<fdtab, fdarray>>
    BY <1>1, <1>2, <2>1, <2>2, <2>3 DEF SlotOK, HeldOK, Apart, ListenOK, Owner
  <2>4. ASSUME NEW c \in Clients, NEW f \in Fds, fdtab[f] = "free", NEW s \in Slots,
               fdarray[s] = 0, fdtab' = [fdtab EXCEPT ![f] = c],
               fdarray' = [fdarray EXCEPT ![s] = f]
        PROVE  (SlotOK /\ HeldOK /\ Apart /\ ListenOK)'
    <3>1. \A t \in Slots : fdarray'[t] = IF t = s THEN f ELSE fdarray[t]
      BY <1>0, <2>4 DEF TypeOK
    <3>2. \A g \in Fds : fdtab'[g] = IF g = f THEN c ELSE fdtab[g]
      BY <1>0, <2>4 DEF TypeOK
    <3>3. "free" \notin Clients
      BY NoKind DEF Kinds
    <3>4. \A t \in Slots : fdarray[t] # f
      <4>1. f # 0
        BY DEF Fds
      <4> QED
        BY <1>2, <2>2, <2>4, <3>3, <4>1 DEF SlotOK, Owner
    <3>5. SlotOK'
      BY <1>2, <2>2, <3>1, <3>2, <3>4 DEF SlotOK, Owner
    <3>6. HeldOK'
      BY <1>2, <2>2, <2>4, <3>1, <3>2 DEF HeldOK, Fds
    <3>7. Apart'
      BY <1>2, <3>1, <3>4 DEF Apart
    <3>8. ListenOK'
      BY <1>1, <1>2, <2>1, <2>4, <3>2 DEF ListenOK, Owner
    <3> QED
      BY <3>5, <3>6, <3>7, <3>8
  <2> QED
    BY <1>6, <2>3, <2>4 DEF Accept, FreeSlots, Lowest
<1>7. CASE CloseSock(w)
  <2>1. /\ pc[w] = "close" /\ UNCHANGED <<fdarray, slot, mysocket>>
    BY <1>7 DEF CloseSock, At, codeVars
  <2>2. \A s \in Slots : ~Shutting(s)
    BY <1>4, <2>1 DEF Shutting
  <2>3. CASE UNCHANGED <<pc, fdtab>>
    BY <1>1, <1>2, <2>1, <2>3 DEF SlotOK, HeldOK, Apart, ListenOK, Owner, Shutting
  <2>4. CASE ~UNCHANGED <<pc, fdtab>>
    <3> DEFINE f == fdarray[slot[w]]
    <3>0. slot[w] \in Slots /\ f # 0
      BY <1>3, <2>1 DEF Inv, HandOK, TypeInv, Placed, Busy
    <3>1. Close(f) /\ pc' = [pc EXCEPT ![w] = "forget"]
      BY <1>7, <2>4 DEF CloseSock, Shut, Goto
    <3>2. f \in Fds
      BY <1>0, <3>0 DEF TypeOK
    <3>3. \A g \in Fds : fdtab'[g] = IF g = f THEN "free" ELSE fdtab[g]
      BY <1>0, <3>1, <3>2 DEF Close, TypeOK
    <3>4. pc'[w] = "forget"
      BY <1>0, <3>1 DEF TypeOK
    <3>5. \A s \in Slots : Shutting(s)' <=> s = slot[w]
      BY <1>4, <2>1, <3>4 DEF Shutting
    <3>6. \A s \in Slots : fdarray[s] = f => s = slot[w]
      BY <1>2, <3>0 DEF Apart
    <3>7. SlotOK'
      <4> SUFFICES ASSUME NEW s \in Slots, fdarray[s] # 0
                   PROVE  \/ Owner(fdarray[s])' \in Clients
                          \/ Shutting(s)' /\ Owner(fdarray[s])' \in {"free", "other"}
        BY <2>1 DEF SlotOK
      <4>1. CASE s = slot[w]
        BY <2>1, <3>2, <3>3, <3>5, <4>1 DEF Owner
      <4>2. CASE s # slot[w]
        <5>1. Owner(fdarray[s]) \in Clients /\ fdarray[s] # f
          BY <1>2, <2>2, <3>6, <4>2 DEF SlotOK
        <5> QED
          BY <2>1, <3>3, <5>1 DEF Owner
      <4> QED
        BY <4>1, <4>2
    <3>8. HeldOK'
      <4> SUFFICES ASSUME NEW g \in Fds, fdtab'[g] \in Clients
                   PROVE  \E s \in Slots : fdarray'[s] = g /\ ~Shutting(s)'
        BY DEF HeldOK
      <4>1. g # f /\ fdtab[g] \in Clients
        BY <3>3, NoKind DEF Kinds
      <4> QED
        BY <1>2, <2>1, <3>5, <4>1 DEF HeldOK
    <3>9. ListenOK'
      <4>1. Owner(f) \in Clients
        BY <1>2, <2>2, <3>0 DEF SlotOK
      <4>2. ~(f = mysocket /\ Owner(mysocket) \in {"bare", "listen"})
        BY <4>1, NoKind DEF Kinds
      <4> QED
        BY <1>1, <1>2, <2>1, <3>3, <4>2 DEF ListenOK, Owner
    <3> QED
      BY <1>2, <2>1, <3>7, <3>8, <3>9 DEF Apart
  <2> QED
    BY <2>3, <2>4
<1>8. CASE Forget(w)
  <2>1. /\ pc[w] = "forget" /\ UNCHANGED <<slot, fdtab, mysocket>>
    BY <1>8 DEF Forget, At, netVars
  <2>2. pc'[w] = "scan" /\ fdarray' = [fdarray EXCEPT ![slot[w]] = 0]
    BY <1>0, <1>8 DEF Forget, Emptied, Goto, TypeOK
  <2>3. \A s \in Slots : ~Shutting(s)' /\ (Shutting(s) <=> s = slot[w])
    BY <1>4, <2>1, <2>2 DEF Shutting
  <2>4. \A s \in Slots : fdarray'[s] = IF s = slot[w] THEN 0 ELSE fdarray[s]
    BY <1>0, <2>2 DEF TypeOK
  <2> QED
    BY <1>1, <1>2, <2>1, <2>3, <2>4 DEF SlotOK, HeldOK, Apart, ListenOK, Owner
<1> QED
  BY <1>5, <1>6, <1>7, <1>8 DEF Work

\* In service the rest of the world gives and takes no client's descriptor, and
\* none of the listening socket; a start in progress finds nothing there.
Empty == /\ \A w \in Workers : pc[w] \in {"new", "test"}
         /\ \A s \in Slots : fdarray[s] = 0
         /\ \A f \in Fds : fdtab[f] \notin Clients
         /\ last = NoClient /\ myclient \notin Fds
         /\ ListenOK

LEMMA OtherFds ==
  ASSUME Inv, SlotInv, InService', InService,
         \/ \E c \in Clients : Connect(c) \/ Say(c) \/ Leave(c)
         \/ OtherOpens \/ OtherCloses \/ Enter \/ Module
  PROVE  \/ Empty'
         \/ /\ UNCHANGED <<pc, slot, fdarray, mysocket>> /\ call' # "socket" /\ call # "socket"
            /\ \A f \in Fds : \/ fdtab'[f] = fdtab[f]
                              \/ {fdtab[f], fdtab'[f]} \subseteq {"free", "other"}
         \/ UNCHANGED <<pc, slot, fdarray, mysocket, fdtab>> /\ call' = call
<1> USE DEF Inv, TypeInv
<1>0. starts = 1 /\ starts' = 1 /\ ~stopped /\ ~stopped' /\ starts + 1 # starts'
  BY DEF InService
<1>1. RunInv'
  BY RunOther
<1>2. ASSUME NEW c \in Clients, Connect(c) \/ Say(c) \/ Leave(c)
      PROVE  UNCHANGED <<pc, slot, fdarray, mysocket, fdtab>> /\ call' = call
  BY <1>2 DEF Connect, Say, Leave, codeVars, workVars, scriptVars
<1>3. CASE Enter \/ Exit
  BY <1>3 DEF Enter, Exit, codeVars, netVars, workVars
<1>4. CASE OtherOpens \/ OtherCloses
  <2>1. UNCHANGED <<pc, slot, fdarray, mysocket, call, starts>>
    BY <1>4 DEF OtherOpens, OtherCloses, codeVars, workVars, scriptVars
  <2>2. \A f \in Fds : fdtab'[f] = fdtab[f] \/ {fdtab[f], fdtab'[f]} \subseteq {"free", "other"}
    BY <1>4 DEF OtherOpens, OtherCloses, Lowest, TypeOK
  <2>3. call = "socket" => Empty'
    BY <1>0, <1>1, <2>1 DEF Fresh, FreshOK, RunInv, Empty, ListenOK
  <2> QED
    BY <2>1, <2>2, <2>3
<1>5. CASE SendHead \/ SendBody
  <2>1. /\ UNCHANGED <<pc, slot, fdarray, mysocket, fdtab>> /\ call' # "socket"
        /\ call # "socket"
    BY <1>0, <1>5 DEF SendHead, SendBody, Calls, codeVars, netVars, workVars
  <2> QED
    BY <2>1
<1>6. CASE StopFlag
  <2>1. UNCHANGED <<pc, slot, fdarray, mysocket, fdtab>> /\ call' = call
    BY <1>0, <1>6 DEF StopFlag, codeVars, workVars
  <2> QED
    BY <2>1
<1>7. CASE StopSlots
  BY <1>0, <1>7 DEF StopSlots, RunInv, CloseOK
<1>8. CASE StartFlag
  BY <1>0, <1>8 DEF StartFlag
<1>9. CASE StartSocket
  <2>1. call' = "bind" /\ starts' = starts
    BY <1>9 DEF StartSocket
  <2>2. ListenOK'
    BY <1>9 DEF StartSocket, ListenOK, Owner, TypeOK
  <2> QED
    BY <1>0, <1>1, <2>1, <2>2 DEF RunInv, FreshOK, Fresh, Empty
<1>10. CASE StartThread
  <2>1. /\ call = "bind" /\ UNCHANGED <<fdarray, mysocket, last, myclient>>
        /\ \A w \in Workers : pc'[w] \in {pc[w], "test"}
        /\ \A f \in Fds : fdtab'[f] = fdtab[f] \/ (f = mysocket /\ fdtab'[f] = "listen")
    BY <1>10 DEF StartThread, TypeOK, codeVars, noteVars
  <2>2. Owner(mysocket) \in {"bare", "listen"}
    BY <2>1 DEF SlotInv, ListenOK
  <2>3. ListenOK'
    BY <2>1, <2>2 DEF ListenOK, Owner
  <2>4. FreshOK /\ Fresh
    BY <1>0, <2>1 DEF RunInv, Fresh
  <2>5. \A f \in Fds : fdtab'[f] \notin Clients
    BY <2>1, <2>4, NoKind DEF FreshOK, Kinds
  <2> QED
    BY <2>1, <2>3, <2>4, <2>5 DEF FreshOK, Empty
<1> QED
  BY <1>2, <1>3, <1>4, <1>5, <1>6, <1>7, <1>8, <1>9, <1>10 DEF Module

\* Service begins with the first start.
LEMMA OtherServes ==
  ASSUME Inv, ~InService, InService',
         \/ \E c \in Clients : Connect(c) \/ Say(c) \/ Leave(c)
         \/ OtherOpens \/ OtherCloses \/ Enter \/ Module
  PROVE  (FreshOK /\ Fresh)' /\ call' = "socket"
<1>1. starts = 0 \/ starts = 1
  <2>1. starts \in Nat /\ (starts' = starts \/ starts' = starts + 1)
    BY ConstAssumption DEF Inv, TypeInv, TypeOK, Connect, Say, Leave, OtherOpens, OtherCloses,
                           Enter, Module, Exit, SendHead, SendBody, StopFlag, StopSlots,
                           StartFlag, StartSocket, StartThread, scriptVars
  <2> QED
    BY <2>1 DEF InService
<1>2. stopped => stopped'
  BY DEF Connect, Say, Leave, OtherOpens, OtherCloses, Enter, Module, Exit, SendHead, SendBody,
         StopFlag, StopSlots, StartFlag, StartSocket, StartThread, scriptVars
<1>3. starts = 0
  BY <1>1, <1>2 DEF InService
<1>4. StartFlag
  BY <1>3 DEF InService, Connect, Say, Leave, OtherOpens, OtherCloses, Enter, Module, Exit,
              SendHead, SendBody, StopFlag, StopSlots, StartFlag, StartSocket, StartThread,
              scriptVars
<1>5. call' = "socket" /\ RunInv'
  BY <1>4, RunOther DEF StartFlag, Inv
<1> QED
  BY <1>5 DEF RunInv, Fresh, InService

LEMMA SlotOther ==
  ASSUME Inv, SlotInv,
         \/ \E c \in Clients : Connect(c) \/ Say(c) \/ Leave(c)
         \/ OtherOpens \/ OtherCloses \/ Enter \/ Module
  PROVE  SlotInv'
<1> SUFFICES ASSUME InService' PROVE (SlotOK /\ HeldOK /\ Apart /\ ListenOK)'
  BY DEF SlotInv
<1>1. CASE ~InService
  BY <1>1, OtherServes DEF SlotOK, HeldOK, Apart, ListenOK, FreshOK
<1>2. CASE InService
  <2>1. SlotOK /\ HeldOK /\ Apart /\ ListenOK
    BY <1>2 DEF SlotInv
  <2>2. CASE Empty'
    BY <2>2 DEF SlotOK, HeldOK, Apart, Empty
  <2>3. CASE UNCHANGED <<pc, slot, fdarray, mysocket, fdtab>> /\ call' = call
    BY <2>1, <2>3 DEF SlotOK, HeldOK, Apart, ListenOK, Shutting, Owner
  <2>4. CASE /\ UNCHANGED <<pc, slot, fdarray, mysocket>> /\ call' # "socket" /\ call # "socket"
             /\ \A f \in Fds : \/ fdtab'[f] = fdtab[f]
                               \/ {fdtab[f], fdtab'[f]} \subseteq {"free", "other"}
    <3>1. \A s : Shutting(s)' <=> Shutting(s)
      BY <2>4 DEF Shutting
    <3>2. \A f : \/ Owner(f)' = Owner(f)
                 \/ Owner(f) \in {"free", "other"} /\ Owner(f)' \in {"free", "other"}
      BY <2>4 DEF Owner
    <3>3. "free" \notin Clients /\ "other" \notin Clients
      BY NoKind DEF Kinds
    <3>4. SlotOK'
      BY <2>1, <2>4, <3>1, <3>2, <3>3 DEF SlotOK
    <3>5. HeldOK'
      BY <2>1, <2>4, <3>1, <3>3 DEF HeldOK
    <3> QED
      BY <2>1, <2>4, <3>2, <3>4, <3>5 DEF Apart, ListenOK
  <2> QED
    BY <1>2, <2>2, <2>3, <2>4, OtherFds
<1> QED
  BY <1>1, <1>2

LEMMA SlotKept == Inv /\ SlotInv /\ [Next]_vars => SlotInv'
<1>1. CASE UNCHANGED vars
  BY <1>1 DEF SlotInv, InService, SlotOK, HeldOK, Apart, ListenOK, Shutting, Owner, vars,
              codeVars, netVars, workVars, scriptVars
<1>2. Inv /\ SlotInv /\ Next => SlotInv'
  BY SlotWork, SlotOther DEF Next, Runnable
<1> QED
  BY <1>1, <1>2

LEMMA InvInitially == Init => Inv /\ SlotInv
<1> SUFFICES ASSUME Init PROVE Inv /\ SlotInv
  OBVIOUS
<1>1. TypeInv
  BY TypeInitially
<1>2. /\ starts = 0 /\ call = "none" /\ ~stopped /\ last = NoClient /\ myclient \notin Fds
      /\ \A f \in Fds : fdtab[f] = "free"
      /\ \A w \in Workers : pc[w] = "new"
      /\ \A s \in Slots : fdarray[s] = 0
  BY DEF Init, Fds
<1>3. NetInv
  BY <1>2, NoKind DEF NetInv, ConnOK, OneFd, LastOK, Kinds
<1>4. RunInv
  <2>1. \A f \in Fds : fdtab[f] \notin Clients /\ fdtab[f] \notin {"bare", "listen"}
    BY <1>2, NoKind DEF Kinds
  <2>2. FreshOK /\ BareOK
    BY <1>2, <2>1 DEF FreshOK, BareOK
  <2>3. IdleOK /\ CloseOK /\ StartOK
    BY <1>2 DEF IdleOK, CloseOK, StartOK
  <2> QED
    BY <2>2, <2>3 DEF RunInv
<1>5. HandOK /\ SlotInv
  BY DEF Init, HandOK, SlotInv, InService
<1> QED
  BY <1>1, <1>3, <1>4, <1>5 DEF Inv

LEMMA InvKept == Inv /\ [Next]_vars => Inv'
  BY TypeKept, NetKept, RunKept, HandKept DEF Inv

LEMMA Invariants == Spec => [](Inv /\ SlotInv)
  BY InvInitially, InvKept, SlotKept, PTL DEF Spec

\* In service fdarray holds the numbers of the connections and no others, each
\* once, but for the slot that is being emptied.
THEOREM SlotsHeld == Spec => []SlotsAreOurs
<1>1. Inv /\ SlotInv => SlotsAreOurs
  <2> SUFFICES ASSUME Inv, SlotInv, InService
               PROVE  /\ \A s \in Slots : fdarray[s] # 0 =>
                           \/ Owner(fdarray[s]) \in Clients
                           \/ \E w \in Workers : Forgetting(w) /\ slot[w] = s
                      /\ \A f \in Fds : fdtab[f] \in Clients =>
                           \E s \in Slots : /\ fdarray[s] = f
                                            /\ ~\E w \in Workers : Forgetting(w) /\ slot[w] = s
    BY DEF SlotsAreOurs
  <2>1. \A s \in Slots : fdarray[s] # 0 =>
          (Shutting(s) <=> \E w \in Workers : Forgetting(w) /\ slot[w] = s)
    BY DEF Shutting, Forgetting, At
  <2>2. 0 \notin Fds
    BY DEF Fds
  <2> QED
    BY <2>1, <2>2 DEF SlotInv, SlotOK, HeldOK
<1> QED
  BY Invariants, <1>1, PTL

-----------------------------------------------------------------------------
(* In service: whose number is in myclient.                                *)

\* Somebody is between close and Forget of the number in myclient.
Losing == \E w \in Workers : Forgetting(w) /\ fdarray[slot[w]] = myclient

KnownInv == InService /\ myclient \in Fds => Owner(myclient) = last \/ Losing

LEMMA LastOwner == ASSUME TypeOK, NEW f, Owner(f) = last PROVE Owner(f) \in Clients
  BY OwnerType, ConstAssumption DEF TypeOK, Kinds

LEMMA KnownWork ==
  ASSUME Inv, KnownInv, NEW w \in Workers, Work(w) PROVE KnownInv'
<1>0. TypeOK
  BY DEF Inv, TypeInv
<1>1. starts' = starts /\ stopped' = stopped
  BY <1>0, WorkMoves
<1> SUFFICES ASSUME InService, myclient' \in Fds PROVE Owner(myclient)' = last' \/ Losing'
  BY <1>1 DEF KnownInv, InService
<1>2. \A v \in Workers : v # w => pc[v] = "new" /\ pc'[v] = "new"
  BY <1>0, Solo DEF Inv, InService
<1>3. pc[w] # "forget" => ~Losing
  BY <1>2 DEF Losing, Forgetting, At
<1>4. CASE Test(w) \/ Select(w) \/ Scan(w) \/ Recv(w) \/ Frame(w) \/ BadHead(w) \/ Drop(w)
           \/ Callback(w) \/ Return(w)
  <2>1. UNCHANGED fdtab /\ pc[w] # "forget"
    BY <1>4, Untouched
  <2>2. UNCHANGED <<myclient, last>>
    BY <1>4 DEF Test, Select, Scan, Recv, Frame, BadHead, Drop, Callback, Return, codeVars, noteVars
  <2> QED
    BY <1>3, <2>1, <2>2 DEF KnownInv, Owner
<1>5. CASE Handshake(w)
  <2>1. fdtab' = fdtab /\ pc[w] # "forget"
    BY <1>5, Untouched
  <2>2. CASE UNCHANGED <<myclient, last>>
    BY <1>3, <2>1, <2>2 DEF KnownInv, Owner
  <2>3. CASE ~UNCHANGED <<myclient, last>>
    <3> DEFINE f == job[w].sock
    <3>1. /\ 1 \in SendResults(f, 1) /\ myclient' = f
          /\ last' = IF Owner(f) \in Clients THEN Owner(f) ELSE NoClient
      BY <1>5, <2>3 DEF Handshake, NewClient
    <3>2. Owner(f) \notin Kinds
      BY <3>1 DEF SendResults, Kinds
    <3>3. Owner(f) \in Clients
      BY <1>0, <3>2, OwnerType
    <3> QED
      BY <2>1, <3>1, <3>3 DEF Owner
  <2> QED
    BY <2>2, <2>3
<1>6. CASE Accept(w)
  <2>1. UNCHANGED <<myclient, last>> /\ pc[w] = "accept"
    BY <1>6 DEF Accept, At, noteVars
  <2>2. Owner(myclient) = last
    BY <1>3, <2>1 DEF KnownInv
  <2>3. fdtab[myclient] = last /\ fdtab[myclient] \in Clients
    BY <1>0, <2>1, <2>2, LastOwner DEF Owner
  <2>4. fdtab[myclient] # "free"
    BY <2>3, NoKind DEF Kinds
  <2>5. fdtab'[myclient] = fdtab[myclient]
    BY <1>0, <1>6, <2>4 DEF Accept, Lowest, TypeOK
  <2> QED
    BY <2>1, <2>3, <2>5 DEF Owner
<1>7. CASE CloseSock(w)
  <2>1. /\ UNCHANGED <<fdarray, slot, myclient, last>> /\ pc[w] = "close"
    BY <1>7 DEF CloseSock, At, codeVars, noteVars
  <2>2. Owner(myclient) = last
    BY <1>3, <2>1 DEF KnownInv
  <2>3. CASE UNCHANGED fdtab
    BY <2>1, <2>2, <2>3 DEF Owner
  <2>4. CASE ~UNCHANGED fdtab
    <3> DEFINE f == fdarray[slot[w]]
    <3>1. Close(f) /\ f # 0 /\ pc' = [pc EXCEPT ![w] = "forget"]
      BY <1>7, <2>4 DEF CloseSock, Shut, Goto
    <3>2. CASE f = myclient
      <4>1. Forgetting(w)'
        BY <1>0, <2>1, <3>1 DEF Forgetting, At, TypeOK
      <4> QED
        BY <2>1, <3>2, <4>1 DEF Losing
    <3>3. CASE f # myclient
      <4>1. fdtab'[myclient] = fdtab[myclient]
        BY <1>0, <2>1, <3>1, <3>3 DEF Close, TypeOK
      <4> QED
        BY <2>1, <2>2, <4>1 DEF Owner
    <3> QED
      BY <3>2, <3>3
  <2> QED
    BY <2>3, <2>4
<1>8. CASE Forget(w)
  BY <1>8 DEF Forget, Forgotten, Fds
<1> QED
  BY <1>4, <1>5, <1>6, <1>7, <1>8 DEF Work

\* In service the rest of the world leaves last alone, and at most forgets myclient.
LEMMA OtherNotes ==
  ASSUME Inv, InService, InService',
         \/ \E c \in Clients : Connect(c) \/ Say(c) \/ Leave(c)
         \/ OtherOpens \/ OtherCloses \/ Enter \/ Module
  PROVE  last' = last /\ myclient' \in {myclient, 0}
<1>0. starts = 1 /\ starts' = 1 /\ ~stopped /\ starts + 1 # starts'
  BY DEF InService
<1>1. CASE \/ \E c \in Clients : Connect(c) \/ Say(c) \/ Leave(c)
           \/ OtherOpens \/ OtherCloses \/ Enter \/ Exit
  BY <1>1 DEF Connect, Say, Leave, OtherOpens, OtherCloses, Enter, Exit, codeVars, noteVars
<1>2. CASE SendHead \/ SendBody \/ StopFlag
  BY <1>2 DEF SendHead, SendBody, StopFlag, codeVars, noteVars
<1>3. CASE StopSlots
  BY <1>0, <1>3 DEF StopSlots, Inv, RunInv, CloseOK
<1>4. CASE StartFlag
  BY <1>0, <1>4 DEF StartFlag
<1>5. CASE StartSocket \/ StartThread
  BY <1>5 DEF StartSocket, StartThread, codeVars, noteVars
<1> QED
  BY <1>1, <1>2, <1>3, <1>4, <1>5 DEF Module

LEMMA KnownOther ==
  ASSUME Inv, SlotInv, KnownInv,
         \/ \E c \in Clients : Connect(c) \/ Say(c) \/ Leave(c)
         \/ OtherOpens \/ OtherCloses \/ Enter \/ Module
  PROVE  KnownInv'
<1> SUFFICES ASSUME InService', myclient' \in Fds PROVE Owner(myclient)' = last' \/ Losing'
  BY DEF KnownInv
<1>1. CASE ~InService
  BY <1>1, OtherServes DEF FreshOK
<1>2. CASE InService
  <2>1. last' = last /\ myclient' = myclient
    BY <1>2, OtherNotes DEF Fds
  <2>2. Owner(myclient) = last \/ Losing
    BY <1>2, <2>1 DEF KnownInv
  <2>3. CASE Empty'
    BY <2>3 DEF Empty
  <2>4. CASE /\ UNCHANGED <<pc, slot, fdarray>>
             /\ \A f \in Fds : \/ fdtab'[f] = fdtab[f]
                               \/ {fdtab[f], fdtab'[f]} \subseteq {"free", "other"}
    <3>1. Losing => Losing'
      BY <2>1, <2>4 DEF Losing, Forgetting, At
    <3>2. Owner(myclient) = last => Owner(myclient) \in Clients
      BY LastOwner DEF Inv, TypeInv
    <3>3. Owner(myclient) = last => Owner(myclient)' = last'
      BY <2>1, <2>4, <3>2, NoKind DEF Owner, Kinds
    <3> QED
      BY <2>2, <3>1, <3>3
  <2> QED
    BY <1>2, <2>3, <2>4, OtherFds
<1> QED
  BY <1>1, <1>2

LEMMA KnownKept == Inv /\ SlotInv /\ KnownInv /\ [Next]_vars => KnownInv'
<1>1. CASE UNCHANGED vars
  BY <1>1 DEF KnownInv, InService, Losing, Forgetting, At, Owner, vars, codeVars, netVars,
              workVars, scriptVars, noteVars
<1>2. Inv /\ SlotInv /\ KnownInv /\ Next => KnownInv'
  BY KnownWork, KnownOther DEF Next, Runnable
<1> QED
  BY <1>1, <1>2

\* In service the script's frames go to whoever shook hands last, but for the
\* moment between close and Forget.
THEOREM ClientKept == Spec => []ClientIsKnown
<1>1. Init => KnownInv
  BY DEF Init, KnownInv, InService
<1>2. KnownInv => ClientIsKnown
  BY DEF KnownInv, ClientIsKnown, Losing
<1> QED
  BY Invariants, KnownKept, <1>1, <1>2, PTL DEF Spec

-----------------------------------------------------------------------------
(* What breaks the program.                                                *)

AllInv == Inv /\ SlotInv /\ KnownInv
Edge   == stopped \/ starts > 1

LEMMA EdgeOrService ==
  ASSUME TypeOK, starts # 0 PROVE Edge \/ InService
  BY ConstAssumption DEF TypeOK, Edge, InService

LEMMA Started == ASSUME TypeOK, RunInv, NEW w \in Workers, pc[w] # "new" PROVE starts # 0
  BY DEF RunInv, StartOK, Workers

\* The slot in hand is a connection's, except between close and Forget.
LEMMA InHand ==
  ASSUME AllInv, InService, NEW w \in Workers, pc[w] \in Busy \ {"forget"}
  PROVE  slot[w] \in Slots /\ fdarray[slot[w]] # 0 /\ Owner(fdarray[slot[w]]) \in Clients
<1>1. slot[w] \in Slots /\ fdarray[slot[w]] # 0
  BY DEF AllInv, Inv, TypeInv, Placed, HandOK, InService
<1>2. \A v \in Workers : pc[v] # "new" => v = w
  BY OneWorker DEF AllInv, Inv, TypeInv, RunInv, InService, Busy
<1>3. ~Shutting(slot[w])
  BY <1>2 DEF Shutting
<1> QED
  BY <1>1, <1>3 DEF AllInv, SlotInv, SlotOK

\* The kernel can stop a send of the script only to a client that has left, and
\* the send reaches another part of the program only between close and Forget.
LEMMA SendEdges ==
  ASSUME AllInv, starts # 0, SendFails(myclient)
  PROVE  /\ broken' \in {"pipe", "stray"}
         /\ broken' = "pipe" => Edge \/ \E c \in Clients : conn[c] = "left"
         /\ broken' = "stray" => Edge \/ Losing
<1>0. TypeOK
  BY DEF AllInv, Inv, TypeInv
<1>1. CASE Edge
  BY <1>1 DEF SendFails, Break
<1>2. CASE InService
  <2>1. ASSUME Owner(myclient) \in {"other", "bare", "listen"} PROVE Losing
    <3>1. myclient \in Fds
      BY <2>1 DEF Owner
    <3>2. Owner(myclient) \notin Clients
      BY <2>1, NoKind DEF Kinds
    <3> QED
      BY <1>0, <1>2, <3>1, <3>2, LastOwner DEF AllInv, KnownInv
  <2>2. Owner(myclient) \notin {"bare", "listen"}
    <3> SUFFICES ASSUME Owner(myclient) \in {"bare", "listen"} PROVE FALSE
      OBVIOUS
    <3>1. PICK w \in Workers : Forgetting(w) /\ fdarray[slot[w]] = myclient
      BY <2>1 DEF Losing
    <3>2. slot[w] \in Slots
      BY <3>1 DEF AllInv, Inv, TypeInv, Placed, Busy, Forgetting, At
    <3>3. Owner(myclient) \in Clients \cup {"free", "other"}
      BY <1>2, <3>1, <3>2 DEF AllInv, SlotInv, SlotOK, Forgetting
    <3> QED
      BY <3>3, NoKind DEF Kinds
  <2> QED
    BY <2>1, <2>2 DEF SendFails, Break
<1> QED
  BY <1>0, <1>1, <1>2, EdgeOrService

BreakInv == /\ broken = "pipe" => Edge \/ \E c \in Clients : conn[c] = "left"
            /\ broken = "stray" => Edge \/ Losing
            /\ broken = "console" => starts > 1
            /\ broken = "unset" => starts = 0

LEMMA BreakWork ==
  ASSUME AllInv, broken = "no", NEW w \in Workers, Work(w) PROVE BreakInv'
<1>0. TypeOK /\ RunInv
  BY DEF AllInv, Inv, TypeInv
<1>1. starts' = starts /\ stopped' = stopped
  BY <1>0, WorkMoves
<1>2. Edge \/ InService
  BY <1>0, NotNew, Started, EdgeOrService
<1>3. CASE broken' = "no"
  BY <1>3 DEF BreakInv
<1>4. CASE Recv(w) \/ CloseSock(w)
  <2> DEFINE f == fdarray[slot[w]]
  <2>1. /\ pc[w] \in Busy \ {"forget"}
        /\ \/ broken' = "no"
           \/ f = 0 /\ broken' = "console"
           \/ Owner(f) = "other" /\ broken' = "stray"
    BY <1>4 DEF Recv, CloseSock, At, Break, Busy
  <2>2. f = 0 => starts > 1
    <3>1. f = 0 => starts # 1
      BY <2>1 DEF AllInv, Inv, HandOK
    <3>2. starts # 0 /\ starts \in Nat
      BY <1>0, NotNew, Started, ConstAssumption DEF TypeOK
    <3> QED
      BY <3>1, <3>2
  <2>3. Owner(f) = "other" => Edge
    BY <1>2, <2>1, InHand, NoKind DEF Kinds
  <2> QED
    BY <1>1, <2>1, <2>2, <2>3 DEF BreakInv, Edge
<1>5. CASE Handshake(w)
  <2> DEFINE f == job[w].sock
  <2>1. /\ pc[w] = "dispath" /\ conn' = conn
        /\ \/ broken' = "no"
           \/ SendFails(f)
    BY <1>5 DEF Handshake, At, netVars
  <2>2. SendFails(f) => \/ Owner(f) = "other" /\ broken' = "stray"
                        \/ /\ Owner(f) \in {"bare", "listen"} \/ \E c \in Clients : conn[c] = "left"
                           /\ broken' = "pipe"
    BY DEF SendFails, Break
  <2>3. InService => Owner(f) \in Clients
    <3>1. InService => f = fdarray[slot[w]]
      BY <2>1 DEF AllInv, Inv, HandOK, InService, Busy
    <3> QED
      BY <2>1, <3>1, InHand DEF Busy
  <2>4. Owner(f) \in {"other", "bare", "listen"} => Edge
    BY <1>2, <2>3, NoKind DEF Kinds
  <2> QED
    BY <1>1, <2>1, <2>2, <2>4 DEF BreakInv, Edge
<1>6. CASE BadHead(w)
  BY <1>6 DEF BadHead, Break, BreakInv
<1>7. CASE ~(Recv(w) \/ CloseSock(w) \/ Handshake(w) \/ BadHead(w))
  <2>1. broken' = broken
    BY <1>7 DEF Work, Test, Select, Accept, Scan, Frame, Drop, Callback, Return, Forget
  <2> QED
    BY <1>3, <2>1
<1> QED
  BY <1>4, <1>5, <1>6, <1>7

LEMMA BreakOther ==
  ASSUME AllInv, broken = "no",
         \/ \E c \in Clients : Connect(c) \/ Say(c) \/ Leave(c)
         \/ OtherOpens \/ OtherCloses \/ Enter \/ Module
  PROVE  BreakInv'
<1>0. TypeOK /\ RunInv
  BY DEF AllInv, Inv, TypeInv
<1>1. CASE broken' = "no"
  BY <1>1 DEF BreakInv
<1>2. CASE SendHead \/ SendBody
  <2>1. /\ UNCHANGED <<conn, pc, fdarray, slot, starts, stopped>>
        /\ \/ SendFails(myclient) \/ broken' = "no"
           \/ starts = 0 /\ broken' = "unset"
    BY <1>2 DEF SendHead, SendBody, Break, codeVars, netVars, workVars
  <2>2. SendFails(myclient) => \/ starts # 0 /\ myclient' = myclient
                               \/ broken' = "no"
                               \/ starts = 0 /\ broken' = "unset"
    BY <1>0, <1>2 DEF SendHead, SendBody, Break, RunInv, IdleOK, codeVars
  <2>3. CASE SendFails(myclient) /\ starts # 0 /\ myclient' = myclient
    <3>1. Edge' = Edge /\ Losing' = Losing
      BY <2>1, <2>3 DEF Edge, Losing, Forgetting, At
    <3> QED
      BY <2>1, <2>3, <3>1, SendEdges DEF BreakInv
  <2>4. CASE starts = 0 /\ broken' = "unset"
    BY <2>1, <2>4 DEF BreakInv
  <2> QED
    BY <1>1, <2>1, <2>2, <2>3, <2>4
<1>3. CASE StopFlag
  <2>1. /\ starts' = starts /\ call = "none"
        /\ \/ broken' = "no"
           \/ broken' = "unset" /\ starts = 0
           \/ broken' = "stray" /\ starts # 0 /\ Owner(mysocket) = "other" /\ stopped' = stopped
    BY <1>3 DEF StopFlag, Break, Calls
  <2>2. Owner(mysocket) = "other" => ~InService
    BY <2>1 DEF AllInv, SlotInv, ListenOK
  <2> QED
    BY <1>0, <2>1, <2>2, EdgeOrService DEF BreakInv, Edge
<1>4. CASE StopSlots
  <2>1. stopped' /\ (broken' = "no" \/ broken' = "stray")
    BY <1>0, <1>4 DEF StopSlots, Break, RunInv, CloseOK
  <2> QED
    BY <2>1 DEF BreakInv, Edge
<1>5. CASE ~(SendHead \/ SendBody \/ StopFlag \/ StopSlots)
  BY <1>1, <1>5 DEF Connect, Say, Leave, OtherOpens, OtherCloses, Enter, Module, Exit, StartFlag,
                    StartSocket, StartThread
<1> QED
  BY <1>2, <1>3, <1>4, <1>5

LEMMA BreakKept == AllInv /\ BreakInv /\ [Next]_vars => BreakInv'
<1>1. CASE UNCHANGED vars
  BY <1>1 DEF BreakInv, Edge, Losing, Forgetting, At, vars, codeVars, netVars, workVars,
              scriptVars
<1>2. Next => broken = "no"
  BY DEF Next, Runnable
<1>3. AllInv /\ BreakInv /\ Next => BreakInv'
  BY <1>2, BreakWork, BreakOther DEF Next, Runnable
<1> QED
  BY <1>1, <1>3

-----------------------------------------------------------------------------
(* In service: what makes the server forget its client.                    *)

\* A connection other than last's was closed.
Gone == \E d \in Clients \ {last} : conn[d] \in {"open", "left"} /\ ~Connected(d)

RememberInv ==
  InService /\ last # NoClient /\ Connected(last) =>
    /\ last \notin choked \cup torn => Owner(myclient) = last \/ Gone
    /\ (\E w \in Workers : pc[w] = "forget") => Gone

\* Whose connection was closed is not connected again.
LEMMA GoneStays ==
  ASSUME ConnStep, last' = last, Gone,
         \A d \in Clients : conn[d] \in {"open", "left"} /\ Connected(d)' => Connected(d)
  PROVE  Gone'
  BY DEF Gone, ConnStep

LEMMA RememberWork ==
  ASSUME AllInv, RememberInv, NEW w \in Workers, Work(w) PROVE RememberInv'
<1>0. TypeOK /\ NetInv
  BY DEF AllInv, Inv, TypeInv
<1>1. starts' = starts /\ stopped' = stopped
  BY <1>0, WorkMoves
<1> SUFFICES ASSUME InService, last' # NoClient, Connected(last)'
             PROVE  /\ last' \notin choked' \cup torn' => Owner(myclient)' = last' \/ Gone'
                    /\ (\E v \in Workers : pc'[v] = "forget") => Gone'
  BY <1>1 DEF RememberInv, InService
<1>2. \A v \in Workers : v # w => pc[v] = "new" /\ pc'[v] = "new"
  BY <1>0, Solo DEF AllInv, Inv, InService
<1>3. last \in Clients => conn[last] \in {"open", "left"}
  BY <1>0, NoKind DEF NetInv, LastOK
<1>4. CASE Test(w) \/ Select(w) \/ Scan(w) \/ Recv(w) \/ Frame(w) \/ BadHead(w) \/ Drop(w)
           \/ Callback(w) \/ Return(w)
  <2>1. fdtab' = fdtab /\ pc'[w] # "forget"
    BY <1>0, <1>4, Untouched
  <2>2. UNCHANGED <<conn, myclient, last, choked, torn>>
    BY <1>4 DEF Test, Select, Scan, Recv, Frame, BadHead, Drop, Callback, Return, codeVars, netVars,
                noteVars
  <2> QED
    BY <1>2, <2>1, <2>2 DEF RememberInv, Gone, Connected, Owner
<1>5. CASE Handshake(w)
  <2>1. fdtab' = fdtab /\ pc'[w] # "forget"
    BY <1>0, <1>5, Untouched
  <2>2. UNCHANGED <<conn, choked, torn>>
    BY <1>5 DEF Handshake, netVars
  <2>3. CASE UNCHANGED <<myclient, last>>
    BY <1>2, <2>1, <2>2, <2>3 DEF RememberInv, Gone, Connected, Owner
  <2>4. CASE ~UNCHANGED <<myclient, last>>
    <3>1. /\ myclient' = job[w].sock
          /\ last' = IF Owner(job[w].sock) \in Clients THEN Owner(job[w].sock) ELSE NoClient
      BY <1>5, <2>4 DEF Handshake, NewClient
    <3>2. Owner(myclient)' = last'
      BY <2>1, <3>1 DEF Owner
    <3> QED
      BY <1>2, <2>1, <3>2
  <2> QED
    BY <2>3, <2>4
<1>6. CASE Accept(w)
  <2>1. /\ UNCHANGED <<myclient, last, choked, torn>> /\ pc'[w] # "forget"
    BY <1>0, <1>6 DEF Accept, Goto, TypeOK, noteVars
  <2>2. last \in Clients
    BY <1>0, <2>1 DEF TypeOK
  <2>3. CASE UNCHANGED <<fdtab, conn>>
    BY <1>2, <2>1, <2>3 DEF RememberInv, Gone, Connected, Owner
  <2>4. ASSUME NEW c \in Clients, conn[c] = "waiting", conn' = [conn EXCEPT ![c] = "open"],
               NEW f \in Fds, fdtab[f] = "free",
               fdtab' = fdtab \/ fdtab' = [fdtab EXCEPT ![f] = c]
        PROVE  last' \notin choked' \cup torn' => Owner(myclient)' = last' \/ Gone'
    <3>1. \A g \in Fds : fdtab'[g] = fdtab[g] \/ (g = f /\ fdtab'[g] = c)
      BY <1>0, <2>4 DEF TypeOK
    <3>2. ConnStep
      BY <1>0, <2>4 DEF ConnStep, TypeOK
    <3>3. \A d \in Clients : conn[d] \in {"open", "left"} /\ Connected(d)' => Connected(d)
      BY <2>4, <3>1 DEF Connected
    <3>4. Gone => Gone'
      BY <2>1, <3>2, <3>3, GoneStays
    <3>5. Connected(last)
      BY <1>3, <2>1, <2>2, <3>3
    <3>6. Owner(myclient) = last => Owner(myclient)' = last
      <4> SUFFICES ASSUME Owner(myclient) = last PROVE Owner(myclient)' = last
        OBVIOUS
      <4>1. myclient \in Fds /\ fdtab[myclient] = last /\ last # "free"
        BY <2>2, NoKind DEF Owner, Kinds
      <4> QED
        BY <2>1, <2>4, <3>1, <4>1 DEF Owner
    <3> QED
      BY <2>1, <3>4, <3>5, <3>6 DEF RememberInv
  <2> QED
    BY <1>2, <1>6, <2>1, <2>3, <2>4 DEF Accept, Lowest
<1>7. CASE CloseSock(w)
  <2>1. /\ UNCHANGED <<fdarray, slot, myclient, last, choked, torn>> /\ pc[w] = "close"
    BY <1>7 DEF CloseSock, At, codeVars, noteVars
  <2>2. CASE UNCHANGED <<pc, fdtab, conn>>
    BY <2>1, <2>2 DEF RememberInv, Gone, Connected, Owner
  <2>3. CASE ~UNCHANGED <<pc, fdtab, conn>>
    <3> DEFINE f == fdarray[slot[w]]
    <3>1. Close(f)
      BY <1>7, <2>3 DEF CloseSock, Shut
    <3>2. PICK d \in Clients : d = Owner(f)
      BY <2>1, InHand DEF Busy
    <3>3. f \in Fds /\ fdtab[f] = d
      BY <3>2, NoKind DEF Owner, Kinds
    <3>4. conn[d] \in {"open", "left"}
      BY <1>0, <3>2, <3>3 DEF NetInv, ConnOK
    <3>5. \A g \in Fds : fdtab'[g] = IF g = f THEN "free" ELSE fdtab[g]
      BY <1>0, <3>1, <3>3 DEF Close, TypeOK
    <3>6. ~Connected(d)'
      BY <1>0, <3>2, <3>3, <3>5, NoKind DEF Connected, NetInv, OneFd, Kinds
    <3>7. conn'[d] \in {"open", "left"}
      BY <1>0, <3>1, <3>2, <3>4, CloseNet DEF ConnStep
    <3>8. d # last
      BY <2>1, <3>6
    <3> QED
      BY <2>1, <3>2, <3>6, <3>7, <3>8 DEF Gone
  <2> QED
    BY <2>2, <2>3
<1>8. CASE Forget(w)
  <2>1. /\ UNCHANGED <<fdtab, conn, last>> /\ pc[w] = "forget" /\ pc'[w] # "forget"
    BY <1>0, <1>8 DEF Forget, At, Goto, TypeOK, netVars, noteVars
  <2>2. Gone
    BY <2>1 DEF RememberInv, Connected
  <2> QED
    BY <2>1, <2>2 DEF Gone, Connected
<1> QED
  BY <1>4, <1>5, <1>6, <1>7, <1>8 DEF Work

\* A send that was complete does not make the script forget the client.
LEMMA BodyKeeps ==
  ASSUME TypeOK, ConstAssumption, SendBody, Owner(myclient) \in Clients,
         Owner(myclient) \notin choked' \cup torn'
  PROVE  myclient' = myclient
<1> SUFFICES ASSUME myclient' # myclient PROVE FALSE
  OBVIOUS
<1>1. PICK n \in Sizes : \E r \in SendResults(myclient, n) :
        /\ torn' = IF Owner(myclient) = head.to /\ <<head.result, r>> \in {<<2, n>>, <<-1, -1>>}
                   THEN torn ELSE torn \cup ({Owner(myclient), head.to} \cap Clients)
        /\ choked' = IF Owner(myclient) \in Clients /\ r < n
                     THEN choked \cup {Owner(myclient)} ELSE choked
        /\ myclient' = IF Lost(head.result + r) THEN 0 ELSE myclient
  BY DEF SendBody
<1>2. PICK r \in SendResults(myclient, n) :
        /\ <<head.result, r>> \in {<<2, n>>, <<-1, -1>>}
        /\ ~(r < n)
        /\ myclient' = IF Lost(head.result + r) THEN 0 ELSE myclient
  BY <1>1
<1>3. n \in Nat /\ r \in Int
  BY <1>2, ResultType DEF ConstAssumption
<1>4. head.result = 2
  BY <1>2, <1>3
<1>5. head.result + r > 0
  BY <1>2, <1>3, <1>4
<1> QED
  BY <1>2, <1>5 DEF Lost

\* What else happens in service shuts no connection, and takes note of all sends.
LEMMA OtherKeeps ==
  ASSUME Inv, InService, InService',
         \/ \E c \in Clients : Connect(c) \/ Say(c) \/ Leave(c)
         \/ OtherOpens \/ OtherCloses \/ Enter \/ Module
  PROVE  /\ ConnStep /\ choked \subseteq choked' /\ torn \subseteq torn'
         /\ \A w \in Workers : pc'[w] = "forget" => pc[w] = "forget"
<1> USE DEF Inv, TypeInv
<1>0. starts = 1 /\ ~stopped /\ ~stopped'
  BY DEF InService
<1>1. CASE \/ \E c \in Clients : Connect(c) \/ Say(c) \/ Leave(c)
           \/ OtherOpens \/ OtherCloses \/ Enter \/ Exit
  BY <1>1 DEF Connect, Say, Leave, OtherOpens, OtherCloses, Enter, Exit, codeVars, netVars,
              workVars, noteVars, ConnStep, TypeOK
<1>2. CASE SendHead \/ SendBody
  BY <1>2 DEF SendHead, SendBody, codeVars, netVars, workVars, ConnStep
<1>3. CASE StopFlag
  BY <1>0, <1>3 DEF StopFlag, workVars, noteVars, ConnStep
<1>4. CASE StopSlots
  BY <1>0, <1>4 DEF StopSlots, RunInv, CloseOK
<1>5. CASE StartFlag \/ StartSocket
  BY <1>5 DEF StartFlag, StartSocket, netVars, workVars, noteVars, ConnStep
<1>6. CASE StartThread
  BY <1>6 DEF StartThread, noteVars, ConnStep, TypeOK
<1> QED
  BY <1>1, <1>2, <1>3, <1>4, <1>5, <1>6 DEF Module

LEMMA RememberOther ==
  ASSUME AllInv, RememberInv,
         \/ \E c \in Clients : Connect(c) \/ Say(c) \/ Leave(c)
         \/ OtherOpens \/ OtherCloses \/ Enter \/ Module
  PROVE  RememberInv'
<1> USE DEF AllInv
<1>0. TypeOK
  BY DEF Inv, TypeInv
<1> SUFFICES ASSUME InService', last' # NoClient, Connected(last)'
             PROVE  /\ last' \notin choked' \cup torn' => Owner(myclient)' = last' \/ Gone'
                    /\ (\E w \in Workers : pc'[w] = "forget") => Gone'
  BY DEF RememberInv
<1>1. CASE ~InService
  BY <1>1, OtherServes DEF FreshOK
<1>2. CASE InService
  <2>0. last' = last /\ myclient' \in {myclient, 0} /\ last \in Clients
    BY <1>0, <1>2, OtherNotes DEF TypeOK
  <2>1. /\ ConnStep /\ choked \subseteq choked' /\ torn \subseteq torn'
        /\ \A w \in Workers : pc'[w] = "forget" => pc[w] = "forget"
    BY <1>2, OtherKeeps
  <2>2. CASE Empty'
    BY <2>2 DEF Empty
  <2>3. CASE \A f \in Fds : \/ fdtab'[f] = fdtab[f]
                            \/ {fdtab[f], fdtab'[f]} \subseteq {"free", "other"}
    <3>1. \A d \in Clients : Connected(d)' <=> Connected(d)
      BY <2>3, NoKind DEF Connected, Kinds
    <3>2. Gone => Gone'
      BY <2>0, <2>1, <3>1, GoneStays
    <3>3. Connected(last)
      BY <2>0, <3>1
    <3>4. ASSUME last \notin choked' \cup torn', Owner(myclient) = last
          PROVE  Owner(myclient)' = last
      <4>1. myclient' = myclient
        <5>1. CASE SendBody
          BY <1>0, <2>0, <3>4, <5>1, BodyKeeps, ConstAssumption
        <5>2. CASE ~SendBody
          <6>1. CASE StartSocket
            BY <1>2, <2>0, <6>1 DEF StartSocket, Inv, RunInv, FreshOK, Fresh, InService
          <6>2. CASE ~StartSocket
            BY <5>2, <6>2 DEF Connect, Say, Leave, OtherOpens, OtherCloses, Enter, Module, Exit,
                              SendHead, StopFlag, StopSlots, StartFlag, StartThread, codeVars
          <6> QED
            BY <6>1, <6>2
        <5> QED
          BY <5>1, <5>2
      <4>2. myclient \in Fds /\ fdtab[myclient] = last
        BY <2>0, <3>4, NoKind DEF Owner, Kinds
      <4> QED
        BY <2>0, <2>3, <4>1, <4>2, NoKind DEF Owner, Kinds
    <3> QED
      BY <1>2, <2>0, <2>1, <3>2, <3>3, <3>4 DEF RememberInv
  <2> QED
    BY <1>2, <2>2, <2>3, OtherFds
<1> QED
  BY <1>1, <1>2

LEMMA RememberKept == AllInv /\ RememberInv /\ [Next]_vars => RememberInv'
<1>1. CASE UNCHANGED vars
  BY <1>1 DEF RememberInv, InService, Gone, Connected, Owner, vars, codeVars, netVars, workVars,
              scriptVars, noteVars
<1>2. AllInv /\ RememberInv /\ Next => RememberInv'
  BY RememberWork, RememberOther DEF Next, Runnable
<1> QED
  BY <1>1, <1>2

\* In service the client stays the client while it is connected, unless a send to
\* it was not complete or another connection was closed.
THEOREM ClientRemembered == Spec => []Remembered
<1>1. Init => KnownInv /\ RememberInv
  BY DEF Init, KnownInv, RememberInv, InService
<1>2. RememberInv => Remembered
  BY DEF RememberInv, Remembered, Gone
<1>3. Spec => []AllInv
  BY Invariants, KnownKept, <1>1, PTL DEF Spec, AllInv
<1> QED
  BY RememberKept, <1>1, <1>2, <1>3, PTL DEF Spec

-----------------------------------------------------------------------------
(* What anyhttphead and handshake cannot take.                             *)

HeadInv ==
  broken = "head" =>
    \E w \in Workers :
      /\ pc[w] = "dispath" /\ job[w].sock # myclient
      /\ InService /\ Owner(job[w].sock) = last /\ last \notin choked \cup torn => Gone

\* The number in hand is the only one of its owner: when that is who shook hands
\* last and myclient is another number, the server has forgotten it.
LEMMA HeadIsForeign ==
  ASSUME AllInv, RememberInv, NEW f \in Fds \cup {0}, f # myclient,
         InService, Owner(f) = last, last \notin choked \cup torn
  PROVE  Gone
<1>0. TypeOK /\ OneFd
  BY DEF AllInv, Inv, TypeInv, NetInv
<1>1. last \in Clients
  BY <1>0, LastOwner
<1>2. f \in Fds /\ fdtab[f] = last
  BY <1>1, NoKind DEF Owner, Kinds
<1>3. Owner(myclient) = last => myclient \in Fds /\ fdtab[myclient] = last
  BY <1>1, NoKind DEF Owner, Kinds
<1>4. Owner(myclient) # last
  BY <1>0, <1>1, <1>2, <1>3 DEF OneFd
<1> QED
  BY <1>1, <1>2, <1>4, NoKind DEF RememberInv, Connected

LEMMA HeadKept == AllInv /\ RememberInv /\ HeadInv /\ [Next]_vars => HeadInv'
<1>1. CASE UNCHANGED vars
  BY <1>1 DEF HeadInv, InService, Gone, Connected, Owner, vars, codeVars, netVars, workVars,
              scriptVars, noteVars
<1>2. ASSUME AllInv, RememberInv, NEW w \in Workers, BadHead(w) PROVE HeadInv'
  <2>1. job[w].sock \in Fds \cup {0}
    BY <1>2 DEF AllInv, Inv, TypeInv, TypeOK
  <2>2. InService /\ Owner(job[w].sock) = last /\ last \notin choked \cup torn => Gone
    BY <1>2, <2>1, HeadIsForeign DEF BadHead
  <2>3. pc[w] = "dispath" /\ job[w].sock # myclient
    BY <1>2 DEF BadHead, At
  <2>4. UNCHANGED <<codeVars, netVars, pc, job, scriptVars, noteVars>>
    BY <1>2 DEF BadHead
  <2> QED
    BY <2>2, <2>3, <2>4 DEF HeadInv, InService, Gone, Connected, Owner, codeVars, netVars,
                            scriptVars, noteVars
<1>3. ASSUME NEW w \in Workers, broken = "no", Work(w), ~BadHead(w) PROVE broken' # "head"
  BY <1>3 DEF Work, Test, Select, Accept, Scan, Recv, Frame, Handshake, Drop, Callback, Return,
              CloseSock, Forget, SendFails, Break
<1>4. ASSUME broken = "no",
             \/ \E c \in Clients : Connect(c) \/ Say(c) \/ Leave(c)
             \/ OtherOpens \/ OtherCloses \/ Enter \/ Module
      PROVE  broken' # "head"
  BY <1>4 DEF Connect, Say, Leave, OtherOpens, OtherCloses, Enter, Module, Exit, SendHead, SendBody,
              StopFlag, StopSlots, StartFlag, StartSocket, StartThread, SendFails, Break
<1>5. AllInv /\ RememberInv /\ HeadInv /\ Next => HeadInv'
  BY <1>2, <1>3, <1>4 DEF Next, Runnable, HeadInv
<1> QED
  BY <1>1, <1>5

\* The server ends the program or disturbs another part of it only at the edges
\* that the property names: by a send to a client that has left, between close and
\* Forget, after a stop, by calls out of order, or by what anyhttphead and handshake
\* cannot take, and in service a frame of whoever shook hands last is taken for a
\* head only after a send to it that was not complete or another's close.
THEOREM BreaksAtEdges == Spec => []BreaksOnlyAtEdges
<1>1. Init => KnownInv /\ BreakInv /\ RememberInv /\ HeadInv
  BY DEF Init, KnownInv, InService, BreakInv, RememberInv, HeadInv
<1>2. BreakInv /\ HeadInv => BreaksOnlyAtEdges
  BY DEF BreakInv, HeadInv, BreaksOnlyAtEdges, Edge, Losing, Gone, At
<1>3. Spec => []AllInv
  BY Invariants, KnownKept, <1>1, PTL DEF Spec, AllInv
<1>4. Spec => []RememberInv
  BY RememberKept, <1>1, <1>3, PTL DEF Spec
<1> QED
  BY BreakKept, HeadKept, <1>1, <1>2, <1>3, <1>4, PTL DEF Spec

-----------------------------------------------------------------------------
(* Header and body, for any number of starts and stops.                    *)

Accepted(d) == conn[d] \in {"open", "left"}
Another(c)  == \E d \in Clients \ {c} : Accepted(d)
SomeoneGone == \E d \in Clients : Accepted(d) /\ ~Connected(d)

\* The number f was that of a client's connection, and still is or it is closed.
TookFrom(f) == \E d \in Clients : Accepted(d) /\ (Owner(f) = d \/ ~Connected(d))

NumbersTaken ==
  /\ \A s \in Slots : fdarray[s] # 0 => TookFrom(fdarray[s])
  /\ myclient \in Fds => TookFrom(myclient)

\* A client is forgotten when a connection has been closed, and set to -1 by that.
ForgetOK == \A w \in Workers : pc[w] = "forget" => SomeoneGone
NoneOK   == myclient = -1 /\ starts > 0 /\ call # "socket" => SomeoneGone

HeadOf(c) ==
  /\ Accepted(c) /\ head.result \in {-1, 2}
  /\ head.result = -1 => c \in choked
  /\ Connected(c) => Owner(myclient) = c \/ Another(c)
HeadOK ==
  call = "body" => \/ head.to = "free" /\ SomeoneGone
                   \/ head.to \in Clients /\ HeadOf(head.to)

TornOK == \A c \in torn : Accepted(c)

FrameInv == NumbersTaken /\ ForgetOK /\ NoneOK /\ HeadOK /\ TornOK /\ WholeFrames

\* Who is accepted stays so, and gets no other descriptor.
Held ==
  \A d \in Clients : Accepted(d) =>
    Accepted(d)' /\ \A f \in Fds : fdtab'[f] = d => fdtab[f] = d

LEMMA HeldFewer ==
  ASSUME ConnStep, \A f \in Fds : fdtab'[f] \in Clients => fdtab'[f] = fdtab[f]
  PROVE  Held
  BY DEF Held, Accepted, ConnStep

LEMMA HeldWork ==
  ASSUME TypeInv, NetInv, NEW w \in Workers, Work(w) PROVE Held
<1> USE DEF TypeInv
<1>1. CASE UNCHANGED <<fdtab, conn>>
  BY <1>1 DEF Held, Accepted
<1>2. CASE Accept(w)
  <2>1. CASE UNCHANGED <<conn, fdtab>>
    BY <1>1, <2>1
  <2> SUFFICES ASSUME ~UNCHANGED <<conn, fdtab>> PROVE Held
    BY <2>1
  <2>2. PICK c \in Clients, f \in Fds :
          /\ conn[c] = "waiting" /\ conn' = [conn EXCEPT ![c] = "open"]
          /\ fdtab' = fdtab \/ fdtab' = [fdtab EXCEPT ![f] = c]
    <3>1. PICK c \in Clients, f \in Fds :
            /\ conn[c] = "waiting" /\ conn' = [conn EXCEPT ![c] = "open"]
            /\ IF FreeSlots = {} THEN UNCHANGED <<fdtab, fdarray, maxfd>>
               ELSE \E s \in FreeSlots : fdtab' = [fdtab EXCEPT ![f] = c]
      BY <1>2 DEF Accept
    <3> QED
      BY <3>1
  <2>3. ConnStep
    BY <2>2 DEF ConnStep, TypeOK
  <2>4. \A g \in Fds : fdtab'[g] = fdtab[g] \/ fdtab'[g] = c
    BY <2>2 DEF TypeOK
  <2>5. ~Accepted(c)
    BY <2>2 DEF Accepted
  <2> QED
    BY <2>3, <2>4, <2>5 DEF Held, Accepted, ConnStep
<1>3. CASE CloseSock(w)
  <2>1. CASE Close(fdarray[slot[w]])
    BY <2>1, CloseNet, HeldFewer
  <2> QED
    BY <1>1, <1>3, <2>1 DEF CloseSock, Shut
<1>4. CASE \/ Test(w) \/ Select(w) \/ Scan(w) \/ Recv(w) \/ Frame(w) \/ BadHead(w)
           \/ Handshake(w) \/ Drop(w) \/ Callback(w) \/ Return(w) \/ Forget(w)
  <2>1. UNCHANGED <<fdtab, conn>>
    BY <1>4 DEF Test, Select, Scan, Recv, Frame, Handshake, BadHead, Drop, Callback, Return,
                Forget, netVars
  <2> QED
    BY <1>1, <2>1
<1> QED
  BY <1>2, <1>3, <1>4 DEF Work

LEMMA HeldOther ==
  ASSUME TypeInv, NetInv,
         \/ \E c \in Clients : Connect(c) \/ Say(c) \/ Leave(c)
         \/ OtherOpens \/ OtherCloses \/ Enter \/ Module
  PROVE  Held
<1> USE DEF TypeInv
<1>1. CASE UNCHANGED <<fdtab, conn>>
  BY <1>1 DEF Held, Accepted
<1>2. CASE \E c \in Clients : Connect(c) \/ Say(c) \/ Leave(c)
  <2>1. ConnStep /\ UNCHANGED fdtab
    BY <1>2 DEF Connect, Say, Leave, ConnStep, TypeOK
  <2> QED
    BY <2>1, HeldFewer
<1>3. CASE OtherOpens \/ OtherCloses
  <2>1. UNCHANGED conn
    BY <1>3 DEF OtherOpens, OtherCloses
  <2>2. PICK f \in Fds : fdtab' = [fdtab EXCEPT ![f] = "other"] \/ fdtab' = [fdtab EXCEPT ![f] = "free"]
    BY <1>3 DEF OtherOpens, OtherCloses
  <2>3. \A g \in Fds : fdtab'[g] \in Clients => fdtab'[g] = fdtab[g]
    BY <2>2, NoKind DEF TypeOK, Kinds
  <2> QED
    BY <2>1, <2>3, HeldFewer DEF ConnStep
<1>4. CASE Enter \/ Exit \/ SendHead \/ SendBody \/ StartFlag
  BY <1>1, <1>4 DEF Enter, Exit, SendHead, SendBody, StartFlag, netVars
<1>5. CASE StopFlag
  <2>1. CASE Close(mysocket)
    BY <2>1, CloseNet, HeldFewer
  <2> QED
    BY <1>1, <1>5, <2>1 DEF StopFlag
<1>6. CASE StopSlots
  <2>1. CASE ~UNCHANGED <<fdtab, conn>>
    <3>1. ConnStep
      BY <1>6, <2>1 DEF StopSlots, ConnStep, TypeOK
    <3>2. \A f \in Fds : fdtab'[f] = fdtab[f] \/ fdtab'[f] = "free"
      BY <1>6, <2>1 DEF StopSlots
    <3>3. \A f \in Fds : fdtab'[f] \in Clients => fdtab'[f] = fdtab[f]
      BY <3>2, NoKind DEF Kinds
    <3> QED
      BY <3>1, <3>3, HeldFewer
  <2> QED
    BY <1>1, <2>1
<1>7. CASE StartSocket \/ StartThread
  <2>1. UNCHANGED conn
    BY <1>7 DEF StartSocket, StartThread
  <2>2. \A g \in Fds : fdtab'[g] = fdtab[g] \/ fdtab'[g] \in {"bare", "listen"}
    BY <1>7 DEF StartSocket, StartThread, TypeOK
  <2>3. \A g \in Fds : fdtab'[g] \in Clients => fdtab'[g] = fdtab[g]
    BY <2>2, NoKind DEF Kinds
  <2> QED
    BY <2>1, <2>3, HeldFewer DEF ConnStep
<1> QED
  BY <1>2, <1>3, <1>4, <1>5, <1>6, <1>7 DEF Module

LEMMA HeldFacts ==
  ASSUME TypeOK, NetInv, Held
  PROVE  /\ \A d \in Clients : Accepted(d) => Accepted(d)'
         /\ \A d \in Clients : Accepted(d) /\ ~Connected(d) => ~Connected(d)'
         /\ SomeoneGone => SomeoneGone'
         /\ \A c \in Clients : Another(c) => Another(c)'
         /\ \A f \in Fds, d \in Clients :
              Accepted(d) /\ fdtab[f] = d /\ Connected(d)' => fdtab'[f] = d
         /\ \A f \in Fds : TookFrom(f) => TookFrom(f)'
<1>1. \A d \in Clients : Accepted(d) => Accepted(d)'
  BY DEF Held
<1>2. \A d \in Clients : Accepted(d) /\ ~Connected(d) => ~Connected(d)'
  BY DEF Held, Connected
<1>3. SomeoneGone => SomeoneGone'
  BY <1>1, <1>2 DEF SomeoneGone
<1>4. \A c \in Clients : Another(c) => Another(c)'
  BY <1>1 DEF Another
<1>5. ASSUME NEW f \in Fds, NEW d \in Clients, Accepted(d), fdtab[f] = d, Connected(d)'
      PROVE  fdtab'[f] = d
  <2>1. PICK g \in Fds : fdtab'[g] = d
    BY <1>5 DEF Connected
  <2>2. fdtab[g] = d
    BY <1>5, <2>1 DEF Held
  <2> QED
    BY <1>5, <2>1, <2>2 DEF NetInv, OneFd
<1>6. ASSUME NEW f \in Fds, TookFrom(f) PROVE TookFrom(f)'
  <2>1. PICK d \in Clients : Accepted(d) /\ (fdtab[f] = d \/ ~Connected(d))
    BY <1>6 DEF TookFrom, Owner
  <2>2. fdtab'[f] = d \/ ~Connected(d)'
    BY <1>2, <1>5, <2>1
  <2> QED
    BY <1>1, <2>1, <2>2 DEF TookFrom, Owner
<1> QED
  BY <1>1, <1>2, <1>3, <1>4, <1>5, <1>6

\* What each part of the invariant depends on.
LEMMA FrameParts ==
  ASSUME TypeOK, NetInv, Held, FrameInv
  PROVE  /\ UNCHANGED <<fdarray, myclient>> => NumbersTaken'
         /\ (\A w \in Workers : pc'[w] = "forget" => pc[w] = "forget") => ForgetOK'
         /\ \/ call' # "body"
            \/ call = "body" /\ UNCHANGED <<head, choked, myclient>>
            => HeadOK'
         /\ torn' = torn /\ choked \subseteq choked' => TornOK' /\ WholeFrames'
         /\ myclient' = myclient /\ (starts' > 0 /\ call' # "socket" => starts > 0 /\ call # "socket")
            => NoneOK'
<1>1. ASSUME UNCHANGED <<fdarray, myclient>> PROVE NumbersTaken'
  <2>1. \A f : f \in Fds /\ TookFrom(f) => TookFrom(f)'
    BY HeldFacts
  <2>2. ASSUME NEW s \in Slots, fdarray[s] # 0 PROVE fdarray[s] \in Fds /\ TookFrom(fdarray[s])
    BY <2>2 DEF TypeOK, FrameInv, NumbersTaken
  <2> QED
    BY <1>1, <2>1, <2>2 DEF FrameInv, NumbersTaken, TookFrom, Owner
<1>2. ASSUME \A w \in Workers : pc'[w] = "forget" => pc[w] = "forget" PROVE ForgetOK'
  BY <1>2, HeldFacts DEF FrameInv, ForgetOK
<1>3. ASSUME call' # "body" PROVE HeadOK'
  BY <1>3 DEF HeadOK
<1>4. ASSUME call = "body", UNCHANGED <<head, choked, myclient>> PROVE HeadOK'
  <2>1. CASE head.to = "free" /\ SomeoneGone
    BY <1>4, <2>1, HeldFacts DEF HeadOK
  <2>2. CASE head.to \in Clients /\ HeadOf(head.to)
    <3> DEFINE c == head.to
    <3>1. Accepted(c)' /\ head'.to = c /\ head' = head
      BY <1>4, <2>2, HeldFacts DEF HeadOf
    <3>2. ASSUME Connected(c)' PROVE Owner(myclient)' = c \/ Another(c)'
      <4>1. PICK g \in Fds : fdtab'[g] = c
        BY <1>4, <3>2 DEF Connected
      <4>2. fdtab[g] = c
        BY <2>2, <4>1 DEF Held, HeadOf
      <4>3. Owner(myclient) = c \/ Another(c)
        BY <2>2, <4>2 DEF HeadOf, Connected
      <4>4. CASE Another(c)
        BY <1>4, <2>2, <4>4, HeldFacts DEF Another, Accepted
      <4>5. CASE Owner(myclient) = c
        <5>1. myclient \in Fds /\ fdtab[myclient] = c
          BY <2>2, <4>5, NoKind DEF Owner, Kinds
        <5>2. myclient = g
          BY <2>2, <4>2, <5>1 DEF NetInv, OneFd
        <5> QED
          BY <1>4, <4>1, <5>1, <5>2 DEF Owner
      <4> QED
        BY <4>3, <4>4, <4>5
    <3>3. HeadOf(c)'
      BY <1>4, <2>2, <3>1, <3>2 DEF HeadOf
    <3> QED
      BY <1>4, <2>2, <3>3 DEF HeadOK
  <2> QED
    BY <1>4, <2>1, <2>2 DEF FrameInv, HeadOK
<1>5. ASSUME torn' = torn, choked \subseteq choked' PROVE TornOK' /\ WholeFrames'
  <2>1. \A c \in torn : c \in Clients /\ Accepted(c)
    BY DEF TypeOK, FrameInv, TornOK
  <2>2. TornOK'
    BY <1>5, <2>1, HeldFacts DEF TornOK
  <2>3. ASSUME NEW c \in torn PROVE c \in choked' \/ ~Connected(c)' \/ Another(c)'
    <3>1. c \in choked \/ ~Connected(c) \/ Another(c)
      BY DEF FrameInv, WholeFrames, Another, Accepted
    <3> QED
      BY <1>5, <2>1, <3>1, HeldFacts
  <2> QED
    BY <1>5, <2>2, <2>3 DEF WholeFrames, Another, Accepted
<1>6. ASSUME myclient' = myclient, starts' > 0 /\ call' # "socket" => starts > 0 /\ call # "socket"
      PROVE  NoneOK'
  BY <1>6, HeldFacts DEF FrameInv, NoneOK
<1> QED
  BY <1>1, <1>2, <1>3, <1>4, <1>5, <1>6

\* Steps that touch none of the things the invariant is about, but descriptors.
LEMMA FrameQuiet ==
  ASSUME TypeOK, NetInv, Held, FrameInv, UNCHANGED <<fdarray, myclient, head, choked, torn>>,
         \A w \in Workers : pc'[w] = "forget" => pc[w] = "forget",
         call' = "body" => call = "body",
         starts' > 0 /\ call' # "socket" => starts > 0 /\ call # "socket"
  PROVE  FrameInv'
  BY FrameParts DEF FrameInv

LEMMA FrameWork ==
  ASSUME TypeInv, NetInv, FrameInv, NEW w \in Workers, Work(w) PROVE FrameInv'
<1>0. TypeOK /\ Held
  BY HeldWork DEF TypeInv
<1>1. /\ \A v \in Workers : v # w => pc'[v] = pc[v]
      /\ starts' = starts /\ call' = call
  BY <1>0, WorkMoves
<1>2. CASE Test(w) \/ Select(w) \/ Scan(w) \/ Recv(w) \/ Frame(w) \/ BadHead(w) \/ Drop(w)
           \/ Callback(w) \/ Return(w)
  <2>1. fdarray' = fdarray /\ pc'[w] # "forget"
    BY <1>0, <1>2, Untouched
  <2>2. UNCHANGED <<myclient, head, choked, torn>>
    BY <1>2 DEF Test, Select, Scan, Recv, Frame, BadHead, Drop, Callback, Return,
                codeVars, scriptVars,
                noteVars
  <2> QED
    BY <1>0, <1>1, <2>1, <2>2, FrameQuiet
<1>3. CASE Accept(w)
  <2>1. UNCHANGED <<myclient, head, choked, torn>> /\ pc' = [pc EXCEPT ![w] = "test"]
    BY <1>3 DEF Accept, scriptVars, noteVars, Goto
  <2>2. pc'[w] = "test"
    BY <1>0, <2>1 DEF TypeOK
  <2>3. CASE fdarray' = fdarray
    BY <1>0, <1>1, <2>1, <2>2, <2>3, FrameQuiet
  <2>4. CASE fdarray' # fdarray
    <3>1. PICK c \in Clients, f \in Fds :
            /\ conn' = [conn EXCEPT ![c] = "open"]
            /\ IF FreeSlots = {} THEN UNCHANGED <<fdtab, fdarray, maxfd>>
               ELSE \E s \in FreeSlots : /\ fdtab' = [fdtab EXCEPT ![f] = c]
                                         /\ fdarray' = [fdarray EXCEPT ![s] = f]
      BY <1>3, <2>4 DEF Accept
    <3>2. PICK s \in Slots : /\ fdtab' = [fdtab EXCEPT ![f] = c]
                             /\ fdarray' = [fdarray EXCEPT ![s] = f]
      BY <2>4, <3>1 DEF FreeSlots
    <3>3. TookFrom(f)'
      BY <1>0, <3>1, <3>2 DEF TypeOK, TookFrom, Accepted, Owner
    <3>4. \A g \in Fds : TookFrom(g) => TookFrom(g)'
      BY <1>0, HeldFacts
    <3>5. ASSUME NEW t \in Slots, fdarray'[t] # 0
          PROVE  \E d \in Clients : Accepted(d)' /\ (Owner(fdarray[t])' = d \/ ~Connected(d)')
      <4>1. CASE t = s
        <5>1. fdarray'[t] = f
          BY <1>0, <3>2, <4>1 DEF TypeOK
        <5> QED
          BY <3>3, <5>1 DEF TookFrom, Owner
      <4>2. CASE t # s
        <5>1. fdarray'[t] = fdarray[t] /\ fdarray[t] \in Fds /\ TookFrom(fdarray[t])
          BY <1>0, <3>2, <3>5, <4>2 DEF TypeOK, FrameInv, NumbersTaken
        <5>2. PICK g \in Fds : g = fdarray[t]
          BY <5>1
        <5>3. TookFrom(g)'
          BY <3>4, <5>1, <5>2
        <5> QED
          BY <5>1, <5>2, <5>3 DEF TookFrom, Owner
      <4> QED
        BY <4>1, <4>2
    <3>6. myclient \in Fds => TookFrom(myclient)'
      <4>1. ASSUME NEW g \in Fds, g = myclient PROVE TookFrom(g)'
        BY <3>4, <4>1 DEF FrameInv, NumbersTaken
      <4> QED
        BY <2>1, <4>1 DEF TookFrom, Owner
    <3>7. NumbersTaken'
      BY <2>1, <3>5, <3>6 DEF NumbersTaken, TookFrom
    <3> QED
      BY <1>0, <1>1, <2>1, <2>2, <3>7, FrameParts DEF FrameInv
  <2> QED
    BY <2>3, <2>4
<1>4. CASE Handshake(w)
  <2>1. UNCHANGED <<fdarray, fdtab, conn, head, choked, torn>> /\ pc'[w] # "forget"
    BY <1>0, <1>4, Untouched DEF Handshake, netVars, scriptVars
  <2>2. CASE myclient' = myclient
    BY <1>0, <1>1, <2>1, <2>2, FrameQuiet
  <2>3. CASE myclient' # myclient
    <3> DEFINE f == job[w].sock
    <3>1. myclient' = f /\ 1 \in SendResults(f, 1)
      BY <1>4, <2>3 DEF Handshake, NewClient
    <3>2. Owner(f) \in Clients
      BY <1>0, <3>1, OwnerType DEF SendResults, Kinds
    <3>3. f \in Fds /\ fdtab[f] = Owner(f)
      BY <3>2, NoKind DEF Owner, Kinds
    <3>4. Accepted(Owner(f))
      BY <3>2, <3>3 DEF NetInv, ConnOK, Accepted
    <3>5. NumbersTaken'
      <4>1. TookFrom(f)
        BY <3>2, <3>4 DEF TookFrom
      <4>2. ASSUME NEW g, TookFrom(g) PROVE TookFrom(g)'
        BY <2>1, <4>2 DEF TookFrom, Accepted, Owner, Connected
      <4> QED
        BY <2>1, <3>1, <4>1, <4>2 DEF FrameInv, NumbersTaken, TookFrom, Accepted, Owner, Connected
    <3>6. NoneOK'
      BY <3>1, <3>3 DEF NoneOK, Fds
    <3>7. HeadOK'
      <4> SUFFICES ASSUME call = "body", head.to \in Clients, HeadOf(head.to)
                   PROVE  HeadOf(head.to)'
        BY <1>1, <2>1 DEF FrameInv, HeadOK, SomeoneGone, Accepted, Connected
      <4>1. Owner(f) = head.to \/ Another(head.to)
        BY <3>2, <3>4 DEF Another
      <4> QED
        BY <2>1, <3>1, <4>1 DEF HeadOf, Accepted, Another, Connected, Owner
    <3> QED
      BY <1>0, <1>1, <2>1, <3>5, <3>6, <3>7, FrameParts DEF FrameInv
  <2> QED
    BY <2>2, <2>3
<1>5. CASE CloseSock(w)
  <2>1. UNCHANGED <<fdarray, myclient, head, choked, torn>>
    BY <1>5 DEF CloseSock, codeVars, scriptVars, noteVars
  <2>2. CASE pc'[w] # "forget"
    BY <1>0, <1>1, <2>1, <2>2, FrameQuiet
  <2>3. CASE pc'[w] = "forget"
    <3> DEFINE f == fdarray[slot[w]]
    <3>1. f # 0 /\ Close(f) /\ slot[w] \in Slots
      BY <1>5, <2>3 DEF CloseSock, Shut, At, TypeInv, Placed, Busy
    <3>2. f \in Fds /\ TookFrom(f)
      BY <1>0, <3>1 DEF TypeOK, FrameInv, NumbersTaken
    <3>3. PICK d \in Clients : Accepted(d) /\ (fdtab[f] = d \/ ~Connected(d))
      BY <3>2 DEF TookFrom, Owner
    <3>4. fdtab'[f] = "free"
      BY <1>0, <3>1, <3>2 DEF Close, TypeOK
    <3>5. ~Connected(d)'
      <4>1. CASE ~Connected(d)
        BY <1>0, <3>3, <4>1, HeldFacts
      <4>2. CASE fdtab[f] = d
        BY <1>0, <3>2, <3>3, <3>4, <4>2, HeldFacts, NoKind DEF Kinds
      <4> QED
        BY <3>3, <4>1, <4>2
    <3>6. SomeoneGone'
      BY <1>0, <3>3, <3>5, HeldFacts DEF SomeoneGone
    <3>7. ForgetOK'
      BY <3>6 DEF ForgetOK
    <3> QED
      BY <1>0, <1>1, <2>1, <3>7, FrameParts DEF FrameInv
  <2> QED
    BY <2>2, <2>3
<1>6. CASE Forget(w)
  <2>1. /\ UNCHANGED <<fdtab, conn, head, choked, torn>> /\ pc[w] = "forget"
        /\ myclient' = -1 /\ fdarray' = [fdarray EXCEPT ![slot[w]] = 0]
        /\ pc' = [pc EXCEPT ![w] = "scan"]
    BY <1>6 DEF Forget, Forgotten, Emptied, At, Goto, netVars, scriptVars, noteVars
  <2>2. SomeoneGone
    BY <2>1 DEF FrameInv, ForgetOK
  <2>3. pc'[w] = "scan"
    BY <1>0, <2>1 DEF TypeOK
  <2>4. NumbersTaken'
    <3>1. \A s \in Slots : fdarray'[s] # 0 => fdarray'[s] = fdarray[s]
      BY <1>0, <2>1 DEF TypeOK
    <3>2. myclient' \notin Fds
      BY <2>1 DEF Fds
    <3> QED
      BY <2>1, <3>1, <3>2 DEF FrameInv, NumbersTaken, TookFrom, Accepted, Owner, Connected
  <2>5. NoneOK'
    BY <1>0, <2>2, HeldFacts DEF NoneOK
  <2>6. HeadOK'
    <3> SUFFICES ASSUME call = "body", head.to \in Clients, HeadOf(head.to)
                 PROVE  HeadOf(head.to)'
      BY <1>1, <2>1 DEF FrameInv, HeadOK, SomeoneGone, Accepted, Connected
    <3>1. Connected(head.to) => Another(head.to)
      BY <2>2 DEF SomeoneGone, Another
    <3> QED
      BY <2>1, <3>1 DEF HeadOf, Accepted, Another, Connected, Owner
  <2> QED
    BY <1>0, <1>1, <2>1, <2>3, <2>4, <2>5, <2>6, FrameParts DEF FrameInv
<1> QED
  BY <1>2, <1>3, <1>4, <1>5, <1>6 DEF Work

\* Whose header or body alone went out was full, is gone, or is not the only one.
LEMMA BodyTorn ==
  ASSUME ConstAssumption, TypeOK, NetInv, FrameInv, SendBody, NEW c \in torn' \ torn
  PROVE  /\ c \in Clients /\ Accepted(c)
         /\ c \in choked' \/ ~Connected(c) \/ Another(c)
<1> DEFINE to == Owner(myclient)
<1>1. PICK n \in Sizes : \E r \in SendResults(myclient, n) :
        /\ torn' = IF to = head.to /\ <<head.result, r>> \in {<<2, n>>, <<-1, -1>>}
                   THEN torn ELSE torn \cup ({to, head.to} \cap Clients)
        /\ choked' = IF to \in Clients /\ r < n THEN choked \cup {to} ELSE choked
  BY DEF SendBody
<1>2. PICK r \in SendResults(myclient, n) :
        /\ torn' = IF to = head.to /\ <<head.result, r>> \in {<<2, n>>, <<-1, -1>>}
                   THEN torn ELSE torn \cup ({to, head.to} \cap Clients)
        /\ choked' = IF to \in Clients /\ r < n THEN choked \cup {to} ELSE choked
  BY <1>1
<1>3. /\ c \in Clients /\ c \in {to, head.to}
      /\ ~(to = head.to /\ <<head.result, r>> \in {<<2, n>>, <<-1, -1>>})
  BY <1>2
<1>4. n \in Nat
  BY ConstAssumption
<1>5. \/ head.to = "free" /\ SomeoneGone
      \/ head.to \in Clients /\ HeadOf(head.to)
  BY DEF FrameInv, HeadOK, SendBody
<1>6. to \in Clients => Accepted(to)
  BY NoKind DEF NetInv, ConnOK, Accepted, Owner, Kinds
<1>7. Accepted(c)
  BY <1>3, <1>5, <1>6, NoKind DEF HeadOf, Kinds
<1>8. CASE head.to # c
  <2>1. c = to
    BY <1>3, <1>8
  <2>2. CASE head.to = "free" /\ SomeoneGone
    BY <1>3, <1>7, <2>2 DEF SomeoneGone, Another
  <2>3. CASE head.to \in Clients /\ HeadOf(head.to)
    BY <1>3, <1>7, <1>8, <2>3 DEF HeadOf, Another
  <2> QED
    BY <1>3, <1>5, <1>7, <2>2, <2>3
<1>9. CASE head.to = c /\ to # c
  <2>1. HeadOf(c)
    BY <1>3, <1>5, <1>9, NoKind DEF Kinds
  <2> QED
    BY <1>3, <1>7, <1>9, <2>1 DEF HeadOf
<1>10. CASE head.to = c /\ to = c
  <2>1. HeadOf(c)
    BY <1>3, <1>5, <1>10, NoKind DEF Kinds
  <2>2. CASE head.result = -1
    BY <1>2, <1>3, <1>7, <2>1, <2>2 DEF HeadOf
  <2>3. CASE head.result = 2
    <3>1. r # n
      BY <1>3, <1>10, <2>3
    <3>2. SendResults(myclient, n) = {-1, n} \cup 1 .. n
      BY <1>3, <1>10, NoKind DEF SendResults, Kinds
    <3>3. r < n
      BY <1>4, <3>1, <3>2
    <3> QED
      BY <1>2, <1>3, <1>7, <1>10, <3>3
  <2> QED
    BY <2>1, <2>2, <2>3 DEF HeadOf
<1> QED
  BY <1>8, <1>9, <1>10

LEMMA FrameOther ==
  ASSUME TypeInv, NetInv, FrameInv,
         \/ \E c \in Clients : Connect(c) \/ Say(c) \/ Leave(c)
         \/ OtherOpens \/ OtherCloses \/ Enter \/ Module
  PROVE  FrameInv'
<1>0. TypeOK /\ Held
  BY HeldOther DEF TypeInv
<1>1. CASE \/ \E c \in Clients : Connect(c) \/ Say(c) \/ Leave(c)
           \/ OtherOpens \/ OtherCloses \/ Enter \/ Exit
  <2>1. UNCHANGED <<fdarray, myclient, head, choked, torn, pc, call, starts>>
    BY <1>1 DEF Connect, Say, Leave, OtherOpens, OtherCloses, Enter, Exit, codeVars, workVars,
                scriptVars, noteVars
  <2> QED
    BY <1>0, <2>1, FrameQuiet
<1>2. CASE StopFlag \/ StartFlag
  <2>1. UNCHANGED <<fdarray, myclient, head, choked, torn, pc>> /\ call # "socket"
    BY <1>2 DEF StopFlag, StartFlag, workVars, noteVars, Calls
  <2>2. call' = "body" => call = "body"
    BY <1>2 DEF StopFlag, StartFlag
  <2>3. starts' > 0 /\ call' # "socket" => starts > 0
    BY <1>2 DEF StopFlag, StartFlag
  <2> QED
    BY <1>0, <2>1, <2>2, <2>3, FrameQuiet
<1>3. CASE StartThread
  <2>1. /\ UNCHANGED <<fdarray, myclient, head, choked, torn, starts>>
        /\ call = "bind" /\ call' = "none"
    BY <1>3 DEF StartThread, codeVars, noteVars
  <2>2. \A w \in Workers : pc'[w] = "forget" => pc[w] = "forget"
    BY <1>0, <1>3 DEF StartThread, TypeOK
  <2> QED
    BY <1>0, <2>1, <2>2, FrameQuiet
<1>4. CASE StartSocket
  <2>1. /\ UNCHANGED <<head, choked, torn, starts, pc>> /\ call' = "bind"
        /\ myclient' = 0 /\ \A s \in Slots : fdarray'[s] = 0
    BY <1>4 DEF StartSocket, workVars, noteVars
  <2>2. NumbersTaken' /\ NoneOK'
    BY <2>1 DEF NumbersTaken, NoneOK, Fds
  <2> QED
    BY <1>0, <2>1, <2>2, FrameParts DEF FrameInv
<1>5. CASE StopSlots
  <2>1. UNCHANGED <<fdarray, myclient, head, starts, pc>> /\ call = "closing"
    BY <1>5 DEF StopSlots, codeVars, workVars
  <2>2. call' \in {"closing", "none"} /\ (UNCHANGED <<choked, torn>> \/ torn' = {})
    BY <1>5, <2>1 DEF StopSlots
  <2>3. TornOK' /\ WholeFrames'
    <3>1. CASE torn' = {}
      BY <3>1 DEF TornOK, WholeFrames
    <3> QED
      BY <1>0, <2>2, <3>1, FrameParts
  <2> QED
    BY <1>0, <2>1, <2>2, <2>3, FrameParts DEF FrameInv
<1>6. CASE SendHead
  <2>1. /\ UNCHANGED <<fdarray, fdtab, conn, myclient, starts, torn, pc>>
        /\ call = "none" /\ choked \subseteq choked'
    BY <1>6 DEF SendHead, Calls, codeVars, netVars, workVars
  <2>2. CASE UNCHANGED <<call, head, choked>>
    BY <1>0, <2>1, <2>2, FrameQuiet
  <2>3. CASE ~UNCHANGED <<call, head, choked>>
    <3>1. myclient # 0 /\ starts # 0
      BY <1>6, <2>3 DEF SendHead
    <3>2. PICK r \in SendResults(myclient, 2) \ {1} :
            /\ head' = [to |-> Owner(myclient), result |-> r]
            /\ choked' = IF Owner(myclient) \in Clients /\ r < 2
                         THEN choked \cup {Owner(myclient)} ELSE choked
            /\ call' = "body"
      BY <1>6, <2>3, <3>1 DEF SendHead
    <3>3. HeadOK'
      <4>1. CASE Owner(myclient) = "free"
        <5>1. myclient \in Fds \/ myclient = -1
          BY <1>0, <3>1 DEF TypeOK
        <5>2. SomeoneGone
          <6>1. CASE myclient \in Fds
            BY <4>1, <6>1, NoKind DEF FrameInv, NumbersTaken, TookFrom, SomeoneGone, Kinds
          <6>2. CASE myclient = -1
            BY <1>0, <2>1, <3>1, <6>2 DEF FrameInv, NoneOK, TypeOK
          <6> QED
            BY <5>1, <6>1, <6>2
        <5> QED
          BY <1>0, <3>2, <4>1, <5>2, HeldFacts DEF HeadOK
      <4>2. CASE Owner(myclient) # "free"
        <5>1. Owner(myclient) \in Clients
          BY <1>0, <3>2, <4>2, OwnerType DEF SendResults, Kinds
        <5>2. r \in {-1, 2}
          BY <3>2, <5>1, NoKind DEF SendResults, Kinds
        <5>3. Accepted(Owner(myclient))
          BY <5>1, NoKind DEF NetInv, ConnOK, Accepted, Owner, Kinds
        <5> QED
          BY <2>1, <3>2, <5>1, <5>2, <5>3 DEF HeadOK, HeadOf, Accepted, Owner
      <4> QED
        BY <4>1, <4>2
    <3>4. NoneOK'
      <4>1. starts > 0
        BY <1>0, <3>1 DEF TypeOK
      <4> QED
        BY <1>0, <2>1, <4>1, FrameParts
    <3> QED
      BY <1>0, <2>1, <3>3, <3>4, FrameParts DEF FrameInv
  <2> QED
    BY <2>2, <2>3
<1>7. CASE SendBody
  <2>1. UNCHANGED <<fdarray, fdtab, conn, starts, pc>> /\ call = "body"
    BY <1>7 DEF SendBody, netVars, workVars
  <2>2. CASE UNCHANGED <<torn, choked, myclient, call, head>>
    BY <1>0, <2>1, <2>2, FrameQuiet
  <2>3. CASE ~UNCHANGED <<torn, choked, myclient, call, head>>
    <3>1. call' = "none" /\ choked \subseteq choked' /\ myclient' \in {0, myclient}
      BY <1>7, <2>3 DEF SendBody
    <3>2. NumbersTaken'
      BY <2>1, <3>1 DEF FrameInv, NumbersTaken, TookFrom, Accepted, Owner, Connected, Fds
    <3>3. NoneOK'
      <4>1. CASE myclient' = myclient
        BY <1>0, <2>1, <4>1, FrameParts
      <4>2. CASE myclient' = 0
        BY <4>2 DEF NoneOK
      <4> QED
        BY <3>1, <4>1, <4>2
    <3>4. ASSUME NEW c \in torn'
          PROVE  Accepted(c) /\ (c \in choked' \/ ~Connected(c) \/ Another(c))
      <4>1. CASE c \in torn
        BY <3>1, <4>1 DEF FrameInv, TornOK, WholeFrames, Another, Accepted
      <4>2. CASE c \notin torn
        BY <1>0, <1>7, <4>2, BodyTorn, ConstAssumption
      <4> QED
        BY <4>1, <4>2
    <3>5. TornOK' /\ WholeFrames'
      BY <2>1, <3>4 DEF TornOK, WholeFrames, Another, Accepted, Connected
    <3> QED
      BY <1>0, <2>1, <3>1, <3>2, <3>3, <3>5, FrameParts DEF FrameInv
  <2> QED
    BY <2>2, <2>3
<1> QED
  BY <1>1, <1>2, <1>3, <1>4, <1>5, <1>6, <1>7 DEF Module

LEMMA FrameKept == TypeInv /\ NetInv /\ FrameInv /\ [Next]_vars => FrameInv'
<1>1. CASE UNCHANGED vars
  BY <1>1 DEF vars, codeVars, netVars, workVars, scriptVars, noteVars, FrameInv, NumbersTaken,
     ForgetOK, NoneOK, HeadOK, HeadOf, TornOK, WholeFrames, TookFrom, SomeoneGone, Another, Accepted,
     Connected, Owner
<1>2. TypeInv /\ NetInv /\ FrameInv /\ Next => FrameInv'
  BY FrameWork, FrameOther DEF Next, Runnable
<1> QED
  BY <1>1, <1>2

\* A client gets a header without its body, or the reverse, only when its buffer was
\* full, its connection is closed, or another client has connected: however often
\* the server is started and stopped, and by however many work threads.
THEOREM FramesAreWhole == Spec => []WholeFrames
<1>1. Init => FrameInv
  BY DEF Init, FrameInv, NumbersTaken, ForgetOK, NoneOK, HeadOK, TornOK, WholeFrames, Fds
<1>2. Spec => [](TypeInv /\ NetInv)
  BY Invariants, PTL DEF Inv
<1>3. FrameInv => WholeFrames
  BY DEF FrameInv
<1> QED
  BY FrameKept, <1>1, <1>2, <1>3, PTL DEF Spec

-----------------------------------------------------------------------------
(* The headers of frames and their decoding (module WsFrames), for messages *)
(* and frames of any length.                                               *)

\* Division by one byte.
LEMMA Divide ==
  ASSUME NEW n \in Nat
  PROVE  /\ n = 256 * (n \div 256) + (n % 256)
         /\ n \div 256 \in Nat /\ n % 256 \in 0 .. 255
  BY SMT

LEMMA DivideTwice ==
  ASSUME NEW n \in Nat
  PROVE  /\ n \div 65536 = (n \div 256) \div 256
         /\ n \div 16777216 = (n \div 65536) \div 256
  BY SMT

\* The bytes of a number give the number back.
LEMMA TwoBytes ==
  ASSUME NEW n \in Nat, n < 65536
  PROVE  ((n \div 256) % 256) * 256 + (n % 256) = n
  BY SMT, Divide

LEMMA FourBytes ==
  ASSUME NEW n \in Nat, n \div 65536 < 65536
  PROVE  (((n \div 16777216) % 256) * 256 + ((n \div 65536) % 256)) * 65536
           + (((n \div 256) % 256) * 256 + (n % 256)) = n
  BY SMT

\* What a client reads out of the header of a text.
LEMMA TextHeader ==
  ASSUME NEW n \in Nat
  PROVE  n < 65536 <=> Told(TextHead(n)) = n
<1>1. CASE n <= 125
  BY <1>1 DEF TextHead, TextLimit, Told, Byte
<1>2. CASE n > 125
  <2>1. Told(TextHead(n)) = ((n \div 256) % 256) * 256 + (n % 256)
    BY <1>2 DEF TextHead, TextLimit, Told, Byte, Word
  <2>2. ((n \div 256) % 256) * 256 + (n % 256) < 65536
    OBVIOUS
  <2> QED
    BY <2>1, <2>2, TwoBytes
<1> QED
  BY <1>1, <1>2

\* The same for a binary message.
LEMMA BinaryHeader ==
  ASSUME NEW n \in Nat, n \div 65536 < 65536
  PROVE  n # 126 <=> Told(BinaryHead(n)) = n
<1>1. CASE n <= 126
  BY <1>1 DEF BinaryHead, Told, Byte
<1>2. CASE 126 < n /\ n < 65535
  <2>1. Told(BinaryHead(n)) = ((n \div 256) % 256) * 256 + (n % 256)
    BY <1>2 DEF BinaryHead, WordLimit, Told, Byte, Word
  <2> QED
    BY <1>2, <2>1, TwoBytes
<1>3. CASE n >= 65535
  <2>1. Told(BinaryHead(n)) =
          (((n \div 16777216) % 256) * 256 + ((n \div 65536) % 256)) * 65536
            + (((n \div 256) % 256) * 256 + (n % 256))
    BY <1>3 DEF BinaryHead, WordLimit, Told, Byte, Word
  <2> QED
    BY <1>3, <2>1, FourBytes
<1> QED
  BY <1>1, <1>2, <1>3

\* What is tried has its type.
THEOREM FrameTypes == FramesSpec => []FramesTypeOK
<1>1. FramesInit => FramesTypeOK
  BY DEF FramesInit, FramesTypeOK
<1>2. FramesTypeOK /\ [FramesNext]_frameVars => FramesTypeOK'
  BY DEF FramesTypeOK, FramesNext, Sends, Receive, Passed, frameVars
<1> QED
  BY <1>1, <1>2, PTL DEF FramesSpec

\* Headers of texts are right below 65536 bytes, and only there.
THEOREM TextHeaders == FramesSpec => []TextTold
<1>1. FramesTypeOK => TextTold
  BY TextHeader, LensAssumption DEF FramesTypeOK, TextTold
<1> QED
  BY FrameTypes, <1>1, PTL

\* Headers of binary messages are right but for 126 bytes.
THEOREM BinaryHeaders == FramesSpec => []BinaryTold
<1>1. FramesTypeOK => BinaryTold
  BY BinaryHeader, LensAssumption DEF FramesTypeOK, BinaryTold
<1> QED
  BY FrameTypes, <1>1, PTL

LEMMA GotType ==
  ASSUME FramesTypeOK, got # NoFrame
  PROVE  got.size \in Int /\ got.have \in Int /\ got.zero \in Int /\ Possible(got)
<1>1. got \in Arrivals /\ Possible(got)
  BY DEF FramesTypeOK
<1>2. Lens \subseteq Int
  BY LensAssumption
<1> QED
  BY <1>1, <1>2 DEF Arrivals

\* Which frames reach the script as they were sent.
THEOREM WhatIsUnderstood == FramesSpec => []Understood
<1>1. ASSUME FramesTypeOK PROVE Understood
  <2> SUFFICES ASSUME got # NoFrame, got.size > 0
               PROVE  OutMessage(got) = [size |-> got.size, real |-> TRUE]
                      <=> /\ got.opcode = "text" /\ got.fin /\ got.mask /\ got.size < 65536
                          /\ got.have = got.size /\ got.zero = got.size
    BY SMT DEF Understood
  <2>1. got.size \in Int /\ got.have \in Int /\ got.zero \in Int
    BY <1>1, GotType
  <2>2. got.opcode = "text" /\ got.size < 65536 => PayloadLength(got) = got.size
    BY SMT, <2>1 DEF PayloadLength, Len7, Len16
  <2>3. Error(got) <=> \/ got.opcode = "other"
                       \/ got.opcode # "close" /\ (~got.fin \/ ~got.mask)
                       \/ got.opcode = "text" /\ got.size >= 65536
    BY SMT, <2>1 DEF Error, Len7
  <2>4. CASE got.opcode # "text"
    BY SMT, <2>1, <2>4 DEF OutMessage, Nothing, PayloadLength
  <2>5. CASE got.opcode = "text" /\ (got.size >= 65536 \/ ~got.fin \/ ~got.mask)
    BY SMT, <2>1, <2>3, <2>5 DEF OutMessage, Nothing
  <2>6. CASE got.opcode = "text" /\ got.size < 65536 /\ got.fin /\ got.mask
    <3>1. ~Error(got) /\ PayloadLength(got) = got.size
      BY SMT, <2>1, <2>2, <2>3, <2>6
    <3>2. OutMessage(got) = IF got.zero < got.have THEN [size |-> got.zero, real |-> TRUE]
                            ELSE [size |-> got.size, real |-> got.have >= got.size]
      BY SMT, <2>1, <3>1 DEF OutMessage
    <3>3. got.have <= got.size /\ got.zero <= got.size
      BY <1>1, GotType DEF Possible
    <3>4. CASE got.zero < got.have
      BY SMT, <2>1, <3>2, <3>3, <3>4
    <3>5. CASE ~(got.zero < got.have) /\ got.have >= got.size
      <4>0. (got.have >= got.size) = TRUE
        BY <2>1, <3>5
      <4>1. OutMessage(got) = [size |-> got.size, real |-> TRUE]
        BY Zenon, <3>2, <3>5, <4>0
      <4> QED
        BY SMT, <2>1, <2>6, <3>3, <3>5, <4>1
    <3>6. CASE ~(got.zero < got.have) /\ ~(got.have >= got.size)
      <4>0. (got.have >= got.size) = FALSE
        BY <2>1, <3>6
      <4>1. OutMessage(got) = [size |-> got.size, real |-> FALSE]
        BY Zenon, <3>2, <3>6, <4>0
      <4> QED
        BY SMT, <2>1, <3>6, <4>1
    <3> QED
      BY <3>4, <3>5, <3>6
  <2> QED
    BY SMT, <2>1, <2>4, <2>5, <2>6
<1> QED
  BY FrameTypes, <1>1, PTL

\* Only a text that is cut makes the script read bytes that were not sent.
THEOREM NothingMadeUp == FramesSpec => []MadeUp
<1>1. ASSUME FramesTypeOK PROVE MadeUp
  <2> SUFFICES ASSUME got # NoFrame, ~OutMessage(got).real
               PROVE  got.opcode = "text" /\ got.have < got.size
    BY SMT DEF MadeUp
  <2>1. got.size \in Int /\ got.have \in Int
    BY <1>1, GotType
  <2>2. /\ ~Error(got) /\ PayloadLength(got) # 0 /\ ~(got.have >= PayloadLength(got))
    <3>1. CASE Error(got) \/ PayloadLength(got) = 0
      BY <3>1 DEF OutMessage, Nothing
    <3>2. CASE ~Error(got) /\ PayloadLength(got) # 0 /\ got.have >= PayloadLength(got)
      <4>1. (got.have >= PayloadLength(got)) = TRUE
        BY <3>2
      <4> QED
        BY <3>2, <4>1 DEF OutMessage
    <3> QED
      BY <3>1, <3>2
  <2> QED
    BY SMT, <2>1, <2>2 DEF PayloadLength, Len7, Len16, Error
<1> QED
  BY FrameTypes, <1>1, PTL

\* Headers of both kinds are right, but for the exceptions that LengthsTold names.
THEOREM Headers == FramesSpec => []LengthsTold
<1>1. TextTold /\ BinaryTold => LengthsTold
  BY DEF LengthsTold
<1> QED
  BY TextHeaders, BinaryHeaders, <1>1, PTL

\* The decoder does with every arrival what Decoded says.
THEOREM Decoding == FramesSpec => []Decoded
<1>1. Understood /\ MadeUp => Decoded
  BY DEF Decoded
<1> QED
  BY WhatIsUnderstood, NothingMadeUp, <1>1, PTL
=============================================================================
