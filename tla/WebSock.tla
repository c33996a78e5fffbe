------------------------------- MODULE WebSock -------------------------------
(***************************************************************************)
(* The web socket server (modules/websock/websock.cpp): its work thread,   *)
(* and the script that starts it, sends with it and stops it.  It has many *)
(* connections and one client, the one that shook hands last; whatever the *)
(* script sends goes to the descriptor number in myclient.                 *)
(*                                                                         *)
(* The script runs in a thread of the host or in a callback of the work    *)
(* thread, each of which holds the mutex of the Lua state meanwhile        *)
(* (module Business); who holds it is in "lock".  The work thread itself   *)
(* takes no lock for myclient and fdarray.  Other parts of the program     *)
(* open and close descriptors too, and the kernel gives out the lowest.    *)
(*                                                                         *)
(* Left out: what is in a message (module WsFrames), Windows, destory, and *)
(* sending(), which nobody starts.  "broken" is why the program has died,  *)
(* reached undefined behaviour, or used a descriptor of another part of it *)
(* ("stray"); nothing is modelled beyond that.                             *)
(***************************************************************************)
EXTENDS Integers, FiniteSets

CONSTANTS
  Clients,    \* those who connect, each of them once
  NoClient,
  NFds,       \* descriptor numbers are 1 .. NFds (1023 at most: an fd_set has no more)
  NSlots,     \* MAX_CLIENT
  MaxOthers,  \* bound on the descriptors of the rest of the program at a time
  MaxStarts,  \* bound on the calls of start
  MaxSaid,    \* bound on the messages of a client
  Leavers,    \* the clients that may close their connection
  Sizes       \* lengths of what the script sends

ASSUME ConstAssumption ==
  /\ {NFds, NSlots, MaxOthers, MaxStarts, MaxSaid} \subseteq Nat /\ Sizes \subseteq Nat
  /\ NoClient \notin Clients
  /\ (Clients \cup {NoClient}) \cap {"free", "other", "bare", "listen"} = {}

VARIABLES
  m_bExit, mysocket, myclient, fdarray, maxfd, \* as in the code
  fdtab,    \* what each number stands for
  conn,     \* each client: "out", "waiting" for accept, "open", or "left"
  said,     \* how many messages it has sent
  read,     \* how many of them recv has read
  pc,       \* where each work thread is
  slot,     \* the slot it looks at
  ready,    \* its fdRead after select
  job,      \* the message it has read
  lock,     \* who runs in the Lua state
  call,     \* where the script is in a call of the module
  head,     \* the header just sent: to whom, and the result
  starts,   \* how often start was called
  stopped,  \* stop has been called
  last,     \* who shook hands last
  torn,     \* clients that got a header or a body without the other
  choked,   \* clients to whom a send was not complete
  broken    \* "no", or why the program is past defined behaviour

codeVars   == <<m_bExit, mysocket, myclient, fdarray, maxfd>>
netVars    == <<fdtab, conn, said, read>>
workVars   == <<pc, slot, ready, job>>
scriptVars == <<lock, call, head, starts, stopped>>
noteVars   == <<last, torn, choked>>
vars == <<codeVars, netVars, workVars, scriptVars, noteVars, broken>>

Fds     == 1 .. NFds
Slots   == 1 .. NSlots
Workers == 1 .. MaxStarts
Script  == 0  \* a thread of the host that runs the script
Nobody  == -1

At(w, label)   == pc[w] = label
Goto(w, label) == pc' = [pc EXCEPT ![w] = label]
Break(why)     == broken' = why
Owner(f)       == IF f \in Fds THEN fdtab[f] ELSE "free"
NoJob          == [sock |-> 0, upgrade |-> FALSE]
NoHead         == [to |-> "free", result |-> 0]
Connected(c)   == \E f \in Fds : fdtab[f] = c

-----------------------------------------------------------------------------
(* The kernel and the others.                                              *)

Lowest(f) == fdtab[f] = "free" /\ \A g \in Fds : fdtab[g] = "free" => f <= g

\* close(f): clients in the queue of a listening socket are turned away.
Close(f) ==
  /\ fdtab' = IF f \in Fds THEN [fdtab EXCEPT ![f] = "free"] ELSE fdtab
  /\ conn' = IF Owner(f) = "listen"
             THEN [c \in Clients |-> IF conn[c] = "waiting" THEN "left" ELSE conn[c]]
             ELSE conn

Connect(c) ==
  /\ conn[c] = "out" /\ \E f \in Fds : fdtab[f] = "listen"
  /\ conn' = [conn EXCEPT ![c] = "waiting"]
  /\ UNCHANGED <<codeVars, fdtab, said, read, workVars, scriptVars, noteVars, broken>>

\* What is said and who leaves matters while there is a connection.
Say(c) ==
  /\ conn[c] = "open" /\ Connected(c) /\ said[c] < MaxSaid
  /\ said' = [said EXCEPT ![c] = @ + 1]
  /\ UNCHANGED <<codeVars, fdtab, conn, read, workVars, scriptVars, noteVars, broken>>

Leave(c) ==
  /\ c \in Leavers /\ conn[c] = "open" /\ Connected(c)
  /\ conn' = [conn EXCEPT ![c] = "left"]
  /\ UNCHANGED <<codeVars, fdtab, said, read, workVars, scriptVars, noteVars, broken>>

\* The rest of the program.
OtherOpens ==
  /\ Cardinality({f \in Fds : fdtab[f] = "other"}) < MaxOthers
  /\ \E f \in Fds : Lowest(f) /\ fdtab' = [fdtab EXCEPT ![f] = "other"]
  /\ UNCHANGED <<codeVars, conn, said, read, workVars, scriptVars, noteVars, broken>>

OtherCloses ==
  /\ \E f \in Fds : fdtab[f] = "other" /\ fdtab' = [fdtab EXCEPT ![f] = "free"]
  /\ UNCHANGED <<codeVars, conn, said, read, workVars, scriptVars, noteVars, broken>>

\* send of n bytes to f and its result: a full buffer takes a part or nothing.  A
\* client that has left may get the process a SIGPIPE; a socket without a peer does.
SendResults(f, n) ==
  CASE Owner(f) = "free"                        -> {-1}
    [] Owner(f) \in {"other", "bare", "listen"} -> {}
    [] OTHER                                    -> {-1, n} \cup 1 .. n
SendFails(f) ==
  \/ Owner(f) = "other" /\ Break("stray")
  \/ /\ \/ Owner(f) \in {"bare", "listen"}
        \/ Owner(f) \in Clients /\ conn[Owner(f)] = "left"
     /\ Break("pipe")

-----------------------------------------------------------------------------
(* websock::workthread                                                     *)

\* Mutant of LoopTest: the flag is not looked at.
LoopForever == TRUE

LoopTest == ~m_bExit

Test(w) ==
  /\ At(w, "test")
  /\ Goto(w, IF LoopTest THEN "select" ELSE "ended")
  /\ UNCHANGED <<codeVars, netVars, slot, ready, job, scriptVars, noteVars, broken>>

Pending(c) == said[c] > read[c]

Readable(f) ==
  \/ fdtab[f] = "bare"
  \/ fdtab[f] = "listen" /\ \E c \in Clients : conn[c] = "waiting"
  \/ fdtab[f] \in Clients /\ (Pending(fdtab[f]) \/ conn[fdtab[f]] = "left")

\* static SOCKET maxfd = svr->mysocket
FirstMaxfd == IF maxfd = 0 THEN mysocket ELSE maxfd
Watched(m) == {f \in Fds : f <= m /\ (f = mysocket \/ \E s \in Slots : fdarray[s] = f)}

\* fdRead is formed and select returns.
Select(w) ==
  /\ At(w, "select")
  /\ maxfd' = FirstMaxfd
  /\ \E R \in SUBSET Watched(FirstMaxfd) :
       /\ \A f \in Watched(FirstMaxfd) : fdtab[f] # "other" => (f \in R <=> Readable(f))
       /\ IF R = {} \/ \E f \in Watched(FirstMaxfd) : fdtab[f] = "free"
          THEN Goto(w, "test") /\ UNCHANGED ready
          ELSE IF mysocket \in R THEN Goto(w, "accept") /\ UNCHANGED ready
          ELSE Goto(w, "scan") /\ ready' = [ready EXCEPT ![w] = R]
  /\ UNCHANGED <<m_bExit, mysocket, myclient, fdarray, netVars, slot, job, scriptVars, noteVars,
                 broken>>

FreeSlots == {s \in Slots : fdarray[s] = 0}

\* Mutant of RaiseTo: the new number is not watched.
RaiseNever(f) == maxfd

RaiseTo(f) == IF maxfd < f THEN f ELSE maxfd

\* A connection takes the first free slot, or is closed when there is none.
Accept(w) ==
  /\ At(w, "accept")
  /\ Goto(w, "test")
  /\ \/ \E c \in Clients, f \in Fds :
          /\ Owner(mysocket) = "listen" /\ conn[c] = "waiting" /\ Lowest(f)
          /\ conn' = [conn EXCEPT ![c] = "open"]
          /\ IF FreeSlots = {}
             THEN UNCHANGED <<fdtab, fdarray, maxfd>>
             ELSE \E s \in FreeSlots :
                    /\ \A t \in FreeSlots : s <= t
                    /\ fdtab' = [fdtab EXCEPT ![f] = c]
                    /\ fdarray' = [fdarray EXCEPT ![s] = f]
                    /\ maxfd' = RaiseTo(f)
     \/ /\ \/ Owner(mysocket) # "listen" \/ \A f \in Fds : fdtab[f] # "free"
           \/ \A c \in Clients : conn[c] # "waiting"
        /\ UNCHANGED <<conn, fdtab, fdarray, maxfd>>
  /\ UNCHANGED <<m_bExit, mysocket, myclient, said, read, slot, ready, job, scriptVars,
                 noteVars, broken>>

\* The next slot whose number is in fdRead.
Scan(w) ==
  LET hits == {s \in Slots : s > slot[w] /\ fdarray[s] \in ready[w]}
  IN  /\ At(w, "scan")
      /\ IF hits = {}
         THEN /\ slot' = [slot EXCEPT ![w] = 0] /\ ready' = [ready EXCEPT ![w] = {}]
              /\ Goto(w, "test")
         ELSE /\ \E s \in hits : (\A t \in hits : s <= t) /\ slot' = [slot EXCEPT ![w] = s]
              /\ Goto(w, "recv") /\ UNCHANGED ready
      /\ UNCHANGED <<codeVars, netVars, job, scriptVars, noteVars, broken>>

\* recv: it reads one message or several that have come together, of which the
\* first one is looked at: it may ask for a web socket, or be a frame or plain HTTP.
\* 0 or -1 closes the socket.  Number 0 is the console.
Recv(w) ==
  LET f == fdarray[slot[w]]  c == Owner(f)
  IN  /\ At(w, "recv")
      /\ \/ f = 0 /\ Break("console") /\ UNCHANGED <<pc, job, read>>
         \/ /\ c \in Clients /\ Pending(c)
            /\ \E n \in read[c] + 1 .. said[c] : read' = [read EXCEPT ![c] = n]
            /\ \E u \in BOOLEAN :
                 job' = [job EXCEPT ![w] = [sock |-> f, upgrade |-> u]]
            /\ Goto(w, "dispath") /\ UNCHANGED broken
         \/ c = "other" /\ Break("stray") /\ UNCHANGED <<pc, job, read>>
         \/ /\ f # 0 /\ c # "other" /\ ~(c \in Clients /\ Pending(c))
            /\ Goto(w, "close") /\ UNCHANGED <<read, job, broken>>
      /\ UNCHANGED <<codeVars, fdtab, conn, said, slot, ready, scriptVars, noteVars>>

\* Mutant of NewClient: the first client stays.
FirstStays(f) == IF myclient \in Fds THEN myclient ELSE f

NewClient(f) == f

\* websock::dispath.  The client's own messages are frames for the script.  Whatever
\* another sends is an HTTP head first, be it a frame of one who was the client.
Frame(w) ==
  /\ At(w, "dispath") /\ myclient = job[w].sock
  /\ Goto(w, "callback")
  /\ UNCHANGED <<codeVars, netVars, slot, ready, job, scriptVars, noteVars, broken>>

\* anyhttphead: a line without a colon, in the head or in a body after it, has no
\* value, and a string is made of NULL.  handshake: a key that does not fit.
BadHead(w) ==
  /\ At(w, "dispath") /\ myclient # job[w].sock
  /\ Break("head")
  /\ UNCHANGED <<codeVars, netVars, pc, slot, ready, job, scriptVars, noteVars>>

\* Others get a handshake if they ask for one; the script is told if they name a
\* protocol.
Handshake(w) ==
  LET f == job[w].sock
  IN  /\ At(w, "dispath") /\ myclient # f /\ job[w].upgrade
      /\ \/ /\ 1 \in SendResults(f, 1)
            /\ job' = [job EXCEPT ![w] = NoJob]
            /\ myclient' = NewClient(f)
            /\ last' = IF Owner(f) \in Clients THEN Owner(f) ELSE NoClient
            /\ pc' \in {[pc EXCEPT ![w] = "scan"], [pc EXCEPT ![w] = "notify"]}
            /\ UNCHANGED broken
         \/ /\ -1 \in SendResults(f, 1)
            /\ Goto(w, "scan") /\ job' = [job EXCEPT ![w] = NoJob]
            /\ UNCHANGED <<myclient, last, broken>>
         \/ SendFails(f) /\ UNCHANGED <<pc, job, myclient, last>>
      /\ UNCHANGED <<m_bExit, mysocket, fdarray, maxfd, netVars, slot, ready, scriptVars,
                     torn, choked>>

\* Anything else they send is dropped.
Drop(w) ==
  /\ At(w, "dispath") /\ myclient # job[w].sock /\ ~job[w].upgrade
  /\ Goto(w, "scan") /\ job' = [job EXCEPT ![w] = NoJob]
  /\ UNCHANGED <<codeVars, netVars, slot, ready, scriptVars, noteVars, broken>>

\* responsetolua: the callback starts when the mutex is free.
Callback(w) ==
  /\ pc[w] \in {"notify", "callback"} /\ lock = Nobody
  /\ lock' = w
  /\ Goto(w, IF At(w, "notify") THEN "noted" ELSE "answer")
  /\ UNCHANGED <<codeVars, netVars, slot, ready, job, call, head, starts, stopped, noteVars,
                 broken>>

\* Its result closes the connection, unless it was about a handshake.
Return(w) ==
  /\ pc[w] \in {"noted", "answer"} /\ call = "none"
  /\ lock' = Nobody
  /\ \/ Goto(w, "scan")
     \/ At(w, "answer") /\ Goto(w, "close")
  /\ job' = [job EXCEPT ![w] = NoJob]
  /\ UNCHANGED <<codeVars, netVars, slot, ready, call, head, starts, stopped, noteVars,
                 broken>>

\* Mutant of Shut: the socket stays open.
NotShut(f) == UNCHANGED <<fdtab, conn>>

Shut(f) == Close(f)

CloseSock(w) ==
  LET f == fdarray[slot[w]]
  IN  /\ At(w, "close")
      /\ \/ f = 0 /\ Break("console") /\ UNCHANGED <<pc, fdtab, conn>>
         \/ Owner(f) = "other" /\ Break("stray") /\ UNCHANGED <<pc, fdtab, conn>>
         \/ f # 0 /\ Owner(f) # "other" /\ Shut(f) /\ Goto(w, "forget") /\ UNCHANGED broken
      /\ UNCHANGED <<codeVars, said, read, slot, ready, job, scriptVars, noteVars>>

\* Mutant of Forgotten: the client is kept.
NotForgotten == myclient

Emptied(s) == [fdarray EXCEPT ![s] = 0]
Forgotten  == -1

\* Whoever's connection is closed, the client is forgotten.
Forget(w) ==
  /\ At(w, "forget")
  /\ ready' = [ready EXCEPT ![w] = @ \ {fdarray[slot[w]]}]
  /\ fdarray' = Emptied(slot[w])
  /\ myclient' = Forgotten
  /\ Goto(w, "scan")
  /\ UNCHANGED <<m_bExit, mysocket, maxfd, netVars, slot, job, scriptVars, noteVars, broken>>

Work(w) == \/ Test(w) \/ Select(w) \/ Accept(w) \/ Scan(w) \/ Recv(w) \/ Frame(w)
           \/ BadHead(w) \/ Handshake(w) \/ Drop(w) \/ Callback(w) \/ Return(w)
           \/ CloseSock(w) \/ Forget(w)

-----------------------------------------------------------------------------
(* The script: start, sends and stop.                                      *)

Enter ==
  /\ lock = Nobody /\ lock' = Script
  /\ UNCHANGED <<codeVars, netVars, workVars, call, head, starts, stopped, noteVars, broken>>

Exit ==
  /\ lock = Script /\ call = "none" /\ lock' = Nobody
  /\ UNCHANGED <<codeVars, netVars, workVars, call, head, starts, stopped, noteVars, broken>>

Calls == lock # Nobody /\ call = "none"

\* The header of a frame goes to myclient, both bytes or none of the two (or four,
\* or ten).  Before start myclient is not set.
SendHead ==
  /\ Calls /\ myclient # 0
  /\ IF starts = 0 THEN Break("unset") /\ UNCHANGED <<call, head, choked>>
     ELSE \/ \E r \in SendResults(myclient, 2) \ {1} :
               /\ head' = [to |-> Owner(myclient), result |-> r]
               /\ choked' = IF Owner(myclient) \in Clients /\ r < 2
                            THEN choked \cup {Owner(myclient)} ELSE choked
               /\ call' = "body" /\ UNCHANGED broken
          \/ SendFails(myclient) /\ UNCHANGED <<call, head, choked>>
  /\ UNCHANGED <<codeVars, netVars, workVars, lock, starts, stopped, last, torn>>

\* if (nsent <= 0) myclient = 0
Lost(n) == n <= 0

\* Then the body, to whoever is myclient by now.
SendBody ==
  /\ call = "body"
  /\ \/ \E n \in Sizes : \E r \in SendResults(myclient, n) :
          LET to == Owner(myclient)
          IN  /\ torn' = IF to = head.to /\ <<head.result, r>> \in {<<2, n>>, <<-1, -1>>}
                         THEN torn
                         ELSE torn \cup ({to, head.to} \cap Clients)
              /\ choked' = IF to \in Clients /\ r < n THEN choked \cup {to} ELSE choked
              /\ myclient' = IF Lost(head.result + r) THEN 0 ELSE myclient
              /\ head' = NoHead /\ call' = "none" /\ UNCHANGED broken
     \/ SendFails(myclient) /\ UNCHANGED <<torn, choked, myclient, call, head>>
  /\ UNCHANGED <<m_bExit, mysocket, fdarray, maxfd, netVars, workVars, lock, starts, stopped,
                  last>>

StopFlag ==
  /\ Calls
  /\ IF starts = 0 THEN Break("unset") /\ UNCHANGED <<m_bExit, fdtab, conn, call, stopped>>
     ELSE IF Owner(mysocket) = "other"
     THEN Break("stray") /\ UNCHANGED <<m_bExit, fdtab, conn, call, stopped>>
     ELSE /\ m_bExit' = TRUE /\ stopped' = TRUE
          /\ Close(mysocket)
          /\ call' = "closing" /\ UNCHANGED broken
  /\ UNCHANGED <<mysocket, myclient, fdarray, maxfd, said, read, workVars, lock, head, starts,
                 noteVars>>

\* The numbers stay in fdarray.  The notes on clients start afresh.
StopSlots ==
  /\ call = "closing"
  /\ IF \E s \in Slots : Owner(fdarray[s]) = "other"
     THEN Break("stray") /\ UNCHANGED <<fdtab, conn, call, torn, choked, last>>
     ELSE /\ fdtab' = [f \in Fds |-> IF \E s \in Slots : fdarray[s] = f THEN "free" ELSE fdtab[f]]
          /\ conn' = IF \E s \in Slots : Owner(fdarray[s]) = "listen"
                     THEN [c \in Clients |-> IF conn[c] = "waiting" THEN "left" ELSE conn[c]]
                     ELSE conn
          /\ call' = "none" /\ torn' = {} /\ choked' = {} /\ last' = NoClient
          /\ UNCHANGED broken
  /\ UNCHANGED <<codeVars, said, read, workVars, lock, head, starts, stopped>>

StartFlag ==
  /\ Calls /\ starts < MaxStarts
  /\ m_bExit' = FALSE /\ starts' = starts + 1
  /\ call' = "socket"
  /\ UNCHANGED <<mysocket, myclient, fdarray, maxfd, netVars, workVars, lock, head, stopped,
                 noteVars, broken>>

StartSocket ==
  /\ call = "socket" /\ call' = "bind"
  /\ \E f \in Fds : Lowest(f) /\ mysocket' = f /\ fdtab' = [fdtab EXCEPT ![f] = "bare"]
  /\ fdarray' = [s \in Slots |-> 0] /\ myclient' = 0
  /\ UNCHANGED <<m_bExit, maxfd, conn, said, read, workVars, lock, head, starts, stopped,
                 noteVars, broken>>

\* bind fails while another socket listens on the port; pthread_create may fail.
StartThread ==
  /\ call = "bind" /\ call' = "none"
  /\ IF Owner(mysocket) # "bare" \/ \E f \in Fds : fdtab[f] = "listen"
     THEN UNCHANGED <<fdtab, pc>>
     ELSE /\ fdtab' = [fdtab EXCEPT ![mysocket] = "listen"]
          /\ pc' \in {pc, [pc EXCEPT ![starts] = "test"]}
  /\ UNCHANGED <<codeVars, conn, said, read, slot, ready, job, lock, head, starts, stopped,
                 noteVars, broken>>

Module == \/ Exit \/ SendHead \/ SendBody \/ StopFlag \/ StopSlots \/ StartFlag
          \/ StartSocket \/ StartThread

-----------------------------------------------------------------------------
Init ==
  /\ m_bExit = FALSE /\ mysocket = 0 /\ myclient = -1 /\ maxfd = 0
  /\ fdarray = [s \in Slots |-> 0]
  /\ fdtab = [f \in Fds |-> "free"] /\ conn = [c \in Clients |-> "out"]
  /\ said = [c \in Clients |-> 0] /\ read = [c \in Clients |-> 0]
  /\ pc = [w \in Workers |-> "new"] /\ slot = [w \in Workers |-> 0]
  /\ ready = [w \in Workers |-> {}]
  /\ job = [w \in Workers |-> NoJob]
  /\ lock = Nobody /\ call = "none" /\ head = NoHead
  /\ starts = 0 /\ stopped = FALSE
  /\ last = NoClient /\ torn = {} /\ choked = {} /\ broken = "no"

Runnable(A) == broken = "no" /\ A

Next ==
  \/ \E c \in Clients : Runnable(Connect(c)) \/ Runnable(Say(c)) \/ Runnable(Leave(c))
  \/ Runnable(OtherOpens) \/ Runnable(OtherCloses)
  \/ \E w \in Workers : Runnable(Work(w))
  \/ Runnable(Enter) \/ Runnable(Module)

Spec == Init /\ [][Next]_vars

\* The kernel runs the work threads; scripts return, and whoever asks for the
\* mutex of the Lua state again and again gets it.
FairSpec ==
  /\ Spec
  /\ \A w \in Workers : SF_vars(Runnable(Work(w)))
  /\ SF_vars(Runnable(Exit))
  /\ WF_vars(Runnable(SendBody \/ StopSlots \/ StartSocket \/ StartThread))

-----------------------------------------------------------------------------
(* Properties                                                              *)

Labels == {"new", "test", "select", "accept", "scan", "recv", "dispath", "notify", "noted",
           "callback", "answer", "close", "forget", "ended"}

\* Every variable has its type.
TypeOK ==
  /\ m_bExit \in BOOLEAN /\ stopped \in BOOLEAN
  /\ mysocket \in Fds \cup {0} /\ maxfd \in Fds \cup {0} /\ myclient \in Fds \cup {0, -1}
  /\ fdarray \in [Slots -> Fds \cup {0}]
  /\ fdtab \in [Fds -> Clients \cup {"free", "other", "bare", "listen"}]
  /\ conn \in [Clients -> {"out", "waiting", "open", "left"}]
  /\ said \in [Clients -> Nat] /\ read \in [Clients -> Nat]
  /\ pc \in [Workers -> Labels] /\ slot \in [Workers -> Slots \cup {0}]
  /\ ready \in [Workers -> SUBSET Fds]
  /\ job \in [Workers -> [sock : Fds \cup {0}, upgrade : BOOLEAN]]
  /\ lock \in Workers \cup {Script, Nobody}
  /\ call \in {"none", "body", "closing", "socket", "bind"}
  /\ head \in [to : Clients \cup {"free", "other", "bare", "listen"}, result : Int]
  /\ starts \in 0 .. MaxStarts
  /\ last \in Clients \cup {NoClient}
  /\ torn \subseteq Clients /\ choked \subseteq Clients
  /\ broken \in {"no", "console", "pipe", "stray", "unset", "head"}

\* Started once and not stopped: nothing is promised for the numbers that a stop
\* leaves in fdarray and myclient, nor for a second start.
InService == starts = 1 /\ ~stopped

Forgetting(w) == At(w, "forget") /\ fdarray[slot[w]] # 0

\* In service a number in fdarray is a connection's, each connection's is in one
\* slot, and only the slot being emptied may hold a number somebody else has got.
SlotsAreOurs ==
  InService =>
    /\ \A s \in Slots : fdarray[s] # 0 =>
         Owner(fdarray[s]) \in Clients \/ \E w \in Workers : Forgetting(w) /\ slot[w] = s
    /\ \A f \in Fds : fdtab[f] \in Clients =>
         \E s \in Slots : fdarray[s] = f /\ ~\E w \in Workers : Forgetting(w) /\ slot[w] = s

\* In service what the script sends goes to whoever shook hands last and to no
\* other part of the program, but for the moment between close and Forget, when
\* the number in myclient may already be somebody else's (websock.cpp:221-224).
ClientIsKnown ==
  InService /\ myclient \in Fds =>
    \/ Owner(myclient) = last
    \/ \E w \in Workers : Forgetting(w) /\ fdarray[slot[w]] = myclient

\* The client stays the client while it is connected, unless a send to it was not
\* complete or another connection was closed: that one takes it along.
Remembered ==
  InService /\ last # NoClient /\ Connected(last) /\ last \notin choked \cup torn =>
    \/ Owner(myclient) = last
    \/ \E d \in Clients \ {last} : conn[d] \in {"open", "left"} /\ ~Connected(d)

\* sends() is two calls of send with no lock that the work thread respects, yet a
\* client gets a header without its body, or the reverse, only when its buffer
\* was full, its connection is closed, or another client has connected.
WholeFrames ==
  \A c \in torn : \/ c \in choked
                  \/ ~Connected(c)
                  \/ \E d \in Clients \ {c} : conn[d] \in {"open", "left"}

\* The server ends the program or disturbs another part of it only by a send to a
\* client that has left, by a send between close and Forget, after a stop or a
\* second start, by a call before the first one, or by what anyhttphead and handshake
\* cannot take.  In service that is not a frame of whoever shook hands last, but
\* after a send to it that was not complete or the close of another's connection,
\* when its frames are taken for heads.
BreaksOnlyAtEdges ==
  /\ broken = "pipe" => stopped \/ starts > 1 \/ \E c \in Clients : conn[c] = "left"
  /\ broken = "stray" =>
       \/ stopped \/ starts > 1
       \/ \E w \in Workers : Forgetting(w) /\ fdarray[slot[w]] = myclient
  /\ broken = "console" => starts > 1
  /\ broken = "unset" => starts = 0
  /\ broken = "head" =>
       \E w \in Workers :
         /\ At(w, "dispath") /\ job[w].sock # myclient
         /\ InService /\ Owner(job[w].sock) = last /\ last \notin choked \cup torn
            => \E d \in Clients \ {last} : conn[d] \in {"open", "left"} /\ ~Connected(d)

\* After stop the work threads end, unless start is called before they see it.
StopEnds ==
  m_bExit ~> \/ \A w \in Workers : pc[w] \in {"new", "ended"}
             \/ ~m_bExit \/ broken # "no"

\* Without a free descriptor accept fails and the work thread does nothing else.
NoneFree == \A f \in Fds : fdtab[f] # "free"

Unserved(c) == conn[c] = "waiting" \/ (Pending(c) /\ Connected(c))

\* Whoever connects in service is accepted or turned away, if start could create
\* the thread, and what a connection says is read or the connection is closed, if
\* the program has a descriptor left.  Between the two a client is not Unserved.
Served ==
  \A c \in Clients :
    Unserved(c) ~> \/ ~Unserved(c) \/ ~InService \/ broken # "no"
                   \/ \A w \in Workers : At(w, "new")
                   \/ NoneFree
=============================================================================
