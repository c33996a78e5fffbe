------------------------------ MODULE WebServer ------------------------------
(***************************************************************************)
(* The HTTP server of the quark host (platform/quark/websvr.cpp, Linux     *)
(* branch): class tcps, the thread that accepts and reads and its fdarray  *)
(* of client sockets, and class cwebsvr, which handles requests on the WEB *)
(* task thread and owns the single upload in progress.                     *)
(*                                                                         *)
(* Two threads run the code: "work" (tcps::workthread) and "web" (the      *)
(* message loop taskmgr::WEB, a FIFO of closures).  The main thread runs   *)
(* tcps::stop.  Of the kernel only the ownership of sockets is modelled: a *)
(* table from descriptor to connection, lowest free number first, so that  *)
(* a number closed by one thread is soon handed out again.                 *)
(*                                                                         *)
(* The server reads a connection once, so a client sends one message:      *)
(*   kind : what cwebsvr::request makes of it ("err": the peer resets);    *)
(*   raw  : the bytes the recv loop adds up (-1: recv failed at once);     *)
(*   body : for UPFILE, the bytes of file data in it: data.size() - datpos, *)
(*          below 0 when the message ends inside the headers of its part;  *)
(*   up   : for UPFILE, the upload size its headers announce;              *)
(*   flaw : what its handler does not survive, or "none":                  *)
(*          "bare"  a Lua call without a function's name, or (LUAPOST) one *)
(*                  that ends inside its headers: substr throws,           *)
(*          "long"  a method of 32 characters or more: sscanf writes past  *)
(*                  the array for it,                                      *)
(*          "nil"   a Lua call that returns no string: lua_tostring gives  *)
(*                  NULL, of which no std::string can be made,             *)
(*          "big"   a Lua call whose value does not fit replay's buffer.   *)
(***************************************************************************)
EXTENDS Integers, Sequences

CONSTANTS
  Conns,      \* client connections (the bound on clients)
  NoConn,     \* "no connection": a free descriptor
  Fds,        \* descriptor numbers the process may hold (its limit; an fd_set
              \* ends at 1023)
  MaxClient,  \* MAX_CLIENT, the size of fdarray
  Messages,   \* the messages clients send
  NoMsg,      \* "nothing sent yet"
  MarkLen,    \* the length of a multipart boundary: what markidLen is set to
  Word,       \* 2^32: the sizes of an upload are unsigned int
  MayReset    \* connections whose peer may reset them or send what is Odd
              \* (a bound: any client may)

Kinds == {"lua", "file", "upfile", "noupfile", "eof", "err"}
Flaws == {"none", "bare", "long", "nil", "big"}

ASSUME ConstAssumption ==
  /\ NoConn \notin Conns
  /\ Fds \subseteq Nat \ {0}
  /\ MaxClient \in Nat \ {0}
  /\ NoMsg \notin Messages
  /\ Messages \subseteq [kind : Kinds, raw : Nat \cup {-1}, body : Int, up : Nat,
                         flaw : Flaws]
  /\ \A m \in Messages : /\ m.raw = -1 => m.kind = "err"
                         /\ m.flaw \in {"bare", "nil", "big"} => m.kind = "lua"
                         /\ m.flaw = "long" => m.kind = "file"
  /\ MarkLen \in Nat
  /\ Word \in Nat \ {0}
  /\ MayReset \subseteq Conns

VARIABLES
  conn,     \* conn[c]: "new", "backlog", "open" or "closed"
  sent,     \* sent[c]: the message c has sent
  unread,   \* connections whose message the server has not read
  gone,     \* connections reset by their peer
  backlog,  \* connections waiting for accept()
  fdtab,    \* descriptor -> connection
  slots,    \* fdarray: slot -> descriptor, 0 when empty
  maxfd,    \* the static maxfd of workthread
  ready,    \* the client descriptors in fdRead after select
  cur,      \* nLoopi, the slot the scan of fdarray is at
  pc,       \* where each of the two threads is
  job,      \* the socket each thread works on, and whose message it has
  webq,     \* the WEB thread's queue of request and replay tasks
  up,       \* mytranfile, upfilesize, recvbuflen, markidLen
  closer,   \* tcps::stop: -2 not called, -1 m_bExit set, 0 listener closed,
            \* k: slots 1 .. k looked at
  answers,  \* answers[c]: what c was sent, and for whose message
  leaked,   \* sockets that request() has dropped without closing
  badclose, \* some close() hit a descriptor that was not open
  crashed   \* the process has died

clientVars == <<conn, sent, unread, gone, backlog>>
workVars   == <<slots, maxfd, ready, cur>>
histVars   == <<answers, leaked, badclose>>
vars == <<conn, sent, unread, gone, backlog, fdtab, slots, maxfd, ready, cur, pc,
          job, webq, up, closer, answers, leaked, badclose, crashed>>

Slot      == 1 .. MaxClient
Threads   == {"work", "web"}
Job       == [sock : Fds \cup {0}, from : Conns \cup {NoConn}]
NoJob     == [sock |-> 0, from |-> NoConn]
Task      == [op : {"request", "replay"}, sock : Fds, from : Conns]
NoUpload  == [file |-> "null", size |-> 0, got |-> 0, mark |-> 0]
exiting   == closer # -2
listening == closer < 0

IsLeast(n, S) == n \in S /\ \A m \in S : n <= m
FreeFds       == {f \in Fds : fdtab[f] = NoConn}

At(t, label)   == pc[t] = label
Goto(t, label) == pc' = [pc EXCEPT ![t] = label]

-----------------------------------------------------------------------------
(* The clients.                                                            *)

Connect(c) ==
  /\ conn[c] = "new"
  /\ listening
  /\ conn' = [conn EXCEPT ![c] = "backlog"]
  /\ backlog' = Append(backlog, c)
  /\ UNCHANGED <<sent, unread, gone, fdtab, pc, job, webq, up, closer, crashed>>
  /\ UNCHANGED <<workVars, histVars>>

\* What is no plain request in one piece (the bound MayReset says who sends it).
Odd(m) == m.kind \in {"err", "noupfile"} \/ m.flaw # "none" \/ m.body < m.up

Send(c, m) ==
  /\ conn[c] \in {"backlog", "open"}
  /\ sent[c] = NoMsg
  /\ Odd(m) => c \in MayReset
  /\ sent' = [sent EXCEPT ![c] = m]
  /\ unread' = unread \cup {c}
  /\ UNCHANGED <<conn, gone, backlog, fdtab, pc, job, webq, up, closer, crashed>>
  /\ UNCHANGED <<workVars, histVars>>

\* The peer resets a connection whose message has been read.
Reset(c) ==
  /\ c \in MayReset \ gone
  /\ conn[c] = "open" /\ sent[c] # NoMsg /\ c \notin unread
  /\ gone' = gone \cup {c}
  /\ UNCHANGED <<conn, sent, unread, backlog, fdtab, pc, job, webq, up, closer,
                 crashed>>
  /\ UNCHANGED <<workVars, histVars>>

-----------------------------------------------------------------------------
(* Sockets: close(), and send() followed by close().                       *)

CloseFd(f) ==
  /\ fdtab' = [fdtab EXCEPT ![f] = NoConn]
  /\ badclose' = (badclose \/ fdtab[f] = NoConn)
  /\ conn' = [c \in Conns |-> IF c = fdtab[f] THEN "closed" ELSE conn[c]]

\* Writing to a connection the peer has reset raises SIGPIPE, which nothing in
\* the program handles or ignores: the process may die in send(), or before it
\* when the answer has overrun its buffer.
SendAndClose(f, what, from, overrun) ==
  /\ CloseFd(f)
  /\ answers' = IF fdtab[f] \in Conns \ gone
                THEN [answers EXCEPT ![fdtab[f]] = @ \cup {<<what, from>>}]
                ELSE answers
  /\ crashed' \in (IF fdtab[f] \in gone \/ overrun THEN BOOLEAN ELSE {FALSE})

-----------------------------------------------------------------------------
(* tcps::workthread                                                        *)

RaiseTo(f) == IF maxfd < f THEN f ELSE maxfd
EmptyArray == [i \in Slot |-> 0]

Readable == {f \in Fds : /\ \E i \in Slot : slots[i] = f
                         /\ f <= maxfd
                         /\ fdtab[f] \in unread}

\* Mutant of LoopTest: m_bExit is never looked at again.
LoopForever == TRUE

LoopTest == ~exiting

\* The loop test, the fd_set and select().  A select that finds nothing times
\* out after 100 ms and changes nothing; one that finds the listener readable
\* serves it first and looks at no client.
Select ==
  /\ At("work", "select")
  /\ \/ ~LoopTest /\ Goto("work", "exit") /\ UNCHANGED ready
     \/ LoopTest /\ backlog # <<>> /\ Goto("work", "accept") /\ UNCHANGED ready
     \/ LoopTest /\ backlog = <<>> /\ Readable # {}
        /\ ready' = Readable /\ Goto("work", "scan")
  /\ UNCHANGED <<fdtab, slots, maxfd, cur, job, webq, up, closer, crashed>>
  /\ UNCHANGED <<clientVars, histVars>>

FreeSlots == {i \in Slot : slots[i] = 0}

\* Mutant of TurnAway: the socket that found no slot stays open.
TurnAwayOpen(f, c) == [fdtab EXCEPT ![f] = c]

\* accept() with every slot taken: the new socket is closed unanswered.
TurnAway(f, c) == fdtab

\* accept() and the search for a free slot.  Without a free descriptor, or with
\* the listener closed, accept() returns -1 and takes nothing off the backlog.
Accept ==
  /\ At("work", "accept")
  /\ \/ /\ ~listening \/ FreeFds = {}
        /\ UNCHANGED <<conn, backlog, fdtab, slots, maxfd>>
     \/ /\ listening
        /\ \E f \in Fds :
             LET c == Head(backlog)
             IN  /\ IsLeast(f, FreeFds)
                 /\ backlog' = Tail(backlog)
                 /\ \/ /\ FreeSlots = {}
                       /\ conn' = [conn EXCEPT ![c] = "closed"]
                       /\ fdtab' = TurnAway(f, c)
                       /\ UNCHANGED <<slots, maxfd>>
                    \/ /\ conn' = [conn EXCEPT ![c] = "open"]
                       /\ fdtab' = [fdtab EXCEPT ![f] = c]
                       /\ \E i \in Slot : /\ IsLeast(i, FreeSlots)
                                         /\ slots' = [slots EXCEPT ![i] = f]
                       /\ maxfd' = RaiseTo(f)
  /\ Goto("work", "select")
  /\ UNCHANGED <<sent, unread, gone, ready, cur, job, webq, up, closer, crashed>>
  /\ UNCHANGED histVars

Todo == {i \in Slot : slots[i] \in ready}

\* The scan over fdarray has come to its end.
ScanEnd ==
  /\ At("work", "scan")
  /\ Todo = {}
  /\ Goto("work", "select")
  /\ UNCHANGED <<fdtab, job, webq, up, closer, crashed>>
  /\ UNCHANGED <<clientVars, workVars, histVars>>

\* The next readable slot and the recv loop; recv fails at once when the peer
\* has reset the connection, or when tcps::stop has closed the socket.
Recv ==
  /\ At("work", "scan")
  /\ \E i \in Slot :
       LET f == slots[i]
           c == fdtab[f]
       IN  /\ IsLeast(i, Todo)
           /\ cur' = i
           /\ \/ /\ c \in unread
                 /\ unread' = unread \ {c}
                 /\ job' = [job EXCEPT !["work"] = [sock |-> f, from |-> c]]
                 /\ Goto("work", IF sent[c].raw < 0 THEN "close" ELSE "dispath")
              \/ /\ c \notin unread
                 /\ job' = [job EXCEPT !["work"] = [sock |-> f, from |-> NoConn]]
                 /\ Goto("work", "close")
                 /\ UNCHANGED unread
  /\ UNCHANGED <<conn, sent, gone, backlog, slots, maxfd, ready, fdtab, webq, up,
                 closer, crashed>>
  /\ UNCHANGED histVars

\* cwebsvr::dispath: with an upload in progress the message is taken for more
\* of its data, whoever sent it; otherwise a request task is posted.
Dispath ==
  /\ At("work", "dispath")
  /\ Goto("work", IF up.file # "null" THEN "up_test" ELSE "post")
  /\ UNCHANGED <<fdtab, job, webq, up, closer, crashed>>
  /\ UNCHANGED <<clientVars, workVars, histVars>>

\* Mutant of PostReturn: a caller that takes success for failure.
PostFailed == "close"

\* dispath returns what posttask returned: true while the WEB loop lives.
PostReturn == "clear"

Post ==
  /\ At("work", "post")
  /\ webq' = Append(webq, [op |-> "request", sock |-> job["work"].sock,
                           from |-> job["work"].from])
  /\ Goto("work", PostReturn)
  /\ UNCHANGED <<fdtab, job, up, closer, crashed>>
  /\ UNCHANGED <<clientVars, workVars, histVars>>

\* close() after a failed recv or when dispath returned false.
CloseUnserved ==
  /\ At("work", "close")
  /\ CloseFd(job["work"].sock)
  /\ Goto("work", "clear")
  /\ UNCHANGED <<sent, unread, gone, backlog, job, webq, up, closer, answers,
                 leaked, crashed>>
  /\ UNCHANGED workVars

\* Mutant of Emptied: the slot of a socket that was handed over is kept.
EmptiedIfClosed(i) ==
  IF fdtab[slots[i]] = NoConn THEN [slots EXCEPT ![i] = 0] ELSE slots

Emptied(i) == [slots EXCEPT ![i] = 0]

\* FD_CLR and fdarray[nLoopi] = 0, whatever became of the socket.
ClearSlot ==
  /\ At("work", "clear")
  /\ slots' = Emptied(cur)
  /\ ready' = ready \ {slots[cur]}
  /\ job' = [job EXCEPT !["work"] = NoJob]
  /\ Goto("work", "scan")
  /\ cur' = 0
  /\ UNCHANGED <<maxfd, fdtab, webq, up, closer, crashed>>
  /\ UNCHANGED <<clientVars, histVars>>

-----------------------------------------------------------------------------
(* cwebsvr::uploadfiletrans, run by either thread on the shared up.        *)

\* The bytes there are in buf, and the size the callers pass: an unsigned int.
Piece(t) == LET m == sent[job[t].from] IN IF t = "work" THEN m.raw ELSE m.body
UpLen(t) == Piece(t) % Word

\* Mutant of LastPiece: the comparison the wrong way round.
LastPieceSwapped(t) == up.size >= (up.got + UpLen(t)) % Word

LastPiece(t) == up.size <= (up.got + UpLen(t)) % Word

\* Mutant of UpReturn: workthread, like request(), ignores the result.
UpReturnIgnored(t, result) ==
  /\ Goto(t, IF t = "work" THEN "clear" ELSE "idle")
  /\ leaked' = IF result THEN leaked ELSE leaked \cup {job[t].sock}
  /\ job' = IF t = "work" THEN job ELSE [job EXCEPT ![t] = NoJob]

\* What the caller does with the result: the work thread closes the socket on
\* false; request() ignores it, and on false the socket is nobody's any more.
UpReturn(t, result) ==
  IF t = "work"
  THEN /\ Goto(t, IF result THEN "clear" ELSE "close")
       /\ UNCHANGED <<job, leaked>>
  ELSE /\ Goto(t, "idle")
       /\ job' = [job EXCEPT ![t] = NoJob]
       /\ leaked' = IF result THEN leaked ELSE leaked \cup {job[t].sock}

UpTest(t) ==
  /\ At(t, "up_test")
  /\ IF up.file = "null"
     THEN UpReturn(t, FALSE)
     ELSE Goto(t, IF LastPiece(t) THEN "up_last" ELSE "up_more")
          /\ UNCHANGED <<job, leaked>>
  /\ UNCHANGED <<fdtab, webq, up, closer, answers, badclose, crashed>>
  /\ UNCHANGED <<clientVars, workVars>>

\* recvbuflen += size and fwrite of all of it.  Writing through a FILE that the
\* other thread has closed meanwhile is undefined; a size that has wrapped makes
\* fwrite read far past the buffer.
UpMore(t) ==
  /\ At(t, "up_more")
  /\ up' = [up EXCEPT !.got = (@ + UpLen(t)) % Word]
  /\ crashed' \in (IF up.file = "open" /\ Piece(t) >= 0 THEN {FALSE} ELSE BOOLEAN)
  /\ UpReturn(t, FALSE)
  /\ UNCHANGED <<fdtab, webq, closer, answers, badclose>>
  /\ UNCHANGED <<clientVars, workVars>>

\* fwrite of size - markidLen - 1 bytes and fclose.  The difference is unsigned
\* too: it wraps when the last piece is no longer than the boundary, and is as
\* far past the buffer when the size itself has wrapped.
UpLast(t) ==
  /\ At(t, "up_last")
  /\ up' = [up EXCEPT !.file = "stale"]
  /\ crashed' \in (IF up.file = "open" /\ Piece(t) > up.mark
                   THEN {FALSE} ELSE BOOLEAN)
  /\ Goto(t, "up_reset")
  /\ UNCHANGED <<fdtab, job, webq, closer>>
  /\ UNCHANGED <<clientVars, workVars, histVars>>

UpReset(t) ==
  /\ At(t, "up_reset")
  /\ up' = NoUpload
  /\ Goto(t, "up_reply")
  /\ UNCHANGED <<fdtab, job, webq, closer, crashed>>
  /\ UNCHANGED <<clientVars, workVars, histVars>>

UpReply(t) ==
  /\ At(t, "up_reply")
  /\ SendAndClose(job[t].sock, "uploaded", job[t].from, FALSE)
  /\ UpReturn(t, TRUE)
  /\ UNCHANGED <<sent, unread, gone, backlog, webq, up, closer>>
  /\ UNCHANGED workVars

-----------------------------------------------------------------------------
(* The WEB thread: cwebsvr::request, cmachine::onwebtask, cwebsvr::replay  *)

AfterAnalyse(kind) ==
  CASE kind = "lua"      -> "execute"
    [] kind = "upfile"   -> "up_set"
    [] kind = "noupfile" -> "drop"
    [] OTHER             -> "file"

\* What the analysis of the headers, and the substr calls of the two Lua branches,
\* make of the process: nothing catches std::out_of_range.
AnalyseCrash(flaw) ==
  CASE flaw = "bare" -> {TRUE}
    [] flaw = "long" -> BOOLEAN
    [] OTHER         -> {FALSE}

\* The message loop takes the next task; for a request, the header analysis
\* that decides which branch it takes.
WebTake ==
  /\ At("web", "idle")
  /\ webq # <<>>
  /\ LET t == Head(webq)
     IN  /\ job' = [job EXCEPT !["web"] = [sock |-> t.sock, from |-> t.from]]
         /\ Goto("web", IF t.op = "replay" THEN "reply"
                        ELSE AfterAnalyse(sent[t.from].kind))
         /\ crashed' \in (IF t.op = "replay" THEN {FALSE}
                          ELSE AnalyseCrash(sent[t.from].flaw))
  /\ webq' = Tail(webq)
  /\ UNCHANGED <<fdtab, up, closer>>
  /\ UNCHANGED <<clientVars, workVars, histVars>>

\* onwebtask: execute() has run on this thread; its value is posted as a task.  A
\* call that returns no string ends the process in execute().
WebExecuted ==
  /\ At("web", "execute")
  /\ webq' = Append(webq, [op |-> "replay", sock |-> job["web"].sock,
                           from |-> job["web"].from])
  /\ job' = [job EXCEPT !["web"] = NoJob]
  /\ Goto("web", "idle")
  /\ crashed' = (sent[job["web"].from].flaw = "nil")
  /\ UNCHANGED <<fdtab, up, closer>>
  /\ UNCHANGED <<clientVars, workVars, histVars>>

\* replay(), and the tail of request() that sends a static file or the 404
\* page: both send and close.  The head and the value of a Lua call are printed
\* into one static buffer, with no look at their length.
WebReply ==
  /\ pc["web"] \in {"reply", "file"}
  /\ SendAndClose(job["web"].sock, IF At("web", "reply") THEN "lua" ELSE "file",
                  job["web"].from,
                  At("web", "reply") /\ sent[job["web"].from].flaw = "big")
  /\ job' = [job EXCEPT !["web"] = NoJob]
  /\ Goto("web", "idle")
  /\ UNCHANGED <<sent, unread, gone, backlog, webq, up, closer, leaked>>
  /\ UNCHANGED workVars

\* An UPFILE without a Content-Disposition: request() just returns.
WebDrop ==
  /\ At("web", "drop")
  /\ leaked' = leaked \cup {job["web"].sock}
  /\ job' = [job EXCEPT !["web"] = NoJob]
  /\ Goto("web", "idle")
  /\ UNCHANGED <<fdtab, webq, up, closer, answers, badclose, crashed>>
  /\ UNCHANGED <<clientVars, workVars>>

\* markidLen and upfilesize are set; recvbuflen keeps the value it has.
WebUpSet ==
  /\ At("web", "up_set")
  /\ up' = [up EXCEPT !.mark = MarkLen, !.size = sent[job["web"].from].up]
  /\ Goto("web", "up_open")
  /\ UNCHANGED <<fdtab, job, webq, closer, crashed>>
  /\ UNCHANGED <<clientVars, workVars, histVars>>

\* mytranfile = fopen(): it may fail, and it overwrites a file still open.
WebUpOpen ==
  /\ At("web", "up_open")
  /\ \E file \in {"open", "null"} : up' = [up EXCEPT !.file = file]
  /\ Goto("web", "up_test")
  /\ UNCHANGED <<fdtab, job, webq, closer, crashed>>
  /\ UNCHANGED <<clientVars, workVars, histVars>>

-----------------------------------------------------------------------------
(* tcps::stop, on the main thread                                          *)

StopExit ==
  /\ closer = -2
  /\ closer' = -1
  /\ UNCHANGED <<fdtab, pc, job, webq, up, crashed>>
  /\ UNCHANGED <<clientVars, workVars, histVars>>

StopListen ==
  /\ closer = -1
  /\ closer' = 0
  /\ conn' = [c \in Conns |-> IF conn[c] = "backlog" THEN "closed" ELSE conn[c]]
  /\ backlog' = <<>>
  /\ UNCHANGED <<sent, unread, gone, fdtab, pc, job, webq, up, crashed>>
  /\ UNCHANGED <<workVars, histVars>>

StopSlot ==
  /\ closer \in 0 .. MaxClient - 1
  /\ closer' = closer + 1
  /\ IF slots[closer + 1] # 0
     THEN CloseFd(slots[closer + 1])
     ELSE UNCHANGED <<fdtab, badclose, conn>>
  /\ UNCHANGED <<sent, unread, gone, backlog, pc, job, webq, up, answers, leaked, crashed>>
  /\ UNCHANGED workVars

-----------------------------------------------------------------------------
Init ==
  /\ conn = [c \in Conns |-> "new"]
  /\ sent = [c \in Conns |-> NoMsg]
  /\ unread = {} /\ gone = {} /\ backlog = <<>>
  /\ fdtab = [f \in Fds |-> NoConn]
  /\ slots = EmptyArray /\ maxfd = 0 /\ ready = {} /\ cur = 0
  /\ pc = [t \in Threads |-> IF t = "work" THEN "select" ELSE "idle"]
  /\ job = [t \in Threads |-> NoJob]
  /\ webq = <<>> /\ up = NoUpload /\ closer = -2
  /\ answers = [c \in Conns |-> {}]
  /\ leaked = {} /\ badclose = FALSE /\ crashed = FALSE

Upload(t) == UpTest(t) \/ UpMore(t) \/ UpLast(t) \/ UpReset(t) \/ UpReply(t)

Work == \/ Select \/ Accept \/ ScanEnd \/ Recv \/ Dispath \/ Post
        \/ CloseUnserved \/ ClearSlot \/ Upload("work")

Web == \/ WebTake \/ WebExecuted \/ WebReply \/ WebDrop \/ WebUpSet
       \/ WebUpOpen \/ Upload("web")

Stop == StopExit \/ StopListen \/ StopSlot

Client == \E c \in Conns : \/ Connect(c)
                           \/ \E m \in Messages : Send(c, m)
                           \/ Reset(c)

Next == ~crashed /\ (Client \/ Work \/ Web \/ Stop)

Spec == Init /\ [][Next]_vars

\* The kernel runs both threads; nothing obliges a client or the main thread
\* to do anything.
FairSpec == Spec /\ WF_vars(~crashed /\ Work) /\ WF_vars(~crashed /\ Web)

-----------------------------------------------------------------------------
(* Properties                                                              *)

\* Every variable has its type.
TypeOK ==
  /\ conn \in [Conns -> {"new", "backlog", "open", "closed"}]
  /\ sent \in [Conns -> Messages \cup {NoMsg}]
  /\ unread \subseteq Conns /\ gone \subseteq Conns
  /\ backlog \in Seq(Conns)
  /\ fdtab \in [Fds -> Conns \cup {NoConn}]
  /\ slots \in [Slot -> Fds \cup {0}]
  /\ maxfd \in Fds \cup {0} /\ ready \subseteq Fds /\ cur \in Slot \cup {0}
  /\ pc \in [Threads -> {"select", "accept", "scan", "dispath", "post", "close",
                         "clear", "exit", "idle", "execute", "file", "reply",
                         "drop", "up_set", "up_open", "up_test", "up_more",
                         "up_last", "up_reset", "up_reply"}]
  /\ job \in [Threads -> Job]
  /\ webq \in Seq(Task)
  /\ up \in [file : {"null", "open", "stale"}, size : Nat, got : Nat, mark : Nat]
  /\ closer \in -2 .. MaxClient
  /\ answers \in [Conns -> SUBSET ({"lua", "file", "uploaded"} \X Conns)]
  /\ leaked \subseteq Fds
  /\ badclose \in BOOLEAN /\ crashed \in BOOLEAN

\* Who is responsible for closing a socket: the work thread for those in its
\* slots (but not the one it has just handed over or closed), the WEB queue,
\* the WEB thread for the task it runs, and nobody for the leaked ones.
HeldSlots == {i \in Slot : slots[i] # 0 /\ ~(At("work", "clear") /\ i = cur)}
SlotFds   == {slots[i] : i \in HeldSlots}
QueueFds  == {webq[j].sock : j \in 1 .. Len(webq)}
WebFds    == IF At("web", "idle") THEN {} ELSE {job["web"].sock}

OpenFds   == {f \in Fds : fdtab[f] # NoConn}

Owned ==
  /\ \A i, k \in Slot : slots[i] = slots[k] /\ slots[i] # 0 => i = k
  /\ \A j, k \in 1 .. Len(webq) : webq[j].sock = webq[k].sock => j = k
  /\ SlotFds \cap (QueueFds \cup WebFds \cup leaked) = {}
  /\ QueueFds \cap (WebFds \cup leaked) = {}
  /\ WebFds \cap leaked = {}
  /\ OpenFds = SlotFds \cup QueueFds \cup WebFds \cup leaked

\* Until tcps::stop is called, every open socket has exactly one owner, and no
\* slot, queued task or running request refers to a socket that is closed (and
\* whose number may belong to another client by now).  This is what makes the
\* unlocked hand-over from workthread (websvr.cpp:166-185) to request() and
\* replay() safe although both threads call close() on plain numbers.
OneOwner == ~exiting => Owned

\* Whatever is written to a client answers that client's own message, even
\* though a request travels through two queues as a bare descriptor number
\* (websvr.cpp:352-354, machine.cpp:45) and the numbers are reused.
ReplyToRequester == \A c \in Conns : \A a \in answers[c] : a[2] = c

\* close() is called on a descriptor that is not open only once tcps::stop,
\* which shares fdarray with the work thread without a lock, has begun.
NoBadClose == badclose => exiting

\* A client is never dropped in silence: while no upload has been sent, one whose
\* message was read and was a Lua call or a file request has been answered by
\* the time its connection is closed (workthread clears the slot and forgets
\* the socket, so only request() and replay() can see to it).
NeverSilent ==
  (\A d \in Conns : sent[d] = NoMsg \/ sent[d].kind # "upfile") =>
    \A c \in Conns :
      /\ conn[c] = "closed" /\ sent[c] # NoMsg /\ c \notin unread
      /\ c \notin gone /\ sent[c].kind # "err" /\ ~exiting
      => answers[c] # {}

SentUpload(c) == sent[c] # NoMsg /\ sent[c].kind \in {"upfile", "noupfile"}

\* The only sockets nobody closes are those of UPFILE requests (request()
\* returns without closing at websvr.cpp:425).
OnlyUploadsLeak ==
  \A f \in leaked : fdtab[f] # NoConn => SentUpload(fdtab[f])

\* An UPFILE whose last piece, were it alone, does not hold what is written of it:
\* it ends inside the headers of its part (the size of websvr.cpp:423 wraps), or
\* arrives whole and yet is no longer than its boundary (line 318).
TooShort(m) == /\ m.kind = "upfile"
               /\ m.body < 0 \/ (m.up <= m.body /\ m.body <= MarkLen)

\* Sequential use of the upload never touches a FILE that is closed or NULL, nor
\* writes past the data there is: the process dies only of a reset peer, of an
\* upload that is too short, of a message its handler does not survive (lines
\* 254, 361, 430, 436, 437, business.cpp:120), or when another message is read
\* while an UPFILE is about.
CrashNeedsCompany ==
  crashed => \/ gone # {}
             \/ \E c \in Conns : sent[c] # NoMsg /\ (TooShort(sent[c]) \/ sent[c].flaw # "none")
             \/ \E c, d \in Conns : /\ c # d /\ sent[c] # NoMsg /\ sent[d] # NoMsg
                                    /\ sent[c].kind = "upfile" /\ d \notin unread

\* The sockets that uploads have left open have used the descriptors up, and no
\* descriptor is free ever again: accept() fails (websvr.cpp:139), its branch is
\* taken first in every round (line 163), and nobody is served.
Drained == <>[](FreeFds = {} /\ leaked # {})

\* A client in the backlog is accepted or turned away, and every message that
\* reaches an accepted connection is read and the connection then closed, or was
\* an upload's (the process may stop or die first), unless leaked uploads leave no
\* descriptor to anybody.  It needs the select loop to watch every slot and to get
\* past the accept branch, which is served first, and fewer slots than descriptors.
Served ==
  Drained \/
  \A c \in Conns :
    /\ conn[c] = "backlog" ~> (conn[c] # "backlog" \/ exiting \/ crashed)
    /\ (conn[c] = "open" /\ sent[c] # NoMsg)
         ~> (conn[c] = "closed" \/ SentUpload(c) \/ exiting \/ crashed)

\* Once tcps::stop has set m_bExit the work thread leaves its loop.
StopEnds == exiting ~> (At("work", "exit") \/ crashed)
=============================================================================
