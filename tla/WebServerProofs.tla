--------------------------- MODULE WebServerProofs ---------------------------
(***************************************************************************)
(* Proofs about WebServer, for every number of clients, slots and          *)
(* descriptors and every set of messages: the type invariant; that until   *)
(* tcps::stop every socket has exactly one owner, and so no close() goes   *)
(* astray; that an answer reaches the client that asked; which sockets are *)
(* forgotten; when an upload can kill the process; and that no client is   *)
(* dropped without an answer.                                              *)
(***************************************************************************)
EXTENDS WebServer, SequenceTheorems, TLAPS

UploadLabels == {"up_test", "up_more", "up_last", "up_reset", "up_reply"}
ReadLabels   == {"dispath", "post"} \cup UploadLabels
BusyLabels   == {"close", "clear"} \cup ReadLabels
WorkLabels   == {"select", "accept", "scan", "exit"} \cup BusyLabels
WebLabels    == {"idle", "execute", "file", "reply", "drop", "up_set", "up_open"}
                  \cup UploadLabels

HasSent(c) == c \in Conns /\ sent[c] \in Messages

\* The work thread's slot index and socket while it handles one client, and
\* whose message it holds once it has read one.
WorkJobOK ==
  /\ pc["work"] \in WorkLabels
  /\ pc["work"] \in BusyLabels =>
       cur \in Slot /\ slots[cur] \in Fds /\ job["work"].sock = slots[cur]
  /\ pc["work"] \in ReadLabels =>
       HasSent(job["work"].from) /\ sent[job["work"].from].raw \in Nat

WebJobOK ==
  /\ pc["web"] \in WebLabels
  /\ pc["web"] # "idle" => job["web"].sock \in Fds /\ HasSent(job["web"].from)

QueueOK   == \A j \in 1 .. Len(webq) : HasSent(webq[j].from)
UnreadOK  == \A c \in unread : HasSent(c)
BacklogOK == At("work", "accept") => backlog # <<>> \/ ~listening

JobInv  == WorkJobOK /\ WebJobOK /\ QueueOK /\ UnreadOK /\ BacklogOK
TypeInv == TypeOK /\ JobInv

-----------------------------------------------------------------------------
LEMMA InitTypeInv == Init => TypeInv
<1> SUFFICES ASSUME Init PROVE TypeInv
  OBVIOUS
<1> USE ConstAssumption DEF Init
<1>1. pc = [t \in Threads |-> IF t = "work" THEN "select" ELSE "idle"]
  OBVIOUS
<1>2. pc["work"] = "select" /\ pc["web"] = "idle"
  BY <1>1 DEF Threads
<1>3. job \in [Threads -> Job]
  BY DEF NoJob, Job
<1>4. up \in [file : {"null", "open", "stale"}, size : Nat, got : Nat, mark : Nat]
  BY DEF NoUpload
<1>5. slots \in [Slot -> Fds \cup {0}]
  BY DEF EmptyArray
<1>6. webq \in Seq(Task) /\ Len(webq) = 0 /\ backlog \in Seq(Conns)
  OBVIOUS
<1>7. closer \in -2 .. MaxClient
  OBVIOUS
<1>8. TypeOK
  BY <1>1, <1>3, <1>4, <1>5, <1>6, <1>7 DEF TypeOK
<1> QED
  BY <1>2, <1>6, <1>8
  DEF TypeInv, JobInv, WorkJobOK, WebJobOK, QueueOK, UnreadOK, BacklogOK, WorkLabels,
      WebLabels, BusyLabels, ReadLabels, UploadLabels, At

LEMMA ClientTypeInv == TypeInv /\ Client => TypeInv'
<1> SUFFICES ASSUME TypeInv, Client PROVE TypeInv'
  OBVIOUS
<1> USE ConstAssumption
    DEF TypeInv, JobInv, TypeOK, WorkJobOK, WebJobOK, QueueOK, UnreadOK, BacklogOK,
        HasSent, clientVars, workVars, histVars, At, listening
<1>1. ASSUME NEW c \in Conns, Connect(c) PROVE TypeInv'
  BY <1>1 DEF Connect
<1>2. ASSUME NEW c \in Conns, NEW m \in Messages, Send(c, m) PROVE TypeInv'
  BY <1>2 DEF Send
<1>3. ASSUME NEW c \in Conns, Reset(c) PROVE TypeInv'
  BY <1>3 DEF Reset
<1> QED
  BY <1>1, <1>2, <1>3 DEF Client

\* close() and the sending before it keep the types of what they touch.
LEMMA CloseFdType ==
  ASSUME TypeOK, NEW f \in Fds, CloseFd(f)
  PROVE  /\ fdtab' \in [Fds -> Conns \cup {NoConn}]
         /\ badclose' \in BOOLEAN
         /\ conn' \in [Conns -> {"new", "backlog", "open", "closed"}]
  BY DEF CloseFd, TypeOK

LEMMA SendAndCloseType ==
  ASSUME TypeOK, NEW f \in Fds, NEW c \in Conns,
         NEW what \in {"lua", "file", "uploaded"}, NEW over \in BOOLEAN,
         SendAndClose(f, what, c, over)
  PROVE  /\ fdtab' \in [Fds -> Conns \cup {NoConn}]
         /\ badclose' \in BOOLEAN
         /\ conn' \in [Conns -> {"new", "backlog", "open", "closed"}]
         /\ answers' \in [Conns -> SUBSET ({"lua", "file", "uploaded"} \X Conns)]
         /\ crashed' \in BOOLEAN
<1>1. CloseFd(f)
  BY DEF SendAndClose
<1>2. <<what, c>> \in {"lua", "file", "uploaded"} \X Conns
  OBVIOUS
<1>3. answers' \in [Conns -> SUBSET ({"lua", "file", "uploaded"} \X Conns)]
  BY <1>2 DEF SendAndClose, TypeOK
<1> QED
  BY <1>1, <1>3, CloseFdType DEF SendAndClose

\* A step of one thread that changes only where that thread is keeps the types.
LEMMA GotoType ==
  ASSUME TypeOK, NEW t \in Threads, NEW x \in WorkLabels \cup WebLabels, Goto(t, x)
  PROVE  pc' \in [Threads -> WorkLabels \cup WebLabels]
  BY DEF TypeOK, Goto, WorkLabels, WebLabels, BusyLabels, ReadLabels, UploadLabels

LEMMA PcType ==
  TypeOK <=> TypeOK /\ pc \in [Threads -> WorkLabels \cup WebLabels]
  BY DEF TypeOK, WorkLabels, WebLabels, BusyLabels, ReadLabels, UploadLabels

-----------------------------------------------------------------------------
(* The work thread.                                                        *)

LEMMA SelectType == TypeInv /\ Select => TypeInv'
<1> SUFFICES ASSUME TypeInv, Select PROVE TypeInv'
  OBVIOUS
<1>1. PICK x \in {"exit", "accept", "scan"} :
        /\ pc' = [pc EXCEPT !["work"] = x]
        /\ x = "accept" => backlog # <<>>
  BY DEF Select, Goto
<1>2. ready' \subseteq Fds
  BY DEF Select, Readable, TypeInv, TypeOK
<1>3. UNCHANGED <<fdtab, slots, maxfd, cur, job, webq, up, closer, crashed, conn,
                  sent, unread, gone, backlog, answers, leaked, badclose>>
  BY DEF Select, clientVars, histVars
<1>4. TypeOK'
  BY <1>1, <1>2, <1>3 DEF TypeInv, TypeOK
<1> QED
  BY <1>1, <1>3, <1>4
  DEF TypeInv, JobInv, WorkJobOK, WebJobOK, QueueOK, UnreadOK, BacklogOK, HasSent,
      At, listening, WorkLabels, BusyLabels, ReadLabels, UploadLabels, TypeOK, Threads

LEMMA AcceptType == TypeInv /\ Accept => TypeInv'
<1> SUFFICES ASSUME TypeInv, Accept PROVE TypeInv'
  OBVIOUS
<1>1. /\ pc' = [pc EXCEPT !["work"] = "select"]
      /\ UNCHANGED <<ready, cur, job, webq, up, closer, crashed, sent, unread,
                     gone, answers, leaked, badclose>>
  BY DEF Accept, Goto, histVars
<1> DEFINE Typed == /\ conn' \in [Conns -> {"new", "backlog", "open", "closed"}]
                   /\ fdtab' \in [Fds -> Conns \cup {NoConn}]
                   /\ slots' \in [Slot -> Fds \cup {0}]
                   /\ maxfd' \in Fds \cup {0}
                   /\ backlog' \in Seq(Conns)
<1>2. Typed
  <2>1. CASE UNCHANGED <<conn, backlog, fdtab, slots, maxfd>>
    BY <2>1 DEF TypeInv, TypeOK
  <2>2. ASSUME NEW f \in Fds, listening,
               backlog' = Tail(backlog),
               \/ /\ conn' = [conn EXCEPT ![Head(backlog)] = "closed"]
                  /\ UNCHANGED <<fdtab, slots, maxfd>>
               \/ /\ conn' = [conn EXCEPT ![Head(backlog)] = "open"]
                  /\ fdtab' = [fdtab EXCEPT ![f] = Head(backlog)]
                  /\ \E i \in Slot : slots' = [slots EXCEPT ![i] = f]
                  /\ maxfd' \in {f, maxfd}
        PROVE  Typed
    <3>1. backlog # <<>>
      BY <2>2 DEF Accept, TypeInv, JobInv, BacklogOK
    <3>2. Head(backlog) \in Conns /\ backlog' \in Seq(Conns)
      BY <2>2, <3>1 DEF TypeInv, TypeOK
    <3>3. conn' \in [Conns -> {"new", "backlog", "open", "closed"}]
      BY <2>2, <3>2 DEF TypeInv, TypeOK
    <3>4. fdtab' \in [Fds -> Conns \cup {NoConn}]
      BY <2>2, <3>2 DEF TypeInv, TypeOK
    <3>5. slots' \in [Slot -> Fds \cup {0}]
      BY <2>2 DEF TypeInv, TypeOK
    <3>6. maxfd' \in Fds \cup {0}
      BY <2>2 DEF TypeInv, TypeOK
    <3> QED
      BY <3>2, <3>3, <3>4, <3>5, <3>6
  <2>3. CASE listening /\ ~UNCHANGED <<conn, backlog, fdtab, slots, maxfd>>
    <3>1. PICK f \in Fds :
            /\ backlog' = Tail(backlog)
            /\ \/ /\ conn' = [conn EXCEPT ![Head(backlog)] = "closed"]
                  /\ fdtab' = TurnAway(f, Head(backlog))
                  /\ UNCHANGED <<slots, maxfd>>
               \/ /\ conn' = [conn EXCEPT ![Head(backlog)] = "open"]
                  /\ fdtab' = [fdtab EXCEPT ![f] = Head(backlog)]
                  /\ \E i \in Slot : slots' = [slots EXCEPT ![i] = f]
                  /\ maxfd' = RaiseTo(f)
      BY <2>3 DEF Accept
    <3> QED
      BY <2>2, <2>3, <3>1 DEF RaiseTo, TurnAway
  <2> QED
    BY <2>1, <2>3 DEF Accept
<1>3. TypeOK'
  BY <1>1, <1>2 DEF TypeInv, TypeOK
<1> QED
  BY <1>1, <1>3
  DEF TypeInv, JobInv, WorkJobOK, WebJobOK, QueueOK, UnreadOK, BacklogOK, HasSent,
      At, listening, WorkLabels, BusyLabels, ReadLabels, UploadLabels, TypeOK, Threads

LEMMA RecvType == TypeInv /\ Recv => TypeInv'
<1> SUFFICES ASSUME TypeInv, Recv PROVE TypeInv'
  OBVIOUS
<1>1. PICK i \in Slot :
        /\ i \in Todo /\ cur' = i
        /\ \/ /\ fdtab[slots[i]] \in unread
              /\ unread' = unread \ {fdtab[slots[i]]}
              /\ job' = [job EXCEPT !["work"] =
                           [sock |-> slots[i], from |-> fdtab[slots[i]]]]
              /\ pc' = [pc EXCEPT !["work"] =
                         IF sent[fdtab[slots[i]]].raw < 0 THEN "close" ELSE "dispath"]
           \/ /\ job' = [job EXCEPT !["work"] = [sock |-> slots[i], from |-> NoConn]]
              /\ pc' = [pc EXCEPT !["work"] = "close"]
              /\ UNCHANGED unread
  BY DEF Recv, IsLeast, Goto
<1>2. UNCHANGED <<conn, sent, gone, backlog, slots, maxfd, ready, fdtab, webq, up,
                  closer, crashed, answers, leaked, badclose>>
  BY DEF Recv, histVars
<1>3. slots[i] \in Fds
  BY <1>1 DEF Todo, TypeInv, TypeOK
<1>4. /\ fdtab[slots[i]] \in Conns \cup {NoConn}
      /\ fdtab[slots[i]] \in unread => HasSent(fdtab[slots[i]])
  BY <1>3 DEF TypeInv, TypeOK, JobInv, UnreadOK
<1>5. HasSent(fdtab[slots[i]]) => sent[fdtab[slots[i]]].raw \in Nat \cup {-1}
  BY ConstAssumption DEF HasSent
<1>6. job' \in [Threads -> Job] /\ unread' \subseteq unread
  BY <1>1, <1>3, <1>4 DEF Job, TypeInv, TypeOK
<1>7. pc' \in [Threads -> WorkLabels \cup WebLabels]
  BY <1>1, PcType
  DEF TypeInv, WorkLabels, BusyLabels, ReadLabels
<1>8. TypeOK'
  BY <1>1, <1>2, <1>6, <1>7
  DEF TypeInv, TypeOK, WorkLabels, WebLabels, BusyLabels, ReadLabels, UploadLabels
<1>9. WorkJobOK'
  BY <1>1, <1>2, <1>3, <1>4, <1>5
  DEF TypeInv, TypeOK, WorkJobOK, HasSent, WorkLabels, BusyLabels, ReadLabels,
      UploadLabels, Threads
<1>10. WebJobOK'
  BY <1>1, <1>2 DEF TypeInv, TypeOK, JobInv, WebJobOK, HasSent, Threads
<1>11. QueueOK' /\ UnreadOK' /\ BacklogOK'
  BY <1>1, <1>2, <1>6
  DEF TypeInv, TypeOK, JobInv, QueueOK, UnreadOK, BacklogOK, HasSent, At, listening,
      Threads
<1> QED
  BY <1>8, <1>9, <1>10, <1>11 DEF TypeInv, JobInv

LEMMA WorkRestType ==
  TypeInv /\ (ScanEnd \/ Dispath \/ Post \/ CloseUnserved \/ ClearSlot) => TypeInv'
<1> SUFFICES ASSUME TypeInv, ScanEnd \/ Dispath \/ Post \/ CloseUnserved \/ ClearSlot
             PROVE  TypeInv'
  OBVIOUS
<1> USE ConstAssumption
    DEF TypeInv, JobInv, TypeOK, WorkJobOK, WebJobOK, QueueOK, UnreadOK, BacklogOK,
        HasSent, clientVars, workVars, histVars, At, Goto, listening, WorkLabels,
        WebLabels, BusyLabels, ReadLabels, UploadLabels, Threads
<1>1. CASE ScanEnd
  BY <1>1 DEF ScanEnd
<1>2. CASE Dispath
  BY <1>2 DEF Dispath
<1>3. CASE Post
  BY <1>3 DEF Post, PostReturn, Task
<1>4. CASE CloseUnserved
  BY <1>4, CloseFdType DEF CloseUnserved
<1>5. CASE ClearSlot
  BY <1>5 DEF ClearSlot, Emptied, NoJob, Job
<1> QED
  BY <1>1, <1>2, <1>3, <1>4, <1>5

-----------------------------------------------------------------------------
(* uploadfiletrans.                                                        *)

\* Returning from uploadfiletrans leaves both threads in order.
LEMMA UpReturnType ==
  ASSUME TypeInv, NEW t \in Threads, NEW result \in BOOLEAN,
         pc[t] \in UploadLabels, UpReturn(t, result),
         UNCHANGED <<slots, cur, sent, webq, unread, backlog, closer>>
  PROVE  /\ job' \in [Threads -> Job] /\ leaked' \subseteq Fds
         /\ pc' \in [Threads -> WorkLabels \cup WebLabels]
         /\ JobInv'
<1> USE DEF TypeInv, TypeOK, JobInv, WorkJobOK, WebJobOK, HasSent, At, Goto,
            WorkLabels, WebLabels, BusyLabels, ReadLabels, UploadLabels, Threads,
            NoJob, Job, QueueOK, UnreadOK, BacklogOK, listening
<1>1. CASE t = "work"
  BY <1>1 DEF UpReturn
<1>2. CASE t = "web"
  <2>1. /\ job' = [job EXCEPT !["web"] = [sock |-> 0, from |-> NoConn]]
        /\ pc' = [pc EXCEPT !["web"] = "idle"]
    BY <1>2 DEF UpReturn
  <2>2. leaked' \subseteq Fds
    BY <1>2 DEF UpReturn
  <2> QED
    BY <1>2, <2>1, <2>2
<1> QED
  BY <1>1, <1>2

LEMMA UpTestType ==
  ASSUME NEW t \in Threads PROVE TypeInv /\ UpTest(t) => TypeInv'
<1> SUFFICES ASSUME TypeInv, UpTest(t) PROVE TypeInv'
  OBVIOUS
<1>1. /\ UNCHANGED <<fdtab, webq, up, closer, answers, badclose, crashed, conn,
                     sent, unread, gone, backlog, slots, maxfd, ready, cur>>
      /\ pc[t] = "up_test"
  BY DEF UpTest, clientVars, workVars, At
<1>2. CASE up.file = "null"
  <2>1. UpReturn(t, FALSE)
    BY <1>2 DEF UpTest
  <2>2. /\ job' \in [Threads -> Job] /\ leaked' \subseteq Fds
        /\ pc' \in [Threads -> WorkLabels \cup WebLabels]
        /\ JobInv'
    BY <1>1, <2>1, UpReturnType DEF UploadLabels
  <2> QED
    BY <1>1, <2>2
    DEF TypeInv, TypeOK, WorkLabels, WebLabels, BusyLabels, ReadLabels, UploadLabels
<1>3. CASE up.file # "null"
  <2>1. PICK x \in {"up_last", "up_more"} : pc' = [pc EXCEPT ![t] = x]
    BY <1>3 DEF UpTest, Goto
  <2>2. UNCHANGED <<job, leaked>>
    BY <1>3 DEF UpTest
  <2>3. TypeOK'
    BY <1>1, <2>1, <2>2 DEF TypeInv, TypeOK
  <2>4. JobInv'
    BY <1>1, <2>1, <2>2
    DEF TypeInv, TypeOK, JobInv, WorkJobOK, WebJobOK, HasSent, At, WorkLabels,
        WebLabels, BusyLabels, ReadLabels, UploadLabels, Threads, QueueOK, UnreadOK,
        BacklogOK, listening
  <2> QED
    BY <2>3, <2>4 DEF TypeInv
<1> QED
  BY <1>2, <1>3

\* A remainder is a natural number, and of a natural number no larger than it.
LEMMA ModFacts ==
  ASSUME NEW n \in Int, NEW M \in Nat \ {0}
  PROVE  n % M \in Nat /\ (n >= 0 => n % M <= n)
<1>1. n % M \in 0 .. M - 1 /\ n \div M \in Int /\ n = M * (n \div M) + (n % M)
  OBVIOUS
<1>2. CASE n \div M >= 0
  <2>1. M * (n \div M) >= 0
    BY <1>1, <1>2
  <2> QED
    BY <1>1, <2>1
<1>3. CASE n \div M < 0
  <2>1. M * (n \div M) <= -M
    BY <1>1, <1>3
  <2> QED
    BY <1>1, <2>1
<1> QED
  BY <1>1, <1>2, <1>3

LEMMA UpLenType ==
  ASSUME TypeInv, NEW t \in Threads, pc[t] \in UploadLabels
  PROVE  UpLen(t) \in Nat
<1>1. Piece(t) \in Int
  BY ConstAssumption
  DEF Piece, TypeInv, JobInv, WorkJobOK, WebJobOK, HasSent, ReadLabels, BusyLabels,
      UploadLabels, Threads
<1> QED
  BY <1>1, ModFacts, ConstAssumption DEF UpLen

LEMMA UpMoreType ==
  ASSUME NEW t \in Threads PROVE TypeInv /\ UpMore(t) => TypeInv'
<1> SUFFICES ASSUME TypeInv, UpMore(t) PROVE TypeInv'
  OBVIOUS
<1>1. /\ UNCHANGED <<fdtab, webq, closer, answers, badclose, conn,
                     sent, unread, gone, backlog, slots, maxfd, ready, cur>>
      /\ crashed' \in BOOLEAN
      /\ pc[t] \in UploadLabels /\ UpReturn(t, FALSE)
  BY DEF UpMore, At, UploadLabels, clientVars, workVars
<1>2. up' \in [file : {"null", "open", "stale"}, size : Nat, got : Nat, mark : Nat]
  <2>1. up \in [file : {"null", "open", "stale"}, size : Nat, got : Nat, mark : Nat]
    BY DEF TypeInv, TypeOK
  <2>2. UpLen(t) \in Nat
    BY <1>1, UpLenType
  <2>3. up' = [up EXCEPT !.got = (up.got + UpLen(t)) % Word]
    BY DEF UpMore
  <2>4. (up.got + UpLen(t)) % Word \in Nat
    BY <2>1, <2>2, ModFacts, ConstAssumption
  <2> QED
    BY <2>1, <2>3, <2>4
<1>3. /\ job' \in [Threads -> Job] /\ leaked' \subseteq Fds
      /\ pc' \in [Threads -> WorkLabels \cup WebLabels]
      /\ JobInv'
  BY <1>1, UpReturnType
<1> QED
  BY <1>1, <1>2, <1>3
  DEF TypeInv, TypeOK, WorkLabels, WebLabels, BusyLabels, ReadLabels, UploadLabels

LEMMA UpLastResetType ==
  ASSUME NEW t \in Threads PROVE TypeInv /\ (UpLast(t) \/ UpReset(t)) => TypeInv'
<1> SUFFICES ASSUME TypeInv, UpLast(t) \/ UpReset(t) PROVE TypeInv'
  OBVIOUS
<1>1. PICK x \in {"up_reset", "up_reply"} :
        pc' = [pc EXCEPT ![t] = x] /\ pc[t] \in UploadLabels
  BY DEF UpLast, UpReset, Goto, At, UploadLabels
<1>2. /\ UNCHANGED <<fdtab, job, webq, closer, answers, leaked, badclose, conn, sent,
                     unread, gone, backlog, slots, maxfd, ready, cur>>
      /\ crashed' \in BOOLEAN
  BY DEF UpLast, UpReset, clientVars, workVars, histVars, TypeInv, TypeOK
<1>3. up' \in [file : {"null", "open", "stale"}, size : Nat, got : Nat, mark : Nat]
  <2>1. up \in [file : {"null", "open", "stale"}, size : Nat, got : Nat, mark : Nat]
    BY DEF TypeInv, TypeOK
  <2>2. up' = [up EXCEPT !.file = "stale"] \/ up' = NoUpload
    BY DEF UpLast, UpReset
  <2> QED
    BY <2>1, <2>2 DEF NoUpload
<1>4. TypeOK'
  BY <1>1, <1>2, <1>3 DEF TypeInv, TypeOK
<1>5. JobInv'
  BY <1>1, <1>2
  DEF TypeInv, TypeOK, JobInv, WorkJobOK, WebJobOK, HasSent, At, WorkLabels,
      WebLabels, BusyLabels, ReadLabels, UploadLabels, Threads, QueueOK, UnreadOK,
      BacklogOK, listening
<1> QED
  BY <1>4, <1>5 DEF TypeInv

LEMMA UpReplyType ==
  ASSUME NEW t \in Threads PROVE TypeInv /\ UpReply(t) => TypeInv'
<1> SUFFICES ASSUME TypeInv, UpReply(t) PROVE TypeInv'
  OBVIOUS
<1>1. /\ UNCHANGED <<webq, up, closer, sent, unread, gone, backlog, slots, maxfd,
                     ready, cur>>
      /\ pc[t] \in UploadLabels /\ UpReturn(t, TRUE)
      /\ SendAndClose(job[t].sock, "uploaded", job[t].from, FALSE)
  BY DEF UpReply, At, UploadLabels, workVars
<1>2. job[t].sock \in Fds /\ job[t].from \in Conns
  BY <1>1 DEF TypeInv, JobInv, WorkJobOK, WebJobOK, HasSent, BusyLabels, ReadLabels,
              UploadLabels, Threads
<1>3. /\ fdtab' \in [Fds -> Conns \cup {NoConn}]
      /\ badclose' \in BOOLEAN
      /\ conn' \in [Conns -> {"new", "backlog", "open", "closed"}]
      /\ answers' \in [Conns -> SUBSET ({"lua", "file", "uploaded"} \X Conns)]
      /\ crashed' \in BOOLEAN
  BY <1>1, <1>2, SendAndCloseType DEF TypeInv
<1>4. /\ job' \in [Threads -> Job] /\ leaked' \subseteq Fds
      /\ pc' \in [Threads -> WorkLabels \cup WebLabels]
      /\ JobInv'
  BY <1>1, UpReturnType
<1> QED
  BY <1>1, <1>3, <1>4
  DEF TypeInv, TypeOK, WorkLabels, WebLabels, BusyLabels, ReadLabels, UploadLabels

LEMMA UploadTypeInv ==
  ASSUME NEW t \in Threads PROVE TypeInv /\ Upload(t) => TypeInv'
  BY UpTestType, UpMoreType, UpLastResetType, UpReplyType DEF Upload

-----------------------------------------------------------------------------
(* The WEB thread and tcps::stop.                                          *)

LEMMA WebTakeType == TypeInv /\ WebTake => TypeInv'
<1> SUFFICES ASSUME TypeInv, WebTake PROVE TypeInv'
  OBVIOUS
<1>1. /\ Head(webq) \in Task /\ webq' = Tail(webq) /\ webq' \in Seq(Task)
      /\ Len(webq') = Len(webq) - 1
      /\ \A j \in 1 .. Len(webq') : webq'[j] = webq[j + 1]
      /\ Head(webq) = webq[1] /\ Len(webq) \in Nat \ {0}
  BY DEF WebTake, TypeInv, TypeOK
<1>2. HasSent(Head(webq).from)
  BY <1>1 DEF TypeInv, JobInv, QueueOK
<1>3. PICK x \in {"reply", "execute", "up_set", "drop", "file"} :
        pc' = [pc EXCEPT !["web"] = x]
  BY DEF WebTake, AfterAnalyse, Goto
<1>4. /\ job' = [job EXCEPT !["web"] = [sock |-> Head(webq).sock,
                                        from |-> Head(webq).from]]
      /\ UNCHANGED <<fdtab, up, closer, conn, sent, unread, gone, backlog,
                     slots, maxfd, ready, cur, answers, leaked, badclose>>
      /\ crashed' \in BOOLEAN
  BY DEF WebTake, AnalyseCrash, clientVars, workVars, histVars
<1>5. job' \in [Threads -> Job]
  BY <1>1, <1>4 DEF Task, Job, TypeInv, TypeOK
<1>6. QueueOK'
  BY <1>1, <1>4 DEF TypeInv, JobInv, QueueOK, HasSent
<1>7. TypeOK'
  BY <1>1, <1>3, <1>4, <1>5 DEF TypeInv, TypeOK
<1>8. WorkJobOK' /\ UnreadOK' /\ BacklogOK'
  BY <1>3, <1>4
  DEF TypeInv, TypeOK, JobInv, WorkJobOK, UnreadOK, BacklogOK, HasSent, At, listening,
      Threads
<1>9. WebJobOK'
  BY <1>1, <1>2, <1>3, <1>4
  DEF TypeInv, TypeOK, WebJobOK, HasSent, Task, Threads, WebLabels
<1> QED
  BY <1>6, <1>7, <1>8, <1>9 DEF TypeInv, JobInv

LEMMA WebDropType == TypeInv /\ WebDrop => TypeInv'
<1> SUFFICES ASSUME TypeInv, WebDrop PROVE TypeInv'
  OBVIOUS
<1>1. leaked' \subseteq Fds
  BY DEF WebDrop, At, TypeInv, TypeOK, JobInv, WebJobOK
<1>2. /\ pc' = [pc EXCEPT !["web"] = "idle"]
      /\ job' = [job EXCEPT !["web"] = [sock |-> 0, from |-> NoConn]]
      /\ UNCHANGED <<fdtab, webq, up, closer, answers, badclose, crashed, conn, sent,
                     unread, gone, backlog, slots, maxfd, ready, cur>>
  BY DEF WebDrop, Goto, NoJob, clientVars, workVars
<1>3. TypeOK'
  BY <1>1, <1>2 DEF TypeInv, TypeOK, Job
<1> QED
  BY <1>2, <1>3
  DEF TypeInv, JobInv, WorkJobOK, WebJobOK, QueueOK, UnreadOK, BacklogOK, HasSent, At,
      listening, Threads, WebLabels, TypeOK

LEMMA WebReplySends ==
  ASSUME TypeInv, WebReply
  PROVE  /\ fdtab' \in [Fds -> Conns \cup {NoConn}]
         /\ badclose' \in BOOLEAN
         /\ conn' \in [Conns -> {"new", "backlog", "open", "closed"}]
         /\ answers' \in [Conns -> SUBSET ({"lua", "file", "uploaded"} \X Conns)]
         /\ crashed' \in BOOLEAN
<1> DEFINE what == IF At("web", "reply") THEN "lua" ELSE "file"
           over == At("web", "reply") /\ sent[job["web"].from].flaw = "big"
           sock == job["web"].sock
           from == job["web"].from
<1>1. what \in {"lua", "file", "uploaded"}
  OBVIOUS
<1>2. over \in BOOLEAN
  BY DEF At
<1>3. sock \in Fds /\ from \in Conns /\ TypeOK
  BY DEF WebReply, TypeInv, JobInv, WebJobOK, HasSent, At
<1>4. SendAndClose(sock, what, from, over)
  BY DEF WebReply
<1> HIDE DEF what, over, sock, from
<1> QED
  BY <1>1, <1>2, <1>3, <1>4, SendAndCloseType

LEMMA WebRestType ==
  TypeInv /\ (WebExecuted \/ WebReply \/ WebUpSet \/ WebUpOpen) => TypeInv'
<1> SUFFICES ASSUME TypeInv, WebExecuted \/ WebReply \/ WebUpSet \/ WebUpOpen
             PROVE  TypeInv'
  OBVIOUS
<1> USE ConstAssumption
    DEF TypeInv, JobInv, TypeOK, WorkJobOK, WebJobOK, QueueOK, UnreadOK, BacklogOK,
        HasSent, clientVars, workVars, histVars, At, Goto, listening, WorkLabels,
        WebLabels, BusyLabels, ReadLabels, UploadLabels, Threads, NoJob, Job
<1>1. CASE WebExecuted
  <2>1. crashed' \in BOOLEAN
    BY <1>1 DEF WebExecuted
  <2> QED
    BY <1>1, <2>1 DEF WebExecuted, Task
<1>2. CASE WebReply
  <2>1. /\ fdtab' \in [Fds -> Conns \cup {NoConn}]
        /\ badclose' \in BOOLEAN
        /\ conn' \in [Conns -> {"new", "backlog", "open", "closed"}]
        /\ answers' \in [Conns -> SUBSET ({"lua", "file", "uploaded"} \X Conns)]
        /\ crashed' \in BOOLEAN
    BY <1>2, WebReplySends
  <2> QED
    BY <1>2, <2>1 DEF WebReply
<1>3. CASE WebUpSet
  BY <1>3, ConstAssumption DEF WebUpSet
<1>4. CASE WebUpOpen
  <2>1. PICK file \in {"open", "null"} : up' = [up EXCEPT !.file = file]
    BY <1>4 DEF WebUpOpen
  <2>2. up' \in [file : {"null", "open", "stale"}, size : Nat, got : Nat, mark : Nat]
    BY <2>1
  <2> QED
    BY <1>4, <2>2 DEF WebUpOpen
<1> QED
  BY <1>1, <1>2, <1>3, <1>4

LEMMA StopTypeInv == TypeInv /\ Stop => TypeInv'
<1> SUFFICES ASSUME TypeInv, Stop PROVE TypeInv'
  OBVIOUS
<1>1. UNCHANGED <<sent, unread, gone, pc, job, webq, up, answers, leaked, crashed,
                  slots, maxfd, ready, cur>>
  BY DEF Stop, StopExit, StopListen, StopSlot, clientVars, workVars, histVars
<1>2. closer' \in -2 .. MaxClient /\ backlog' \in Seq(Conns)
  <2>1. closer \in -2 .. MaxClient /\ backlog \in Seq(Conns) /\ MaxClient \in Nat \ {0}
    BY ConstAssumption DEF TypeInv, TypeOK
  <2>2. CASE StopExit
    BY <2>1, <2>2 DEF StopExit, clientVars
  <2>3. CASE StopListen
    BY <2>1, <2>3 DEF StopListen
  <2>4. CASE StopSlot
    BY <2>1, <2>4 DEF StopSlot
  <2> QED
    BY <2>2, <2>3, <2>4 DEF Stop
<1>3. backlog' = backlog \/ ~listening'
  BY DEF Stop, StopExit, StopListen, StopSlot, clientVars, listening
<1>4. ~listening => ~listening'
  BY DEF Stop, StopExit, StopListen, StopSlot, listening, TypeInv, TypeOK
<1>5. /\ fdtab' \in [Fds -> Conns \cup {NoConn}]
      /\ badclose' \in BOOLEAN
      /\ conn' \in [Conns -> {"new", "backlog", "open", "closed"}]
  <2>1. CASE StopSlot /\ slots[closer + 1] # 0
    <3>1. slots[closer + 1] \in Fds
      <4>1. closer + 1 \in 1 .. MaxClient
        BY <2>1, ConstAssumption DEF StopSlot
      <4> QED
        BY <2>1, <4>1 DEF TypeInv, TypeOK, Slot
    <3>2. CloseFd(slots[closer + 1])
      BY <2>1 DEF StopSlot
    <3> QED
      BY <3>1, <3>2, CloseFdType DEF TypeInv
  <2>2. CASE StopSlot /\ slots[closer + 1] = 0
    BY <2>2 DEF StopSlot, TypeInv, TypeOK
  <2>3. CASE StopExit \/ StopListen
    BY <2>3 DEF StopExit, StopListen, clientVars, histVars, TypeInv, TypeOK
  <2> QED
    BY <2>1, <2>2, <2>3 DEF Stop
<1>6. TypeOK'
  BY <1>1, <1>2, <1>5 DEF TypeInv, TypeOK
<1>7. BacklogOK'
  BY <1>1, <1>3, <1>4 DEF TypeInv, JobInv, BacklogOK, At
<1> QED
  BY <1>1, <1>6, <1>7
  DEF TypeInv, JobInv, WorkJobOK, WebJobOK, QueueOK, UnreadOK, HasSent

LEMMA NextTypeInv == TypeInv /\ [Next]_vars => TypeInv'
<1>1. TypeInv /\ UNCHANGED vars => TypeInv'
  BY DEF vars, TypeInv, JobInv, TypeOK, WorkJobOK, WebJobOK, QueueOK, UnreadOK,
         BacklogOK, HasSent, At, listening
<1> QED
  BY <1>1, ClientTypeInv, SelectType, AcceptType, RecvType, WorkRestType,
     UploadTypeInv, WebTakeType, WebDropType, WebRestType, StopTypeInv
  DEF Next, Work, Web, Threads

\* In every reachable state the variables have their types, and a thread that
\* works for a client has a slot, a descriptor and a message.
THEOREM TypeCorrect == Spec => []TypeOK
<1>1. TypeInv => TypeOK
  BY DEF TypeInv
<1> QED
  BY InitTypeInv, NextTypeInv, <1>1, PTL DEF Spec

-----------------------------------------------------------------------------
(* One owner for every socket.  The four sets of descriptors that Owned    *)
(* names hold the same sockets as long as the server listens: setting      *)
(* m_bExit disturbs none of them, and only then does tcps::stop close      *)
(* sockets that are not its own.                                           *)

OwnInv == listening => Owned

LEMMA InitOwned == Init => OwnInv
<1> SUFFICES ASSUME Init PROVE Owned
  BY DEF OwnInv
<1>1. HeldSlots = {} /\ webq = <<>> /\ WebFds = {} /\ leaked = {} /\ OpenFds = {}
  BY DEF Init, HeldSlots, WebFds, OpenFds, EmptyArray, At, Threads
<1>2. SlotFds = {} /\ QueueFds = {}
  BY <1>1 DEF SlotFds, QueueFds
<1> QED
  BY <1>1, <1>2 DEF Owned, Init, EmptyArray

\* A step that moves no descriptor.
LEMMA OwnedFrame ==
  ASSUME OwnInv, ~listening => ~listening',
         listening' => UNCHANGED <<slots, webq, leaked, fdtab, HeldSlots, WebFds>>
  PROVE  OwnInv'
  BY DEF OwnInv, Owned, SlotFds, QueueFds, OpenFds

\* The work thread's socket is one of its held slots.
LEMMA CurrentHeld ==
  ASSUME TypeInv, pc["work"] \in BusyLabels \ {"clear"}
  PROVE  /\ cur \in HeldSlots /\ job["work"].sock = slots[cur]
         /\ slots[cur] \in Fds /\ slots[cur] \in SlotFds
<1>1. cur \in Slot /\ slots[cur] \in Fds /\ job["work"].sock = slots[cur]
  BY DEF TypeInv, JobInv, WorkJobOK
<1>2. slots[cur] # 0
  BY <1>1, ConstAssumption
<1> QED
  BY <1>1, <1>2 DEF HeldSlots, SlotFds, At

\* Once the work thread is done with its socket, its slots hold one less.
LEMMA HandOver ==
  ASSUME TypeInv, Owned, pc["work"] \in BusyLabels \ {"clear"},
         pc' = [pc EXCEPT !["work"] = "clear"], UNCHANGED <<slots, cur>>
  PROVE  SlotFds' = SlotFds \ {slots[cur]}
<1>1. HeldSlots' = HeldSlots \ {cur}
  BY DEF HeldSlots, At, TypeInv, TypeOK, Threads
<1>2. cur \in HeldSlots
  BY CurrentHeld
<1>3. \A i \in HeldSlots : slots[i] = slots[cur] => i = cur
  BY <1>2 DEF Owned, HeldSlots
<1> QED
  BY <1>1, <1>2, <1>3 DEF SlotFds

LEMMA CloseFdOpen ==
  ASSUME TypeOK, NEW f \in Fds, CloseFd(f)
  PROVE  OpenFds' = OpenFds \ {f}
  BY ConstAssumption DEF CloseFd, OpenFds, TypeOK

LEMMA AcceptOwned == TypeInv /\ OwnInv /\ Accept => OwnInv'
<1> SUFFICES ASSUME TypeInv, OwnInv, Accept, listening PROVE Owned'
  BY DEF OwnInv, Accept, listening
<1>1. /\ pc["work"] = "accept" /\ pc' = [pc EXCEPT !["work"] = "select"]
      /\ UNCHANGED <<cur, job, webq, leaked>>
  BY DEF Accept, At, Goto, histVars
<1>2. UNCHANGED <<WebFds, QueueFds>>
  BY <1>1 DEF WebFds, QueueFds, At, TypeInv, TypeOK, Threads
<1>3. Owned
  BY DEF OwnInv
<1>4. HeldSlots = {i \in Slot : slots[i] # 0}
  BY <1>1 DEF HeldSlots, At
<1>5. HeldSlots' = {i \in Slot : slots'[i] # 0}
  BY <1>1 DEF HeldSlots, At, TypeInv, TypeOK, Threads
<1>6. CASE UNCHANGED <<fdtab, slots>>
  BY <1>1, <1>2, <1>3, <1>4, <1>5, <1>6 DEF Owned, SlotFds, OpenFds, QueueFds
<1>7. ASSUME NEW f \in Fds, NEW i \in Slot, fdtab[f] = NoConn, slots[i] = 0,
             fdtab' = [fdtab EXCEPT ![f] = Head(backlog)],
             slots' = [slots EXCEPT ![i] = f], Head(backlog) \in Conns
      PROVE  Owned'
  <2>1. f # 0 /\ slots \in [Slot -> Fds \cup {0}]
    BY ConstAssumption DEF TypeInv, TypeOK
  <2>2. f \notin SlotFds \cup QueueFds \cup WebFds \cup leaked
    BY <1>3, <1>7 DEF Owned, OpenFds
  <2>3. \A k \in Slot : slots[k] # f
    BY <1>4, <2>1, <2>2 DEF SlotFds
  <2>4. SlotFds' = SlotFds \cup {f}
    BY <1>4, <1>5, <1>7, <2>1 DEF SlotFds
  <2>5. OpenFds' = OpenFds \cup {f}
    BY <1>7, ConstAssumption DEF OpenFds, TypeInv, TypeOK
  <2>6. \A j, k \in Slot : slots'[j] = slots'[k] /\ slots'[j] # 0 => j = k
    BY <1>3, <1>7, <2>1, <2>3 DEF Owned
  <2> QED
    BY <1>1, <1>2, <1>3, <2>2, <2>4, <2>5, <2>6 DEF Owned
<1>8. listening => Head(backlog) \in Conns
  BY <1>1 DEF TypeInv, TypeOK, JobInv, BacklogOK, At
<1> QED
  BY <1>6, <1>7, <1>8 DEF Accept, IsLeast, FreeFds, FreeSlots, TurnAway

LEMMA PostOwned == TypeInv /\ OwnInv /\ Post => OwnInv'
<1> SUFFICES ASSUME TypeInv, OwnInv, Post, listening PROVE Owned'
  BY DEF OwnInv, Post, listening
<1> DEFINE f == slots[cur]
           task == [op |-> "request", sock |-> job["work"].sock,
                    from |-> job["work"].from]
<1>1. /\ pc["work"] = "post" /\ pc' = [pc EXCEPT !["work"] = "clear"]
      /\ UNCHANGED <<cur, slots, job, leaked, fdtab>>
      /\ webq' = Append(webq, task)
  BY DEF Post, PostReturn, At, Goto, histVars, workVars
<1>2. Owned
  BY DEF OwnInv
<1>3. SlotFds' = SlotFds \ {f}
  BY <1>1, <1>2, HandOver DEF BusyLabels, ReadLabels
<1>4. f \in Fds /\ f \in SlotFds /\ task.sock = f
  BY <1>1, CurrentHeld DEF BusyLabels, ReadLabels
<1>5. /\ webq \in Seq(Task) /\ Len(webq') = Len(webq) + 1
      /\ \A j \in 1 .. Len(webq) : webq'[j] = webq[j]
      /\ webq'[Len(webq) + 1] = task
  BY <1>1 DEF TypeInv, TypeOK
<1>6. Len(webq) \in Nat
  BY <1>5
<1>7. QueueFds' = QueueFds \cup {f}
  BY <1>4, <1>5, <1>6 DEF QueueFds
<1>8. WebFds' = WebFds /\ OpenFds' = OpenFds
  BY <1>1 DEF WebFds, OpenFds, At, TypeInv, TypeOK, Threads
<1>9. \A j, k \in 1 .. Len(webq') : webq'[j].sock = webq'[k].sock => j = k
  <2>1. \A j \in 1 .. Len(webq) : webq[j].sock # f
    BY <1>2, <1>4 DEF Owned, QueueFds
  <2> QED
    BY <1>2, <1>4, <1>5, <1>6, <2>1 DEF Owned
<1> QED
  BY <1>1, <1>2, <1>3, <1>4, <1>7, <1>8, <1>9 DEF Owned

LEMMA CloseUnservedOwned == TypeInv /\ OwnInv /\ CloseUnserved => OwnInv'
<1> SUFFICES ASSUME TypeInv, OwnInv, CloseUnserved, listening PROVE Owned'
  BY DEF OwnInv, CloseUnserved, listening
<1>1. /\ pc["work"] = "close" /\ pc' = [pc EXCEPT !["work"] = "clear"]
      /\ UNCHANGED <<cur, slots, job, leaked, webq>>
      /\ CloseFd(job["work"].sock)
  BY DEF CloseUnserved, At, Goto, workVars
<1>2. Owned
  BY DEF OwnInv
<1>3. SlotFds' = SlotFds \ {slots[cur]}
  BY <1>1, <1>2, HandOver DEF BusyLabels
<1>4. slots[cur] \in Fds /\ slots[cur] \in SlotFds /\ job["work"].sock = slots[cur]
  BY <1>1, CurrentHeld DEF BusyLabels
<1>5. OpenFds' = OpenFds \ {slots[cur]}
  BY <1>1, <1>4, CloseFdOpen DEF TypeInv
<1>6. UNCHANGED <<WebFds, QueueFds>>
  BY <1>1 DEF WebFds, QueueFds, At, TypeInv, TypeOK, Threads
<1> QED
  BY <1>1, <1>2, <1>3, <1>4, <1>5, <1>6 DEF Owned

LEMMA ClearSlotOwned == TypeInv /\ OwnInv /\ ClearSlot => OwnInv'
<1> SUFFICES ASSUME TypeInv, OwnInv, ClearSlot, listening PROVE Owned'
  BY DEF OwnInv, ClearSlot, listening
<1>1. /\ pc["work"] = "clear" /\ pc' = [pc EXCEPT !["work"] = "scan"]
      /\ slots' = [slots EXCEPT ![cur] = 0]
      /\ job' = [job EXCEPT !["work"] = NoJob]
      /\ UNCHANGED <<webq, leaked, fdtab>>
  BY DEF ClearSlot, Emptied, At, Goto, histVars
<1>2. Owned /\ slots \in [Slot -> Fds \cup {0}] /\ pc'["work"] = "scan"
  BY <1>1 DEF OwnInv, TypeInv, TypeOK, Threads
<1>3. UNCHANGED <<WebFds, QueueFds, OpenFds>>
  BY <1>1 DEF WebFds, QueueFds, OpenFds, At, TypeInv, TypeOK, Threads
<1>4. HeldSlots' = HeldSlots
  BY <1>1, <1>2 DEF HeldSlots, At, Threads
<1>5. \A i \in HeldSlots : slots'[i] = slots[i]
  BY <1>1, <1>2 DEF HeldSlots, At
<1>6. SlotFds' = SlotFds
  BY <1>4, <1>5 DEF SlotFds
<1>7. \A j, k \in Slot : slots'[j] = slots'[k] /\ slots'[j] # 0 => j = k
  BY <1>1, <1>2 DEF Owned
<1> QED
  BY <1>1, <1>2, <1>3, <1>6, <1>7 DEF Owned

\* Select, ScanEnd, Recv and Dispath move nothing: none of them is at "clear"
\* before or after, so the held slots are the nonzero ones.
LEMMA WorkFrameOwned ==
  TypeInv /\ OwnInv /\ (Select \/ ScanEnd \/ Recv \/ Dispath) => OwnInv'
<1> SUFFICES ASSUME TypeInv, OwnInv, Select \/ ScanEnd \/ Recv \/ Dispath
             PROVE  OwnInv'
  OBVIOUS
<1>1. UNCHANGED <<slots, webq, leaked, fdtab, closer>>
  BY DEF Select, ScanEnd, Recv, Dispath, workVars, histVars
<1>2. /\ pc["work"] \in {"select", "scan", "dispath"}
      /\ \E x \in {"exit", "accept", "scan", "select", "close", "dispath", "up_test",
                   "post"} : pc' = [pc EXCEPT !["work"] = x]
      /\ job'["web"] = job["web"]
  BY DEF Select, ScanEnd, Recv, Dispath, At, Goto, TypeInv, TypeOK, Threads
<1>3. pc["work"] # "clear" /\ pc'["work"] # "clear" /\ pc'["web"] = pc["web"]
  BY <1>2 DEF TypeInv, TypeOK, Threads
<1>4. UNCHANGED <<HeldSlots, WebFds>>
  BY <1>1, <1>2, <1>3 DEF HeldSlots, WebFds, At
<1> QED
  BY <1>1, <1>4, OwnedFrame DEF listening

\* uploadfiletrans moves a descriptor when it closes its socket (UpReply) and
\* when request() drops the one it failed with.
LEMMA UpReturnOwned ==
  ASSUME TypeInv, OwnInv, NEW t \in Threads, pc[t] \in UploadLabels,
         UpReturn(t, FALSE), UNCHANGED <<slots, cur, webq, fdtab, closer>>
  PROVE  OwnInv'
<1>1. CASE t = "work"
  <2>1. /\ pc' = [pc EXCEPT !["work"] = "close"]
        /\ UNCHANGED <<job, leaked>>
    BY <1>1 DEF UpReturn, Goto
  <2>2. pc["work"] # "clear" /\ pc'["work"] # "clear" /\ pc'["web"] = pc["web"]
    BY <1>1, <2>1 DEF TypeInv, TypeOK, Threads, UploadLabels
  <2>3. UNCHANGED <<HeldSlots, WebFds>>
    BY <2>1, <2>2 DEF HeldSlots, WebFds, At
  <2> QED
    BY <2>1, <2>3, OwnedFrame DEF listening
<1>2. CASE t = "web"
  <2> SUFFICES ASSUME listening PROVE Owned'
    BY DEF OwnInv, listening
  <2>1. /\ pc' = [pc EXCEPT !["web"] = "idle"]
        /\ leaked' = leaked \cup {job["web"].sock}
    BY <1>2 DEF UpReturn, Goto
  <2>2. pc["web"] # "idle" /\ pc'["web"] = "idle" /\ pc'["work"] = pc["work"]
    BY <1>2, <2>1 DEF TypeInv, TypeOK, Threads, UploadLabels
  <2>3. WebFds = {job["web"].sock} /\ WebFds' = {} /\ UNCHANGED HeldSlots
    BY <2>1, <2>2 DEF WebFds, HeldSlots, At
  <2>4. Owned
    BY DEF OwnInv
  <2>5. UNCHANGED <<SlotFds, QueueFds, OpenFds>>
    BY <2>3 DEF SlotFds, QueueFds, OpenFds
  <2> QED
    BY <2>1, <2>3, <2>4, <2>5 DEF Owned
<1> QED
  BY <1>1, <1>2 DEF Threads

LEMMA UpReplyOwned ==
  ASSUME TypeInv, OwnInv, NEW t \in Threads, UpReply(t)
  PROVE  OwnInv'
<1> SUFFICES ASSUME listening PROVE Owned'
  BY DEF OwnInv, UpReply, listening
<1>1. /\ pc[t] = "up_reply" /\ UpReturn(t, TRUE)
      /\ CloseFd(job[t].sock)
      /\ UNCHANGED <<slots, cur, webq>>
  BY DEF UpReply, At, SendAndClose, workVars
<1>2. Owned /\ QueueFds' = QueueFds
  BY <1>1 DEF OwnInv, QueueFds
<1>3. CASE t = "work"
  <2>1. pc' = [pc EXCEPT !["work"] = "clear"] /\ UNCHANGED <<job, leaked>>
    BY <1>1, <1>3 DEF UpReturn, Goto
  <2>2. SlotFds' = SlotFds \ {slots[cur]}
    BY <1>1, <1>2, <1>3, <2>1, HandOver DEF BusyLabels, ReadLabels, UploadLabels
  <2>3. /\ slots[cur] \in Fds /\ slots[cur] \in SlotFds
        /\ job["work"].sock = slots[cur]
    BY <1>1, <1>3, CurrentHeld DEF BusyLabels, ReadLabels, UploadLabels
  <2>4. OpenFds' = OpenFds \ {slots[cur]}
    BY <1>1, <1>3, <2>3, CloseFdOpen DEF TypeInv
  <2>5. WebFds' = WebFds
    BY <2>1 DEF WebFds, At, TypeInv, TypeOK, Threads
  <2> QED
    BY <1>1, <1>2, <2>1, <2>2, <2>3, <2>4, <2>5 DEF Owned
<1>4. CASE t = "web"
  <2>1. pc' = [pc EXCEPT !["web"] = "idle"] /\ leaked' = leaked
    BY <1>1, <1>4 DEF UpReturn, Goto
  <2>2. pc["web"] # "idle" /\ pc'["web"] = "idle" /\ pc'["work"] = pc["work"]
    BY <1>1, <1>4, <2>1 DEF TypeInv, TypeOK, Threads
  <2>3. WebFds = {job["web"].sock} /\ WebFds' = {} /\ UNCHANGED HeldSlots
    BY <1>1, <2>1, <2>2 DEF WebFds, HeldSlots, At
  <2>4. job["web"].sock \in Fds
    BY <2>2 DEF TypeInv, JobInv, WebJobOK
  <2>5. OpenFds' = OpenFds \ {job["web"].sock} /\ UNCHANGED SlotFds
    BY <1>1, <1>4, <2>3, <2>4, CloseFdOpen DEF TypeInv, SlotFds
  <2> QED
    BY <1>1, <1>2, <2>1, <2>3, <2>5 DEF Owned
<1> QED
  BY <1>3, <1>4 DEF Threads

LEMMA UploadOwned ==
  ASSUME NEW t \in Threads PROVE TypeInv /\ OwnInv /\ Upload(t) => OwnInv'
<1> SUFFICES ASSUME TypeInv, OwnInv, Upload(t) PROVE OwnInv'
  OBVIOUS
<1>1. CASE UpReply(t)
  BY <1>1, UpReplyOwned
<1>2. CASE pc[t] \in UploadLabels /\ UpReturn(t, FALSE)
           /\ UNCHANGED <<slots, cur, webq, fdtab, closer>>
  BY <1>2, UpReturnOwned
<1>3. CASE /\ UNCHANGED <<slots, cur, webq, fdtab, closer, job, leaked>>
           /\ pc[t] \in UploadLabels
           /\ \E x \in UploadLabels : pc' = [pc EXCEPT ![t] = x]
  <2>1. /\ pc["work"] = "clear" <=> pc'["work"] = "clear"
        /\ pc["web"] = "idle" <=> pc'["web"] = "idle"
    BY <1>3 DEF TypeInv, TypeOK, Threads, UploadLabels
  <2>2. UNCHANGED <<HeldSlots, WebFds>>
    BY <1>3, <2>1 DEF HeldSlots, WebFds, At
  <2> QED
    BY <1>3, <2>2, OwnedFrame DEF listening
<1> QED
  BY <1>1, <1>2, <1>3
  DEF Upload, UpTest, UpMore, UpLast, UpReset, At, Goto, UploadLabels, workVars,
      histVars

-----------------------------------------------------------------------------
LEMMA WebTakeOwned == TypeInv /\ OwnInv /\ WebTake => OwnInv'
<1> SUFFICES ASSUME TypeInv, OwnInv, WebTake, listening PROVE Owned'
  BY DEF OwnInv, WebTake, listening
<1>1. /\ pc["web"] = "idle"
      /\ \E x \in {"reply", "execute", "up_set", "drop", "file"} :
           pc' = [pc EXCEPT !["web"] = x]
      /\ UNCHANGED <<slots, cur, leaked, fdtab>>
  BY DEF WebTake, AfterAnalyse, At, Goto, workVars, histVars
<1>2. pc'["web"] # "idle" /\ pc'["work"] = pc["work"]
  BY <1>1 DEF TypeInv, TypeOK, Threads
<1>3. /\ job' = [job EXCEPT !["web"] = [sock |-> Head(webq).sock,
                                        from |-> Head(webq).from]]
      /\ webq # <<>> /\ webq \in Seq(Task) /\ webq' = Tail(webq)
      /\ job \in [Threads -> Job]
  BY DEF WebTake, TypeInv, TypeOK
<1>4. /\ Len(webq) \in Nat \ {0} /\ Len(webq') = Len(webq) - 1
      /\ \A j \in 1 .. Len(webq') : webq'[j] = webq[j + 1]
      /\ Head(webq) = webq[1]
  BY <1>3
<1>5. Owned
  BY DEF OwnInv
<1>6. WebFds = {} /\ WebFds' = {webq[1].sock} /\ UNCHANGED HeldSlots
  BY <1>1, <1>2, <1>3, <1>4 DEF WebFds, HeldSlots, At, Threads
<1>7. UNCHANGED <<SlotFds, OpenFds>>
  BY <1>1, <1>6 DEF SlotFds, OpenFds
<1>8. webq[1].sock \in QueueFds
  BY <1>4 DEF QueueFds
<1>9. QueueFds' = QueueFds \ {webq[1].sock}
  <2>1. \A j \in 1 .. Len(webq') : j + 1 \in 1 .. Len(webq) /\ j + 1 # 1
    BY <1>4
  <2>2. \A k \in 1 .. Len(webq) : k # 1 => k - 1 \in 1 .. Len(webq') /\ (k - 1) + 1 = k
    BY <1>4
  <2>3. ASSUME NEW j \in 1 .. Len(webq')
        PROVE  webq'[j].sock \in QueueFds /\ webq'[j].sock # webq[1].sock
    <3>1. j + 1 \in 1 .. Len(webq) /\ j + 1 # 1 /\ webq'[j] = webq[j + 1]
      BY <1>4, <2>1, <2>3
    <3>2. 1 \in 1 .. Len(webq)
      BY <1>4
    <3>3. webq[j + 1].sock # webq[1].sock
      BY <1>5, <3>1, <3>2 DEF Owned
    <3> QED
      BY <3>1, <3>3 DEF QueueFds
  <2>4. ASSUME NEW k \in 1 .. Len(webq), webq[k].sock # webq[1].sock
        PROVE  webq[k].sock \in QueueFds'
    <3>1. k # 1
      BY <2>4
    <3>2. k - 1 \in 1 .. Len(webq') /\ webq'[k - 1] = webq[k]
      BY <1>4, <2>2, <3>1
    <3> QED
      BY <3>2 DEF QueueFds
  <2>5. /\ QueueFds' = {webq'[j].sock : j \in 1 .. Len(webq')}
        /\ QueueFds = {webq[j].sock : j \in 1 .. Len(webq)}
    BY DEF QueueFds
  <2> QED
    BY <2>3, <2>4, <2>5
<1>10. \A j, k \in 1 .. Len(webq') : webq'[j].sock = webq'[k].sock => j = k
  BY <1>4, <1>5 DEF Owned
<1> QED
  BY <1>1, <1>5, <1>6, <1>7, <1>8, <1>9, <1>10 DEF Owned

LEMMA WebExecutedOwned == TypeInv /\ OwnInv /\ WebExecuted => OwnInv'
<1> SUFFICES ASSUME TypeInv, OwnInv, WebExecuted, listening PROVE Owned'
  BY DEF OwnInv, WebExecuted, listening
<1> DEFINE f == job["web"].sock
           task == [op |-> "replay", sock |-> f, from |-> job["web"].from]
<1>1. /\ pc["web"] = "execute" /\ pc' = [pc EXCEPT !["web"] = "idle"]
      /\ UNCHANGED <<cur, slots, leaked, fdtab>>
      /\ webq' = Append(webq, task)
  BY DEF WebExecuted, At, Goto, histVars, workVars
<1>2. Owned /\ webq \in Seq(Task)
  BY DEF OwnInv, TypeInv, TypeOK
<1>3. pc'["web"] = "idle" /\ pc'["work"] = pc["work"] /\ f \in Fds
  BY <1>1 DEF TypeInv, TypeOK, JobInv, WebJobOK, Threads
<1>4. WebFds = {f} /\ WebFds' = {} /\ UNCHANGED <<HeldSlots, OpenFds>>
  BY <1>1, <1>3 DEF WebFds, HeldSlots, OpenFds, At
<1>5. /\ Len(webq') = Len(webq) + 1 /\ Len(webq) \in Nat
      /\ \A j \in 1 .. Len(webq) : webq'[j] = webq[j]
      /\ webq'[Len(webq) + 1] = task
  BY <1>1, <1>2
<1>6. QueueFds' = QueueFds \cup {f}
  BY <1>5 DEF QueueFds
<1>7. \A j, k \in 1 .. Len(webq') : webq'[j].sock = webq'[k].sock => j = k
  <2>1. \A j \in 1 .. Len(webq) : webq[j].sock # f
    BY <1>2, <1>4 DEF Owned, QueueFds
  <2> QED
    BY <1>2, <1>5, <2>1 DEF Owned
<1>8. UNCHANGED SlotFds
  BY <1>1, <1>4 DEF SlotFds
<1> QED
  BY <1>1, <1>2, <1>4, <1>6, <1>7, <1>8 DEF Owned

LEMMA WebReplyOwned == TypeInv /\ OwnInv /\ WebReply => OwnInv'
<1> SUFFICES ASSUME TypeInv, OwnInv, WebReply, listening PROVE Owned'
  BY DEF OwnInv, WebReply, listening
<1> DEFINE f == job["web"].sock
<1>1. /\ pc["web"] # "idle" /\ pc' = [pc EXCEPT !["web"] = "idle"]
      /\ UNCHANGED <<cur, slots, leaked, webq>> /\ CloseFd(f)
  BY DEF WebReply, SendAndClose, Goto, workVars
<1>2. Owned
  BY DEF OwnInv
<1>3. pc'["web"] = "idle" /\ pc'["work"] = pc["work"] /\ f \in Fds
  BY <1>1 DEF TypeInv, TypeOK, JobInv, WebJobOK, Threads
<1>4. WebFds = {f} /\ WebFds' = {} /\ UNCHANGED <<HeldSlots, QueueFds>>
  BY <1>1, <1>3 DEF WebFds, HeldSlots, QueueFds, At
<1>5. OpenFds' = OpenFds \ {f} /\ UNCHANGED SlotFds
  BY <1>1, <1>3, <1>4, CloseFdOpen DEF TypeInv, SlotFds
<1> QED
  BY <1>1, <1>2, <1>4, <1>5 DEF Owned

LEMMA WebDropOwned == TypeInv /\ OwnInv /\ WebDrop => OwnInv'
<1> SUFFICES ASSUME TypeInv, OwnInv, WebDrop, listening PROVE Owned'
  BY DEF OwnInv, WebDrop, listening
<1> DEFINE f == job["web"].sock
<1>1. /\ pc["web"] # "idle" /\ pc' = [pc EXCEPT !["web"] = "idle"]
      /\ UNCHANGED <<cur, slots, fdtab, webq>> /\ leaked' = leaked \cup {f}
  BY DEF WebDrop, At, Goto, workVars, clientVars
<1>2. Owned
  BY DEF OwnInv
<1>3. pc'["web"] = "idle" /\ pc'["work"] = pc["work"]
  BY <1>1 DEF TypeInv, TypeOK, Threads
<1>4. WebFds = {f} /\ WebFds' = {} /\ UNCHANGED <<HeldSlots, QueueFds, OpenFds>>
  BY <1>1, <1>3 DEF WebFds, HeldSlots, QueueFds, OpenFds, At
<1>5. UNCHANGED SlotFds
  BY <1>1, <1>4 DEF SlotFds
<1> QED
  BY <1>1, <1>2, <1>4, <1>5 DEF Owned

\* The remaining steps move no descriptor, or are part of tcps::stop.
LEMMA OtherOwned ==
  TypeInv /\ OwnInv /\ (Client \/ WebUpSet \/ WebUpOpen \/ Stop \/ UNCHANGED vars)
    => OwnInv'
<1> SUFFICES ASSUME TypeInv, OwnInv,
                    Client \/ WebUpSet \/ WebUpOpen \/ Stop \/ UNCHANGED vars
             PROVE  OwnInv'
  OBVIOUS
<1>1. CASE Client \/ UNCHANGED vars
  <2>1. UNCHANGED <<slots, webq, leaked, fdtab, closer, cur, pc, job>>
    BY <1>1 DEF Client, Connect, Send, Reset, workVars, histVars, vars
  <2>2. UNCHANGED <<HeldSlots, WebFds>>
    BY <2>1 DEF HeldSlots, WebFds, At
  <2> QED
    BY <2>1, <2>2, OwnedFrame DEF listening
<1>2. CASE WebUpSet \/ WebUpOpen
  <2>1. /\ UNCHANGED <<slots, webq, leaked, fdtab, closer, cur, job>>
        /\ pc["web"] \in {"up_set", "up_open"}
        /\ \E x \in {"up_open", "up_test"} : pc' = [pc EXCEPT !["web"] = x]
    BY <1>2 DEF WebUpSet, WebUpOpen, workVars, histVars, At, Goto
  <2>2. pc'["work"] = pc["work"] /\ pc["web"] # "idle" /\ pc'["web"] # "idle"
    BY <2>1 DEF TypeInv, TypeOK, Threads
  <2>3. UNCHANGED <<HeldSlots, WebFds>>
    BY <2>1, <2>2 DEF HeldSlots, WebFds, At
  <2> QED
    BY <2>1, <2>3, OwnedFrame DEF listening
<1>3. CASE StopExit
  <2>1. UNCHANGED <<slots, webq, leaked, fdtab, cur, pc, job>>
    BY <1>3 DEF StopExit, workVars, histVars
  <2>2. UNCHANGED <<HeldSlots, WebFds>>
    BY <2>1 DEF HeldSlots, WebFds, At
  <2> QED
    BY <1>3, <2>1, <2>2, OwnedFrame DEF StopExit, listening
<1>4. CASE StopListen \/ StopSlot
  BY <1>4 DEF StopListen, StopSlot, listening, OwnInv, TypeInv, TypeOK
<1> QED
  BY <1>1, <1>2, <1>3, <1>4 DEF Stop

LEMMA NextOwnInv == TypeInv /\ OwnInv /\ [Next]_vars => OwnInv'
  BY WorkFrameOwned, AcceptOwned, PostOwned, CloseUnservedOwned, ClearSlotOwned,
     UploadOwned, WebTakeOwned, WebExecutedOwned, WebReplyOwned, WebDropOwned,
     OtherOwned
  DEF Next, Work, Web, Threads

LEMMA SpecOwnInv == Spec => [](TypeInv /\ OwnInv)
  BY InitTypeInv, InitOwned, NextTypeInv, NextOwnInv, PTL DEF Spec

\* Until tcps::stop is called every open socket has exactly one owner, however
\* many clients, slots and descriptors there are, with uploads and reset peers.
THEOREM SocketOwnership == Spec => []OneOwner
<1>1. OwnInv => OneOwner
  BY DEF OwnInv, OneOwner, listening, exiting
<1> QED
  BY <1>1, SpecOwnInv, PTL

LEMMA NextBadClose ==
  TypeInv /\ OwnInv /\ NoBadClose /\ [Next]_vars => NoBadClose'
<1> SUFFICES ASSUME TypeInv, OwnInv, NoBadClose, [Next]_vars, badclose', ~exiting'
             PROVE  FALSE
  BY DEF NoBadClose
<1>1. CASE badclose
  <2>1. exiting
    BY <1>1 DEF NoBadClose
  <2>2. CASE Stop
    BY <2>1, <2>2 DEF Stop, StopExit, StopListen, StopSlot, exiting, TypeInv, TypeOK
  <2>3. CASE closer' = closer
    BY <2>1, <2>3 DEF exiting
  <2> QED
    BY <2>2, <2>3
    DEF Next, Client, Connect, Send, Reset, Work, Web, Select, Accept, ScanEnd,
        Recv, Dispath, Post, CloseUnserved, ClearSlot, Upload, UpTest, UpMore, UpLast,
        UpReset, UpReply, WebTake, WebExecuted, WebReply, WebDrop, WebUpSet, WebUpOpen,
        vars
<1>2. CASE ~badclose
  <2>1. ASSUME NEW f \in OpenFds, CloseFd(f) PROVE FALSE
    BY <1>2, <2>1 DEF CloseFd, OpenFds
  <2>2. ASSUME pc["work"] \in BusyLabels \ {"clear"}, CloseFd(job["work"].sock), listening
        PROVE  FALSE
    BY <2>1, <2>2, CurrentHeld DEF OwnInv, Owned
  <2>3. ASSUME pc["web"] # "idle", CloseFd(job["web"].sock), listening PROVE FALSE
    BY <2>1, <2>3 DEF OwnInv, Owned, WebFds, At
  <2>4. CASE CloseUnserved
    BY <2>2, <2>4 DEF CloseUnserved, At, BusyLabels, listening, exiting
  <2>5. CASE WebReply
    BY <2>3, <2>5 DEF WebReply, SendAndClose, At, listening, exiting
  <2>6. ASSUME NEW t \in Threads, UpReply(t) PROVE FALSE
    BY <2>2, <2>3, <2>6 DEF UpReply, SendAndClose, At, Threads, BusyLabels, ReadLabels,
                            UploadLabels, listening, exiting
  <2>7. CASE StopSlot
    BY <2>7 DEF StopSlot, exiting, TypeInv, TypeOK
  <2>8. CASE badclose' = badclose
    BY <1>2, <2>8
  <2> QED
    BY <2>4, <2>5, <2>6, <2>7, <2>8
    DEF Next, Client, Connect, Send, Reset, Work, Web, Stop, Select, Accept, ScanEnd,
        Recv, Dispath, Post, ClearSlot, Upload, UpTest, UpMore, UpLast, UpReset,
        WebTake, WebExecuted, WebDrop, WebUpSet, WebUpOpen, StopExit, StopListen,
        histVars, vars, Threads
<1> QED
  BY <1>1, <1>2

\* No close() hits a descriptor that is not open (and that might be another
\* client's by the next accept) before tcps::stop begins.
THEOREM NoStrayClose == Spec => []NoBadClose
<1>1. Init => NoBadClose
  BY DEF Init, NoBadClose
<1> QED
  BY <1>1, NextBadClose, SpecOwnInv, PTL DEF Spec

-----------------------------------------------------------------------------
(* Whose message a task carries.  A message is read once, and from then on  *)
(* is in one place: with the work thread, in a queued task, or with the WEB *)
(* thread.  The socket that travels with it is the sender's, or is closed.  *)

WebUpLabels == {"up_set", "up_open"} \cup UploadLabels
WasRead(c)  == HasSent(c) /\ c \notin unread
QueueFrom   == {webq[j].from : j \in 1 .. Len(webq)}
InOrder(f, c) == fdtab[f] \in {c, NoConn}

ReadOnce ==
  /\ \A j \in 1 .. Len(webq) : WasRead(webq[j].from)
  /\ \A j, k \in 1 .. Len(webq) : webq[j].from = webq[k].from => j = k
  /\ pc["web"] # "idle" => WasRead(job["web"].from) /\ job["web"].from \notin QueueFrom
  /\ pc["work"] \in ReadLabels =>
       /\ WasRead(job["work"].from) /\ job["work"].from \notin QueueFrom
       /\ pc["web"] # "idle" => job["web"].from # job["work"].from

KindOK ==
  /\ \A j \in 1 .. Len(webq) :
       webq[j].op = "replay" => sent[webq[j].from].kind = "lua"
  /\ pc["web"] \in {"execute", "reply"} => sent[job["web"].from].kind = "lua"
  /\ pc["web"] = "drop" => sent[job["web"].from].kind = "noupfile"
  /\ pc["web"] \in WebUpLabels => sent[job["web"].from].kind = "upfile"

RouteOK ==
  /\ \A j \in 1 .. Len(webq) : InOrder(webq[j].sock, webq[j].from)
  /\ pc["web"] # "idle" => InOrder(job["web"].sock, job["web"].from)
  /\ pc["work"] \in ReadLabels => InOrder(job["work"].sock, job["work"].from)

RouteInv == ReadOnce /\ KindOK /\ RouteOK

\* A message that has been sent stays what it is, and one that has been read
\* stays read.
LEMMA SentStays ==
  ASSUME TypeInv, [Next]_vars
  PROVE  /\ \A c \in Conns : sent[c] # NoMsg => sent'[c] = sent[c]
         /\ \A c : WasRead(c) => WasRead(c)' /\ sent'[c] = sent[c]
<1>1. ASSUME NEW c \in Conns, NEW m \in Messages, Send(c, m)
      PROVE  /\ \A d \in Conns : sent[d] # NoMsg => sent'[d] = sent[d]
             /\ unread' = unread \cup {c} /\ sent[c] = NoMsg
  BY <1>1 DEF Send, TypeInv, TypeOK
<1>2. CASE \E c \in Conns, m \in Messages : Send(c, m)
  BY <1>1, <1>2, ConstAssumption DEF WasRead, HasSent
<1>3. CASE ~\E c \in Conns, m \in Messages : Send(c, m)
  <2>1. sent' = sent /\ unread' \subseteq unread
    BY <1>3
    DEF Next, Client, Connect, Reset, Work, Web, Stop, Select, Accept, ScanEnd, Recv,
        Dispath, Post, CloseUnserved, ClearSlot, Upload, UpTest, UpMore, UpLast,
        UpReset, UpReply, WebTake, WebExecuted, WebReply, WebDrop, WebUpSet,
        WebUpOpen, StopExit, StopListen, StopSlot, clientVars, vars
  <2> QED
    BY <2>1 DEF WasRead, HasSent
<1> QED
  BY <1>2, <1>3

\* A descriptor that a task, the WEB thread or nobody refers to is not handed
\* out again; nor is any while the work thread holds a message.
LEMMA FdtabShrinks ==
  ASSUME TypeInv, OwnInv, [Next]_vars
  PROVE  \A f \in Fds : \/ fdtab'[f] \in {fdtab[f], NoConn}
                        \/ /\ pc["work"] = "accept" /\ UNCHANGED <<webq, leaked, job>>
                           /\ f \notin QueueFds \cup WebFds \cup leaked
<1> DEFINE P == \A f \in Fds : fdtab'[f] \in {fdtab[f], NoConn}
<1>1. ASSUME NEW f \in Fds, CloseFd(f) PROVE P
  BY <1>1 DEF CloseFd, TypeInv, TypeOK
<1>2. CASE Accept
  <2>1. CASE UNCHANGED fdtab
    BY <2>1
  <2>2. CASE fdtab' # fdtab
    <3>1. PICK f \in Fds : /\ f \in FreeFds /\ fdtab' = [fdtab EXCEPT ![f] = Head(backlog)]
                           /\ listening
      BY <1>2, <2>2 DEF Accept, IsLeast, TurnAway
    <3>2. f \notin QueueFds \cup WebFds \cup leaked
      BY <3>1 DEF OwnInv, Owned, OpenFds, FreeFds
    <3>3. pc["work"] = "accept" /\ UNCHANGED <<webq, leaked, job>>
      BY <1>2 DEF Accept, At, histVars
    <3>4. \A g \in Fds : g # f => fdtab'[g] = fdtab[g]
      BY <3>1 DEF TypeInv, TypeOK
    <3> QED
      BY <3>2, <3>3, <3>4
  <2> QED
    BY <2>1, <2>2
<1>3. CASE CloseUnserved
  <2>1. job["work"].sock \in Fds
    BY <1>3 DEF CloseUnserved, At, TypeInv, JobInv, WorkJobOK, BusyLabels
  <2> QED
    BY <1>1, <1>3, <2>1 DEF CloseUnserved
<1>4. ASSUME NEW t \in Threads, UpReply(t) PROVE P
  <2>1. job[t].sock \in Fds
    BY <1>4 DEF UpReply, At, TypeInv, JobInv, WorkJobOK, WebJobOK, BusyLabels,
                ReadLabels, UploadLabels, Threads
  <2> QED
    BY <1>1, <1>4, <2>1 DEF UpReply, SendAndClose
<1>5. CASE WebReply
  <2>1. job["web"].sock \in Fds
    BY <1>5 DEF WebReply, At, TypeInv, JobInv, WebJobOK
  <2> QED
    BY <1>1, <1>5, <2>1 DEF WebReply, SendAndClose
<1>6. CASE StopSlot
  <2>1. slots[closer + 1] # 0 => slots[closer + 1] \in Fds
    BY <1>6, ConstAssumption DEF StopSlot, TypeInv, TypeOK, Slot
  <2> QED
    BY <1>1, <1>6, <2>1 DEF StopSlot
<1>7. CASE UNCHANGED fdtab
  BY <1>7
<1> QED
  BY <1>2, <1>3, <1>4, <1>5, <1>6, <1>7
  DEF Next, Client, Connect, Send, Reset, Work, Web, Stop, Select, ScanEnd, Recv,
      Dispath, Post, ClearSlot, Upload, UpTest, UpMore, UpLast, UpReset,
      WebTake, WebExecuted, WebDrop, WebUpSet, WebUpOpen, StopExit, StopListen,
      vars, Threads

\* A descriptor that goes with a held message stays in order.
LEMMA InOrderStays ==
  ASSUME TypeInv, OwnInv, [Next]_vars, NEW c,
         NEW f \in Fds, InOrder(f, c),
         f \in QueueFds \cup WebFds \cup leaked \/ pc["work"] \in ReadLabels
  PROVE  InOrder(f, c)'
<1>1. fdtab'[f] \in {fdtab[f], NoConn}
  BY FdtabShrinks DEF ReadLabels, UploadLabels
<1> QED
  BY <1>1 DEF InOrder

\* A step that hands no message over: the queue stays, and a thread that holds
\* a message has held it before.
KeepsHold ==
  /\ webq' = webq
  /\ pc'["work"] \in ReadLabels =>
       pc["work"] \in ReadLabels /\ job'["work"] = job["work"]
  /\ pc'["web"] # "idle" =>
       /\ pc["web"] # "idle" /\ job'["web"] = job["web"]
       /\ \/ pc'["web"] = pc["web"]
          \/ pc["web"] \in WebUpLabels /\ pc'["web"] \in WebUpLabels

LEMMA WhoKeepsHold ==
  ASSUME TypeInv, [Next]_vars, ~Post, ~WebTake, ~WebExecuted
  PROVE  KeepsHold \/ (Recv /\ pc'["work"] = "dispath")
<1> USE DEF KeepsHold, TypeInv, TypeOK, Threads, At, Goto, WebUpLabels, ReadLabels,
            UploadLabels
<1>1. CASE Client \/ Stop \/ UNCHANGED vars
  BY <1>1 DEF Client, Connect, Send, Reset, Stop, StopExit, StopListen, StopSlot, vars,
              clientVars
<1>2. CASE Select \/ Accept \/ ScanEnd \/ CloseUnserved \/ ClearSlot
  BY <1>2 DEF Select, Accept, ScanEnd, CloseUnserved, ClearSlot
<1>3. CASE Recv
  BY <1>3 DEF Recv
<1>4. CASE Dispath
  BY <1>4 DEF Dispath
<1>5. CASE WebReply \/ WebDrop \/ WebUpSet \/ WebUpOpen
  BY <1>5 DEF WebReply, WebDrop, WebUpSet, WebUpOpen
<1>6. ASSUME NEW t \in Threads, UpTest(t) \/ UpMore(t) \/ UpLast(t) \/ UpReset(t) \/ UpReply(t)
      PROVE  KeepsHold
  <2>1. CASE t = "work"
    BY <1>6, <2>1 DEF UpTest, UpMore, UpLast, UpReset, UpReply, UpReturn
  <2>2. CASE t = "web"
    BY <1>6, <2>2 DEF UpTest, UpMore, UpLast, UpReset, UpReply, UpReturn
  <2> QED
    BY <2>1, <2>2
<1> QED
  BY <1>1, <1>2, <1>3, <1>4, <1>5, <1>6 DEF Next, Work, Web, Upload

LEMMA InitRoute == Init => RouteInv
<1> SUFFICES ASSUME Init PROVE RouteInv
  OBVIOUS
<1>1. webq = <<>> /\ Len(webq) = 0 /\ pc["web"] = "idle" /\ pc["work"] = "select"
  BY DEF Init, Threads
<1> QED
  BY <1>1 DEF RouteInv, ReadOnce, KindOK, RouteOK, ReadLabels, UploadLabels, WebUpLabels

LEMMA KeepsRoute ==
  ASSUME TypeInv, OwnInv, RouteInv, [Next]_vars, KeepsHold
  PROVE  RouteInv'
<1>1. \A c : WasRead(c) => WasRead(c)' /\ sent'[c] = sent[c]
  BY SentStays
<1>2. QueueFrom' = QueueFrom /\ webq' = webq
  BY DEF KeepsHold, QueueFrom
<1>3. ReadOnce'
  BY <1>1, <1>2 DEF RouteInv, ReadOnce, KeepsHold
<1>4. KindOK'
  BY <1>1, <1>2 DEF RouteInv, ReadOnce, KindOK, KeepsHold, WebUpLabels, UploadLabels
<1>5. RouteOK'
  <2>1. ASSUME NEW j \in 1 .. Len(webq)
        PROVE  InOrder(webq[j].sock, webq[j].from)'
    <3>1. webq[j].sock \in QueueFds /\ InOrder(webq[j].sock, webq[j].from)
      BY <2>1 DEF QueueFds, RouteInv, RouteOK
    <3>2. webq[j] \in Task
      BY <2>1, ElementOfSeq DEF TypeInv, TypeOK
    <3>3. webq[j].sock \in Fds
      BY <3>2 DEF Task
    <3>4. \A c, f : f \in Fds /\ InOrder(f, c) /\ f \in QueueFds => fdtab'[f] \in {c, NoConn}
      BY InOrderStays DEF InOrder
    <3> QED
      BY <1>2, <3>1, <3>3, <3>4 DEF InOrder
  <2>2. ASSUME pc'["web"] # "idle"
        PROVE  InOrder(job["web"].sock, job["web"].from)'
    <3>1. pc["web"] # "idle" /\ job'["web"] = job["web"]
      BY <2>2 DEF KeepsHold
    <3>2. /\ job["web"].sock \in Fds /\ job["web"].sock \in WebFds
          /\ InOrder(job["web"].sock, job["web"].from)
      BY <3>1 DEF TypeInv, JobInv, WebJobOK, WebFds, At, RouteInv, RouteOK
    <3>3. \A c, f : f \in Fds /\ InOrder(f, c) /\ f \in WebFds => fdtab'[f] \in {c, NoConn}
      BY InOrderStays DEF InOrder
    <3> QED
      BY <3>1, <3>2, <3>3 DEF InOrder
  <2>3. ASSUME pc'["work"] \in ReadLabels
        PROVE  InOrder(job["work"].sock, job["work"].from)'
    <3>1. pc["work"] \in ReadLabels /\ job'["work"] = job["work"]
      BY <2>3 DEF KeepsHold
    <3>2. /\ job["work"].sock \in Fds
          /\ InOrder(job["work"].sock, job["work"].from)
      BY <3>1 DEF TypeInv, JobInv, WorkJobOK, BusyLabels, RouteInv, RouteOK
    <3>3. \A c, f : f \in Fds /\ InOrder(f, c) => fdtab'[f] \in {c, NoConn}
      BY <3>1, InOrderStays DEF InOrder
    <3> QED
      BY <3>1, <3>2, <3>3 DEF InOrder
  <2> QED
    BY <1>2, <2>1, <2>2, <2>3 DEF RouteOK
<1> QED
  BY <1>3, <1>4, <1>5 DEF RouteInv

\* workthread reads a message: nobody else has it, as it was unread.
LEMMA RecvRoute ==
  ASSUME TypeInv, RouteInv, Recv, pc'["work"] = "dispath"
  PROVE  RouteInv'
<1>1. PICK i \in Slot :
        /\ i \in Todo
        /\ fdtab[slots[i]] \in unread
        /\ unread' = unread \ {fdtab[slots[i]]}
        /\ job' = [job EXCEPT !["work"] = [sock |-> slots[i], from |-> fdtab[slots[i]]]]
        /\ pc' = [pc EXCEPT !["work"] = "dispath"]
  BY DEF Recv, IsLeast, Goto, TypeInv, TypeOK, Threads
<1>2. UNCHANGED <<sent, fdtab, webq>> /\ QueueFrom' = QueueFrom
  BY DEF Recv, QueueFrom
<1> DEFINE f == slots[i]  c == fdtab[f]
<1>3. HasSent(c) /\ c \in unread
  BY <1>1 DEF TypeInv, JobInv, UnreadOK
<1>4. /\ job'["work"].sock = f /\ job'["work"].from = c /\ job'["web"] = job["web"]
      /\ pc'["web"] = pc["web"]
  BY <1>1 DEF TypeInv, TypeOK, Threads
<1>5. c \notin QueueFrom /\ (pc["web"] # "idle" => job["web"].from # c)
  BY <1>3 DEF RouteInv, ReadOnce, WasRead, QueueFrom
<1>6. \A d : WasRead(d) \/ d = c => WasRead(d)'
  BY <1>1, <1>2, <1>3 DEF WasRead, HasSent
<1>7. ReadOnce'
  <2>1. WasRead(job["work"].from)' /\ job'["work"].from \notin QueueFrom'
    BY <1>2, <1>4, <1>5, <1>6
  <2>2. \A j \in 1 .. Len(webq') : WasRead(webq[j].from)'
    BY <1>2, <1>6 DEF RouteInv, ReadOnce
  <2>3. pc'["web"] # "idle" => WasRead(job["web"].from)'
    BY <1>4, <1>6 DEF RouteInv, ReadOnce
  <2> QED
    BY <1>2, <1>4, <1>5, <2>1, <2>2, <2>3 DEF RouteInv, ReadOnce
<1>8. KindOK' /\ RouteOK'
  BY <1>2, <1>4 DEF RouteInv, KindOK, RouteOK, InOrder
<1> QED
  BY <1>7, <1>8 DEF RouteInv

LEMMA PostRoute ==
  ASSUME TypeInv, RouteInv, Post
  PROVE  RouteInv'
<1> DEFINE task == [op |-> "request", sock |-> job["work"].sock,
                    from |-> job["work"].from]
<1>1. /\ pc["work"] = "post" /\ pc' = [pc EXCEPT !["work"] = "clear"]
      /\ UNCHANGED <<job, fdtab, sent, unread>>
      /\ webq' = Append(webq, task) /\ webq \in Seq(Task)
  BY DEF Post, PostReturn, At, Goto, clientVars, TypeInv, TypeOK
<1>2. /\ Len(webq') = Len(webq) + 1 /\ Len(webq) \in Nat
      /\ \A j \in 1 .. Len(webq) : webq'[j] = webq[j]
      /\ webq'[Len(webq) + 1] = task
  BY <1>1
<1>3. pc["work"] \in ReadLabels /\ pc'["work"] \notin ReadLabels /\ pc'["web"] = pc["web"]
  BY <1>1 DEF ReadLabels, UploadLabels, TypeInv, TypeOK, Threads
<1>4. QueueFrom' = QueueFrom \cup {job["work"].from}
  BY <1>2 DEF QueueFrom
<1>5. \A d : WasRead(d)' <=> WasRead(d)
  BY <1>1 DEF WasRead, HasSent
<1>6. ReadOnce'
  <2>1. \A j \in 1 .. Len(webq) : webq[j].from # task.from
    BY <1>3 DEF RouteInv, ReadOnce, QueueFrom
  <2>2. \A j, k \in 1 .. Len(webq') : webq'[j].from = webq'[k].from => j = k
    BY <1>2, <2>1 DEF RouteInv, ReadOnce
  <2>3. \A j \in 1 .. Len(webq') : WasRead(webq[j].from)'
    BY <1>2, <1>3, <1>5 DEF RouteInv, ReadOnce
  <2> QED
    BY <1>1, <1>3, <1>4, <1>5, <2>2, <2>3 DEF RouteInv, ReadOnce
<1>7. KindOK'
  BY <1>1, <1>2, <1>3 DEF RouteInv, KindOK
<1>8. RouteOK'
  BY <1>1, <1>2, <1>3 DEF RouteInv, RouteOK, InOrder
<1> QED
  BY <1>6, <1>7, <1>8 DEF RouteInv

LEMMA WebTakeRoute ==
  ASSUME TypeInv, RouteInv, WebTake
  PROVE  RouteInv'
<1>1. /\ webq # <<>> /\ webq \in Seq(Task) /\ webq' = Tail(webq)
      /\ UNCHANGED <<fdtab, sent, unread>>
      /\ job' = [job EXCEPT !["web"] = [sock |-> Head(webq).sock,
                                        from |-> Head(webq).from]]
      /\ pc' = [pc EXCEPT !["web"] = IF Head(webq).op = "replay" THEN "reply"
                                     ELSE AfterAnalyse(sent[Head(webq).from].kind)]
  BY DEF WebTake, Goto, clientVars, TypeInv, TypeOK
<1>2. /\ Len(webq) \in Nat \ {0} /\ Len(webq') = Len(webq) - 1
      /\ \A j \in 1 .. Len(webq') : webq'[j] = webq[j + 1]
      /\ Head(webq) = webq[1]
  BY <1>1
<1>3. /\ job'["web"].sock = webq[1].sock /\ job'["web"].from = webq[1].from
      /\ job'["work"] = job["work"] /\ pc'["work"] = pc["work"]
  BY <1>1, <1>2 DEF TypeInv, TypeOK, Threads
<1>4. \A d : WasRead(d)' <=> WasRead(d)
  BY <1>1 DEF WasRead, HasSent
<1>5. 1 \in 1 .. Len(webq) /\ \A j \in 1 .. Len(webq') : j + 1 \in 1 .. Len(webq)
  BY <1>2
<1>6. QueueFrom' \subseteq QueueFrom /\ webq[1].from \in QueueFrom
  BY <1>2, <1>5 DEF QueueFrom
<1>7. webq[1].from \notin QueueFrom'
  <2>1. ASSUME NEW j \in 1 .. Len(webq') PROVE webq'[j].from # webq[1].from
    <3>1. j + 1 \in 1 .. Len(webq) /\ j + 1 # 1 /\ webq'[j] = webq[j + 1]
      BY <1>2, <1>5
    <3> QED
      BY <1>5, <3>1 DEF RouteInv, ReadOnce
  <2> QED
    BY <2>1 DEF QueueFrom
<1>8. ReadOnce'
  <2>1. \A j, k \in 1 .. Len(webq') : webq'[j].from = webq'[k].from => j = k
    BY <1>2, <1>5 DEF RouteInv, ReadOnce
  <2>2. \A j \in 1 .. Len(webq') : WasRead(webq[j].from)'
    BY <1>2, <1>4, <1>5 DEF RouteInv, ReadOnce
  <2>3. WasRead(job["web"].from)' /\ job'["web"].from \notin QueueFrom'
    BY <1>3, <1>4, <1>5, <1>7 DEF RouteInv, ReadOnce
  <2>4. pc'["work"] \in ReadLabels =>
          /\ WasRead(job["work"].from)' /\ job'["work"].from \notin QueueFrom'
          /\ job'["web"].from # job'["work"].from
    BY <1>3, <1>4, <1>6 DEF RouteInv, ReadOnce
  <2> QED
    BY <2>1, <2>2, <2>3, <2>4 DEF ReadOnce
<1>9. KindOK'
  <2>1. sent[webq[1].from].kind \in Kinds
    BY <1>5, ConstAssumption DEF RouteInv, ReadOnce, WasRead, HasSent
  <2>2. CASE webq[1].op = "replay"
    <3>1. pc'["web"] = "reply" /\ sent[webq[1].from].kind = "lua"
      BY <1>1, <1>2, <1>5, <2>2 DEF TypeInv, TypeOK, Threads, RouteInv, KindOK
    <3> QED
      BY <1>1, <1>2, <1>3, <1>5, <3>1 DEF RouteInv, KindOK, WebUpLabels, UploadLabels
  <2>3. CASE webq[1].op # "replay"
    <3>1. pc'["web"] = AfterAnalyse(sent[webq[1].from].kind)
      BY <1>1, <1>2, <2>3 DEF TypeInv, TypeOK, Threads
    <3>2. /\ pc'["web"] \in {"execute", "reply"} => sent[webq[1].from].kind = "lua"
          /\ pc'["web"] = "drop" => sent[webq[1].from].kind = "noupfile"
          /\ pc'["web"] \in WebUpLabels => sent[webq[1].from].kind = "upfile"
      BY <2>1, <3>1 DEF AfterAnalyse, Kinds, WebUpLabels, UploadLabels
    <3> QED
      BY <1>1, <1>2, <1>3, <1>5, <3>2 DEF RouteInv, KindOK
  <2> QED
    BY <2>2, <2>3
<1>10. RouteOK'
  BY <1>1, <1>2, <1>3, <1>5 DEF RouteInv, RouteOK, InOrder
<1> QED
  BY <1>8, <1>9, <1>10 DEF RouteInv

LEMMA WebExecutedRoute ==
  ASSUME TypeInv, RouteInv, WebExecuted
  PROVE  RouteInv'
<1> DEFINE task == [op |-> "replay", sock |-> job["web"].sock, from |-> job["web"].from]
<1>1. /\ pc["web"] = "execute" /\ pc' = [pc EXCEPT !["web"] = "idle"]
      /\ UNCHANGED <<fdtab, sent, unread>> /\ job' = [job EXCEPT !["web"] = NoJob]
      /\ webq' = Append(webq, task) /\ webq \in Seq(Task)
  BY DEF WebExecuted, At, Goto, clientVars, TypeInv, TypeOK
<1>2. /\ Len(webq') = Len(webq) + 1 /\ Len(webq) \in Nat
      /\ \A j \in 1 .. Len(webq) : webq'[j] = webq[j]
      /\ webq'[Len(webq) + 1] = task
  BY <1>1
<1>3. /\ pc'["web"] = "idle" /\ pc'["work"] = pc["work"] /\ job'["work"] = job["work"]
  BY <1>1 DEF TypeInv, TypeOK, Threads
<1>4. QueueFrom' = QueueFrom \cup {job["web"].from}
  BY <1>2 DEF QueueFrom
<1>5. \A d : WasRead(d)' <=> WasRead(d)
  BY <1>1 DEF WasRead, HasSent
<1>6. ReadOnce'
  <2>1. \A j \in 1 .. Len(webq) : webq[j].from # task.from
    BY <1>1 DEF RouteInv, ReadOnce, QueueFrom
  <2>2. \A j, k \in 1 .. Len(webq') : webq'[j].from = webq'[k].from => j = k
    BY <1>2, <2>1 DEF RouteInv, ReadOnce
  <2>3. \A j \in 1 .. Len(webq') : WasRead(webq[j].from)'
    BY <1>1, <1>2, <1>5 DEF RouteInv, ReadOnce
  <2> QED
    BY <1>1, <1>3, <1>4, <1>5, <2>2, <2>3 DEF RouteInv, ReadOnce
<1>7. KindOK'
  BY <1>1, <1>2, <1>3 DEF RouteInv, KindOK, WebUpLabels, UploadLabels
<1>8. RouteOK'
  BY <1>1, <1>2, <1>3 DEF RouteInv, RouteOK, InOrder
<1> QED
  BY <1>6, <1>7, <1>8 DEF RouteInv

LEMMA NextRoute == TypeInv /\ OwnInv /\ RouteInv /\ [Next]_vars => RouteInv'
  BY WhoKeepsHold, KeepsRoute, RecvRoute, PostRoute, WebTakeRoute, WebExecutedRoute

LEMMA SpecRoute == Spec => [](TypeInv /\ OwnInv /\ RouteInv)
  BY InitTypeInv, InitOwned, InitRoute, NextTypeInv, NextOwnInv, NextRoute, PTL DEF Spec

\* The connection an answer goes to is the one whose message the thread holds.
LEMMA AnswerInOrder ==
  ASSUME TypeInv, RouteInv, NEW t \in Threads,
         NEW what \in {"lua", "file", "uploaded"},
         t = "work" => pc["work"] \in ReadLabels, t = "web" => pc["web"] # "idle",
         NEW over, SendAndClose(job[t].sock, what, job[t].from, over),
         ReplyToRequester
  PROVE  ReplyToRequester'
<1>1. job[t].sock \in Fds /\ job[t].from \in Conns
  BY DEF TypeInv, JobInv, WorkJobOK, WebJobOK, BusyLabels, HasSent, Threads
<1>2. InOrder(job[t].sock, job[t].from)
  BY DEF RouteInv, RouteOK, Threads
<1>3. CASE fdtab[job[t].sock] \in Conns \ gone
  <2>1. fdtab[job[t].sock] = job[t].from
    BY <1>2, <1>3, ConstAssumption DEF InOrder
  <2>2. answers' = [answers EXCEPT ![job[t].from] = @ \cup {<<what, job[t].from>>}]
    BY <1>3, <2>1 DEF SendAndClose
  <2> QED
    BY <1>1, <2>2 DEF ReplyToRequester, TypeInv, TypeOK
<1>4. CASE fdtab[job[t].sock] \notin Conns \ gone
  BY <1>4 DEF SendAndClose, ReplyToRequester
<1> QED
  BY <1>3, <1>4

LEMMA NextReply ==
  TypeInv /\ RouteInv /\ ReplyToRequester /\ [Next]_vars => ReplyToRequester'
<1> SUFFICES ASSUME TypeInv, RouteInv, ReplyToRequester, [Next]_vars
             PROVE  ReplyToRequester'
  OBVIOUS
<1>1. CASE WebReply
  BY <1>1, AnswerInOrder DEF WebReply, At, Threads
<1>2. ASSUME NEW t \in Threads, UpReply(t) PROVE ReplyToRequester'
  <2>1. /\ t = "work" => pc["work"] \in ReadLabels
        /\ t = "web" => pc["web"] # "idle"
    BY <1>2 DEF UpReply, At, ReadLabels, UploadLabels
  <2> QED
    BY <1>2, <2>1, AnswerInOrder DEF UpReply
<1>3. CASE UNCHANGED answers
  BY <1>3 DEF ReplyToRequester
<1> QED
  BY <1>1, <1>2, <1>3
  DEF Next, Client, Connect, Send, Reset, Work, Web, Stop, Select, Accept, ScanEnd,
      Recv, Dispath, Post, CloseUnserved, ClearSlot, Upload, UpTest, UpMore, UpLast,
      UpReset, WebTake, WebExecuted, WebDrop, WebUpSet, WebUpOpen, StopExit,
      StopListen, StopSlot, histVars, vars, Threads

\* Whatever the server writes to a client answers that client's own message,
\* for every number of clients and descriptors, and also while tcps::stop
\* closes sockets under the threads that work on them: a request travels as a
\* bare descriptor number, but no number is given to another client while a
\* task that carries it is about.
THEOREM AnswersGoHome == Spec => []ReplyToRequester
<1>1. Init => ReplyToRequester
  BY DEF Init, ReplyToRequester
<1> QED
  BY <1>1, NextReply, SpecRoute, PTL DEF Spec

LEMMA NextLeak ==
  TypeInv /\ OwnInv /\ RouteInv /\ OnlyUploadsLeak /\ [Next]_vars => OnlyUploadsLeak'
<1> SUFFICES ASSUME TypeInv, OwnInv, RouteInv, OnlyUploadsLeak, [Next]_vars,
                    NEW f \in leaked', fdtab'[f] # NoConn
             PROVE  SentUpload(fdtab[f])'
  BY DEF OnlyUploadsLeak
<1> DEFINE dropped == job["web"].sock
<1>1. \/ leaked' = leaked
      \/ leaked' = leaked \cup {dropped} /\ pc["web"] \in {"drop"} \cup WebUpLabels
  <2>1. ASSUME NEW t \in Threads, pc[t] \in UploadLabels, UpReturn(t, FALSE)
        PROVE  \/ leaked' = leaked
               \/ leaked' = leaked \cup {dropped} /\ pc["web"] \in WebUpLabels
    BY <2>1 DEF UpReturn, WebUpLabels, Threads
  <2>2. ASSUME NEW t \in Threads, UpReply(t) PROVE leaked' = leaked
    BY <2>2 DEF UpReply, UpReturn
  <2>3. CASE WebDrop
    BY <2>3 DEF WebDrop, At
  <2>4. ASSUME NEW t \in Threads, UpTest(t) \/ UpMore(t)
        PROVE  \/ leaked' = leaked
               \/ leaked' = leaked \cup {dropped} /\ pc["web"] \in WebUpLabels
    BY <2>1, <2>4 DEF UpTest, UpMore, At, UploadLabels
  <2>5. CASE UNCHANGED leaked
    BY <2>5
  <2> QED
    BY <2>2, <2>3, <2>4, <2>5
    DEF Next, Client, Connect, Send, Reset, Work, Web, Stop, Select, Accept, ScanEnd,
        Recv, Dispath, Post, CloseUnserved, ClearSlot, Upload, UpLast, UpReset,
        WebTake, WebExecuted, WebReply, WebUpSet, WebUpOpen, StopExit, StopListen,
        StopSlot, histVars, vars, Threads
<1>2. f \in Fds
  <2>1. TypeInv'
    BY NextTypeInv
  <2> QED
    BY <2>1 DEF TypeInv, TypeOK
<1>3. f \in leaked \cup WebFds => fdtab'[f] = fdtab[f]
  BY <1>2, FdtabShrinks
<1>4. \A c \in Conns : sent[c] # NoMsg => sent'[c] = sent[c]
  BY SentStays
<1>5. fdtab'[f] = fdtab[f] => fdtab[f] \in Conns
  BY <1>2 DEF TypeInv, TypeOK
<1>6. CASE f \in leaked
  <2>1. fdtab'[f] = fdtab[f] /\ SentUpload(fdtab[f])
    BY <1>3, <1>6 DEF OnlyUploadsLeak
  <2> QED
    BY <1>4, <1>5, <2>1 DEF SentUpload
<1>7. CASE f = dropped /\ pc["web"] \in {"drop"} \cup WebUpLabels
  <2>1. pc["web"] # "idle" /\ f \in WebFds
    BY <1>7 DEF WebFds, At, WebUpLabels, UploadLabels
  <2>2. fdtab[f] = job["web"].from /\ fdtab'[f] = fdtab[f]
    BY <1>3, <1>7, <2>1 DEF RouteInv, RouteOK, InOrder
  <2>3. HasSent(fdtab[f]) /\ sent[fdtab[f]].kind \in {"upfile", "noupfile"}
    BY <1>7, <2>1, <2>2 DEF RouteInv, KindOK, TypeInv, JobInv, WebJobOK
  <2> QED
    BY <1>4, <2>2, <2>3, ConstAssumption DEF SentUpload, HasSent
<1> QED
  BY <1>1, <1>6, <1>7

\* A socket that nobody will close any more was an upload's: request() forgets
\* no other, however its tasks and the work thread's are interleaved.
THEOREM LeaksAreUploads == Spec => []OnlyUploadsLeak
<1>1. Init => OnlyUploadsLeak
  BY DEF Init, OnlyUploadsLeak
<1> QED
  BY <1>1, NextLeak, SpecRoute, PTL DEF Spec

-----------------------------------------------------------------------------
(* The upload.  Whoever left an upload behind has been read and is done with *)
(* by the work thread, so a message the work thread takes for more of the    *)
(* upload is another client's: alone, an upload stays with the WEB thread.   *)

Uploader(e) ==
  /\ WasRead(e) /\ sent[e].kind = "upfile" /\ e \notin QueueFrom
  /\ pc["work"] \in ReadLabels => job["work"].from # e

UploadOK == (up # NoUpload \/ pc["work"] \in UploadLabels) => \E e : Uploader(e)

Company ==
  \E c, d \in Conns : /\ c # d /\ sent[c] # NoMsg /\ sent[d] # NoMsg
                      /\ sent[c].kind = "upfile" /\ d \notin unread

Fresh(files) ==
  /\ up.file \in files /\ up.got = 0 /\ up.mark = MarkLen
  /\ up.size = sent[job["web"].from].up

\* While an upload is alone, every step of it finds the state the step before
\* has left.
Alone ==
  /\ pc["web"] = "up_set" => up = NoUpload
  /\ pc["web"] = "up_open" => Fresh({"null"})
  /\ pc["web"] = "up_test" => Fresh({"null", "open"})
  /\ pc["web"] = "up_more" => Fresh({"open"})
  /\ pc["web"] = "up_last" =>
       /\ Fresh({"open"})
       /\ \/ sent[job["web"].from].body < 0
          \/ sent[job["web"].from].up <= sent[job["web"].from].body

UploadInv == UploadOK /\ (~Company => Alone)

LEMMA CompanyStays == TypeInv /\ Company /\ [Next]_vars => Company'
<1> SUFFICES ASSUME TypeInv, Company, [Next]_vars PROVE Company'
  OBVIOUS
<1>1. PICK c, d \in Conns : /\ c # d /\ sent[c] # NoMsg /\ sent[d] # NoMsg
                            /\ sent[c].kind = "upfile" /\ d \notin unread
  BY DEF Company
<1>2. HasSent(d)
  BY <1>1 DEF HasSent, TypeInv, TypeOK
<1>3. sent'[c] = sent[c] /\ sent'[d] = sent[d] /\ d \notin unread'
  BY <1>1, <1>2, SentStays DEF WasRead
<1> QED
  BY <1>1, <1>3 DEF Company

\* Two messages read, one of them an upload's, are company.
LEMMA TwoAreCompany ==
  ASSUME NEW c, NEW d, WasRead(c), WasRead(d), c # d, sent[c].kind = "upfile"
  PROVE  Company
  BY ConstAssumption DEF Company, WasRead, HasSent

LEMMA WorkHasCompany ==
  ASSUME TypeInv, RouteInv, UploadOK, pc["work"] \in UploadLabels
  PROVE  Company
<1>1. PICK e : Uploader(e)
  BY DEF UploadOK
<1>2. pc["work"] \in ReadLabels
  BY DEF ReadLabels
<1>3. WasRead(job["work"].from)
  BY <1>2 DEF RouteInv, ReadOnce
<1> QED
  BY <1>1, <1>2, <1>3, TwoAreCompany DEF Uploader

LEMMA UploaderStays ==
  ASSUME TypeInv, RouteInv, [Next]_vars, NEW e, Uploader(e)
  PROVE  Uploader(e)'
<1>1. WasRead(e)' /\ sent'[e] = sent[e]
  BY SentStays DEF Uploader
<1>2. CASE KeepsHold
  BY <1>1, <1>2 DEF Uploader, KeepsHold, QueueFrom
<1>3. CASE Recv /\ pc'["work"] = "dispath"
  <2>1. job'["work"].from \in unread /\ webq' = webq
    BY <1>3 DEF Recv, Goto, TypeInv, TypeOK, Threads
  <2> QED
    BY <1>1, <2>1 DEF Uploader, WasRead, QueueFrom
<1>4. CASE Post
  <2>1. /\ webq' = Append(webq, [op |-> "request", sock |-> job["work"].sock,
                                 from |-> job["work"].from])
        /\ webq \in Seq(Task) /\ pc["work"] \in ReadLabels
        /\ pc'["work"] \notin ReadLabels
    BY <1>4 DEF Post, PostReturn, At, Goto, TypeInv, TypeOK, Threads, ReadLabels,
                UploadLabels
  <2>2. QueueFrom' = QueueFrom \cup {job["work"].from}
    BY <2>1 DEF QueueFrom
  <2> QED
    BY <1>1, <2>1, <2>2 DEF Uploader
<1>5. CASE WebTake
  <2>1. /\ webq # <<>> /\ webq' = Tail(webq) /\ webq \in Seq(Task)
        /\ pc'["work"] = pc["work"] /\ job'["work"] = job["work"]
    BY <1>5 DEF WebTake, Goto, TypeInv, TypeOK, Threads
  <2>2. QueueFrom' \subseteq QueueFrom
    BY <2>1 DEF QueueFrom
  <2> QED
    BY <1>1, <2>1, <2>2 DEF Uploader
<1>6. CASE WebExecuted
  <2>1. /\ webq' = Append(webq, [op |-> "replay", sock |-> job["web"].sock,
                                 from |-> job["web"].from])
        /\ webq \in Seq(Task)
        /\ pc'["work"] = pc["work"] /\ job'["work"] = job["work"]
    BY <1>6 DEF WebExecuted, Goto, TypeInv, TypeOK, Threads
  <2>2. QueueFrom' = QueueFrom \cup {job["web"].from}
    BY <2>1 DEF QueueFrom
  <2>3. sent[job["web"].from].kind = "lua"
    BY <1>6 DEF WebExecuted, At, RouteInv, KindOK
  <2> QED
    BY <1>1, <2>1, <2>2, <2>3 DEF Uploader
<1> QED
  BY <1>2, <1>3, <1>4, <1>5, <1>6, WhoKeepsHold

\* The variables of the upload are only changed by a thread that uploads.
LEMMA WhoUploads ==
  ASSUME TypeInv, [Next]_vars
  PROVE  /\ up' # up => pc["work"] \in UploadLabels \/ pc["web"] \in WebUpLabels
         /\ pc'["work"] \in UploadLabels => pc["work"] \in UploadLabels \/ up # NoUpload
<1> USE DEF TypeInv, TypeOK, Threads, At, Goto, WebUpLabels, UploadLabels
<1> DEFINE Up == up' # up => pc["work"] \in UploadLabels \/ pc["web"] \in WebUpLabels
           Pc == pc'["work"] \in UploadLabels =>
                   pc["work"] \in UploadLabels \/ up # NoUpload
<1>1. CASE Client \/ Stop \/ UNCHANGED vars
  BY <1>1 DEF Client, Connect, Send, Reset, Stop, StopExit, StopListen, StopSlot, vars,
              clientVars
<1>2. CASE Select \/ Accept \/ ScanEnd \/ CloseUnserved \/ ClearSlot \/ Recv \/ Post
  BY <1>2 DEF Select, Accept, ScanEnd, CloseUnserved, ClearSlot, Recv, Post, PostReturn
<1>3. CASE Dispath
  BY <1>3 DEF Dispath, NoUpload
<1>4. CASE WebTake \/ WebExecuted \/ WebReply \/ WebDrop \/ WebUpSet \/ WebUpOpen
  BY <1>4 DEF WebTake, WebExecuted, WebReply, WebDrop, WebUpSet, WebUpOpen
<1>5. ASSUME NEW t \in Threads, UpTest(t) \/ UpMore(t) \/ UpLast(t) \/ UpReset(t) \/ UpReply(t)
      PROVE  Up /\ Pc
  BY <1>5 DEF UpTest, UpMore, UpLast, UpReset, UpReply, UpReturn
<1> QED
  BY <1>1, <1>2, <1>3, <1>4, <1>5 DEF Next, Work, Web, Upload

LEMMA NextUploadOK ==
  TypeInv /\ OwnInv /\ RouteInv /\ UploadOK /\ [Next]_vars => UploadOK'
<1> SUFFICES ASSUME TypeInv, OwnInv, RouteInv, UploadOK, [Next]_vars,
                    up' # NoUpload \/ pc'["work"] \in UploadLabels
             PROVE  \E e : Uploader(e)'
  BY DEF UploadOK
<1>1. \/ up # NoUpload \/ pc["work"] \in UploadLabels
      \/ pc["web"] \in WebUpLabels
  BY WhoUploads
<1>2. CASE up # NoUpload \/ pc["work"] \in UploadLabels
  BY <1>2, UploaderStays DEF UploadOK
<1>3. CASE pc["web"] \in WebUpLabels
  <2>1. pc["web"] # "idle"
    BY <1>3 DEF WebUpLabels, UploadLabels
  <2>2. Uploader(job["web"].from)
    BY <1>3, <2>1 DEF Uploader, RouteInv, ReadOnce, KindOK
  <2>3. \E e : Uploader(e)
    BY <2>2
  <2> QED
    BY <2>3, UploaderStays
<1> QED
  BY <1>1, <1>2, <1>3

LEMMA AloneTake ==
  ASSUME TypeInv, RouteInv, UploadOK, ~Company, WebTake
  PROVE  Alone'
<1>1. /\ pc'["web"] \in {"reply", "execute", "up_set", "drop", "file"}
      /\ webq # <<>> /\ webq \in Seq(Task) /\ up' = up
      /\ pc'["web"] = "up_set" => sent[Head(webq).from].kind = "upfile"
  <2>1. pc' = [pc EXCEPT !["web"] = IF Head(webq).op = "replay" THEN "reply"
                                    ELSE AfterAnalyse(sent[Head(webq).from].kind)]
    BY DEF WebTake, Goto
  <2>2. Head(webq) \in Task /\ Head(webq) = webq[1] /\ 1 \in 1 .. Len(webq)
    BY DEF WebTake, TypeInv, TypeOK
  <2>3. sent[Head(webq).from].kind \in Kinds
    BY <2>2, ConstAssumption DEF RouteInv, ReadOnce, WasRead, HasSent
  <2> QED
    BY <2>1, <2>3 DEF WebTake, AfterAnalyse, Kinds, TypeInv, TypeOK, Threads
<1>2. CASE up = NoUpload
  BY <1>1, <1>2 DEF Alone
<1>3. CASE up # NoUpload
  <2>1. PICK e : Uploader(e)
    BY <1>3 DEF UploadOK
  <2>2. Head(webq) = webq[1] /\ 1 \in 1 .. Len(webq)
    BY <1>1
  <2>3. WasRead(Head(webq).from) /\ Head(webq).from \in QueueFrom
    BY <2>2 DEF RouteInv, ReadOnce, QueueFrom
  <2> QED
    BY <2>1, <2>3, TwoAreCompany DEF Uploader
<1> QED
  BY <1>2, <1>3

LEMMA AloneUpload ==
  ASSUME TypeInv, RouteInv, ~Company, Alone,
         WebUpSet \/ WebUpOpen \/ Upload("web")
  PROVE  Alone'
<1> USE DEF TypeInv, TypeOK, Threads, At, Goto, Alone, Fresh, clientVars
<1>1. CASE WebUpSet
  BY <1>1 DEF WebUpSet, NoUpload
<1>2. CASE WebUpOpen
  BY <1>2 DEF WebUpOpen
<1>3. CASE UpTest("web")
  <2>1. CASE up.file = "null"
    BY <1>3, <2>1 DEF UpTest, UpReturn
  <2>2. CASE up.file # "null"
    <3>1. /\ pc["web"] = "up_test"
          /\ pc' = [pc EXCEPT !["web"] = IF LastPiece("web") THEN "up_last" ELSE "up_more"]
          /\ UNCHANGED <<up, job, sent>>
      BY <1>3, <2>2 DEF UpTest
    <3> DEFINE m == sent[job["web"].from]
    <3>2. LastPiece("web") => m.up <= (0 + (m.body % Word)) % Word
      BY <3>1 DEF LastPiece, UpLen, Piece
    <3>3. HasSent(job["web"].from)
      BY <3>1 DEF JobInv, WebJobOK
    <3>4. m.body \in Int /\ m.up \in Nat /\ Word \in Nat \ {0}
      BY <3>3, ConstAssumption DEF HasSent
    <3>5. m.body >= 0 => (0 + (m.body % Word)) % Word <= m.body
      <4>1. m.body % Word \in Nat /\ (m.body >= 0 => m.body % Word <= m.body)
        BY <3>4, ModFacts
      <4>2. 0 + (m.body % Word) = m.body % Word
        BY <4>1
      <4>3. /\ (m.body % Word) % Word \in Nat
            /\ (m.body % Word) % Word <= m.body % Word
        <5>1. m.body % Word \in Int /\ m.body % Word >= 0
          BY <4>1
        <5> HIDE DEF m
        <5> QED
          BY <3>4, <5>1, ModFacts
      <4> QED
        BY <3>4, <4>1, <4>2, <4>3
    <3>6. LastPiece("web") => m.body < 0 \/ m.up <= m.body
      <4>1. (0 + (m.body % Word)) % Word \in Nat
        <5> HIDE DEF m
        <5>1. m.body % Word \in Nat
          BY <3>4, ModFacts
        <5>2. 0 + (m.body % Word) \in Int
          BY <5>1
        <5> QED
          BY <3>4, <5>2, ModFacts
      <4> QED
        BY <3>2, <3>4, <3>5, <4>1
    <3> QED
      BY <2>2, <3>1, <3>6
  <2> QED
    BY <2>1, <2>2
<1>4. CASE UpMore("web") \/ UpLast("web") \/ UpReset("web") \/ UpReply("web")
  BY <1>4 DEF UpMore, UpLast, UpReset, UpReply, UpReturn
<1> QED
  BY <1>1, <1>2, <1>3, <1>4 DEF Upload

LEMMA NextAlone ==
  TypeInv /\ OwnInv /\ RouteInv /\ UploadInv /\ [Next]_vars /\ ~Company' => Alone'
<1> SUFFICES ASSUME TypeInv, OwnInv, RouteInv, UploadInv, [Next]_vars, ~Company'
             PROVE  Alone'
  OBVIOUS
<1>1. ~Company /\ Alone /\ UploadOK
  BY CompanyStays DEF UploadInv
<1>2. pc["work"] \notin UploadLabels
  BY <1>1, WorkHasCompany
<1>3. CASE WebTake
  BY <1>1, <1>3, AloneTake
<1>4. CASE WebUpSet \/ WebUpOpen \/ Upload("web")
  BY <1>1, <1>4, AloneUpload
<1>5. CASE WebExecuted \/ WebReply \/ WebDrop
  <2>1. pc'["web"] = "idle"
    BY <1>5 DEF WebExecuted, WebReply, WebDrop, Goto, TypeInv, TypeOK, Threads
  <2> QED
    BY <2>1 DEF Alone
<1>6. CASE Client \/ Work \/ Stop \/ UNCHANGED vars
  <2>1. /\ pc'["web"] = pc["web"] /\ job'["web"] = job["web"] /\ up' = up
    <3>1. CASE Client \/ Stop \/ UNCHANGED vars
      BY <3>1 DEF Client, Connect, Send, Reset, Stop, StopExit, StopListen, StopSlot,
                  vars
    <3>2. CASE Work
      BY <1>2, <3>2
      DEF Work, Select, Accept, ScanEnd, Recv, Dispath, Post, CloseUnserved, ClearSlot,
          Upload, UpTest, UpMore, UpLast, UpReset, UpReply, At, Goto, UploadLabels,
          TypeInv, TypeOK, Threads
    <3> QED
      BY <1>6, <3>1, <3>2
  <2>2. pc["web"] # "idle" => sent'[job["web"].from] = sent[job["web"].from]
    BY SentStays DEF RouteInv, ReadOnce
  <2> QED
    BY <1>1, <2>1, <2>2 DEF Alone, Fresh
<1> QED
  BY <1>3, <1>4, <1>5, <1>6 DEF Next, Web

LEMMA InitUpload == Init => UploadInv
<1> SUFFICES ASSUME Init PROVE UploadInv
  OBVIOUS
<1>1. pc["web"] = "idle" /\ pc["work"] = "select" /\ up = NoUpload
  BY DEF Init, Threads
<1> QED
  BY <1>1 DEF UploadInv, UploadOK, Alone, UploadLabels

LEMMA SpecUpload == Spec => [](TypeInv /\ OwnInv /\ RouteInv /\ UploadInv)
<1>1. TypeInv /\ OwnInv /\ RouteInv /\ UploadInv /\ [Next]_vars => UploadInv'
  BY NextUploadOK, NextAlone DEF UploadInv
<1> QED
  BY <1>1, SpecRoute, InitUpload, PTL DEF Spec

BrokenSent == \E c \in Conns : sent[c] # NoMsg /\ (TooShort(sent[c]) \/ sent[c].flaw # "none")

\* A thread that uploads alone writes to an open file, no more than the data there
\* is, unless the message was too short.
LEMMA AloneIsSafe ==
  ASSUME TypeInv, RouteInv, UploadInv, ~Company, ~BrokenSent, NEW t \in Threads
  PROVE  /\ At(t, "up_more") => up.file = "open" /\ Piece(t) >= 0
         /\ At(t, "up_last") => up.file = "open" /\ Piece(t) > up.mark
<1>1. CASE t = "work"
  <2>1. pc["work"] \notin UploadLabels
    BY WorkHasCompany DEF UploadInv
  <2> QED
    BY <1>1, <2>1 DEF At, UploadLabels
<1>2. CASE t = "web"
  <2> DEFINE m == sent[job["web"].from]
  <2> SUFFICES ASSUME pc["web"] \in {"up_more", "up_last"}
               PROVE  /\ up.file = "open" /\ m.body >= 0
                      /\ pc["web"] = "up_last" => m.body > up.mark
    BY <1>2 DEF At, Piece
  <2>1. /\ up.file = "open" /\ up.mark = MarkLen
        /\ pc["web"] = "up_last" => m.body < 0 \/ m.up <= m.body
    BY DEF UploadInv, Alone, Fresh
  <2>2. HasSent(job["web"].from) /\ m.kind = "upfile"
    BY DEF At, TypeInv, JobInv, WebJobOK, RouteInv, KindOK, WebUpLabels, UploadLabels
  <2>3. /\ m.body \in Int /\ m.up \in Nat /\ MarkLen \in Nat
        /\ m # NoMsg /\ job["web"].from \in Conns
    BY <2>2, ConstAssumption DEF HasSent
  <2>4. ~TooShort(m)
    BY <2>3 DEF BrokenSent
  <2>5. m.body >= 0 /\ ~(m.up <= m.body /\ m.body <= MarkLen)
    BY <2>2, <2>3, <2>4 DEF TooShort
  <2> QED
    BY <2>1, <2>3, <2>5
<1> QED
  BY <1>1, <1>2 DEF Threads

LEMMA NextCrash ==
  TypeInv /\ RouteInv /\ UploadInv /\ CrashNeedsCompany /\ [Next]_vars
    => CrashNeedsCompany'
<1> SUFFICES ASSUME TypeInv, RouteInv, UploadInv, CrashNeedsCompany, [Next]_vars,
                    crashed'
             PROVE  gone' # {} \/ BrokenSent' \/ Company'
  BY DEF CrashNeedsCompany, Company, BrokenSent, TooShort
<1>1. CASE UNCHANGED vars
  BY <1>1 DEF vars, CrashNeedsCompany, Company, BrokenSent
<1>2. ASSUME NEW c, HasSent(c), sent[c].flaw # "none", sent' = sent
      PROVE  BrokenSent'
  BY <1>2, ConstAssumption DEF BrokenSent, HasSent
<1>3. pc["web"] # "idle" => HasSent(job["web"].from)
  BY DEF RouteInv, ReadOnce, WasRead
<1>4. ASSUME NEW f, NEW what, NEW from, NEW over, SendAndClose(f, what, from, over),
             gone' = gone
      PROVE  gone' # {} \/ over
  BY <1>4 DEF SendAndClose
<1>5. CASE WebReply
  <2>1. sent' = sent /\ gone' = gone /\ pc["web"] # "idle"
    BY <1>5 DEF WebReply
  <2>2. gone' # {} \/ sent[job["web"].from].flaw = "big"
    BY <1>4, <1>5, <2>1 DEF WebReply
  <2> QED
    BY <1>2, <1>3, <2>1, <2>2
<1>6. CASE WebExecuted
  <2>1. sent' = sent /\ pc["web"] # "idle" /\ sent[job["web"].from].flaw = "nil"
    BY <1>6 DEF WebExecuted, At, clientVars
  <2> QED
    BY <1>2, <1>3, <2>1
<1>7. CASE WebTake
  <2>1. /\ sent' = sent /\ webq # <<>> /\ webq \in Seq(Task)
        /\ sent[Head(webq).from].flaw # "none"
    BY <1>7 DEF WebTake, AnalyseCrash, clientVars, TypeInv, TypeOK
  <2>2. Head(webq) = webq[1] /\ 1 \in 1 .. Len(webq)
    BY <2>1
  <2>3. HasSent(Head(webq).from)
    BY <2>2 DEF RouteInv, ReadOnce, WasRead
  <2> QED
    BY <1>2, <2>1, <2>3
<1>8. ASSUME NEW t \in Threads, UpReply(t) PROVE gone' # {}
  BY <1>4, <1>8 DEF UpReply
<1>9. ASSUME NEW t \in Threads, UpMore(t) \/ UpLast(t) PROVE BrokenSent' \/ Company'
  <2>1. /\ (At(t, "up_more") \/ At(t, "up_last")) /\ UNCHANGED <<sent, unread>>
        /\ At(t, "up_more") => ~(up.file = "open" /\ Piece(t) >= 0)
        /\ At(t, "up_last") => ~(up.file = "open" /\ Piece(t) > up.mark)
    BY <1>9 DEF UpMore, UpLast, At, clientVars
  <2>2. Company \/ BrokenSent
    BY <2>1, AloneIsSafe
  <2> QED
    BY <2>1, <2>2 DEF Company, BrokenSent
<1>10. CASE crashed' = crashed /\ ~crashed
  BY <1>10
<1> QED
  BY <1>1, <1>5, <1>6, <1>7, <1>8, <1>9, <1>10
  DEF Next, Client, Connect, Send, Reset, Work, Web, Stop, Select, Accept, ScanEnd,
      Recv, Dispath, Post, CloseUnserved, ClearSlot, Upload, UpTest,
      UpReset, WebDrop, WebUpSet, WebUpOpen, StopExit,
      StopListen, StopSlot, Threads

\* The process dies only of a peer that reset its connection, of an upload that
\* ends in the headers of its part or is no longer than its boundary, of a message
\* whose own handler does not survive it, or when a second message is read while
\* an UPFILE is about: a sound upload alone, of any size and in any number of
\* pieces that one read can bring, never touches a FILE that is closed or NULL and
\* never writes more than it holds.
THEOREM CrashNeedsASecond == Spec => []CrashNeedsCompany
<1>1. Init => CrashNeedsCompany
  BY DEF Init, CrashNeedsCompany
<1> QED
  BY <1>1, NextCrash, SpecUpload, PTL DEF Spec

-----------------------------------------------------------------------------
(* Who closes a connection.  Without uploads only a failed recv, a full     *)
(* fdarray and an answer do.                                                *)

ClientsOK ==
  /\ \A j \in 1 .. Len(backlog) : conn[backlog[j]] = "backlog"
  /\ \A j, k \in 1 .. Len(backlog) : backlog[j] = backlog[k] => j = k
  /\ \A f \in Fds : fdtab[f] # NoConn => conn[fdtab[f]] = "open"
  /\ \A f, g \in Fds : fdtab[f] = fdtab[g] /\ fdtab[f] # NoConn => f = g
  /\ \A c \in Conns : conn[c] = "new" => sent[c] = NoMsg
  /\ \A c \in Conns : conn[c] = "backlog" /\ sent[c] # NoMsg => c \in unread

\* What select() found readable the scan finds readable, one slot after the
\* other: nobody else reads, and nobody closes what has not been read.
ReadyOK ==
  ~exiting /\ pc["work"] \in {"scan"} \cup BusyLabels =>
    \A f \in ready : \/ pc["work"] \in BusyLabels /\ f = slots[cur]
                     \/ fdtab[f] \in unread

NoUpfile == \A d \in Conns : sent[d] = NoMsg \/ sent[d].kind # "upfile"

CloseOK ==
  NoUpfile /\ ~exiting /\ At("work", "close") =>
    \/ fdtab[job["work"].sock] = NoConn
    \/ /\ HasSent(fdtab[job["work"].sock])
       /\ sent[fdtab[job["work"].sock]].kind = "err"

ServeInv == ClientsOK /\ ReadyOK /\ CloseOK

LEMMA InitServe == Init => ServeInv
<1> SUFFICES ASSUME Init PROVE ServeInv
  OBVIOUS
<1>1. backlog = <<>> /\ Len(backlog) = 0 /\ pc["work"] = "select"
  BY DEF Init, Threads
<1> QED
  BY <1>1, ConstAssumption
  DEF Init, ServeInv, ClientsOK, ReadyOK, CloseOK, BusyLabels, ReadLabels,
      UploadLabels, At

LEMMA CloseFdClients ==
  ASSUME TypeInv, ClientsOK, NEW f \in Fds, CloseFd(f),
         UNCHANGED <<sent, unread, backlog>>
  PROVE  ClientsOK'
<1>1. /\ \A g \in Fds : fdtab'[g] = IF g = f THEN NoConn ELSE fdtab[g]
      /\ \A c \in Conns : conn'[c] = IF c = fdtab[f] THEN "closed" ELSE conn[c]
  BY DEF CloseFd, TypeInv, TypeOK
<1>2. \A j \in 1 .. Len(backlog) : backlog[j] \in Conns
  BY ElementOfSeq DEF TypeInv, TypeOK
<1>3. fdtab[f] # NoConn => conn[fdtab[f]] = "open"
  BY DEF ClientsOK
<1>4. \A g \in Fds : fdtab[g] \in Conns \cup {NoConn}
  BY DEF TypeInv, TypeOK
<1>5. \A j \in 1 .. Len(backlog') : conn'[backlog'[j]] = "backlog"
  BY <1>1, <1>2, <1>3, ConstAssumption DEF ClientsOK
<1>6. \A g \in Fds : fdtab'[g] # NoConn => conn'[fdtab'[g]] = "open"
  BY <1>1, <1>4 DEF ClientsOK
<1>7. \A g, h \in Fds : fdtab'[g] = fdtab'[h] /\ fdtab'[g] # NoConn => g = h
  BY <1>1 DEF ClientsOK
<1> QED
  BY <1>1, <1>5, <1>6, <1>7 DEF ClientsOK

LEMMA AcceptClients == TypeInv /\ ClientsOK /\ Accept => ClientsOK'
<1> SUFFICES ASSUME TypeInv, ClientsOK, Accept PROVE ClientsOK'
  OBVIOUS
<1>1. UNCHANGED <<sent, unread>>
  BY DEF Accept
<1>2. CASE UNCHANGED <<conn, backlog, fdtab>>
  BY <1>1, <1>2 DEF ClientsOK
<1>3. CASE ~UNCHANGED <<conn, backlog, fdtab>>
  <2> DEFINE c == Head(backlog)
  <2>1. PICK f \in Fds :
          /\ f \in FreeFds /\ listening /\ backlog' = Tail(backlog)
          /\ \/ conn' = [conn EXCEPT ![c] = "closed"] /\ fdtab' = fdtab
             \/ conn' = [conn EXCEPT ![c] = "open"] /\ fdtab' = [fdtab EXCEPT ![f] = c]
    BY <1>3 DEF Accept, IsLeast, TurnAway
  <2>2. backlog # <<>> /\ backlog \in Seq(Conns)
    BY <2>1 DEF Accept, TypeInv, TypeOK, JobInv, BacklogOK
  <2>3. /\ Len(backlog) \in Nat \ {0} /\ Len(backlog') = Len(backlog) - 1
        /\ \A j \in 1 .. Len(backlog') : backlog'[j] = backlog[j + 1]
        /\ c = backlog[1]
    BY <2>1, <2>2
  <2>4. \A j \in 1 .. Len(backlog) : backlog[j] \in Conns
    BY <2>2, ElementOfSeq
  <2>5. 1 \in 1 .. Len(backlog) /\ \A j \in 1 .. Len(backlog') : j + 1 \in 1 .. Len(backlog)
    BY <2>3
  <2>6. c \in Conns /\ conn[c] = "backlog"
    BY <2>3, <2>4, <2>5 DEF ClientsOK
  <2>7. \A j \in 1 .. Len(backlog') : backlog'[j] # c
    <3>1. ASSUME NEW j \in 1 .. Len(backlog') PROVE backlog'[j] # c
      <4>1. j + 1 \in 1 .. Len(backlog) /\ j + 1 # 1 /\ backlog'[j] = backlog[j + 1]
        BY <2>3, <2>5
      <4> QED
        BY <2>3, <2>5, <4>1 DEF ClientsOK
    <3> QED
      BY <3>1
  <2>8. \A d \in Conns : d # c => conn'[d] = conn[d]
    BY <2>1 DEF TypeInv, TypeOK
  <2>9. conn'[c] \in {"closed", "open"}
    BY <2>1, <2>6 DEF TypeInv, TypeOK
  <2>10. \A j \in 1 .. Len(backlog') : conn'[backlog'[j]] = "backlog"
    BY <2>3, <2>4, <2>5, <2>7, <2>8 DEF ClientsOK
  <2>11. \A j, k \in 1 .. Len(backlog') : backlog'[j] = backlog'[k] => j = k
    BY <2>3, <2>5 DEF ClientsOK
  <2>12. \A g \in Fds : fdtab[g] # c
    BY <2>6, ConstAssumption DEF ClientsOK
  <2>13. /\ \A g \in Fds : fdtab'[g] # NoConn => conn'[fdtab'[g]] = "open"
         /\ \A g, h \in Fds : fdtab'[g] = fdtab'[h] /\ fdtab'[g] # NoConn => g = h
    <3>1. \A g \in Fds : fdtab[g] \in Conns \cup {NoConn}
      BY DEF TypeInv, TypeOK
    <3>2. CASE fdtab' = fdtab
      BY <2>8, <2>12, <3>1, <3>2 DEF ClientsOK
    <3>3. CASE conn' = [conn EXCEPT ![c] = "open"] /\ fdtab' = [fdtab EXCEPT ![f] = c]
      <4>1. conn'[c] = "open" /\ \A g \in Fds : fdtab'[g] = IF g = f THEN c ELSE fdtab[g]
        BY <2>6, <3>3 DEF TypeInv, TypeOK
      <4> QED
        BY <2>8, <2>12, <3>1, <4>1 DEF ClientsOK
    <3> QED
      BY <2>1, <3>2, <3>3
  <2> QED
    BY <1>1, <2>8, <2>9, <2>10, <2>11, <2>13 DEF ClientsOK
<1> QED
  BY <1>2, <1>3

LEMMA ConnectClients ==
  ASSUME TypeInv, ClientsOK, NEW c \in Conns, Connect(c) PROVE ClientsOK'
<1>1. /\ conn[c] = "new" /\ conn' = [conn EXCEPT ![c] = "backlog"]
      /\ backlog' = Append(backlog, c) /\ backlog \in Seq(Conns)
      /\ UNCHANGED <<sent, unread, fdtab>>
  BY DEF Connect, TypeInv, TypeOK
<1>2. /\ Len(backlog') = Len(backlog) + 1 /\ Len(backlog) \in Nat
      /\ \A j \in 1 .. Len(backlog) : backlog'[j] = backlog[j]
      /\ backlog'[Len(backlog) + 1] = c
  BY <1>1
<1>3. \A j \in 1 .. Len(backlog) : backlog[j] \in Conns /\ backlog[j] # c
  BY <1>1, ElementOfSeq DEF ClientsOK
<1>4. \A d \in Conns : conn'[d] = IF d = c THEN "backlog" ELSE conn[d]
  BY <1>1 DEF TypeInv, TypeOK
<1>5. \A j, k \in 1 .. Len(backlog') : backlog'[j] = backlog'[k] => j = k
  BY <1>2, <1>3 DEF ClientsOK
<1>6. \A j \in 1 .. Len(backlog') : conn'[backlog'[j]] = "backlog"
  BY <1>2, <1>3, <1>4 DEF ClientsOK
<1>7. \A f \in Fds : fdtab[f] \in Conns \cup {NoConn}
  BY DEF TypeInv, TypeOK
<1> QED
  BY <1>1, <1>4, <1>5, <1>6, <1>7 DEF ClientsOK

LEMMA NextClients == TypeInv /\ ClientsOK /\ [Next]_vars => ClientsOK'
<1> SUFFICES ASSUME TypeInv, ClientsOK, [Next]_vars PROVE ClientsOK'
  OBVIOUS
<1>1. ASSUME NEW c \in Conns, NEW m \in Messages, Send(c, m) PROVE ClientsOK'
  BY <1>1 DEF Send, ClientsOK, TypeInv, TypeOK
<1>2. CASE Recv
  <2>1. PICK i \in Slot :
          /\ i \in Todo /\ UNCHANGED <<conn, sent, backlog, fdtab>>
          /\ unread' = unread \ {fdtab[slots[i]]} \/ unread' = unread
    BY <1>2 DEF Recv, IsLeast
  <2>2. slots[i] \in Fds
    BY <2>1 DEF Todo, TypeInv, TypeOK
  <2>3. \A c \in Conns : conn[c] = "backlog" => c # fdtab[slots[i]]
    BY <2>2, ConstAssumption DEF ClientsOK
  <2> QED
    BY <2>1, <2>3 DEF ClientsOK
<1>3. CASE CloseUnserved
  <2>1. job["work"].sock \in Fds
    BY <1>3 DEF CloseUnserved, At, TypeInv, JobInv, WorkJobOK, BusyLabels
  <2> QED
    BY <1>3, <2>1, CloseFdClients DEF CloseUnserved
<1>4. ASSUME NEW t \in Threads, UpReply(t) PROVE ClientsOK'
  <2>1. job[t].sock \in Fds
    BY <1>4 DEF UpReply, At, TypeInv, JobInv, WorkJobOK, WebJobOK, BusyLabels,
                ReadLabels, UploadLabels, Threads
  <2> QED
    BY <1>4, <2>1, CloseFdClients DEF UpReply, SendAndClose
<1>5. CASE WebReply
  <2>1. job["web"].sock \in Fds
    BY <1>5 DEF WebReply, At, TypeInv, JobInv, WebJobOK
  <2> QED
    BY <1>5, <2>1, CloseFdClients DEF WebReply, SendAndClose
<1>6. CASE StopSlot
  <2>1. slots[closer + 1] # 0 => slots[closer + 1] \in Fds
    BY <1>6, ConstAssumption DEF StopSlot, TypeInv, TypeOK, Slot
  <2>2. CASE slots[closer + 1] # 0
    BY <1>6, <2>1, <2>2, CloseFdClients DEF StopSlot
  <2>3. CASE slots[closer + 1] = 0
    BY <1>6, <2>3 DEF StopSlot, ClientsOK
  <2> QED
    BY <2>2, <2>3
<1>7. CASE StopListen
  <2>1. /\ \A c \in Conns : conn'[c] = IF conn[c] = "backlog" THEN "closed" ELSE conn[c]
        /\ Len(backlog') = 0 /\ UNCHANGED <<sent, unread, fdtab>>
    BY <1>7 DEF StopListen
  <2>2. \A f \in Fds : fdtab[f] \in Conns \cup {NoConn}
    BY DEF TypeInv, TypeOK
  <2> QED
    BY <2>1, <2>2 DEF ClientsOK
<1>8. CASE UNCHANGED <<conn, sent, unread, backlog, fdtab>>
  BY <1>8 DEF ClientsOK
<1> QED
  BY <1>1, <1>2, <1>3, <1>4, <1>5, <1>6, <1>7, <1>8, AcceptClients, ConnectClients
  DEF Next, Client, Reset, Work, Web, Stop, Select, ScanEnd, Dispath, Post, ClearSlot,
      Upload, UpTest, UpMore, UpLast, UpReset, WebTake, WebExecuted, WebDrop, WebUpSet,
      WebUpOpen, StopExit, clientVars, vars, Threads

\* A step that is not the work thread's leaves it where it is, and takes no
\* unread message away from a descriptor.
LEMMA OthersStep ==
  ASSUME TypeInv, RouteInv, [Next]_vars, ~Work, ~exiting'
  PROVE  /\ ~exiting /\ UNCHANGED <<slots, cur, ready>>
         /\ pc'["work"] = pc["work"] /\ job'["work"] = job["work"]
         /\ \A f \in Fds : fdtab[f] \in unread => fdtab'[f] \in unread'
<1>1. /\ ~exiting /\ UNCHANGED <<slots, cur, ready>>
      /\ pc'["work"] = pc["work"] /\ job'["work"] = job["work"]
  <2>1. CASE Client \/ Stop \/ UNCHANGED vars
    BY <2>1 DEF Client, Connect, Send, Reset, Stop, StopExit, StopListen, StopSlot,
                exiting, workVars, vars, TypeInv, TypeOK
  <2>2. CASE Web
    BY <2>2
    DEF Web, WebTake, WebExecuted, WebReply, WebDrop, WebUpSet, WebUpOpen, Upload,
        UpTest, UpMore, UpLast, UpReset, UpReply, UpReturn, Goto, exiting, workVars,
        TypeInv, TypeOK, Threads
  <2> QED
    BY <2>1, <2>2 DEF Next
<1>2. ASSUME NEW f \in Fds, fdtab[f] \in unread PROVE fdtab'[f] \in unread'
  <2>1. ASSUME pc["web"] # "idle", CloseFd(job["web"].sock) PROVE fdtab'[f] = fdtab[f]
    <3>1. InOrder(job["web"].sock, job["web"].from) /\ WasRead(job["web"].from)
      BY <2>1 DEF RouteInv, RouteOK, ReadOnce
    <3>2. fdtab[job["web"].sock] # fdtab[f]
      BY <1>2, <3>1, ConstAssumption DEF InOrder, WasRead, TypeInv, JobInv, UnreadOK,
                                         HasSent
    <3> QED
      BY <2>1, <3>2 DEF CloseFd, TypeInv, TypeOK
  <2>2. CASE WebReply \/ UpReply("web")
    <3>1. /\ pc["web"] # "idle" /\ CloseFd(job["web"].sock) /\ unread' = unread
      BY <2>2 DEF WebReply, UpReply, At, SendAndClose
    <3> QED
      BY <1>2, <2>1, <3>1
  <2>3. CASE ~WebReply /\ ~UpReply("web")
    <3>1. fdtab' = fdtab /\ unread \subseteq unread'
      <4>1. CASE Client \/ UNCHANGED vars
        BY <4>1 DEF Client, Connect, Send, Reset, vars
      <4>2. CASE Web
        BY <2>3, <4>2
        DEF Web, WebTake, WebExecuted, WebDrop, WebUpSet, WebUpOpen, Upload, UpTest,
            UpMore, UpLast, UpReset, clientVars
      <4>3. CASE Stop
        BY <1>1, <4>3
        DEF Stop, StopExit, StopListen, StopSlot, clientVars, exiting
      <4> QED
        BY <4>1, <4>2, <4>3 DEF Next
    <3> QED
      BY <1>2, <3>1
  <2> QED
    BY <2>2, <2>3
<1> QED
  BY <1>1, <1>2

\* One lemma says what each step of the work thread does to its scan.
LEMMA WorkReady ==
  ASSUME TypeInv, ClientsOK, ReadyOK, Work, ~exiting'
  PROVE  ReadyOK'
<1> USE DEF TypeInv, TypeOK, Threads, At, Goto, BusyLabels, ReadLabels, UploadLabels,
            exiting
<1>1. CASE Select
  <2>1. CASE pc'["work"] = "scan"
    <3>1. ready' = Readable /\ UNCHANGED <<fdtab, unread>>
      BY <1>1, <2>1 DEF Select, clientVars
    <3> QED
      BY <3>1 DEF ReadyOK, Readable
  <2>2. CASE pc'["work"] # "scan"
    BY <1>1, <2>2 DEF Select, ReadyOK
  <2> QED
    BY <2>1, <2>2
<1>2. CASE Accept \/ ScanEnd
  BY <1>2 DEF Accept, ScanEnd, ReadyOK
<1>3. CASE Recv
  <2>1. PICK i \in Slot :
          /\ i \in Todo /\ cur' = i /\ UNCHANGED <<slots, ready, fdtab, closer>>
          /\ unread' = unread \ {fdtab[slots[i]]} \/ unread' = unread
          /\ pc["work"] = "scan" /\ pc'["work"] \in {"close", "dispath"}
    BY <1>3 DEF Recv, IsLeast
  <2>2. slots[i] \in Fds /\ ready \subseteq Fds
    BY <2>1 DEF Todo
  <2>3. ASSUME NEW f \in ready, f # slots[i] PROVE fdtab[f] \in unread'
    <3>1. fdtab[f] \in unread /\ fdtab[f] # NoConn
      BY <2>1, <2>3, ConstAssumption DEF ReadyOK
    <3>2. fdtab[f] # fdtab[slots[i]]
      BY <2>2, <2>3, <3>1 DEF ClientsOK
    <3> QED
      BY <2>1, <3>1, <3>2
  <2> QED
    BY <2>1, <2>3 DEF ReadyOK
<1>4. CASE Dispath \/ Post
  BY <1>4 DEF Dispath, Post, PostReturn, ReadyOK, workVars, clientVars
<1>5. ASSUME NEW f \in Fds, CloseFd(f), f = slots[cur]
      PROVE  \A g \in ready : g # slots[cur] => fdtab'[g] = fdtab[g]
  BY <1>5 DEF CloseFd
<1>6. CASE CloseUnserved
  <2>1. /\ job["work"].sock = slots[cur] /\ slots[cur] \in Fds
        /\ CloseFd(job["work"].sock)
        /\ UNCHANGED <<slots, cur, ready, unread, closer>>
        /\ pc["work"] = "close" /\ pc'["work"] = "clear"
    BY <1>6 DEF CloseUnserved, JobInv, WorkJobOK, workVars
  <2> QED
    BY <1>5, <2>1 DEF ReadyOK
<1>7. CASE ClearSlot
  <2>1. /\ ready' = ready \ {slots[cur]} /\ UNCHANGED <<fdtab, unread, closer>>
        /\ pc["work"] = "clear" /\ pc'["work"] = "scan"
    BY <1>7 DEF ClearSlot, clientVars
  <2> QED
    BY <2>1 DEF ReadyOK
<1>8. CASE UpReply("work")
  <2>1. /\ job["work"].sock = slots[cur] /\ slots[cur] \in Fds
        /\ CloseFd(job["work"].sock)
        /\ UNCHANGED <<slots, cur, ready, unread, closer>>
        /\ pc["work"] = "up_reply" /\ pc'["work"] = "clear"
    BY <1>8 DEF UpReply, UpReturn, SendAndClose, JobInv, WorkJobOK, workVars
  <2> QED
    BY <1>5, <2>1 DEF ReadyOK
<1>9. CASE UpTest("work") \/ UpMore("work") \/ UpLast("work") \/ UpReset("work")
  <2>1. /\ UNCHANGED <<slots, cur, ready, unread, fdtab, closer>>
        /\ pc["work"] \in UploadLabels /\ pc'["work"] \in BusyLabels
    BY <1>9 DEF UpTest, UpMore, UpLast, UpReset, UpReturn, workVars, clientVars
  <2> QED
    BY <2>1 DEF ReadyOK
<1> QED
  BY <1>1, <1>2, <1>3, <1>4, <1>6, <1>7, <1>8, <1>9 DEF Work, Upload

LEMMA NextReady ==
  TypeInv /\ RouteInv /\ ClientsOK /\ ReadyOK /\ [Next]_vars => ReadyOK'
<1> SUFFICES ASSUME TypeInv, RouteInv, ClientsOK, ReadyOK, [Next]_vars, ~exiting'
             PROVE  ReadyOK'
  BY DEF ReadyOK
<1>1. CASE Work
  BY <1>1, WorkReady
<1>2. CASE ~Work
  <2>1. ready \subseteq Fds
    BY DEF TypeInv, TypeOK
  <2> QED
    BY <1>2, <2>1, OthersStep DEF ReadyOK
<1> QED
  BY <1>1, <1>2

LEMMA NoUpfileQuiet ==
  ASSUME TypeInv, UploadOK, NoUpfile
  PROVE  pc["work"] \notin UploadLabels
<1>1. ~\E e : Uploader(e)
  BY ConstAssumption DEF NoUpfile, Uploader, WasRead, HasSent
<1> QED
  BY <1>1 DEF UploadOK

\* The work thread gets ready to close a socket only after recv has failed: the
\* peer has reset the connection.
LEMMA NextClose ==
  TypeInv /\ OwnInv /\ RouteInv /\ UploadOK /\ ServeInv /\ [Next]_vars => CloseOK'
<1> SUFFICES ASSUME TypeInv, OwnInv, RouteInv, UploadOK, ServeInv, [Next]_vars,
                    NoUpfile', ~exiting', pc'["work"] = "close",
                    fdtab'[job'["work"].sock] # NoConn
             PROVE  /\ HasSent(fdtab[job["work"].sock])'
                    /\ sent'[fdtab'[job'["work"].sock]].kind = "err"
  BY DEF CloseOK, At
<1>1. \A c \in Conns : sent[c] # NoMsg => sent'[c] = sent[c]
  BY SentStays
<1>2. NoUpfile
  BY <1>1 DEF NoUpfile
<1>3. pc["work"] \notin UploadLabels
  BY <1>2, NoUpfileQuiet
<1>4. CASE Recv
  <2>1. PICK i \in Slot :
          /\ i \in Todo /\ UNCHANGED <<fdtab, sent, closer>>
          /\ pc["work"] = "scan" /\ job'["work"].sock = slots[i]
          /\ fdtab[slots[i]] \in unread => sent[fdtab[slots[i]]].raw < 0
    BY <1>4 DEF Recv, IsLeast, At, Goto, TypeInv, TypeOK, Threads
  <2>2. slots[i] \in ready
    BY <2>1 DEF Todo
  <2>3. fdtab[slots[i]] \in unread
    BY <2>1, <2>2 DEF ServeInv, ReadyOK, exiting, BusyLabels, ReadLabels, UploadLabels
  <2>4. HasSent(fdtab[slots[i]]) /\ sent[fdtab[slots[i]]].raw < 0
    BY <2>1, <2>3 DEF TypeInv, JobInv, UnreadOK
  <2>5. /\ sent[fdtab[slots[i]]].raw \in Nat \cup {-1}
        /\ sent[fdtab[slots[i]]].raw = -1 => sent[fdtab[slots[i]]].kind = "err"
    BY <2>4, ConstAssumption DEF HasSent
  <2> QED
    BY <2>1, <2>4, <2>5 DEF HasSent
<1>5. CASE Work /\ ~Recv
  BY <1>3, <1>5
  DEF Work, Select, Accept, ScanEnd, Dispath, Post, PostReturn, CloseUnserved,
      ClearSlot, Upload, UpTest, UpMore, UpLast, UpReset, UpReply, At, Goto,
      UploadLabels, TypeInv, TypeOK, Threads
<1>6. CASE ~Work
  <2>1. ~exiting /\ pc["work"] = "close" /\ job'["work"] = job["work"]
    BY <1>6, OthersStep
  <2>2. job["work"].sock \in Fds
    BY <2>1 DEF TypeInv, JobInv, WorkJobOK, BusyLabels
  <2>3. fdtab'[job["work"].sock] = fdtab[job["work"].sock]
    BY <2>1, <2>2, FdtabShrinks
  <2>4. /\ HasSent(fdtab[job["work"].sock])
        /\ sent[fdtab[job["work"].sock]].kind = "err"
    BY <1>2, <2>1, <2>3 DEF ServeInv, CloseOK, At
  <2>5. sent'[fdtab[job["work"].sock]] = sent[fdtab[job["work"].sock]]
    BY <1>1, <2>4, ConstAssumption DEF HasSent
  <2> QED
    BY <2>1, <2>3, <2>4, <2>5 DEF HasSent
<1> QED
  BY <1>4, <1>5, <1>6 DEF Work

LEMMA SpecServe ==
  Spec => [](TypeInv /\ OwnInv /\ RouteInv /\ UploadInv /\ ServeInv)
<1>1. TypeInv /\ OwnInv /\ RouteInv /\ UploadInv /\ ServeInv /\ [Next]_vars => ServeInv'
  BY NextClients, NextReady, NextClose DEF ServeInv, UploadInv
<1> QED
  BY <1>1, SpecUpload, InitServe, PTL DEF Spec

\* A client's connection is closed with an answer, or for one of the reasons
\* NeverSilent leaves out.
LEMMA ClosedAnswered ==
  ASSUME TypeInv, RouteInv, ServeInv, UploadOK, NoUpfile, NeverSilent, [Next]_vars,
         ~exiting', NEW c \in Conns,
         conn'[c] = "closed", sent'[c] # NoMsg, c \notin unread', c \notin gone',
         sent'[c].kind # "err"
  PROVE  answers'[c] # {}
<1>1. /\ \A d \in Conns : answers[d] \subseteq answers'[d] /\ gone \subseteq gone'
      /\ ~exiting
  <2>1. ASSUME NEW f, NEW what, NEW from, NEW over, SendAndClose(f, what, from, over)
        PROVE  \A d \in Conns : answers[d] \subseteq answers'[d]
    BY <2>1 DEF SendAndClose, TypeInv, TypeOK
  <2>2. CASE WebReply
    BY <2>1, <2>2 DEF WebReply, exiting
  <2>3. ASSUME NEW t \in Threads, UpReply(t)
        PROVE  /\ \A d \in Conns : answers[d] \subseteq answers'[d]
               /\ gone' = gone /\ ~exiting
    BY <2>1, <2>3 DEF UpReply, exiting
  <2>4. CASE answers' = answers /\ gone \subseteq gone' /\ (exiting => exiting')
    BY <2>4
  <2>5. CASE Stop
    BY <2>5 DEF Stop, StopExit, StopListen, StopSlot, clientVars, histVars, exiting,
                TypeInv, TypeOK
  <2> QED
    BY <2>2, <2>3, <2>4, <2>5
    DEF Next, Client, Connect, Send, Reset, Work, Web, Select, Accept, ScanEnd,
        Recv, Dispath, Post, CloseUnserved, ClearSlot, Upload, UpTest, UpMore, UpLast,
        UpReset, WebTake, WebExecuted, WebDrop, WebUpSet, WebUpOpen, histVars,
        clientVars, vars, Threads, exiting
<1>2. CASE conn[c] = "closed"
  <2>1. sent'[c] = sent[c]
    BY <1>2
    DEF Next, Client, Connect, Send, Reset, Work, Web, Stop, Select, Accept, ScanEnd,
        Recv, Dispath, Post, CloseUnserved, ClearSlot, Upload, UpTest, UpMore, UpLast,
        UpReset, UpReply, WebTake, WebExecuted, WebReply, WebDrop, WebUpSet, WebUpOpen,
        StopExit, StopListen, StopSlot, clientVars, vars, TypeInv, TypeOK
  <2>2. c \notin unread
    <3>1. CASE Recv
      <4>1. PICK i \in Slot : /\ i \in Todo
                              /\ unread' = unread \ {fdtab[slots[i]]} \/ unread' = unread
        BY <3>1 DEF Recv, IsLeast
      <4>2. slots[i] \in Fds
        BY <4>1 DEF Todo, TypeInv, TypeOK
      <4>3. fdtab[slots[i]] # c
        BY <1>2, <4>2, ConstAssumption DEF ServeInv, ClientsOK
      <4> QED
        BY <4>1, <4>3
    <3>2. CASE ~Recv
      BY <3>2
      DEF Next, Client, Connect, Send, Reset, Work, Web, Stop, Select, Accept, ScanEnd,
          Dispath, Post, CloseUnserved, ClearSlot, Upload, UpTest, UpMore, UpLast,
          UpReset, UpReply, WebTake, WebExecuted, WebReply, WebDrop, WebUpSet,
          WebUpOpen, StopExit, StopListen, StopSlot, clientVars, vars
    <3> QED
      BY <3>1, <3>2
  <2>3. answers[c] # {}
    BY <1>1, <1>2, <2>1, <2>2 DEF NeverSilent, NoUpfile
  <2> QED
    BY <1>1, <2>3
<1>3. CASE conn[c] # "closed"
  <2>1. CASE WebReply
    <3>1. /\ fdtab[job["web"].sock] = c /\ gone' = gone
          /\ SendAndClose(job["web"].sock, IF At("web", "reply") THEN "lua" ELSE "file",
                          job["web"].from,
                          At("web", "reply") /\ sent[job["web"].from].flaw = "big")
      BY <1>3, <2>1 DEF WebReply, SendAndClose, CloseFd
    <3>2. answers' = [answers EXCEPT ![c] = @ \cup
                        {<<IF At("web", "reply") THEN "lua" ELSE "file", job["web"].from>>}]
      BY <3>1 DEF SendAndClose
    <3> QED
      BY <3>2 DEF TypeInv, TypeOK
  <2>2. CASE CloseUnserved
    <3>1. fdtab[job["work"].sock] = c /\ At("work", "close") /\ sent' = sent
      BY <1>3, <2>2 DEF CloseUnserved, CloseFd
    <3>2. sent[c].kind = "err"
      BY <1>1, <3>1, ConstAssumption DEF ServeInv, CloseOK
    <3> QED
      BY <3>1, <3>2
  <2>3. CASE Accept
    <3>1. c = Head(backlog) /\ backlog # <<>> /\ backlog \in Seq(Conns)
          /\ UNCHANGED <<sent, unread>>
      BY <1>3, <2>3 DEF Accept, At, TypeInv, TypeOK, JobInv, BacklogOK
    <3>2. c = backlog[1] /\ 1 \in 1 .. Len(backlog)
      BY <3>1
    <3>3. conn[c] = "backlog"
      BY <3>2 DEF ServeInv, ClientsOK
    <3> QED
      BY <3>1, <3>3 DEF ServeInv, ClientsOK
  <2>4. ASSUME NEW t \in Threads, UpReply(t) PROVE FALSE
    <3>1. pc["work"] \notin UploadLabels
      BY NoUpfileQuiet
    <3>2. t = "web" /\ pc["web"] = "up_reply"
      BY <2>4, <3>1 DEF UpReply, At, Threads, UploadLabels
    <3>3. HasSent(job["web"].from) /\ sent[job["web"].from].kind = "upfile"
      BY <3>2 DEF TypeInv, JobInv, WebJobOK, RouteInv, KindOK, WebUpLabels, UploadLabels
    <3> QED
      BY <3>3, ConstAssumption DEF NoUpfile, HasSent
  <2>5. CASE Stop
    BY <1>1, <1>3, <2>5 DEF Stop, StopExit, StopListen, StopSlot, exiting, clientVars,
                            TypeInv, TypeOK
  <2>6. CASE \E d \in Conns : Connect(d)
    BY <1>3, <2>6 DEF Connect, TypeInv, TypeOK
  <2>7. CASE conn' = conn
    BY <1>3, <2>7
  <2> QED
    BY <2>1, <2>2, <2>3, <2>4, <2>5, <2>6, <2>7
    DEF Next, Client, Send, Reset, Work, Web, Select, ScanEnd,
        Recv, Dispath, Post, ClearSlot, Upload, UpTest, UpMore, UpLast,
        UpReset, WebTake, WebExecuted, WebDrop, WebUpSet, WebUpOpen,
        clientVars, vars, Threads
<1> QED
  BY <1>2, <1>3

\* No client is dropped in silence: as long as no UPFILE has been sent, a client
\* whose message was read has an answer by the time its connection is closed,
\* unless it reset the connection itself or the server is being stopped.
THEOREM NobodyDropped == Spec => []NeverSilent
<1>1. Init => NeverSilent
  BY DEF Init, NeverSilent
<1>2. TypeInv /\ OwnInv /\ RouteInv /\ UploadInv /\ ServeInv /\ NeverSilent /\ [Next]_vars
        => NeverSilent'
  <2> SUFFICES ASSUME TypeInv, RouteInv, UploadInv, ServeInv, NeverSilent, [Next]_vars,
                      NoUpfile', NEW c \in Conns,
                      conn'[c] = "closed", sent'[c] # NoMsg, c \notin unread',
                      c \notin gone', sent'[c].kind # "err", ~exiting'
               PROVE  answers'[c] # {}
    BY DEF NeverSilent, NoUpfile
  <2>1. \A d \in Conns : sent[d] # NoMsg => sent'[d] = sent[d]
    BY SentStays
  <2>2. NoUpfile
    BY <2>1 DEF NoUpfile
  <2> QED
    BY <2>2, ClosedAnswered DEF UploadInv
<1> QED
  BY <1>1, <1>2, SpecServe, PTL DEF Spec
=============================================================================
