---------------------------------- MODULE Pnp ----------------------------------
(***************************************************************************)
(* The network cameras of the webcam module (modules/webcam/pnppr.cpp): a  *)
(* thread of each camera finds it (query), logs in and receives JPEG       *)
(* images in numbered parts over UDP, which loses, repeats and reorders    *)
(* them; work puts an image together in vframe and shows it when its last  *)
(* part comes.  The receive buffer and the counter echo are static         *)
(* variables of work: all the cameras share them.                          *)
(*                                                                         *)
(* A camera sends the parts of Stream in every session; a receive may give *)
(* any of those that reach it.  What is sent back (acknowledgements and    *)
(* heartbeats) and the waiting for frames and for the end (module Webcam)  *)
(* are left out.                                                           *)
(***************************************************************************)
EXTENDS Integers, Sequences, FiniteSetsExt

CONSTANTS
  Cameras,
  Ends,      \* Ends[k]: the number of the last part of image k
  Marked,    \* the parts, but first ones, whose data begins with 0xFF
  Reaches,   \* Reaches[c]: the parts of the stream that are not always lost on the way
  Modulus,   \* part numbers are kept in two bytes
  Timeouts,  \* the values of echo up to which a receive without an answer and a
  Beats,     \* heartbeat are let pass: 4 and 6
  MaxLogins  \* bound on the sessions of all the cameras

ASSUME PnpAssumption ==
  /\ Ends \in Seq(Nat \ {0}) /\ Ends # <<>>
  /\ \A j, k \in DOMAIN Ends : j < k => Ends[j] < Ends[k]
  /\ \A c \in Cameras : Reaches[c] \subseteq 1 .. Ends[Len(Ends)]
  /\ Modulus \in Nat \ {0, 1} /\ MaxLogins \in Nat
  /\ Timeouts \in Nat /\ Beats \in Nat

VARIABLES
  status,   \* status[c]: 0 unknown, 1 found, 2 logged in (m_status)
  session,  \* session[c]: the number of its last login
  logins,   \* logins so far
  vframe,   \* vframe[c]: part numbers to parts
  echo,     \* static: receives without data
  got,      \* got[c]: the length recvfrom gave to the thread of c, and the part
            \* that the static buffer has now, until the thread has used it
  shown,    \* shown[c]: the image work has given to setframe since recvfrom, as its
            \* parts
  quiet,    \* no more parts come
  since,    \* since[c]: what an observer saw handled since the last first part, with
            \* that, and before the last recvfrom: parts of the camera's session by
            \* their number, any other as Stray.  As soon as they are not all of
            \* one image and before its end, {Stray} is kept
  latest    \* latest[c]: the part handled since recvfrom, Stray, or 0 for none

pnpVars == <<status, session, logins, vframe, echo, got, shown, quiet, since, latest>>
frameVars == <<vframe, shown, since, latest>>

Images == DOMAIN Ends

\* The first and the last part of image k in the numbering of a session.
Start(k)  == IF k = 1 THEN 1 ELSE Ends[k - 1] + 1
Finish(k) == Ends[k]
Stream    == 1 .. Finish(Len(Ends))

\* A part of the session in "login", or of another camera's.
Another  == 0
Parts    == [login : {Another} \cup 1 .. MaxLogins, n : Stream]

\* What the bytes of part n say: FFD8 at offset 40, FFD9 at the end.
FirstParts == {Start(k) : k \in Images}
LastParts  == {Finish(k) : k \in Images}
IsFirst(n) == n \in FirstParts
IsLast(n)  == n \in LastParts
IsMark(n)  == IsFirst(n) \/ n \in Marked
Index(n)   == (n - 1) % Modulus

-----------------------------------------------------------------------------
(* work: a part in vframe                                                  *)

Nothing == << >>
NoPart  == [login |-> Another, n |-> 0]
Got(len, part) == [len |-> len, part |-> part]
Idle    == Got("idle", NoPart)
Put(frame, p) == [i \in DOMAIN frame \cup {Index(p.n)} |-> IF i = Index(p.n) THEN p ELSE frame[i]]

Lowest(frame)  == Min(DOMAIN frame)
Highest(frame) == Max(DOMAIN frame)

\* Mutants of Contiguous: nothing is missing; the 1 is forgotten.
Anything(frame) == TRUE
OffByOne(frame) == Highest(frame) - Lowest(frame) = Cardinality(DOMAIN frame)

Contiguous(frame) == Highest(frame) - Lowest(frame) + 1 = Cardinality(DOMAIN frame)

\* The parts in the order of their numbers.
Place(frame, i) == Cardinality({j \in DOMAIN frame : j <= i})
Joined(frame) ==
  [m \in 1 .. Cardinality(DOMAIN frame) |->
     frame[CHOOSE i \in DOMAIN frame : Place(frame, i) = m]]

Shows(c, frame) == shown' = [shown EXCEPT ![c] = frame]

\* The three branches: a first part starts anew, even when it is the last as
\* well; a last one shows what looks like an image, and starts anew.
FirstPart(c, p) ==
  /\ vframe' = [vframe EXCEPT ![c] = Put(Nothing, p)]
  /\ Shows(c, << >>)

LastPart(c, p) ==
  LET frame == Put(vframe[c], p)
  IN  /\ vframe' = [vframe EXCEPT ![c] = Nothing]
      /\ Shows(c, IF IsMark(frame[Lowest(frame)].n) /\ Contiguous(frame)
                   THEN Joined(frame) ELSE << >>)

MiddlePart(c, p) ==
  /\ vframe' = [vframe EXCEPT ![c] = Put(@, p)]
  /\ Shows(c, << >>)

\* What an observer of the parts notes, when work has handled one and when the
\* thread asks for the next.
Stray      == -1
Seen(c, p) == IF p.login = session[c] THEN p.n ELSE Stray

Note(c, p) ==
  /\ latest' = [latest EXCEPT ![c] = Seen(c, p)]
  /\ since' = [since EXCEPT ![c] = IF IsFirst(p.n) THEN {} ELSE @]

Passed(c) ==
  LET all == since[c] \cup ({latest[c]} \ {0})
  IN  IF \E k \in Images : all \subseteq Start(k) .. Finish(k) - 1 THEN all ELSE {Stray}

TurnOver(c) ==
  /\ since' = [since EXCEPT ![c] = Passed(c)]
  /\ latest' = [latest EXCEPT ![c] = 0]
  /\ Shows(c, << >>)

\* The part in the buffer.  When another thread put it there, the length is that
\* of another part, and the test of the last two bytes may go either way.
Frame(c) ==
  LET p == got[c].part
  IN  /\ \/ IsFirst(p.n) /\ FirstPart(c, p)
         \/ ~IsFirst(p.n) /\ (IsLast(p.n) \/ p.login = Another) /\ LastPart(c, p)
         \/ ~IsFirst(p.n) /\ (~IsLast(p.n) \/ p.login = Another) /\ MiddlePart(c, p)
      /\ Note(c, p)
      /\ echo' = 0
      /\ UNCHANGED status

-----------------------------------------------------------------------------
(* work: nothing, or a heartbeat of four bytes                             *)

\* Mutant of Counted: the receives without data are not counted.
Uncounted == echo

Counted == echo + 1

\* The socket is closed; the parts in vframe stay.
Close(c, next) ==
  /\ status' = [status EXCEPT ![c] = next]
  /\ echo' = 0

Empty(c, limit, next) ==
  /\ IF echo > limit THEN Close(c, next) ELSE echo' = Counted /\ UNCHANGED status
  /\ UNCHANGED frameVars

-----------------------------------------------------------------------------
(* Steps of the thread of a camera                                         *)

\* query: the camera answers one of ten broadcasts, or the loop asks again.
Query(c) ==
  /\ status[c] = 0
  /\ status' = [status EXCEPT ![c] = 1]
  /\ UNCHANGED <<session, logins, echo, got, quiet, frameVars>>

\* login: a new socket, and m_status is 2 whatever came back.
Login(c) ==
  /\ status[c] = 1 /\ logins < MaxLogins
  /\ status' = [status EXCEPT ![c] = 2]
  /\ logins' = logins + 1
  /\ session' = [session EXCEPT ![c] = logins + 1]
  /\ since' = [since EXCEPT ![c] = {Stray}] /\ latest' = [latest EXCEPT ![c] = 0]
  /\ UNCHANGED <<echo, got, quiet, vframe, shown>>

\* recvfrom: a part, which takes the place of the one another thread has not used
\* yet; an error or the time limit, or a heartbeat, which leaves the number and
\* the data in the buffer as they are.
ReceivePart(c, n) ==
  /\ status[c] = 2 /\ got[c] = Idle /\ ~quiet
  /\ LET p == [login |-> session[c], n |-> n]
     IN  got' = [d \in Cameras |->
                   IF d = c THEN Got("part", p)
                   ELSE IF got[d].len = "part" THEN Got("part", [p EXCEPT !.login = Another])
                   ELSE got[d]]
  /\ TurnOver(c)
  /\ UNCHANGED <<status, session, logins, echo, quiet, vframe>>

ReceiveNone(c) ==
  /\ status[c] = 2 /\ got[c] = Idle
  /\ \E len \in {"none", "four"} : got' = [got EXCEPT ![c] = Got(len, NoPart)]
  /\ TurnOver(c)
  /\ UNCHANGED <<status, session, logins, echo, quiet, vframe>>

\* The rest of work.
Work(c) ==
  /\ \/ got[c].len = "none" /\ Empty(c, Timeouts, 0)
     \/ got[c].len = "four" /\ Empty(c, Beats, 1)
     \/ got[c].len = "part" /\ Frame(c)
  /\ got' = [got EXCEPT ![c] = Idle]
  /\ UNCHANGED <<session, logins, quiet>>

\* The network fails, or the cameras are switched off.
GoQuiet ==
  /\ quiet' = TRUE
  /\ UNCHANGED <<status, session, logins, echo, got, frameVars>>

Recvfrom(c) == ReceiveNone(c) \/ \E n \in Reaches[c] : ReceivePart(c, n)

PnpInit ==
  /\ status = [c \in Cameras |-> 0]
  /\ session = [c \in Cameras |-> 0] /\ logins = 0
  /\ vframe = [c \in Cameras |-> Nothing]
  /\ echo = 0
  /\ got = [c \in Cameras |-> Idle]
  /\ shown = [c \in Cameras |-> << >>]
  /\ quiet = FALSE
  /\ since = [c \in Cameras |-> {}] /\ latest = [c \in Cameras |-> 0]

PnpNext == GoQuiet \/ \E c \in Cameras : Query(c) \/ Login(c) \/ Recvfrom(c) \/ Work(c)

PnpSpec == PnpInit /\ [][PnpNext]_pnpVars

\* The thread of a camera runs, and recvfrom has a time limit of ten seconds: with
\* nothing to receive it returns as well.
PnpFairSpec == PnpSpec /\ \A c \in Cameras : WF_pnpVars(ReceiveNone(c) \/ Work(c))

-----------------------------------------------------------------------------
(* Properties                                                              *)

PnpTypeOK ==
  /\ status \in [Cameras -> 0 .. 2]
  /\ logins \in 0 .. MaxLogins /\ session \in [Cameras -> 0 .. logins]
  /\ \A c \in Cameras : /\ DOMAIN vframe[c] \subseteq 0 .. Modulus - 1
                        /\ \A i \in DOMAIN vframe[c] : vframe[c][i] \in Parts
  /\ got \in [Cameras -> [len : {"idle", "none", "four", "part"}, part : Parts \cup {NoPart}]]
  /\ shown \in [Cameras -> Seq(Parts)]
  /\ since \in [Cameras -> SUBSET (Stream \cup {Stray})]
  /\ latest \in [Cameras -> Stream \cup {Stray, 0}]
  /\ echo \in 0 .. 1 + (IF Timeouts > Beats THEN Timeouts ELSE Beats)
  /\ quiet \in BOOLEAN

Lap(n) == (n - 1) \div Modulus

ImageOf(k) == [i \in 1 .. Finish(k) - Start(k) + 1 |-> Start(k) + i - 1]

\* A shown frame is one image of the camera with all its parts in their order,
\* though the network lost, repeated and reordered them, unless it has a part
\* that another thread put into the static buffer, has parts of two sessions
\* (vframe outlives them) or from both sides of a wrap of the part number, or
\* begins with a part that happens to look like a first one.
Whole ==
  \A c \in Cameras :
    LET f == shown[c] IN
      /\ f # << >>
      /\ \A i \in DOMAIN f : /\ f[i].login = f[1].login /\ f[1].login # Another
                             /\ Lap(f[i].n) = Lap(f[1].n)
      /\ IsFirst(f[1].n)
      => \E k \in Images : [i \in DOMAIN f |-> f[i].n] = ImageOf(k)

\* An image is shown once its last part has come, if since its first one all the
\* parts between have come, however often and in whatever order, and nothing else:
\* a part of another image of the stream, however late it is, one of another camera
\* (the static buffer) or session, or the image's own last part before that may cost
\* it, for work shows no frame with a gap (pnppr.cpp:251).  An image of one part is
\* never shown, and one within which the part number wraps neither.
Complete ==
  \A c \in Cameras, k \in Images :
    /\ since[c] = Start(k) .. Finish(k) - 1 /\ latest[c] = Finish(k)
    /\ Start(k) < Finish(k) /\ Lap(Start(k)) = Lap(Finish(k))
    => [i \in DOMAIN shown[c] |-> shown[c][i].n] = ImageOf(k)

\* When no images come any more a camera is closed, and searched or logged in
\* again.  The counter is shared and each close resets it, so another camera that
\* is logged in too may be the one that is closed, again and again.
GivenUp ==
  \A c \in Cameras :
    (quiet /\ status[c] = 2)
      ~> (status[c] # 2 \/ \E d \in Cameras \ {c} : status[d] = 2)

=============================================================================
