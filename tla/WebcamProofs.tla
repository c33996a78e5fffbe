---------------------------- MODULE WebcamProofs ----------------------------
(***************************************************************************)
(* Proofs about Webcam, for any number of marks, cameras and plays: types, *)
(* that m_frmevt is the mutex of a frame, and when stop releases or frees  *)
(* a camera that is in use.  Then about Pnp, for any images and any number *)
(* of cameras: types, that what is shown is whole, and what is complete is *)
(* shown.                                                                  *)
(***************************************************************************)
EXTENDS Webcam, Pnp, FiniteSetTheorems, WellFoundedInduction, TLAPS

Stopping     == {"stop", "release", "delete", "erase"}
ScriptLabels == {"out", "in", "add", "open", "want", "frame"} \cup Stopping
WatchLabels  == {"none", "sleep", "look", "want", "frame", "shown", "call", "gone"}
PlayLabels   == {"none", "test", "nap", "recv", "ask", "want", "frame", "end", "done"}
Labels       == ScriptLabels \cup WatchLabels \cup PlayLabels

CameraData == [life : {"none", "live", "freed"}, class : Classes \cup {"none"}, exit : BOOLEAN,
               open : BOOLEAN, play : 0 .. MaxPlays, plays : Nat, stopped : BOOLEAN]

\* Types of the fields and of the labels besides those of TypeOK.
DataTypes  == TypeOK /\ camera \in [Cams -> CameraData]
LabelTypes ==
  /\ pc \in [Threads -> Labels]
  /\ pc[TheScript] \in ScriptLabels /\ pc[Watching] \in WatchLabels
  /\ \A i \in Plays : pc[i] \in PlayLabels
TypeInv    == DataTypes /\ LabelTypes

\* A camera, its last play, and the threads that work on it: while play was called
\* once, one thread fills its frames.
Unplayed  == \A i \in Plays : i > plays <=> at[i] = 0
Unstarted == \A i \in Plays : i > plays => pc[i] = "none"
Placed    == \A t \in Threads : at[t] # 0 => camera[at[t]].life # "none"
Blank     == \A o \in Cams : camera[o].life = "none" => camera[o] = Unmade
Filled    == \A o \in Cams : camera[o].life # "none" =>
              /\ camera[o].class \in Classes
              /\ camera[o].play # 0 => /\ camera[o].play \in Plays /\ at[camera[o].play] = o
                                       /\ camera[o].plays >= 1
Single    == \A o \in Cams : camera[o].plays = 1 =>
              \A i \in Plays : at[i] = o => i = camera[o].play
\* A camera that play was not called for yet is the script's alone.
Fresh     == \A o \in Cams : camera[o].life # "none" /\ camera[o].play = 0 =>
              /\ camera[o].plays = 0 /\ pc[TheScript] = "add" /\ at[TheScript] = o
              /\ \A t \in Threads \ {TheScript} : at[t] # o
PlayInv   == Unplayed /\ Unstarted /\ Placed /\ Blank /\ Filled /\ Single /\ Fresh

\* Whoever waits, waits for an event of the camera it works on.
EventInv ==
  \A t \in Threads : At(t, "want") \/ At(t, "nap") \/ At(t, "stop") \/ At(t, "release") =>
    at[t] # 0 /\ event[t] \in Plays /\ at[event[t]] = at[t]

\* The map holds live cameras, but for the one the script is stopping.
Mapped   == \A m \in Marks : cams[m] # 0 => camera[cams[m]].life # "none"
Apart    == \A m, n \in Marks : cams[m] # 0 /\ cams[m] = cams[n] => m = n
Stopped  == \A m \in Marks : cams[m] # 0 /\ camera[cams[m]].stopped =>
              pc[TheScript] \in Stopping /\ mark[TheScript] = m
Stops    == pc[TheScript] \in Stopping =>
              at[TheScript] # 0 /\ camera[at[TheScript]].stopped /\ mark[TheScript] \in Marks
Living   == pc[TheScript] \in {"add", "open", "stop", "want", "frame"} =>
              at[TheScript] # 0 /\ camera[at[TheScript]].life = "live"
Adding   == /\ pc[TheScript] \in {"add", "open"} => ~camera[at[TheScript]].stopped
            /\ pc[TheScript] = "add" => plays < MaxPlays
            /\ pc[TheScript] = "open" => /\ camera[at[TheScript]].play = plays
                                        /\ plays \in Plays /\ pc[plays] = "none"
Freed    == \A o \in Cams : camera[o].life = "freed" => camera[o].stopped
Within   == \A t \in Threads : At(t, "frame") => at[t] # 0
CamsInv  == Mapped /\ Apart /\ Stopped /\ Stops /\ Living /\ Adding /\ Freed /\ Within

\* The event of a camera that is in service is down while somebody is inside.
Guarded(o) == camera[o].plays = 1 /\ ~camera[o].stopped /\ camera[o].class # "screen"
MutexInv   == \A o \in Cams, t \in Threads :
                Guarded(o) /\ At(t, "frame") /\ at[t] = o =>
                  /\ ~frmevt[camera[o].play]
                  /\ \A u \in Threads : At(u, "frame") /\ at[u] = o => u = t

\* stop has got past its first wait, or will get past it with the thread's signal.
Past(o)   == camera[o].stopped /\ ~(At(TheScript, "stop") /\ at[TheScript] = o)
Awaited(o) == Past(o) /\ o \notin late
Ended(o)  == At(camera[o].play, "done")
SignalInv == \A o \in Cams :
               /\ camera[o].plays = 1 /\ playevt[camera[o].play]
               /\ ~camera[o].stopped \/ camera[o].play \in told \/ Awaited(o)
               => Ended(o)
ToldInv   == /\ \A i \in told : i <= plays
             /\ \A o \in Cams : camera[o].plays = 1 /\ camera[o].play \in told =>
                  camera[o].stopped /\ (Awaited(o) => Ended(o))

Inv == TypeInv /\ PlayInv /\ EventInv /\ CamsInv /\ MutexInv /\ SignalInv /\ ToldInv

-----------------------------------------------------------------------------
(* The least member of a set                                               *)

LEMMA LeastMember ==
  ASSUME NEW S \in SUBSET Nat, S # {}
  PROVE  Min(S) \in S /\ \A y \in S : Min(S) <= y
<1> DEFINE R == {p \in Nat \X Nat : p[1] < p[2]}
<1>1. IsWellFoundedOn(R, Nat)
  BY NatLessThanWellFounded DEF OpToRel
<1>2. PICK x \in S : \A y \in S : <<y, x>> \notin R
  <2> HIDE DEF R
  <2> QED
    BY <1>1, WFMin
<1>3. \A y \in S : x <= y
  <2>1. \A y \in S : <<y, x>> \notin R
    BY <1>2
  <2>2. \A y \in S : ~(y < x)
    BY <2>1
  <2> QED
    BY <2>2
<1> QED
  BY <1>2, <1>3 DEF Min

\* The camera addcam plays: a new one, or the one under the mark.
LEMMA NewCamera ==
  ASSUME TypeInv, NEW m \in Marks, cams[m] = 0 => FreeCams # {}
  PROVE  /\ NewCam(m) \in Cams
         /\ cams[m] = 0 => camera[NewCam(m)] = Unmade
         /\ cams[m] # 0 => NewCam(m) = cams[m]
<1>1. CASE cams[m] = 0
  <2>1. FreeCams \in SUBSET Nat
    BY ConstAssumption DEF FreeCams, Cams, ConstAssumption
  <2>2. Min(FreeCams) \in FreeCams
    BY <1>1, <2>1, LeastMember
  <2> QED
    BY <1>1, <2>2 DEF NewCam, FreeCams
<1>2. CASE cams[m] # 0
  BY <1>2 DEF NewCam, TypeInv, DataTypes, TypeOK
<1> QED
  BY <1>1, <1>2

-----------------------------------------------------------------------------
(* Init                                                                    *)

LEMMA InitInv == Init => Inv
<1> SUFFICES ASSUME Init PROVE Inv
  OBVIOUS
<1> USE ConstAssumption DEF ConstAssumption, Init
<1>1. TypeInv
  BY DEF TypeInv, DataTypes, LabelTypes, TypeOK, CameraData, Unmade, Labels, ScriptLabels,
     WatchLabels, PlayLabels,
         Stopping, Threads, Readers, Plays, Cams, TheScript, Watching, Nobody, Absent, NoMark
<1>2. PlayInv
  BY DEF PlayInv, Unplayed, Unstarted, Placed, Blank, Filled, Single, Fresh, Unmade, Threads,
         Readers, Plays, Cams, TheScript
<1>3. EventInv /\ CamsInv
  BY DEF EventInv, CamsInv, Mapped, Apart, Stopped, Stops, Living, Adding, Freed, Within, Unmade,
         Threads, Readers, Plays, Cams, TheScript, Watching, At, Stopping
<1>4. MutexInv /\ SignalInv /\ ToldInv
  BY DEF MutexInv, SignalInv, ToldInv, Guarded, Unmade, Threads, Readers, Plays, Cams,
         TheScript, Watching, At
<1> QED
  BY <1>1, <1>2, <1>3, <1>4 DEF Inv

-----------------------------------------------------------------------------
(* Types                                                                   *)

\* Steps of the threads that fill frames, and of all threads at a frame.
Filling == \/ \E i \in Plays : Loop(i) \/ Receive(i)
           \/ \E t \in Threads : Passes(t) \/ LeaveFrame(t)

\* Where a thread that works is.
LEMMA PlaceFacts ==
  ASSUME Inv
  PROVE  /\ \A t \in Threads : at[t] \in {0} \cup Cams
         /\ \A i \in Plays : pc[i] # "none" => at[i] \in Cams
         /\ \A t \in Threads : At(t, "want") \/ At(t, "frame") \/ At(t, "nap") => at[t] \in Cams
         /\ \A t \in Threads : at[t] \in Cams /\ ~At(t, "add") =>
              /\ camera[at[t]].play \in Plays /\ camera[at[t]].life \in {"live", "freed"}
              /\ at[camera[at[t]].play] = at[t]
<1> USE ConstAssumption DEF ConstAssumption, Threads, Plays, Cams, Readers
<1>1. \A t \in Threads : at[t] \in {0} \cup Cams
  BY DEF Inv, TypeInv, DataTypes, TypeOK
<1>2. \A i \in Plays : pc[i] # "none" => at[i] # 0
  BY DEF Inv, TypeInv, DataTypes, TypeOK, PlayInv, Unplayed, Unstarted
<1>3. \A t \in Threads : At(t, "want") \/ At(t, "frame") \/ At(t, "nap") => at[t] # 0
  BY DEF Inv, EventInv, CamsInv, Within
<1>4. \A o \in Cams : camera[o].life \in {"none", "live", "freed"}
  BY DEF Inv, TypeInv, DataTypes, TypeOK
<1>5. ASSUME NEW t \in Threads, at[t] \in Cams, ~At(t, "add")
      PROVE  /\ camera[at[t]].play \in Plays /\ camera[at[t]].life # "none"
             /\ at[camera[at[t]].play] = at[t]
  <2>1. camera[at[t]].life # "none"
    BY <1>5 DEF Inv, PlayInv, Placed
  <2>2. camera[at[t]].play # 0
    BY <1>5, <2>1 DEF Inv, PlayInv, Fresh, At
  <2> QED
    BY <1>5, <2>1, <2>2 DEF Inv, PlayInv, Filled
<1> QED
  BY <1>1, <1>2, <1>3, <1>4, <1>5

\* The labels a thread can be given.
LEMMA GotoTypes ==
  ASSUME LabelTypes, NEW t \in Threads, NEW label, Goto(t, label),
         t = TheScript => label \in ScriptLabels,
         t = Watching => label \in WatchLabels,
         t \in Plays => label \in PlayLabels
  PROVE  LabelTypes'
  BY DEF LabelTypes, Goto, Labels, Threads, Readers, TheScript, Watching, Plays

LEMMA FillingTypes == ASSUME Inv, Filling PROVE TypeInv'
<1> USE DEF TypeOK, At, Waits, Waited, Touch, camVars, eventVars, watchVars, ghosts
<1>0. DataTypes /\ LabelTypes
  BY DEF Inv, TypeInv
<1>01. Plays \subseteq Threads /\ \A i \in Plays : i # TheScript /\ i # Watching
  BY DEF Threads, Plays, TheScript, Watching
<1>1. ASSUME NEW i \in Plays, Test(i) PROVE TypeInv'
  <2>1. at[i] \in Cams
    BY <1>1, PlaceFacts DEF Test
  <2>2. DataTypes'
    BY <1>0, <1>01, <1>1, <2>1, PlaceFacts DEF Test, DataTypes
  <2>3. LabelTypes'
    BY <1>0, <1>01, <1>1, GotoTypes DEF Test, PlayLabels
  <2> QED
    BY <2>2, <2>3 DEF TypeInv
<1>2. ASSUME NEW i \in Plays, Signalled(i) \/ TimedOut(i) PROVE TypeInv'
  <2>2. DataTypes'
    BY <1>0, <1>01, <1>2 DEF Signalled, TimedOut, DataTypes
  <2>3. LabelTypes'
    BY <1>0, <1>01, <1>2, GotoTypes DEF Signalled, TimedOut, PlayLabels
  <2> QED
    BY <2>2, <2>3 DEF TypeInv
<1>3. ASSUME NEW i \in Plays, Receive(i) PROVE TypeInv'
  <2>2. DataTypes'
    BY <1>0, <1>3 DEF Receive, DataTypes
  <2>3. LabelTypes'
    BY <1>0, <1>01, <1>3, GotoTypes DEF Receive, PlayLabels
  <2> QED
    BY <2>2, <2>3 DEF TypeInv
<1>4. ASSUME NEW i \in Plays, Ask(i) PROVE TypeInv'
  <2>1. at[i] \in Cams
    BY <1>4, PlaceFacts DEF Ask
  <2>2. DataTypes'
    BY <1>0, <1>01, <1>4, <2>1, PlaceFacts DEF Ask, DataTypes
  <2>3. LabelTypes'
    BY <1>0, <1>01, <1>4, GotoTypes DEF Ask, PlayLabels
  <2> QED
    BY <2>2, <2>3 DEF TypeInv
<1>5. ASSUME NEW i \in Plays, End(i) PROVE TypeInv'
  <2>2. DataTypes'
    BY <1>0, <1>5 DEF End, DataTypes
  <2>3. LabelTypes'
    BY <1>0, <1>01, <1>5, GotoTypes DEF End, PlayLabels
  <2> QED
    BY <2>2, <2>3 DEF TypeInv
<1>6. ASSUME NEW t \in Threads, Passes(t) PROVE TypeInv'
  <2>2. DataTypes'
    BY <1>0, <1>6 DEF Passes, Taken, DataTypes
  <2>3. LabelTypes'
    BY <1>0, <1>6, GotoTypes DEF Passes, PlayLabels, ScriptLabels, WatchLabels
  <2> QED
    BY <2>2, <2>3 DEF TypeInv
<1>7. ASSUME NEW t \in Threads, LeaveFrame(t) PROVE TypeInv'
  <2>2. DataTypes'
    BY <1>0, <1>7 DEF LeaveFrame, Returned, DataTypes
  <2>3. LabelTypes'
    BY <1>0, <1>01, <1>7, GotoTypes
       DEF LeaveFrame, AfterFrame, PlayLabels, ScriptLabels, WatchLabels, TheScript, Watching
  <2> QED
    BY <2>2, <2>3 DEF TypeInv
<1> QED
  BY <1>1, <1>2, <1>3, <1>4, <1>5, <1>6, <1>7 DEF Filling, Loop

\* The steps of the script and of the thread that watches.
LEMMA NextEntry ==
  ASSUME TypeInv, Ahead # {}
  PROVE  Min(Ahead) \in Marks /\ list[Min(Ahead)] \in 0 .. MaxTms
<1>1. Ahead \in SUBSET Nat
  BY ConstAssumption DEF ConstAssumption, Ahead
<1>2. Min(Ahead) \in Ahead
  BY <1>1, LeastMember
<1>3. \A m \in Ahead : m \in Marks /\ list[m] \in 0 .. MaxTms
  BY ConstAssumption DEF ConstAssumption, Ahead, TypeInv, DataTypes, TypeOK, Absent
<1> QED
  BY <1>2, <1>3

\* What the script and the watching thread do beside the cameras.
Aside ==
  \/ Enter \/ Exit \/ Display \/ Destory \/ UseNull \/ \E r \in Readers : Throws(r)
  \/ \E r \in Readers, m \in Marks, tms \in 0 .. MaxTms : Monitor(r, m, tms)
  \/ Wake \/ Walked \/ Short \/ Shown \/ Show

LEMMA AsideTypes == ASSUME TypeInv, Aside PROVE TypeInv'
<1> USE DEF TypeOK, At, camVars, eventVars, watchVars, ghosts, Readers
<1>0. DataTypes /\ LabelTypes
  BY DEF TypeInv
<1>01. TheScript \in Threads /\ Watching \in Threads /\ TheScript # Watching
       /\ TheScript \notin Plays /\ Watching \notin Plays
  BY DEF Threads, Plays, TheScript, Watching
<1>1. CASE Enter \/ Exit
  <2>1. DataTypes'
    BY <1>0, <1>1 DEF Enter, Exit, DataTypes
  <2>2. LabelTypes'
    BY <1>0, <1>01, <1>1, GotoTypes DEF Enter, Exit, ScriptLabels
  <2> QED
    BY <2>1, <2>2 DEF TypeInv
<1>2. CASE Display \/ Wake \/ Walked \/ Short \/ Shown \/ Show
  <2>1. DataTypes'
    BY <1>0, <1>2 DEF Display, Wake, Walked, Short, Shown, Show, DataTypes
  <2>2. LabelTypes'
    BY <1>0, <1>01, <1>2, GotoTypes DEF Display, Wake, Walked, Short, Shown, Show, WatchLabels
  <2> QED
    BY <2>1, <2>2 DEF TypeInv
<1>3. CASE Destory \/ UseNull \/ \E r \in Readers : Throws(r)
  <2>1. DataTypes'
    BY <1>0, <1>3 DEF Destory, UseNull, Throws, DataTypes
  <2>2. LabelTypes'
    BY <1>0, <1>3 DEF Destory, UseNull, Throws, LabelTypes
  <2> QED
    BY <2>1, <2>2 DEF TypeInv
<1>4. ASSUME NEW r \in Readers, NEW m \in Marks, NEW tms \in 0 .. MaxTms, Monitor(r, m, tms)
      PROVE  TypeInv'
  <2>1. (IF tms = 0 THEN Absent ELSE tms) \in Absent .. MaxTms
    BY ConstAssumption DEF ConstAssumption, Absent
  <2>2. DataTypes'
    BY <1>0, <1>4, <2>1 DEF Monitor, DataTypes
  <2>3. LabelTypes'
    BY <1>0, <1>4 DEF Monitor, LabelTypes
  <2> QED
    BY <2>2, <2>3 DEF TypeInv
<1> QED
  BY <1>1, <1>2, <1>3, <1>4 DEF Aside

LEMMA LookTypes == ASSUME Inv, Look PROVE TypeInv'
<1> USE DEF TypeOK, At, camVars, eventVars, watchVars, ghosts, Readers
<1>0. DataTypes /\ LabelTypes
  BY DEF Inv, TypeInv
<1>01. Watching \in Threads /\ TheScript # Watching /\ Watching \notin Plays
  BY DEF Threads, Plays, TheScript, Watching
<1> DEFINE m == Min(Ahead)
<1>1. m \in Marks /\ list[m] \in 0 .. MaxTms
  BY NextEntry DEF Inv, Look
<1>2. list' \in [Marks -> Absent .. MaxTms] /\ mark' \in [Readers -> {NoMark} \cup Marks]
  <2>1. (IF list[m] = 0 THEN 0 ELSE list[m] - 1) \in Absent .. MaxTms
    BY <1>1, ConstAssumption DEF ConstAssumption, Absent
  <2> QED
    BY <1>0, <1>1, <2>1 DEF Look, DataTypes
<1>3. CASE HasFrame(m) /\ camera[cams[m]].play # 0 /\ WaitFor(Watching, m)
           /\ broken' = IF Frees(cams[m]) THEN "freed" ELSE broken
  <2>1. cams[m] \in Cams /\ camera[cams[m]].play \in Plays
    BY <1>0, <1>1, <1>3 DEF HasFrame, DataTypes, Inv, CamsInv, Mapped, PlayInv, Filled
  <2>2. DataTypes'
    BY <1>0, <1>01, <1>2, <1>3, <2>1 DEF Look, WaitFor, Waits, DataTypes
  <2>3. LabelTypes'
    BY <1>0, <1>01, <1>3, GotoTypes DEF WaitFor, WatchLabels
  <2> QED
    BY <2>2, <2>3 DEF TypeInv
<1>4. CASE UNCHANGED <<pc, at, event>> /\ broken' \in {broken, "null"}
  <2>1. DataTypes'
    BY <1>0, <1>2, <1>4 DEF Look, DataTypes
  <2>2. LabelTypes'
    BY <1>0, <1>4 DEF LabelTypes
  <2> QED
    BY <2>1, <2>2 DEF TypeInv
<1> QED
  BY <1>3, <1>4 DEF Look

\* What the steps of addcam do to the fields of a camera.
Named(c, class) == [c EXCEPT !.life = "live", !.class = class]
Played(c, i)    == [c EXCEPT !.exit = FALSE, !.play = i, !.plays = @ + 1]
Opened(c, b)    == [c EXCEPT !.open = b]

LEMMA NamedFacts ==
  ASSUME NEW c \in CameraData, NEW class \in Classes
  PROVE  /\ Named(c, class) \in CameraData
         /\ Named(c, class).life = "live"
         /\ Named(c, class).class = class
         /\ Named(c, class).stopped = c.stopped
         /\ Named(c, class).play = c.play
         /\ Named(c, class).plays = c.plays
<1>1. c = [life |-> c.life, class |-> c.class, exit |-> c.exit, open |-> c.open,
           play |-> c.play, plays |-> c.plays, stopped |-> c.stopped]
  BY DEF CameraData
<1> DEFINE value == "live"
<1>2. Named(c, class) = [life |-> value, class |-> class, exit |-> c.exit, open |-> c.open,
          play |-> c.play, plays |-> c.plays, stopped |-> c.stopped]
  <2>1. Named(c, class) = [c EXCEPT !.life = value, !.class = class]
    BY DEF Named
  <2> HIDE DEF value
  <2> QED
    BY <1>1, <2>1
<1> QED
  BY <1>2, ConstAssumption DEF ConstAssumption, CameraData, Plays

LEMMA PlayedFacts ==
  ASSUME NEW c \in CameraData, NEW i \in Plays
  PROVE  /\ Played(c, i) \in CameraData
         /\ Played(c, i).life = c.life
         /\ Played(c, i).class = c.class
         /\ Played(c, i).stopped = c.stopped
         /\ Played(c, i).play = i
         /\ Played(c, i).plays = c.plays + 1
<1>1. c = [life |-> c.life, class |-> c.class, exit |-> c.exit, open |-> c.open,
           play |-> c.play, plays |-> c.plays, stopped |-> c.stopped]
  BY DEF CameraData
<1> DEFINE value == FALSE
<1>2. Played(c, i) = [life |-> c.life, class |-> c.class, exit |-> value, open |-> c.open,
          play |-> i, plays |-> c.plays + 1, stopped |-> c.stopped]
  <2>1. Played(c, i) = [c EXCEPT !.exit = value, !.play = i, !.plays = c.plays + 1]
    BY DEF Played
  <2> HIDE DEF value
  <2> QED
    BY <1>1, <2>1
<1> QED
  BY <1>2, ConstAssumption DEF ConstAssumption, CameraData, Plays

LEMMA OpenedFacts ==
  ASSUME NEW c \in CameraData, NEW b \in BOOLEAN
  PROVE  /\ Opened(c, b) \in CameraData
         /\ Opened(c, b).life = c.life
         /\ Opened(c, b).class = c.class
         /\ Opened(c, b).stopped = c.stopped
         /\ Opened(c, b).play = c.play
         /\ Opened(c, b).plays = c.plays
<1>1. c = [life |-> c.life, class |-> c.class, exit |-> c.exit, open |-> c.open,
           play |-> c.play, plays |-> c.plays, stopped |-> c.stopped]
  BY DEF CameraData
<1> DEFINE value == b
<1>2. Opened(c, b) = [life |-> c.life, class |-> c.class, exit |-> c.exit, open |-> value,
          play |-> c.play, plays |-> c.plays, stopped |-> c.stopped]
  <2>1. Opened(c, b) = [c EXCEPT !.open = value]
    BY DEF Opened
  <2> HIDE DEF value
  <2> QED
    BY <1>1, <2>1
<1> QED
  BY <1>2, ConstAssumption DEF ConstAssumption, CameraData, Plays

\* What add does: the camera under the mark stays as it is, or there is a new one.
LEMMA AddCamEffect ==
  ASSUME Inv, NEW m \in Marks, NEW class \in Classes, AddCam(m, class)
  PROVE  LET o == NewCam(m)
         IN  /\ o \in Cams /\ pc[TheScript] = "in" /\ plays < MaxPlays
             /\ camera' \in [Cams -> CameraData]
             /\ \A c \in Cams \ {o} : camera'[c] = camera[c]
             /\ camera'[o].life = "live" /\ ~camera'[o].stopped /\ camera'[o].class \in Classes
             /\ \/ camera'[o] = camera[o] /\ camera[o].life = "live"
                \/ camera[o].life = "none" /\ camera'[o].play = 0 /\ camera'[o].plays = 0
             /\ \A t \in Threads : /\ at'[t] = IF t = TheScript THEN o ELSE at[t]
                                   /\ pc'[t] = IF t = TheScript THEN "add" ELSE pc[t]
             /\ \A n \in Marks : cams'[n] = IF n = m THEN o ELSE cams[n]
             /\ \A n \in Marks \ {m} : cams[n] # o
             /\ UNCHANGED <<plays, playevt, frmevt, event, mark, told, late>>
<1> DEFINE o == NewCam(m)
<1> USE DEF At, Goto, camVars, eventVars, watchVars, ghosts
<1>0. /\ pc \in [Threads -> Labels] /\ at \in [Threads -> {0} \cup Cams]
      /\ camera \in [Cams -> CameraData] /\ cams \in [Marks -> {0} \cup Cams]
      /\ TheScript \in Threads
  BY DEF Inv, TypeInv, DataTypes, LabelTypes, TypeOK, Threads, Readers
<1>1. /\ o \in Cams
      /\ cams[m] = 0 => camera[o] = Unmade
      /\ cams[m] # 0 => o = cams[m]
  BY NewCamera DEF Inv, AddCam
<1>2. /\ pc[TheScript] = "in" /\ plays < MaxPlays /\ cams' = [cams EXCEPT ![m] = o]
      /\ at' = [at EXCEPT ![TheScript] = o] /\ pc' = [pc EXCEPT ![TheScript] = "add"]
      /\ UNCHANGED <<plays, playevt, frmevt, event, mark, told, late>>
  BY DEF AddCam
<1>3. /\ \A t \in Threads : /\ at'[t] = IF t = TheScript THEN o ELSE at[t]
                            /\ pc'[t] = IF t = TheScript THEN "add" ELSE pc[t]
      /\ \A n \in Marks : cams'[n] = IF n = m THEN o ELSE cams[n]
  BY <1>0, <1>2
<1>4. CASE cams[m] = 0
  <2>1. camera' = [camera EXCEPT ![o] = Named(camera[o], class)]
    BY <1>0, <1>1, <1>4 DEF AddCam, Named
  <2>2. camera'[o] = Named(camera[o], class) /\ camera[o] = Unmade
        /\ \A c \in Cams \ {o} : camera'[c] = camera[c]
    BY <1>0, <1>1, <1>4, <2>1
  <2>3. camera[o] \in CameraData
    BY <1>0, <1>1
  <2>4. /\ Named(camera[o], class) \in CameraData /\ Named(camera[o], class).life = "live"
        /\ Named(camera[o], class).class = class
        /\ Named(camera[o], class).stopped = camera[o].stopped
        /\ Named(camera[o], class).play = camera[o].play
        /\ Named(camera[o], class).plays = camera[o].plays
    BY <2>3, NamedFacts
  <2>5. camera' \in [Cams -> CameraData]
    BY <1>0, <1>1, <2>1, <2>4
  <2>6. \A n \in Marks : cams[n] # o
    BY <1>1, <2>2 DEF Inv, CamsInv, Mapped, Unmade, Cams
  <2> HIDE DEF o
  <2>7. /\ camera[o].life = "none" /\ camera[o].play = 0 /\ camera[o].plays = 0
        /\ ~camera[o].stopped
    BY <2>2 DEF Unmade
  <2>8. /\ camera'[o].life = "live" /\ ~camera'[o].stopped /\ camera'[o].class \in Classes
        /\ camera'[o].play = 0 /\ camera'[o].plays = 0
    BY <2>2, <2>4, <2>7
  <2> QED
    BY <1>1, <1>2, <1>3, <2>2, <2>5, <2>6, <2>7, <2>8 DEF o
<1>5. CASE cams[m] # 0
  <2>1. camera' = camera /\ o = cams[m]
    BY <1>1, <1>5 DEF AddCam
  <2>2. camera[o].life # "none" /\ ~camera[o].stopped
    BY <1>1, <1>2, <1>5, <2>1 DEF Inv, CamsInv, Mapped, Stopped, Stopping
  <2>3. camera[o].life = "live" /\ camera[o].class \in Classes
    BY <1>0, <1>1, <2>2 DEF Inv, CamsInv, Freed, PlayInv, Filled, CameraData
  <2>4. \A n \in Marks \ {m} : cams[n] # o
    BY <1>5, <2>1 DEF Inv, CamsInv, Apart
  <2> HIDE DEF o
  <2> QED
    BY <1>0, <1>1, <1>2, <1>3, <2>1, <2>2, <2>3, <2>4 DEF o
<1> QED
  BY <1>4, <1>5

\* Where the script is while it adds a camera.
LEMMA AddedCam ==
  ASSUME Inv, pc[TheScript] \in {"add", "open"}
  PROVE  LET o == at[TheScript]
         IN  /\ o \in Cams /\ camera[o] \in CameraData /\ camera[o].life = "live"
             /\ ~camera[o].stopped /\ camera[o].class \in Classes
<1>1. at[TheScript] \in Cams
  BY DEF Inv, CamsInv, Living, TypeInv, DataTypes, TypeOK, Threads, Readers
<1>2. camera[at[TheScript]].life = "live" /\ ~camera[at[TheScript]].stopped
  BY DEF Inv, CamsInv, Living, Adding
<1> QED
  BY <1>1, <1>2 DEF Inv, TypeInv, DataTypes, PlayInv, Filled

\* What play does.
LEMMA PlayEffect ==
  ASSUME Inv, Play
  PROVE  LET o == at[TheScript]  i == plays + 1
         IN  /\ o \in Cams /\ i \in Plays /\ i \in Threads /\ i # TheScript /\ plays' = i
             /\ pc[TheScript] = "add" /\ at[i] = 0 /\ pc[i] = "none" /\ i \notin told
             /\ \A t \in Threads : /\ at'[t] = IF t = i THEN o ELSE at[t]
                                   /\ pc'[t] = IF t = TheScript THEN "open" ELSE pc[t]
             /\ \A e \in Plays : playevt'[e] = IF e = i THEN FALSE ELSE playevt[e]
             /\ \A e \in Plays : e # i => frmevt'[e] = frmevt[e]
             /\ playevt' \in [Plays -> BOOLEAN] /\ frmevt' \in [Plays -> BOOLEAN]
             /\ \A c \in Cams \ {o} : camera'[c] = camera[c]
             /\ camera' \in [Cams -> CameraData]
             /\ camera'[o].life = "live" /\ camera'[o].play = i /\ ~camera'[o].stopped
             /\ camera'[o].class \in Classes /\ camera'[o].plays >= 1
             /\ camera'[o].plays = 1 => camera[o].play = 0
             /\ UNCHANGED <<cams, event, mark, told, late>>
<1> DEFINE o == at[TheScript]  i == plays + 1
<1> USE DEF At, Goto, camVars, eventVars, watchVars, ghosts
<1>0. /\ pc \in [Threads -> Labels] /\ at \in [Threads -> {0} \cup Cams]
      /\ camera \in [Cams -> CameraData]
      /\ playevt \in [Plays -> BOOLEAN] /\ frmevt \in [Plays -> BOOLEAN]
      /\ plays \in Nat /\ TheScript \in Threads
  BY ConstAssumption DEF ConstAssumption, Inv, TypeInv, DataTypes, LabelTypes, TypeOK, Threads,
                         Readers
<1>1. /\ pc[TheScript] = "add" /\ plays' = i /\ UNCHANGED <<cams, event, mark, told, late>>
      /\ camera' = [camera EXCEPT ![o].exit = FALSE, ![o].play = i, ![o].plays = @ + 1]
      /\ playevt' = [playevt EXCEPT ![i] = FALSE] /\ frmevt' = [frmevt EXCEPT ![i] = TRUE]
      /\ at' = [at EXCEPT ![i] = o] /\ pc' = [pc EXCEPT ![TheScript] = "open"]
  BY DEF Play
<1>2. /\ o \in Cams /\ camera[o] \in CameraData /\ camera[o].life = "live"
      /\ ~camera[o].stopped /\ camera[o].class \in Classes
  BY <1>1, AddedCam
<1>3. i \in Plays
  BY <1>0, <1>1, ConstAssumption DEF ConstAssumption, Inv, CamsInv, Adding, Plays
<1>4. i \in Threads /\ i # TheScript
  BY <1>3 DEF Threads, Plays, TheScript
<1>5. at[i] = 0 /\ pc[i] = "none" /\ i \notin told
  BY <1>0, <1>3 DEF Inv, PlayInv, Unplayed, Unstarted, ToldInv
<1>6. camera' = [camera EXCEPT ![o] = Played(camera[o], i)]
  BY <1>0, <1>1, <1>2 DEF Played
<1>7. camera'[o] = Played(camera[o], i) /\ \A c \in Cams \ {o} : camera'[c] = camera[c]
  BY <1>0, <1>2, <1>6
<1>8. /\ Played(camera[o], i) \in CameraData
      /\ Played(camera[o], i).life = "live" /\ Played(camera[o], i).class = camera[o].class
      /\ ~Played(camera[o], i).stopped
      /\ Played(camera[o], i).play = i /\ Played(camera[o], i).plays = camera[o].plays + 1
  <2> HIDE DEF o, i
  <2> QED
    BY <1>2, <1>3, PlayedFacts
<1>9. camera[o].plays \in Nat /\ (camera[o].plays = 0 => camera[o].play = 0)
  BY <1>2 DEF CameraData, Inv, PlayInv, Filled
<1>10. camera' \in [Cams -> CameraData]
  BY <1>0, <1>2, <1>6, <1>8
<1> HIDE DEF o, i
<1>11. camera'[o].plays >= 1 /\ (camera'[o].plays = 1 => camera[o].play = 0)
  BY <1>7, <1>8, <1>9
<1>12. /\ \A t \in Threads : /\ at'[t] = IF t = i THEN o ELSE at[t]
                             /\ pc'[t] = IF t = TheScript THEN "open" ELSE pc[t]
       /\ \A e \in Plays : playevt'[e] = IF e = i THEN FALSE ELSE playevt[e]
       /\ \A e \in Plays : e # i => frmevt'[e] = frmevt[e]
       /\ playevt' \in [Plays -> BOOLEAN] /\ frmevt' \in [Plays -> BOOLEAN]
  BY <1>0, <1>1, <1>3, <1>4
<1> QED
  BY <1>1, <1>2, <1>3, <1>4, <1>5, <1>7, <1>8, <1>10, <1>11, <1>12 DEF o, i

\* What open does.
LEMMA OpenEffect ==
  ASSUME Inv, NEW opens \in BOOLEAN, Open(opens)
  PROVE  LET o == at[TheScript]
         IN  /\ o \in Cams /\ plays \in Plays /\ plays \in Threads /\ plays # TheScript
             /\ pc[TheScript] = "open" /\ pc[plays] = "none" /\ camera[o].play = plays
             /\ pc'[TheScript] = "in" /\ pc'[plays] \in {"test", "done"}
             /\ \A t \in Threads \ {TheScript, plays} : pc'[t] = pc[t]
             /\ pc' \in [Threads -> Labels]
             /\ camera' \in [Cams -> CameraData]
             /\ \A c \in Cams : \/ camera'[c] = camera[c]
                                \/ /\ camera[c].life # "none"
                                   /\ camera'[c].life = camera[c].life
                                   /\ camera'[c].play = camera[c].play
                                   /\ camera'[c].plays = camera[c].plays
                                   /\ camera'[c].class = camera[c].class
                                   /\ camera'[c].stopped = camera[c].stopped
             /\ UNCHANGED <<cams, plays, playevt, frmevt, at, event, mark, told, late>>
<1> DEFINE o == at[TheScript]
           b == camera[o].class = "capture" /\ opens
           label == IF camera[o].class = "capture" => opens THEN "test" ELSE "done"
<1> USE DEF At, camVars, eventVars, watchVars, ghosts
<1>0. pc \in [Threads -> Labels] /\ camera \in [Cams -> CameraData] /\ TheScript \in Threads
  BY DEF Inv, TypeInv, DataTypes, LabelTypes, Threads, Readers
<1>1. /\ pc[TheScript] = "open"
      /\ UNCHANGED <<cams, plays, playevt, frmevt, at, event, mark, told, late>>
      /\ camera' = [camera EXCEPT ![o].open = b]
      /\ pc' = [pc EXCEPT ![TheScript] = "in", ![camera[o].play] = label]
  BY DEF Open
<1>2. o \in Cams /\ camera[o] \in CameraData /\ camera[o].life = "live"
  BY <1>1, AddedCam
<1>3. camera[o].play = plays /\ plays \in Plays /\ pc[plays] = "none"
  BY <1>1 DEF Inv, CamsInv, Adding
<1>4. plays \in Threads /\ plays # TheScript
  BY <1>3 DEF Threads, Plays, TheScript
<1>5. label \in {"test", "done"} /\ b \in BOOLEAN
  OBVIOUS
<1> HIDE DEF o, b, label
<1>6. camera' = [camera EXCEPT ![o] = Opened(camera[o], b)]
  BY <1>0, <1>1, <1>2 DEF Opened
<1>7. /\ Opened(camera[o], b) \in CameraData
      /\ Opened(camera[o], b).life = camera[o].life /\ Opened(camera[o], b).class = camera[o].class
      /\ Opened(camera[o], b).stopped = camera[o].stopped
      /\ Opened(camera[o], b).play = camera[o].play
      /\ Opened(camera[o], b).plays = camera[o].plays
  BY <1>2, <1>5, OpenedFacts
<1>8. camera' \in [Cams -> CameraData]
      /\ camera'[o] = Opened(camera[o], b) /\ \A c \in Cams \ {o} : camera'[c] = camera[c]
  BY <1>0, <1>2, <1>6, <1>7
<1>9. /\ pc'[TheScript] = "in" /\ pc'[plays] \in {"test", "done"}
      /\ \A t \in Threads \ {TheScript, plays} : pc'[t] = pc[t]
  BY <1>0, <1>1, <1>3, <1>4, <1>5
<1>10. pc' \in [Threads -> Labels]
  <2>1. {"in", "test", "done"} \subseteq Labels
    BY DEF Labels, ScriptLabels, PlayLabels
  <2> QED
    BY <1>0, <1>1, <1>5, <2>1
<1>11. \A c \in Cams : \/ camera'[c] = camera[c]
                       \/ /\ camera[c].life # "none"
                          /\ camera'[c].life = camera[c].life
                          /\ camera'[c].play = camera[c].play
                          /\ camera'[c].plays = camera[c].plays
                          /\ camera'[c].class = camera[c].class
                          /\ camera'[c].stopped = camera[c].stopped
  BY <1>2, <1>7, <1>8
<1> QED
  BY <1>1, <1>2, <1>3, <1>4, <1>8, <1>9, <1>10, <1>11 DEF o

LEMMA AddCamTypes ==
  ASSUME Inv, NEW m \in Marks, NEW class \in Classes, AddCam(m, class)
  PROVE  TypeInv'
<1> DEFINE o == NewCam(m)
<1>0. DataTypes /\ LabelTypes
  BY DEF Inv, TypeInv
<1>1. /\ o \in Cams /\ camera' \in [Cams -> CameraData]
      /\ \A c \in Cams \ {o} : camera'[c] = camera[c]
      /\ camera'[o] = camera[o] \/ camera'[o].play = 0
  BY AddCamEffect
<1>2. /\ UNCHANGED <<theCameras, list, exitevt, lock, event, mark, told, late, broken, plays,
                     playevt, frmevt>>
      /\ cams' = [cams EXCEPT ![m] = o] /\ at' = [at EXCEPT ![TheScript] = o]
      /\ Goto(TheScript, "add")
  BY DEF AddCam, watchVars, eventVars, ghosts
<1> HIDE DEF o
<1>3. \A p \in Cams : /\ camera'[p].life \in {"none", "live", "freed"}
                      /\ camera'[p].class \in Classes \cup {"none"}
  BY <1>1 DEF CameraData
<1>4. \A p \in Cams : camera'[p].play \in 0 .. plays
  BY <1>0, <1>1, ConstAssumption DEF DataTypes, TypeOK, ConstAssumption
<1>5. DataTypes'
  BY <1>0, <1>1, <1>2, <1>3, <1>4 DEF DataTypes, TypeOK
<1>6. LabelTypes'
  <2>1. TheScript \in Threads /\ TheScript # Watching /\ TheScript \notin Plays
    BY DEF Threads, Readers, Plays, TheScript, Watching
  <2> QED
    BY <1>0, <1>2, <2>1, GotoTypes DEF ScriptLabels
<1> QED
  BY <1>5, <1>6 DEF TypeInv

LEMMA PlayTypes == ASSUME Inv, Play PROVE TypeInv'
<1> DEFINE o == at[TheScript]  i == plays + 1
<1>0. DataTypes /\ LabelTypes
  BY DEF Inv, TypeInv
<1>1. /\ o \in Cams /\ i \in Plays /\ plays' = i /\ camera' \in [Cams -> CameraData]
      /\ \A c \in Cams \ {o} : camera'[c] = camera[c]
      /\ camera'[o].play = i
      /\ playevt' \in [Plays -> BOOLEAN] /\ frmevt' \in [Plays -> BOOLEAN]
  BY PlayEffect
<1>2. /\ UNCHANGED <<theCameras, cams, list, exitevt, lock, event, mark, told, late, broken>>
      /\ at' = [at EXCEPT ![i] = o] /\ Goto(TheScript, "open")
  BY DEF Play, watchVars, ghosts
<1>3. plays \in Nat /\ MaxPlays \in Nat
  BY <1>0, ConstAssumption DEF DataTypes, TypeOK, ConstAssumption
<1>4. i \in 0 .. MaxPlays
  BY <1>1, <1>3 DEF Plays
<1> HIDE DEF o
<1>5. \A p \in Cams : /\ camera'[p].life \in {"none", "live", "freed"}
                      /\ camera'[p].class \in Classes \cup {"none"}
  BY <1>1 DEF CameraData
<1>6. \A p \in Cams : camera'[p].play \in 0 .. plays'
  BY <1>0, <1>1, <1>3 DEF DataTypes, TypeOK
<1> HIDE DEF i
<1>7. DataTypes'
  BY <1>0, <1>1, <1>2, <1>4, <1>5, <1>6 DEF DataTypes, TypeOK
<1>8. LabelTypes'
  <2>1. TheScript \in Threads /\ TheScript # Watching /\ TheScript \notin Plays
    BY DEF Threads, Readers, Plays, TheScript, Watching
  <2> QED
    BY <1>0, <1>2, <2>1, GotoTypes DEF ScriptLabels
<1> QED
  BY <1>7, <1>8 DEF TypeInv

LEMMA OpenTypes == ASSUME Inv, NEW opens \in BOOLEAN, Open(opens) PROVE TypeInv'
<1>0. DataTypes /\ LabelTypes
  BY DEF Inv, TypeInv
<1>1. /\ plays \in Plays /\ pc'[TheScript] = "in" /\ pc'[plays] \in {"test", "done"}
      /\ \A t \in Threads \ {TheScript, plays} : pc'[t] = pc[t]
      /\ pc' \in [Threads -> Labels] /\ camera' \in [Cams -> CameraData]
      /\ \A c \in Cams : camera'[c].play = camera[c].play
  BY OpenEffect
<1>2. /\ UNCHANGED <<theCameras, cams, plays, playevt, frmevt, list, exitevt, lock, at, event, mark,
                     told, late>>
      /\ broken' \in {"reopened", broken}
  BY DEF Open, watchVars, eventVars, ghosts
<1>3. \A p \in Cams : /\ camera'[p].life \in {"none", "live", "freed"}
                      /\ camera'[p].class \in Classes \cup {"none"}
                      /\ camera'[p].play \in 0 .. plays
  BY <1>0, <1>1 DEF CameraData, DataTypes, TypeOK
<1>4. DataTypes'
  BY <1>0, <1>1, <1>2, <1>3 DEF DataTypes, TypeOK
<1>5. LabelTypes'
  <2>1. Plays \subseteq Threads /\ Watching \in Threads \ {TheScript, plays}
        /\ \A i \in Plays : i # TheScript
    BY <1>1 DEF Threads, Readers, Plays, TheScript, Watching
  <2> QED
    BY <1>0, <1>1, <2>1 DEF LabelTypes, ScriptLabels, PlayLabels
<1> QED
  BY <1>4, <1>5 DEF TypeInv

\* What stop does to the fields of a camera.
Halted(c) == [c EXCEPT !.exit = TRUE, !.stopped = TRUE]
Shut(c)   == [c EXCEPT !.open = FALSE]

LEMMA FieldFacts ==
  ASSUME NEW c \in CameraData
  PROVE  /\ Halted(c) \in CameraData /\ Shut(c) \in CameraData
         /\ Halted(c).life = c.life /\ Halted(c).class = c.class /\ Halted(c).stopped
         /\ Halted(c).play = c.play /\ Halted(c).plays = c.plays
         /\ Shut(c).life = c.life /\ Shut(c).class = c.class /\ Shut(c).stopped = c.stopped
         /\ Shut(c).play = c.play /\ Shut(c).plays = c.plays
<1>1. c = [life |-> c.life, class |-> c.class, exit |-> c.exit, open |-> c.open,
           play |-> c.play, plays |-> c.plays, stopped |-> c.stopped]
  BY DEF CameraData
<1> DEFINE yes == TRUE  no == FALSE
<1>2. Halted(c) = [life |-> c.life, class |-> c.class, exit |-> yes, open |-> c.open,
                   play |-> c.play, plays |-> c.plays, stopped |-> yes]
  <2>1. Halted(c) = [c EXCEPT !.exit = yes, !.stopped = yes]
    BY DEF Halted
  <2> HIDE DEF yes
  <2> QED
    BY <1>1, <2>1
<1>3. Shut(c) = [life |-> c.life, class |-> c.class, exit |-> c.exit, open |-> no,
                 play |-> c.play, plays |-> c.plays, stopped |-> c.stopped]
  <2>1. Shut(c) = [c EXCEPT !.open = no]
    BY DEF Shut
  <2> HIDE DEF no
  <2> QED
    BY <1>1, <2>1
<1> QED
  BY <1>2, <1>3 DEF CameraData

\* The other calls about a camera.
LEMMA CallTypes ==
  ASSUME Inv, NEW m \in Marks, Snapshot(m) \/ DelCam(m)
  PROVE  TypeInv'
<1> USE DEF TypeOK, At, Waits, WaitFor, camVars, eventVars, watchVars, ghosts, Readers
<1>0. DataTypes /\ LabelTypes
  BY DEF Inv, TypeInv
<1>1. TheScript \in Threads /\ TheScript # Watching /\ TheScript \notin Plays
  BY DEF Threads, Plays, TheScript, Watching
<1>2. cams[m] \in Cams /\ camera[cams[m]].play \in Plays
  BY <1>0 DEF Snapshot, HasFrame, DelCam, DataTypes, Inv, CamsInv, Mapped, PlayInv, Filled, Fresh
<1>3. CASE Snapshot(m)
  <2>1. DataTypes'
    BY <1>0, <1>1, <1>2, <1>3 DEF Snapshot, DataTypes
  <2>2. LabelTypes'
    BY <1>0, <1>1, <1>3, GotoTypes DEF Snapshot, ScriptLabels
  <2> QED
    BY <2>1, <2>2 DEF TypeInv
<1>4. CASE DelCam(m)
  <2>1. camera' = [camera EXCEPT ![cams[m]].exit = TRUE, ![cams[m]].stopped = TRUE]
    BY <1>4 DEF DelCam
  <2>2. camera' \in [Cams -> CameraData]
        /\ \A o \in Cams : /\ camera'[o].life = camera[o].life /\ camera'[o].play = camera[o].play
                           /\ camera'[o].class = camera[o].class
    <3>1. camera' = [camera EXCEPT ![cams[m]] = Halted(camera[cams[m]])]
      BY <1>0, <1>2, <2>1 DEF Halted, DataTypes
    <3> QED
      BY <1>0, <1>2, <3>1, FieldFacts DEF DataTypes
  <2>3. playevt' \in [Plays -> BOOLEAN] /\ frmevt' \in [Plays -> BOOLEAN]
    <3>1. (frmevt[camera[cams[m]].play] \/ camera[cams[m]].class # "pnp") \in BOOLEAN
      OBVIOUS
    <3> QED
      BY <1>0, <1>2, <1>4, <3>1 DEF DelCam, DataTypes
  <2>4. at' \in [Threads -> {0} \cup Cams] /\ event' \in [Threads -> {0} \cup Plays]
        /\ mark' \in [Readers -> {NoMark} \cup Marks]
    BY <1>0, <1>1, <1>2, <1>4 DEF DelCam, DataTypes
  <2>5. DataTypes'
    BY <1>0, <1>4, <2>2, <2>3, <2>4 DEF DelCam, DataTypes
  <2>6. LabelTypes'
    BY <1>0, <1>1, <1>4, GotoTypes DEF DelCam, ScriptLabels, Stopping
  <2> QED
    BY <2>5, <2>6 DEF TypeInv
<1> QED
  BY <1>3, <1>4

\* The rest of stop, and the end of delcam.
LEMMA StopTypes == ASSUME Inv, Stop PROVE TypeInv'
<1> USE DEF TypeOK, At, Waited, camVars, eventVars, watchVars, ghosts, Readers
<1>0. DataTypes /\ LabelTypes
  BY DEF Inv, TypeInv
<1>1. TheScript \in Threads /\ TheScript # Watching /\ TheScript \notin Plays
  BY DEF Threads, Plays, TheScript, Watching
<1> DEFINE o == at[TheScript]
<1>2. o \in Cams
  BY <1>0, <1>1 DEF Stop, StopWaits, Release, Delete, Erase, Inv, CamsInv, Stops, Stopping,
                    DataTypes
<1>3. CASE StopWaits
  <2>1. DataTypes'
    BY <1>0, <1>2, <1>3 DEF StopWaits, DataTypes
  <2>2. LabelTypes'
    BY <1>0, <1>1, <1>3, GotoTypes DEF StopWaits, ScriptLabels, Stopping
  <2> QED
    BY <2>1, <2>2 DEF TypeInv
<1>4. CASE Release
  <2>1. camera' \in [Cams -> CameraData]
        /\ \A p \in Cams : /\ camera'[p].life = camera[p].life /\ camera'[p].play = camera[p].play
                           /\ camera'[p].class = camera[p].class
    <3>1. camera' = [camera EXCEPT ![o] = Shut(camera[o])]
      BY <1>0, <1>2, <1>4 DEF Release, Shut, DataTypes
    <3> QED
      BY <1>0, <1>2, <3>1, FieldFacts DEF DataTypes
  <2>2. frmevt' \in [Plays -> BOOLEAN]
    BY <1>0, <1>4 DEF Release, DataTypes
  <2>3. DataTypes'
    BY <1>0, <1>4, <2>1, <2>2 DEF Release, DataTypes
  <2>4. LabelTypes'
    BY <1>0, <1>1, <1>4, GotoTypes DEF Release, ScriptLabels, Stopping
  <2> QED
    BY <2>3, <2>4 DEF TypeInv
<1>5. CASE Delete
  <2>1. camera' \in [Cams -> CameraData]
        /\ \A p \in Cams : /\ camera'[p].life \in {"none", "live", "freed"}
                           /\ camera'[p].play = camera[p].play
                           /\ camera'[p].class = camera[p].class
    BY <1>0, <1>2, <1>5 DEF Delete, DataTypes, CameraData
  <2>2. DataTypes'
    BY <1>0, <1>5, <2>1 DEF Delete, DataTypes
  <2>3. LabelTypes'
    BY <1>0, <1>1, <1>5, GotoTypes DEF Delete, ScriptLabels, Stopping
  <2> QED
    BY <2>2, <2>3 DEF TypeInv
<1>6. CASE Erase
  <2>1. DataTypes'
    BY <1>0, <1>6 DEF Erase, DataTypes
  <2>2. LabelTypes'
    BY <1>0, <1>1, <1>6, GotoTypes DEF Erase, ScriptLabels
  <2> QED
    BY <2>1, <2>2 DEF TypeInv
<1> QED
  BY <1>3, <1>4, <1>5, <1>6 DEF Stop

-----------------------------------------------------------------------------
(* Steps at frames                                                         *)

\* Who moves from where, and what all these steps leave alone.
LEMMA FillingMoves ==
  ASSUME Inv, Filling
  PROVE  /\ UNCHANGED <<cams, camera, plays, at, mark, late>>
         /\ \E t \in Threads :
              /\ \A u \in Threads \ {t} : pc'[u] = pc[u]
              /\ t \in Plays => pc[t] \notin {"none", "done"}
              /\ t = TheScript => <<pc[t], pc'[t]>> \in {<<"want", "frame">>, <<"frame", "in">>}
              /\ t = Watching => <<pc[t], pc'[t]>> \in {<<"want", "frame">>, <<"frame", "shown">>}
              /\ at[t] \in Cams
<1> USE DEF camVars, eventVars, watchVars, ghosts
<1>0. pc \in [Threads -> Labels] /\ Plays \subseteq Threads
      /\ TheScript \notin Plays /\ Watching \notin Plays
  BY DEF Inv, TypeInv, LabelTypes, Threads, Plays, TheScript, Watching
<1>1. ASSUME NEW i \in Plays, Loop(i) \/ Receive(i)
      PROVE  /\ UNCHANGED <<cams, camera, plays, at, mark, late>>
             /\ \A u \in Threads \ {i} : pc'[u] = pc[u]
             /\ pc[i] \notin {"none", "done"}
  <2>1. UNCHANGED <<cams, camera, plays, at, mark, late>>
    BY <1>1 DEF Loop, Test, Signalled, TimedOut, Ask, End, Receive
  <2>2. pc[i] \in {"test", "nap", "ask", "end", "recv"} /\ \E label : Goto(i, label)
    BY <1>1 DEF Loop, Test, Signalled, TimedOut, Ask, End, Receive, At
  <2> QED
    BY <1>0, <2>1, <2>2 DEF Goto
<1>2. ASSUME NEW t \in Threads, Passes(t) \/ LeaveFrame(t)
      PROVE  /\ UNCHANGED <<cams, camera, plays, at, mark, late>>
             /\ \A u \in Threads \ {t} : pc'[u] = pc[u]
             /\ \/ pc[t] = "want" /\ pc'[t] = "frame"
                \/ pc[t] = "frame" /\ pc'[t] = AfterFrame(t)
  BY <1>0, <1>2 DEF Passes, LeaveFrame, At, Goto
<1>3. AfterFrame(TheScript) = "in" /\ AfterFrame(Watching) = "shown"
  BY DEF AfterFrame, TheScript, Watching
<1>4. CASE \E i \in Plays : Loop(i) \/ Receive(i)
  <2>1. PICK i \in Plays : Loop(i) \/ Receive(i)
    BY <1>4
  <2>2. i \in Threads /\ i # TheScript /\ i # Watching /\ at[i] \in Cams
    BY <1>0, <1>1, <2>1, PlaceFacts
  <2> QED
    BY <1>1, <2>1, <2>2
<1>5. CASE \E t \in Threads : Passes(t) \/ LeaveFrame(t)
  <2>1. PICK t \in Threads : Passes(t) \/ LeaveFrame(t)
    BY <1>5
  <2>2. at[t] \in Cams
    BY <1>2, <2>1, PlaceFacts DEF At
  <2> QED
    BY <1>2, <1>3, <2>1, <2>2
<1> QED
  BY <1>4, <1>5 DEF Filling

LEMMA FillingPlaces == ASSUME Inv, Filling PROVE PlayInv' /\ CamsInv'
<1>1. UNCHANGED <<cams, camera, plays, at, mark, late>>
  BY FillingMoves
<1>2. PICK t \in Threads :
        /\ \A u \in Threads \ {t} : pc'[u] = pc[u]
        /\ t \in Plays => pc[t] \notin {"none", "done"}
        /\ t = TheScript => <<pc[t], pc'[t]>> \in {<<"want", "frame">>, <<"frame", "in">>}
        /\ t = Watching => <<pc[t], pc'[t]>> \in {<<"want", "frame">>, <<"frame", "shown">>}
        /\ at[t] \in Cams
  BY FillingMoves
<1>3. Plays \subseteq Threads /\ TheScript \in Threads
  BY DEF Threads, Readers, Plays, TheScript, Watching
<1>4. PlayInv'
  <2>1. Unstarted'
    <3>1. \A i \in Plays : i > plays => pc[i] = "none"
      BY DEF Inv, PlayInv, Unstarted
    <3> QED
      BY <1>1, <1>2, <1>3, <3>1 DEF Unstarted
  <2>2. Unplayed' /\ Placed' /\ Blank' /\ Filled' /\ Single'
    BY <1>1 DEF Inv, PlayInv, Unplayed, Placed, Blank, Filled, Single
  <2>3. Fresh'
    BY <1>1, <1>2, <1>3 DEF Inv, PlayInv, Fresh
  <2> QED
    BY <2>1, <2>2, <2>3 DEF PlayInv
<1>5. CamsInv'
  <2>1. CamsInv
    BY DEF Inv
  <2>2. \/ pc'[TheScript] = pc[TheScript]
        \/ pc[TheScript] \in {"want", "frame"} /\ pc'[TheScript] \in {"frame", "in"}
    BY <1>2, <1>3
  <2>3. Mapped' /\ Apart' /\ Freed'
    BY <1>1, <2>1 DEF CamsInv, Mapped, Apart, Freed
  <2>4. Stopped' /\ Stops' /\ Living'
    BY <1>1, <2>1, <2>2 DEF CamsInv, Stopped, Stops, Living, Stopping
  <2>5. Adding'
    BY <1>1, <1>2, <1>3, <2>1, <2>2 DEF CamsInv, Adding
  <2>6. Within'
    <3>1. 0 \notin Cams
      BY DEF Cams
    <3> QED
      BY <1>1, <1>2, <2>1, <3>1 DEF CamsInv, Within, At
  <2> QED
    BY <2>3, <2>4, <2>5, <2>6 DEF CamsInv
<1> QED
  BY <1>4, <1>5

\* A camera that was played once has one thread and one pair of events.
LEMMA OnePlay ==
  ASSUME Inv, NEW o \in Cams, camera[o].plays = 1
  PROVE  /\ camera[o].play \in Plays /\ at[camera[o].play] = o
         /\ \A i \in Plays : at[i] = o => i = camera[o].play
<1>1. camera[o].life # "none"
  BY DEF Inv, PlayInv, Blank, Unmade
<1>2. camera[o].play # 0
  BY <1>1 DEF Inv, PlayInv, Fresh
<1> QED
  BY <1>1, <1>2 DEF Inv, PlayInv, Filled, Single

LEMMA FillingEvents == ASSUME Inv, Filling PROVE EventInv'
<1> USE DEF At, camVars, eventVars, watchVars, ghosts
<1>0. /\ pc \in [Threads -> Labels] /\ event \in [Threads -> {0} \cup Plays]
      /\ Plays \subseteq Threads /\ 0 \notin Cams
  BY DEF Inv, TypeInv, DataTypes, LabelTypes, TypeOK, Threads, Cams
<1>1. ASSUME NEW t \in Threads,
             at' = at, \A u \in Threads \ {t} : pc'[u] = pc[u] /\ event'[u] = event[u],
             pc'[t] \notin {"want", "nap", "stop", "release"}
      PROVE  EventInv'
  BY <1>1 DEF Inv, EventInv
<1>2. ASSUME NEW t \in Threads, at[t] \in Cams, pc[t] # "add", Waits(t, at[t]),
             at' = at, \A u \in Threads \ {t} : pc'[u] = pc[u]
      PROVE  EventInv'
  <2>1. camera[at[t]].play \in Plays /\ at[camera[at[t]].play] = at[t]
    BY <1>2, PlaceFacts
  <2>2. \A u \in Threads : event'[u] = IF u = t THEN camera[at[t]].play ELSE event[u]
    BY <1>0, <1>2 DEF Waits
  <2> QED
    BY <1>0, <1>2, <2>1, <2>2 DEF Inv, EventInv
<1>3. ASSUME NEW i \in Plays, Test(i) \/ Ask(i) PROVE EventInv'
  <2>1. at[i] \in Cams /\ pc[i] # "add"
    BY <1>0, <1>3, PlaceFacts DEF Test, Ask
  <2>2. at' = at /\ \A u \in Threads \ {i} : pc'[u] = pc[u]
    BY <1>0, <1>3 DEF Test, Ask, Goto
  <2>3. \/ Waits(i, at[i])
        \/ event' = event /\ pc'[i] \in {"end", "frame"}
    BY <1>0, <1>3 DEF Test, Ask, Goto
  <2> QED
    BY <1>0, <1>1, <1>2, <2>1, <2>2, <2>3
<1>4. ASSUME NEW i \in Plays, Signalled(i) \/ TimedOut(i) \/ Receive(i) \/ End(i) PROVE EventInv'
  <2>1. at' = at /\ \A u \in Threads \ {i} : pc'[u] = pc[u] /\ event'[u] = event[u]
    BY <1>0, <1>4 DEF Signalled, TimedOut, Receive, End, Goto, Waited
  <2>2. pc'[i] \in {"end", "recv", "ask", "test", "done"}
    BY <1>0, <1>4 DEF Signalled, TimedOut, Receive, End, Goto
  <2> QED
    BY <1>0, <1>1, <2>1, <2>2
<1>5. ASSUME NEW t \in Threads, Passes(t) \/ LeaveFrame(t) PROVE EventInv'
  <2>1. at' = at /\ \A u \in Threads \ {t} : pc'[u] = pc[u] /\ event'[u] = event[u]
    BY <1>0, <1>5 DEF Passes, LeaveFrame, Goto, Waited
  <2>2. pc'[t] \in {"frame", "in", "shown", "test"}
    BY <1>0, <1>5 DEF Passes, LeaveFrame, AfterFrame, Goto
  <2> QED
    BY <1>1, <2>1, <2>2
<1> QED
  BY <1>3, <1>4, <1>5 DEF Filling, Loop

\* The frame changes hands by its event alone.
LEMMA FillingMutex == ASSUME Inv, Filling PROVE MutexInv'
<1> USE DEF At, camVars, eventVars, watchVars, ghosts
<1>0. /\ pc \in [Threads -> Labels] /\ frmevt \in [Plays -> BOOLEAN]
      /\ Plays \subseteq Threads /\ 0 \notin Cams /\ MutexInv
  BY DEF Inv, TypeInv, DataTypes, LabelTypes, TypeOK, Threads, Cams
<1>1. camera' = camera /\ at' = at
  BY FillingMoves
<1>2. ASSUME NEW t \in Threads, \A u \in Threads \ {t} : pc'[u] = pc[u], pc'[t] # "frame",
             frmevt' = frmevt
      PROVE  MutexInv'
  BY <1>0, <1>1, <1>2 DEF MutexInv, Guarded
<1>3. ASSUME NEW i \in Plays, Test(i) \/ Signalled(i) \/ TimedOut(i) \/ Receive(i) \/ End(i)
      PROVE  MutexInv'
  <2>1. (\A u \in Threads \ {i} : pc'[u] = pc[u]) /\ frmevt' = frmevt
    BY <1>0, <1>3 DEF Test, Signalled, TimedOut, Receive, End, Goto
  <2>2. pc'[i] \in {"end", "nap", "recv", "ask", "test", "done"}
    BY <1>0, <1>3 DEF Test, Signalled, TimedOut, Receive, End, Goto
  <2> QED
    BY <1>0, <1>2, <2>1, <2>2
<1>4. ASSUME NEW i \in Plays, Ask(i) PROVE MutexInv'
  <2>1. \A u \in Threads \ {i} : pc'[u] = pc[u]
    BY <1>0, <1>4 DEF Ask, Goto
  <2>2. CASE Class(i) # "screen"
    <3>1. pc'[i] = "want" /\ frmevt' = frmevt
      BY <1>0, <1>4, <2>2 DEF Ask, Goto
    <3> QED
      BY <1>0, <1>2, <2>1, <3>1
  <2>3. CASE Class(i) = "screen"
    <3>1. \A e \in Plays : frmevt'[e] => frmevt[e]
      BY <1>0, <1>4, <2>3 DEF Ask
    <3>2. \A o \in Cams : Guarded(o) => at[i] # o /\ camera[o].play \in Plays
      BY <2>3, OnePlay DEF Guarded, Class
    <3> QED
      BY <1>0, <1>1, <2>1, <3>1, <3>2 DEF MutexInv, Guarded
  <2> QED
    BY <2>2, <2>3
<1>5. ASSUME NEW t \in Threads, Passes(t) PROVE MutexInv'
  <2>1. (\A u \in Threads \ {t} : pc'[u] = pc[u]) /\ pc'[t] = "frame"
    BY <1>0, <1>5 DEF Passes, Goto
  <2>2. event[t] \in Plays /\ at[event[t]] = at[t] /\ frmevt[event[t]]
    BY <1>5 DEF Passes, Inv, EventInv
  <2>3. \A e \in Plays : frmevt'[e] <=> frmevt[e] /\ e # event[t]
    BY <1>0, <1>5 DEF Passes, Taken
  <2>4. \A o \in Cams : Guarded(o) => camera[o].play \in Plays
                                      /\ (at[t] = o <=> event[t] = camera[o].play)
    BY <2>2, OnePlay DEF Guarded
  <2>5. \A o \in Cams : Guarded(o) /\ at[t] = o =>
          /\ ~frmevt'[camera[o].play]
          /\ \A u \in Threads : pc[u] = "frame" => at[u] # o
    BY <1>0, <2>2, <2>3, <2>4 DEF MutexInv
  <2>6. \A o \in Cams : Guarded(o) /\ at[t] # o =>
          frmevt'[camera[o].play] <=> frmevt[camera[o].play]
    BY <2>3, <2>4
  <2> QED
    BY <1>0, <1>1, <2>1, <2>5, <2>6 DEF MutexInv, Guarded
<1>6. ASSUME NEW t \in Threads, LeaveFrame(t) PROVE MutexInv'
  <2>1. (\A u \in Threads \ {t} : pc'[u] = pc[u]) /\ pc'[t] # "frame" /\ pc[t] = "frame"
    BY <1>0, <1>6 DEF LeaveFrame, AfterFrame, Goto
  <2>2. at[t] \in Cams /\ at[camera[at[t]].play] = at[t]
    BY <2>1, PlaceFacts
  <2>3. \A e \in Plays : e # camera[at[t]].play => frmevt'[e] = frmevt[e]
    BY <1>0, <1>6 DEF LeaveFrame, Returned
  <2>4. \A o \in Cams : Guarded(o) => camera[o].play \in Plays /\ at[camera[o].play] = o
    BY OnePlay DEF Guarded
  <2>5. \A o \in Cams : Guarded(o) /\ at[t] = o => \A u \in Threads : pc'[u] = "frame" => at[u] # o
    BY <1>0, <2>1 DEF MutexInv
  <2>6. \A o \in Cams : Guarded(o) /\ at[t] # o => frmevt'[camera[o].play] = frmevt[camera[o].play]
    BY <2>2, <2>3, <2>4
  <2> QED
    BY <1>0, <1>1, <2>1, <2>5, <2>6 DEF MutexInv, Guarded
<1> QED
  BY <1>3, <1>4, <1>5, <1>6 DEF Filling, Loop

\* The signal of m_playevt: until it is stopped, a camera's is raised by nobody but
\* its thread, which has ended then.
LEMMA FillingSignals == ASSUME Inv, Filling PROVE SignalInv' /\ ToldInv'
<1> USE DEF At, camVars, eventVars, watchVars, ghosts
<1>0. /\ pc \in [Threads -> Labels] /\ playevt \in [Plays -> BOOLEAN] /\ told \subseteq Plays
      /\ Plays \subseteq Threads /\ SignalInv /\ ToldInv
      /\ TheScript \in Threads /\ TheScript \notin Plays /\ Watching \notin Plays
  BY DEF Inv, TypeInv, DataTypes, LabelTypes, TypeOK, Threads, Readers, Plays, TheScript, Watching
<1>1. UNCHANGED <<camera, plays, at, late>>
  BY FillingMoves
<1>2. /\ \A i \in Plays : pc[i] = "done" => pc'[i] = "done"
      /\ pc'[TheScript] = "stop" <=> pc[TheScript] = "stop"
  BY <1>0, FillingMoves
<1>3. \A o \in Cams : (Past(o))' <=> Past(o)
  BY <1>1, <1>2 DEF Past
<1>4. \A o \in Cams : camera[o].plays = 1 => (Ended(o) => (Ended(o))') /\ camera[o].play \in Plays
  BY <1>1, <1>2, OnePlay DEF Ended
<1>5. ASSUME \A e \in Plays : playevt'[e] => playevt[e], told' = told
      PROVE  SignalInv' /\ ToldInv'
  BY <1>0, <1>1, <1>3, <1>4, <1>5 DEF SignalInv, ToldInv, Awaited
<1>6. ASSUME NEW i \in Plays, Signalled(i) PROVE SignalInv' /\ ToldInv'
  <2>1. event[i] \in Plays /\ at[event[i]] = at[i] /\ at[i] \in Cams /\ playevt[event[i]]
    BY <1>0, <1>6, PlaceFacts DEF Signalled, Inv, EventInv
  <2>2. told' = told \cup {i} /\ (\A e \in Plays : playevt'[e] <=> playevt[e] /\ e # event[i])
    BY <1>0, <1>6 DEF Signalled
  <2>3. i <= plays
    BY <1>6 DEF Signalled, Inv, PlayInv, Unstarted, TypeInv, DataTypes, TypeOK, Plays
  <2>4. ASSUME NEW o \in Cams, camera[o].plays = 1, camera[o].play = i
        PROVE  camera[o].stopped /\ ~Awaited(o)
    <3>1. event[i] = i
      BY <1>0, <2>1, <2>4, OnePlay
    <3>2. ~Ended(o)
      BY <1>6, <2>4 DEF Signalled, Ended
    <3> QED
      BY <1>0, <2>1, <2>4, <3>1, <3>2 DEF SignalInv
  <2>5. ToldInv'
    BY <1>0, <1>1, <1>3, <1>4, <2>2, <2>3, <2>4 DEF ToldInv, Awaited
  <2>6. ASSUME NEW o \in Cams, camera[o].plays = 1, playevt'[camera[o].play],
               ~camera[o].stopped \/ camera[o].play \in told \/ Awaited(o)
        PROVE  (Ended(o))'
    BY <1>0, <1>4, <2>2, <2>6 DEF SignalInv
  <2>7. ASSUME NEW o \in Cams, camera[o].plays = 1, camera[o].play = i
        PROVE  ~playevt'[camera[o].play]
    BY <1>0, <2>1, <2>2, <2>7, OnePlay
  <2>8. SignalInv'
    <3> SUFFICES ASSUME NEW o \in Cams,
                        camera'[o].plays = 1, playevt'[camera'[o].play],
                        ~camera'[o].stopped \/ camera'[o].play \in told' \/ (Awaited(o))'
                 PROVE  (Ended(o))'
      BY DEF SignalInv
    <3>1. camera[o].play # i
      BY <1>1, <2>7
    <3>2. ~camera[o].stopped \/ camera[o].play \in told \/ Awaited(o)
      BY <1>1, <1>3, <2>2, <3>1 DEF Awaited
    <3> QED
      BY <1>1, <2>6, <3>2
  <2> QED
    BY <2>5, <2>8
<1>7. ASSUME NEW i \in Plays, End(i) PROVE SignalInv' /\ ToldInv'
  <2>1. told' = told /\ pc'[i] = "done" /\ pc[i] = "end" /\ at[i] \in Cams
    BY <1>0, <1>7, PlaceFacts DEF End, Goto
  <2>2. at[camera[at[i]].play] = at[i]
        /\ \A e \in Plays : e # camera[at[i]].play => playevt'[e] = playevt[e]
    BY <1>0, <1>7, <2>1, PlaceFacts DEF End
  <2>3. \A o \in Cams : camera[o].plays = 1 /\ o = at[i] => (Ended(o))'
    BY <1>0, <1>1, <2>1, OnePlay DEF Ended
  <2>4. \A o \in Cams : camera[o].plays = 1 /\ o # at[i] =>
          playevt'[camera[o].play] = playevt[camera[o].play]
    BY <2>2, OnePlay
  <2> QED
    BY <1>0, <1>1, <1>3, <1>4, <2>1, <2>3, <2>4 DEF SignalInv, ToldInv, Awaited
<1>8. ASSUME NEW i \in Plays, Test(i) \/ TimedOut(i) \/ Ask(i) \/ Receive(i)
      PROVE  playevt' = playevt /\ told' = told
  BY <1>8 DEF Test, TimedOut, Ask, Receive
<1>9. ASSUME NEW t \in Threads, Passes(t) \/ LeaveFrame(t)
      PROVE  playevt' = playevt /\ told' = told
  BY <1>9 DEF Passes, LeaveFrame
<1> QED
  BY <1>5, <1>6, <1>7, <1>8, <1>9 DEF Filling, Loop

LEMMA FillingStep == ASSUME Inv, Filling PROVE Inv'
  BY FillingTypes, FillingPlaces, FillingEvents, FillingMutex, FillingSignals DEF Inv

-----------------------------------------------------------------------------
(* Steps beside the cameras                                                *)

\* A step that leaves cameras and events alone, and in which the threads stay where
\* they are or go between labels that are about no camera.
Loose == {"out", "in", "none", "sleep", "look", "shown", "call", "gone"}

LEMMA LooseKeeps ==
  ASSUME Inv, TypeInv',
         UNCHANGED <<cams, camera, plays, playevt, frmevt, at, event, told, late>>,
         mark'[TheScript] = mark[TheScript],
         \A t \in Threads :
           \/ pc'[t] = pc[t]
           \/ t \in Readers /\ pc[t] \in Loose /\ pc'[t] \in Loose
  PROVE  Inv'
<1> USE DEF At
<1>0. /\ Plays \subseteq Threads /\ TheScript \in Threads
      /\ \A i \in Plays : i \notin Readers
  BY DEF Threads, Readers, Plays, TheScript, Watching
<1>1. \A label : label \notin Loose =>
        \A t \in Threads : pc'[t] = label <=> pc[t] = label
  OBVIOUS
<1>2. /\ \A i \in Plays : pc'[i] = pc[i]
      /\ pc'[TheScript] \in Stopping <=> pc[TheScript] \in Stopping
      /\ pc'[TheScript] = "stop" <=> pc[TheScript] = "stop"
      /\ \A t \in Threads : pc'[t] = "frame" <=> pc[t] = "frame"
      /\ \A t \in Threads : \A label \in {"want", "nap", "stop", "release"} :
           pc'[t] = label <=> pc[t] = label
  BY <1>0, <1>1 DEF Loose, Stopping
<1>3. PlayInv'
  <2>1. pc[TheScript] = "add" => pc'[TheScript] = "add"
    BY <1>0 DEF Loose
  <2> QED
    BY <1>2, <2>1 DEF Inv, PlayInv, Unplayed, Unstarted, Placed, Blank, Filled, Single, Fresh
<1>4. EventInv'
  BY <1>2 DEF Inv, EventInv
<1>5. CamsInv'
  <2>1. CamsInv
    BY DEF Inv
  <2>2. pc'[TheScript] \in {"add", "open", "stop", "want", "frame"} =>
          pc'[TheScript] = pc[TheScript]
    BY <1>0 DEF Loose
  <2>3. Mapped' /\ Apart' /\ Stopped' /\ Stops' /\ Freed'
    BY <1>2, <2>1 DEF CamsInv, Mapped, Apart, Stopped, Stops, Freed
  <2>4. Living' /\ Adding' /\ Within'
    BY <1>2, <2>1, <2>2 DEF CamsInv, Living, Adding, Within
  <2> QED
    BY <2>3, <2>4 DEF CamsInv
<1>6. MutexInv'
  BY <1>2 DEF Inv, MutexInv, Guarded
<1>7. \A o \in Cams : camera[o].plays = 1 =>
        ((Ended(o))' <=> Ended(o)) /\ ((Awaited(o))' <=> Awaited(o))
  BY <1>2, OnePlay DEF Ended, Awaited, Past
<1>8. SignalInv'
  BY <1>7 DEF Inv, SignalInv
<1>9. ToldInv'
  BY <1>7 DEF Inv, ToldInv
<1> QED
  BY <1>3, <1>4, <1>5, <1>6, <1>8, <1>9 DEF Inv

LEMMA AsideStep == ASSUME Inv, Aside PROVE Inv'
<1> USE DEF camVars, eventVars, watchVars, ghosts
<1>0. pc \in [Threads -> Labels] /\ mark \in [Readers -> {NoMark} \cup Marks]
      /\ TheScript \in Threads /\ Watching \in Threads /\ TheScript # Watching
      /\ TheScript \in Readers /\ Watching \in Readers
  BY DEF Inv, TypeInv, DataTypes, LabelTypes, TypeOK, Threads, Readers, TheScript, Watching
<1>1. TypeInv'
  BY AsideTypes DEF Inv
<1>2. UNCHANGED <<cams, camera, plays, playevt, frmevt, at, event, told, late>>
  BY DEF Aside, Enter, Exit, Display, Destory, UseNull, Throws, Monitor, Wake, Walked, Short, Shown,
         Show
<1>3. mark'[TheScript] = mark[TheScript]
  BY <1>0 DEF Aside, Enter, Exit, Display, Destory, UseNull, Throws, Monitor, Wake, Walked, Short,
              Shown, Show
<1>4. ASSUME NEW t \in Readers, NEW label \in Loose, pc[t] \in Loose, Goto(t, label),
             NEW u \in Threads
      PROVE  pc'[u] = pc[u] \/ (u \in Readers /\ pc[u] \in Loose /\ pc'[u] \in Loose)
  BY <1>0, <1>4 DEF Goto
<1>5. \/ pc' = pc
      \/ \E t \in Readers, label \in Loose : pc[t] \in Loose /\ Goto(t, label)
  <2>1. CASE Enter \/ Exit
    BY <1>0, <2>1 DEF Enter, Exit, At, Loose
  <2>2. CASE Display \/ Wake \/ Walked \/ Short \/ Shown \/ Show
    BY <1>0, <2>2 DEF Display, Wake, Walked, Short, Shown, Show, At, Loose
  <2>3. CASE Destory \/ UseNull \/ \E r \in Readers : Throws(r)
    BY <2>3 DEF Destory, UseNull, Throws
  <2>4. ASSUME NEW r \in Readers, NEW m \in Marks, NEW tms \in 0 .. MaxTms, Monitor(r, m, tms)
        PROVE  pc' = pc
    BY <2>4 DEF Monitor
  <2> QED
    BY <2>1, <2>2, <2>3, <2>4 DEF Aside
<1> QED
  BY <1>1, <1>2, <1>3, <1>4, <1>5, LooseKeeps

\* A reader goes to wait for the frame of the camera under m.
LEMMA WaitForKeeps ==
  ASSUME Inv, TypeInv', NEW r \in Readers, NEW m \in Marks, cams[m] # 0,
         camera[cams[m]].play # 0, pc[r] \in Loose, WaitFor(r, m),
         UNCHANGED <<cams, camera, plays, playevt, frmevt, told, late>>,
         mark'[TheScript] = mark[TheScript]
  PROVE  Inv'
<1> USE DEF At
<1> DEFINE o == cams[m]
<1>0. /\ pc \in [Threads -> Labels] /\ at \in [Threads -> {0} \cup Cams]
      /\ event \in [Threads -> {0} \cup Plays] /\ cams \in [Marks -> {0} \cup Cams]
      /\ Plays \subseteq Threads /\ TheScript \in Threads /\ r \in Threads
      /\ TheScript \notin Plays /\ r \notin Plays
  BY DEF Inv, TypeInv, DataTypes, LabelTypes, TypeOK, Threads, Readers, Plays, TheScript, Watching
<1>1. \A t \in Threads : /\ pc'[t] = IF t = r THEN "want" ELSE pc[t]
                         /\ at'[t] = IF t = r THEN o ELSE at[t]
                         /\ event'[t] = IF t = r THEN camera[o].play ELSE event[t]
  BY <1>0 DEF WaitFor, Goto, Waits
<1>2. /\ \A i \in Plays : pc'[i] = pc[i] /\ at'[i] = at[i]
      /\ pc'[TheScript] \in Stopping <=> pc[TheScript] \in Stopping
      /\ pc'[TheScript] = "stop" <=> pc[TheScript] = "stop"
      /\ pc[TheScript] \in Stopping \cup {"add", "open"} =>
           pc'[TheScript] = pc[TheScript] /\ at'[TheScript] = at[TheScript]
      /\ pc'[TheScript] \in {"add", "open"} => pc[TheScript] \in {"add", "open"}
      /\ \A t \in Threads : pc'[t] = "frame" <=> pc[t] = "frame"
      /\ \A t \in Threads : pc[t] = "frame" => at'[t] = at[t]
  BY <1>0, <1>1 DEF Loose, Stopping
<1>3. o \in Cams /\ camera[o].life # "none" /\ o # 0
  BY <1>0 DEF Inv, CamsInv, Mapped, Cams
<1>4. camera[o].play \in Plays /\ at[camera[o].play] = o
  BY <1>3 DEF Inv, PlayInv, Filled
<1>5. PlayInv'
  <2>1. Unplayed' /\ Unstarted' /\ Blank' /\ Single'
    BY <1>2 DEF Inv, PlayInv, Unplayed, Unstarted, Blank, Single
  <2>2. Placed'
    BY <1>1, <1>3 DEF Inv, PlayInv, Placed
  <2>3. Filled'
    BY <1>2 DEF Inv, PlayInv, Filled
  <2>4. Fresh'
    BY <1>0, <1>1, <1>2 DEF Inv, PlayInv, Fresh
  <2> QED
    BY <2>1, <2>2, <2>3, <2>4 DEF PlayInv
<1>6. EventInv'
  BY <1>0, <1>1, <1>3, <1>4 DEF Inv, EventInv
<1>7. CamsInv'
  <2>1. CamsInv
    BY DEF Inv
  <2>2. Mapped' /\ Apart' /\ Stopped' /\ Stops' /\ Freed' /\ Within'
    BY <1>2, <2>1 DEF CamsInv, Mapped, Apart, Stopped, Stops, Freed, Within, Stopping
  <2>3. Living'
    <3>1. CASE r = TheScript
      <4>1. ~camera[o].stopped
        BY <2>1, <3>1 DEF CamsInv, Stopped, Loose, Stopping
      <4>2. camera[o].life = "live"
        BY <1>3, <2>1, <4>1 DEF CamsInv, Freed, Inv, TypeInv, DataTypes, TypeOK
      <4> QED
        BY <1>0, <1>1, <1>3, <3>1, <4>2 DEF Living
    <3>2. CASE r # TheScript
      BY <1>0, <1>1, <2>1, <3>2 DEF CamsInv, Living
    <3> QED
      BY <3>1, <3>2
  <2>4. Adding'
    BY <1>2, <2>1 DEF CamsInv, Adding
  <2> QED
    BY <2>2, <2>3, <2>4 DEF CamsInv
<1>8. MutexInv'
  BY <1>2 DEF Inv, MutexInv, Guarded
<1>9. \A p \in Cams : camera[p].plays = 1 =>
        ((Ended(p))' <=> Ended(p)) /\ ((Awaited(p))' <=> Awaited(p))
  BY <1>2, OnePlay DEF Ended, Awaited, Past, Stopping
<1>10. SignalInv' /\ ToldInv'
  BY <1>9 DEF Inv, SignalInv, ToldInv
<1> QED
  BY <1>5, <1>6, <1>7, <1>8, <1>10 DEF Inv

LEMMA LookStep == ASSUME Inv, Look PROVE Inv'
<1> USE DEF At, camVars, eventVars, watchVars, ghosts
<1>0. mark \in [Readers -> {NoMark} \cup Marks] /\ Watching \in Readers /\ TheScript # Watching
      /\ TheScript \in Readers
  BY DEF Inv, TypeInv, DataTypes, TypeOK, Readers, TheScript, Watching
<1>1. TypeInv'
  BY LookTypes
<1>2. UNCHANGED <<cams, camera, plays, playevt, frmevt, told, late>>
      /\ mark'[TheScript] = mark[TheScript]
  BY <1>0 DEF Look
<1>3. CASE UNCHANGED <<pc, at, event>>
  BY <1>1, <1>2, <1>3, LooseKeeps
<1>4. CASE /\ HasFrame(Min(Ahead)) /\ camera[cams[Min(Ahead)]].play # 0
           /\ WaitFor(Watching, Min(Ahead))
  <2>1. Min(Ahead) \in Marks
    BY NextEntry DEF Inv, Look
  <2> QED
    BY <1>0, <1>1, <1>2, <1>4, <2>1, WaitForKeeps DEF HasFrame, Look, Loose
<1> QED
  BY <1>3, <1>4 DEF Look

LEMMA SnapshotStep == ASSUME Inv, NEW m \in Marks, Snapshot(m) PROVE Inv'
<1>1. TypeInv' /\ TheScript \in Readers
  BY CallTypes DEF Readers
<1>2. UNCHANGED <<cams, camera, plays, playevt, frmevt, told, late, mark>>
  BY DEF Snapshot, camVars, eventVars, watchVars, ghosts
<1>3. cams[m] \in Cams /\ camera[cams[m]].play # 0 /\ pc[TheScript] \in Loose
  BY DEF Snapshot, HasFrame, At, Loose, Inv, TypeInv, DataTypes, TypeOK, CamsInv, Mapped, PlayInv,
         Fresh
<1> QED
  BY <1>1, <1>2, <1>3, WaitForKeeps DEF Snapshot, HasFrame

-----------------------------------------------------------------------------
(* addcam                                                                  *)

\* A step of the script between labels at which it has nothing to do with events:
\* a thread may start, and the cameras that were played once stay.
LEMMA ScriptKeeps ==
  ASSUME Inv, TypeInv', PlayInv', CamsInv',
         UNCHANGED <<plays, playevt, frmevt, event, told, late>>,
         pc[TheScript] \in {"in", "add", "open"}, pc'[TheScript] \in {"in", "add", "open"},
         \A t \in Threads \ {TheScript} :
           /\ at'[t] = at[t]
           /\ pc'[t] = pc[t] \/ (pc[t] = "none" /\ pc'[t] \in {"test", "done"}),
         \A c \in Cams : camera'[c].plays = 1 =>
           /\ camera[c].plays = 1 /\ camera'[c].play = camera[c].play
           /\ camera'[c].stopped = camera[c].stopped /\ camera'[c].class = camera[c].class
  PROVE  Inv'
<1> USE DEF At
<1>0. Plays \subseteq Threads \ {TheScript}
  BY DEF Threads, Plays, TheScript
<1>1. EventInv'
  <2> SUFFICES ASSUME NEW t \in Threads, pc'[t] \in {"want", "nap", "stop", "release"}
               PROVE  at'[t] # 0 /\ event'[t] \in Plays /\ at'[event'[t]] = at'[t]
    BY DEF EventInv
  <2>1. t # TheScript /\ pc[t] = pc'[t] /\ at'[t] = at[t]
    OBVIOUS
  <2> QED
    BY <1>0, <2>1 DEF Inv, EventInv
<1>2. MutexInv'
  <2> SUFFICES ASSUME NEW c \in Cams, NEW t \in Threads, (Guarded(c))', pc'[t] = "frame", at'[t] = c
               PROVE  /\ ~frmevt'[camera'[c].play]
                      /\ \A u \in Threads : pc'[u] = "frame" /\ at'[u] = c => u = t
    BY DEF MutexInv
  <2>1. Guarded(c) /\ camera'[c].play = camera[c].play
    BY DEF Guarded
  <2>2. \A u \in Threads : pc'[u] = "frame" /\ at'[u] = c => pc[u] = "frame" /\ at[u] = c
    OBVIOUS
  <2> QED
    BY <2>1, <2>2 DEF Inv, MutexInv
<1>3. ASSUME NEW c \in Cams, camera'[c].plays = 1
      PROVE  ((Awaited(c))' <=> Awaited(c)) /\ (Ended(c) => (Ended(c))')
  <2>1. (Awaited(c))' <=> Awaited(c)
    BY <1>3 DEF Awaited, Past
  <2>2. camera[c].play \in Plays
    BY <1>3, OnePlay
  <2> QED
    BY <1>0, <1>3, <2>1, <2>2 DEF Ended
<1>4. SignalInv'
  BY <1>3 DEF Inv, SignalInv
<1>5. ToldInv'
  BY <1>3 DEF Inv, ToldInv
<1> QED
  BY <1>1, <1>2, <1>4, <1>5 DEF Inv

LEMMA AddCamStep ==
  ASSUME Inv, NEW m \in Marks, NEW class \in Classes, AddCam(m, class)
  PROVE  Inv'
<1> USE DEF At
<1> DEFINE o == NewCam(m)
<1>1. /\ o \in Cams /\ pc[TheScript] = "in" /\ plays < MaxPlays
      /\ \A c \in Cams \ {o} : camera'[c] = camera[c]
      /\ camera'[o].life = "live" /\ ~camera'[o].stopped /\ camera'[o].class \in Classes
      /\ \/ camera'[o] = camera[o] /\ camera[o].life = "live"
         \/ camera[o].life = "none" /\ camera'[o].play = 0 /\ camera'[o].plays = 0
      /\ \A t \in Threads : /\ at'[t] = IF t = TheScript THEN o ELSE at[t]
                            /\ pc'[t] = IF t = TheScript THEN "add" ELSE pc[t]
      /\ \A n \in Marks : cams'[n] = IF n = m THEN o ELSE cams[n]
      /\ \A n \in Marks \ {m} : cams[n] # o
      /\ UNCHANGED <<plays, playevt, frmevt, event, mark, told, late>>
  BY AddCamEffect
<1>2. /\ Plays \subseteq Threads \ {TheScript} /\ TheScript \in Threads /\ 0 \notin Cams
      /\ cams \in [Marks -> {0} \cup Cams] /\ at \in [Threads -> {0} \cup Cams]
  BY DEF Inv, TypeInv, DataTypes, TypeOK, Threads, Readers, Plays, Cams, TheScript
<1>3. PlayInv /\ CamsInv
  BY DEF Inv
<1> HIDE DEF o
<1>4. /\ \A t \in Threads \ {TheScript} : at'[t] = at[t] /\ pc'[t] = pc[t]
      /\ pc'[TheScript] = "add" /\ at'[TheScript] = o
  BY <1>1, <1>2
<1>5. PlayInv'
  <2>1. Unplayed' /\ Unstarted'
    BY <1>1, <1>2, <1>3, <1>4 DEF PlayInv, Unplayed, Unstarted
  <2>2. Placed' /\ Blank'
    BY <1>1, <1>2, <1>3, <1>4 DEF PlayInv, Placed, Blank
  <2>3. Filled'
    BY <1>1, <1>2, <1>3, <1>4 DEF PlayInv, Filled
  <2>4. Single'
    BY <1>1, <1>2, <1>3, <1>4 DEF PlayInv, Single
  <2>5. Fresh'
    <3>1. \A c \in Cams : camera[c].life # "none" => camera[c].play # 0
      BY <1>1, <1>3 DEF PlayInv, Fresh
    <3>2. camera[o].life = "none" => \A t \in Threads : at[t] # o
      BY <1>1, <1>2, <1>3 DEF PlayInv, Placed
    <3> QED
      BY <1>1, <1>2, <1>4, <3>1, <3>2 DEF Fresh
  <2> QED
    BY <2>1, <2>2, <2>3, <2>4, <2>5 DEF PlayInv
<1>6. CamsInv'
  <2>1. Mapped' /\ Apart'
    BY <1>1, <1>2, <1>3 DEF CamsInv, Mapped, Apart
  <2>2. Stopped'
    BY <1>1, <1>2, <1>3 DEF CamsInv, Stopped, Stopping
  <2>3. Stops' /\ Living' /\ Adding' /\ Freed'
    BY <1>1, <1>2, <1>3, <1>4 DEF CamsInv, Stops, Living, Adding, Freed, Stopping
  <2>4. Within'
    BY <1>2, <1>3, <1>4 DEF CamsInv, Within
  <2> QED
    BY <2>1, <2>2, <2>3, <2>4 DEF CamsInv
<1>7. \A c \in Cams : camera'[c].plays = 1 => camera'[c] = camera[c]
  BY <1>1
<1> QED
  BY <1>1, <1>4, <1>5, <1>6, <1>7, AddCamTypes, ScriptKeeps

LEMMA PlayStep == ASSUME Inv, Play PROVE Inv'
<1> USE DEF At
<1> DEFINE o == at[TheScript]  i == plays + 1
<1>1. /\ o \in Cams /\ i \in Plays /\ i \in Threads /\ i # TheScript /\ plays' = i
      /\ pc[TheScript] = "add" /\ at[i] = 0 /\ pc[i] = "none" /\ i \notin told
      /\ \A t \in Threads : /\ at'[t] = IF t = i THEN o ELSE at[t]
                            /\ pc'[t] = IF t = TheScript THEN "open" ELSE pc[t]
      /\ \A e \in Plays : playevt'[e] = IF e = i THEN FALSE ELSE playevt[e]
      /\ \A e \in Plays : e # i => frmevt'[e] = frmevt[e]
      /\ \A c \in Cams \ {o} : camera'[c] = camera[c]
      /\ camera'[o].life = "live" /\ camera'[o].play = i /\ ~camera'[o].stopped
      /\ camera'[o].class \in Classes /\ camera'[o].plays >= 1
      /\ camera'[o].plays = 1 => camera[o].play = 0
      /\ UNCHANGED <<cams, event, mark, told, late>>
  BY PlayEffect
<1>2. /\ Plays \subseteq Threads /\ TheScript \in Threads /\ 0 \notin Cams
      /\ cams \in [Marks -> {0} \cup Cams] /\ at \in [Threads -> {0} \cup Cams]
      /\ told \subseteq Plays /\ TheScript \notin Plays
  BY DEF Inv, TypeInv, DataTypes, TypeOK, Threads, Readers, Plays, Cams, TheScript
<1>3. plays \in Nat /\ (\A j \in Plays : j \in Nat) /\ i = plays + 1
  BY ConstAssumption DEF ConstAssumption, Inv, TypeInv, DataTypes, TypeOK, Plays
<1>4. PlayInv /\ EventInv /\ CamsInv /\ MutexInv /\ SignalInv /\ ToldInv
  BY DEF Inv
<1>5. /\ pc'[TheScript] = "open" /\ at'[TheScript] = o /\ at[TheScript] = o
      /\ \A j \in Plays : pc'[j] = pc[j]
  BY <1>1, <1>2
<1>6. camera[o].life = "live"
  BY <1>1, AddedCam
<1>7. /\ camera[o].play = 0 => \A t \in Threads \ {TheScript} : at[t] # o
      /\ \A c \in Cams \ {o} : camera[c].life # "none" => camera[c].play # 0
  BY <1>1, <1>4, <1>5, <1>6 DEF PlayInv, Fresh
<1>8. \A c \in Cams \ {o} : camera[c].life # "none" =>
        camera[c].play \in Plays /\ camera[c].play # i /\ at[camera[c].play] = c
  BY <1>1, <1>2, <1>4, <1>7 DEF PlayInv, Filled
<1>9. \A c \in Cams : camera[c].plays = 1 => camera[c].life # "none"
  BY <1>4 DEF PlayInv, Blank, Unmade
<1> HIDE DEF o, i
<1>10. PlayInv'
  <2>1. Unplayed'
    BY <1>1, <1>2, <1>3, <1>4 DEF PlayInv, Unplayed
  <2>2. Unstarted'
    <3>1. \A j \in Plays : j > i => j > plays
      BY <1>3
    <3>2. \A j \in Plays : j > plays => pc[j] = "none"
      BY <1>4 DEF PlayInv, Unstarted
    <3> QED
      BY <1>1, <1>5, <3>1, <3>2 DEF Unstarted
  <2>3. Placed'
    BY <1>1, <1>2, <1>4 DEF PlayInv, Placed
  <2>4. Blank'
    BY <1>1, <1>4 DEF PlayInv, Blank
  <2>5. Filled'
    BY <1>1, <1>2, <1>4, <1>8 DEF PlayInv, Filled
  <2>6. Single'
    BY <1>1, <1>2, <1>4, <1>7 DEF PlayInv, Single
  <2>7. Fresh'
    <3>1. i # 0
      BY <1>3
    <3> QED
      BY <1>1, <1>7, <3>1 DEF Fresh
  <2> QED
    BY <2>1, <2>2, <2>3, <2>4, <2>5, <2>6, <2>7 DEF PlayInv
<1>11. EventInv'
  BY <1>1, <1>2, <1>4 DEF EventInv
<1>12. CamsInv'
  <2>1. Mapped' /\ Apart'
    BY <1>1, <1>2, <1>4 DEF CamsInv, Mapped, Apart
  <2>2. Stopped'
    BY <1>1, <1>2, <1>4 DEF CamsInv, Stopped, Stopping
  <2>3. Stops' /\ Living' /\ Freed' /\ Within'
    BY <1>1, <1>2, <1>4, <1>5 DEF CamsInv, Stops, Living, Freed, Within, Stopping
  <2>4. Adding'
    BY <1>1, <1>5 DEF Adding
  <2> QED
    BY <2>1, <2>2, <2>3, <2>4 DEF CamsInv
<1>13. MutexInv'
  <2>1. ASSUME NEW c \in Cams, NEW t \in Threads, (Guarded(c))', pc'[t] = "frame", at'[t] = c
        PROVE  /\ ~frmevt'[camera'[c].play]
               /\ \A u \in Threads : pc'[u] = "frame" /\ at'[u] = c => u = t
    <3>1. t # i /\ t # TheScript /\ pc[t] = "frame" /\ at[t] = c
      BY <1>1, <2>1
    <3>2. c # o
      BY <1>1, <1>7, <2>1, <3>1 DEF Guarded
    <3>3. Guarded(c) /\ camera'[c] = camera[c]
      BY <1>1, <2>1, <3>2 DEF Guarded
    <3>4. frmevt'[camera'[c].play] = frmevt[camera[c].play]
      BY <1>1, <1>8, <1>9, <3>2, <3>3 DEF Guarded
    <3> QED
      BY <1>1, <1>4, <3>1, <3>2, <3>3, <3>4 DEF MutexInv
  <2> QED
    BY <2>1 DEF MutexInv
<1>14. ASSUME NEW c \in Cams \ {o}, camera'[c].plays = 1
       PROVE  /\ playevt'[camera'[c].play] = playevt[camera[c].play]
              /\ (Ended(c))' <=> Ended(c)
              /\ (Awaited(c))' <=> Awaited(c)
  <2>1. camera'[c] = camera[c] /\ camera[c].play \in Plays /\ camera[c].play # i
    BY <1>1, <1>8, <1>9, <1>14
  <2>2. (Awaited(c))' <=> Awaited(c)
    BY <1>1, <1>5, <2>1 DEF Awaited, Past
  <2>3. pc'[camera'[c].play] = pc[camera[c].play]
    BY <1>5, <2>1
  <2>4. (Ended(c))' <=> Ended(c)
    BY <2>3 DEF Ended
  <2>5. playevt'[camera'[c].play] = playevt[camera[c].play]
    BY <1>1, <2>1
  <2> QED
    BY <2>2, <2>4, <2>5
<1>15. SignalInv'
  <2> SUFFICES ASSUME NEW c \in Cams, camera'[c].plays = 1, playevt'[camera'[c].play],
                      ~camera'[c].stopped \/ camera'[c].play \in told' \/ (Awaited(c))'
               PROVE  (Ended(c))'
    BY DEF SignalInv
  <2>1. c # o
    BY <1>1
  <2> QED
    BY <1>1, <1>4, <1>14, <2>1 DEF SignalInv
<1>16. ToldInv'
  BY <1>1, <1>2, <1>3, <1>4, <1>14 DEF ToldInv
<1> QED
  BY <1>10, <1>11, <1>12, <1>13, <1>15, <1>16, PlayTypes DEF Inv

-----------------------------------------------------------------------------
(* delcam and stop                                                         *)

\* A step that changes, of the plays, the exit and stopped fields of a camera, whether
\* it is open, and its life, which is over or goes on.
LEMMA PlaysKept ==
  ASSUME PlayInv, plays' = plays, Plays \subseteq Threads, pc[TheScript] # "add",
         \A i \in Plays : i > plays => pc'[i] = pc[i],
         \A t \in Threads : at'[t] = at[t] \/ (t \notin Plays /\ camera'[at'[t]].life # "none"),
         \A c \in Cams : \/ camera'[c] = camera[c]
                         \/ /\ camera[c].life # "none" /\ camera'[c].life # "none"
                            /\ camera'[c].play = camera[c].play
                            /\ camera'[c].plays = camera[c].plays
                            /\ camera'[c].class = camera[c].class,
         at \in [Threads -> {0} \cup Cams]
  PROVE  PlayInv'
<1>1. \A i \in Plays : at'[i] = at[i]
  OBVIOUS
<1>2. \A c \in Cams : /\ camera'[c].life = "none" <=> camera[c].life = "none"
                      /\ camera'[c].play = camera[c].play /\ camera'[c].plays = camera[c].plays
                      /\ camera'[c].class = camera[c].class
  OBVIOUS
<1>3. Unplayed' /\ Unstarted'
  BY <1>1 DEF PlayInv, Unplayed, Unstarted
<1>4. Placed'
  BY <1>2 DEF PlayInv, Placed
<1>5. Blank'
  BY <1>2 DEF PlayInv, Blank
<1>6. Filled'
  BY <1>1, <1>2 DEF PlayInv, Filled
<1>7. Single'
  BY <1>1, <1>2 DEF PlayInv, Single
<1>8. Fresh'
  BY <1>2 DEF PlayInv, Fresh
<1> QED
  BY <1>3, <1>4, <1>5, <1>6, <1>7, <1>8 DEF PlayInv

\* Opening changes what PlaysKept allows.
LEMMA OpenStep == ASSUME Inv, NEW opens \in BOOLEAN, Open(opens) PROVE Inv'
<1>1. /\ plays \in Plays /\ plays # TheScript
      /\ pc[TheScript] = "open" /\ pc[plays] = "none"
      /\ pc'[TheScript] = "in" /\ pc'[plays] \in {"test", "done"}
      /\ \A t \in Threads \ {TheScript, plays} : pc'[t] = pc[t]
      /\ \A c \in Cams : \/ camera'[c] = camera[c]
                         \/ /\ camera[c].life # "none"
                            /\ camera'[c].life = camera[c].life
                            /\ camera'[c].play = camera[c].play
                            /\ camera'[c].plays = camera[c].plays
                            /\ camera'[c].class = camera[c].class
                            /\ camera'[c].stopped = camera[c].stopped
      /\ UNCHANGED <<cams, plays, playevt, frmevt, at, event, mark, told, late>>
  BY OpenEffect
<1>2. /\ Plays \subseteq Threads /\ at \in [Threads -> {0} \cup Cams] /\ plays \in Nat
      /\ cams \in [Marks -> {0} \cup Cams] /\ TheScript \notin Plays
      /\ \A i \in Plays : i > plays => i # plays
  BY ConstAssumption DEF ConstAssumption, Inv, TypeInv, DataTypes, TypeOK, Threads, Plays, TheScript
<1>3. \A c \in Cams : /\ camera'[c].life = camera[c].life
                      /\ camera'[c].stopped = camera[c].stopped
                      /\ camera'[c].play = camera[c].play /\ camera'[c].plays = camera[c].plays
                      /\ camera'[c].class = camera[c].class
  BY <1>1
<1>4. PlayInv'
  <2>1. \A i \in Plays : i > plays => pc'[i] = pc[i]
    BY <1>1, <1>2
  <2>2. \A c \in Cams : \/ camera'[c] = camera[c]
                        \/ /\ camera[c].life # "none" /\ camera'[c].life # "none"
                           /\ camera'[c].play = camera[c].play
                           /\ camera'[c].plays = camera[c].plays
                           /\ camera'[c].class = camera[c].class
    BY <1>1
  <2> QED
    BY <1>1, <1>2, <2>1, <2>2, PlaysKept DEF Inv
<1>5. CamsInv'
  <2>1. CamsInv
    BY DEF Inv
  <2>2. Mapped' /\ Apart' /\ Freed'
    BY <1>1, <1>2, <1>3, <2>1 DEF CamsInv, Mapped, Apart, Freed
  <2>3. Stopped' /\ Stops' /\ Living' /\ Adding'
    BY <1>1, <1>2, <1>3, <2>1 DEF CamsInv, Stopped, Stops, Living, Adding, Stopping
  <2>4. Within'
    BY <1>1, <1>2, <2>1 DEF CamsInv, Within, At
  <2> QED
    BY <2>2, <2>3, <2>4 DEF CamsInv
<1>6. \A t \in Threads \ {TheScript} :
        /\ at'[t] = at[t]
        /\ pc'[t] = pc[t] \/ (pc[t] = "none" /\ pc'[t] \in {"test", "done"})
  BY <1>1
<1> QED
  BY <1>1, <1>3, <1>4, <1>5, <1>6, OpenTypes, ScriptKeeps

LEMMA DelCamStep == ASSUME Inv, NEW m \in Marks, DelCam(m) PROVE Inv'
<1> USE DEF At, camVars, eventVars, watchVars, ghosts
<1> DEFINE o == cams[m]  i == camera[o].play  S == TheScript
<1>0. /\ pc \in [Threads -> Labels] /\ at \in [Threads -> {0} \cup Cams]
      /\ event \in [Threads -> {0} \cup Plays] /\ mark \in [Readers -> {NoMark} \cup Marks]
      /\ camera \in [Cams -> CameraData] /\ cams \in [Marks -> {0} \cup Cams]
      /\ playevt \in [Plays -> BOOLEAN] /\ frmevt \in [Plays -> BOOLEAN]
      /\ Plays \subseteq Threads /\ S \in Threads /\ S \in Readers /\ S \notin Plays /\ 0 \notin Cams
  BY DEF Inv, TypeInv, DataTypes, LabelTypes, TypeOK, Threads, Readers, Plays, TheScript,
         Watching, Cams
<1>1. pc[S] = "in" /\ o \in Cams /\ UNCHANGED <<cams, plays, told, late>>
  BY <1>0 DEF DelCam
<1>2. /\ PlayInv /\ EventInv /\ CamsInv /\ MutexInv /\ SignalInv /\ ToldInv
  BY DEF Inv
<1>3. camera[o].life = "live" /\ ~camera[o].stopped /\ i \in Plays /\ at[i] = o
  <2>1. camera[o].life # "none" /\ ~camera[o].stopped
    BY <1>0, <1>1, <1>2 DEF CamsInv, Mapped, Stopped, Stopping
  <2>2. camera[o].life = "live"
    BY <1>1, <1>2, <2>1 DEF CamsInv, Freed, Inv, TypeInv, DataTypes, TypeOK
  <2> QED
    BY <1>1, <1>2, <2>1, <2>2 DEF PlayInv, Filled, Fresh
<1>4. camera'[o] = Halted(camera[o]) /\ \A c \in Cams \ {o} : camera'[c] = camera[c]
  BY <1>0, <1>1 DEF DelCam, Halted
<1>5. /\ camera'[o].life = camera[o].life /\ camera'[o].class = camera[o].class
      /\ camera'[o].play = i /\ camera'[o].plays = camera[o].plays /\ camera'[o].stopped
  BY <1>0, <1>1, <1>4, FieldFacts
<1>6. /\ \A t \in Threads : /\ pc'[t] = IF t = S THEN "stop" ELSE pc[t]
                            /\ at'[t] = IF t = S THEN o ELSE at[t]
                            /\ event'[t] = IF t = S THEN i ELSE event[t]
      /\ mark'[S] = m
  BY <1>0 DEF DelCam, Goto, Waits
<1>7. /\ \A e \in Plays \ {i} : playevt'[e] = playevt[e] /\ frmevt'[e] = frmevt[e]
  BY <1>0 DEF DelCam
<1> HIDE DEF o, i, S
<1>8. PlayInv'
  <2>1. \A c \in Cams :
          \/ camera'[c] = camera[c]
          \/ /\ camera[c].life # "none" /\ camera'[c].life # "none"
             /\ camera'[c].play = camera[c].play /\ camera'[c].plays = camera[c].plays
             /\ camera'[c].class = camera[c].class
    BY <1>3, <1>4, <1>5 DEF i
  <2>2. \A t \in Threads : at'[t] = at[t] \/ (t \notin Plays /\ camera'[at'[t]].life # "none")
    BY <1>0, <1>3, <1>5, <1>6
  <2>3. \A j \in Plays : pc'[j] = pc[j]
    BY <1>0, <1>6
  <2> QED
    BY <1>0, <1>1, <1>2, <2>1, <2>2, <2>3, PlaysKept DEF S
<1>9. EventInv'
  BY <1>0, <1>1, <1>2, <1>3, <1>6 DEF EventInv
<1>10. CamsInv'
  <2>1. Mapped' /\ Apart'
    BY <1>0, <1>1, <1>2, <1>4, <1>5 DEF CamsInv, Mapped, Apart
  <2>2. Stopped'
    <3>1. \A n \in Marks : cams[n] # 0 /\ n # m => cams[n] \in Cams \ {o} /\ ~camera[cams[n]].stopped
      BY <1>0, <1>1, <1>2 DEF CamsInv, Stopped, Apart, Stopping, o, S
    <3> QED
      BY <1>0, <1>1, <1>4, <1>6, <3>1 DEF Stopped, Stopping, S
  <2>3. Stops' /\ Living' /\ Adding'
    BY <1>0, <1>1, <1>3, <1>5, <1>6 DEF Stops, Living, Adding, S
  <2>4. Freed'
    BY <1>2, <1>4, <1>5 DEF CamsInv, Freed
  <2>5. Within'
    BY <1>0, <1>1, <1>2, <1>6 DEF CamsInv, Within
  <2> QED
    BY <2>1, <2>2, <2>3, <2>4, <2>5 DEF CamsInv
<1>11. \A c \in Cams : camera[c].plays = 1 =>
         camera[c].play \in Plays /\ (c # o => camera[c].play # i)
  BY <1>3, OnePlay
<1>12. MutexInv'
  <2>1. ASSUME NEW c \in Cams, NEW t \in Threads, (Guarded(c))', pc'[t] = "frame", at'[t] = c
        PROVE  /\ ~frmevt'[camera'[c].play]
               /\ \A u \in Threads : pc'[u] = "frame" /\ at'[u] = c => u = t
    <3>1. c # o /\ Guarded(c) /\ camera'[c] = camera[c]
      BY <1>4, <1>5, <2>1 DEF Guarded
    <3>2. t # S /\ pc[t] = "frame" /\ at[t] = c
      BY <1>6, <2>1
    <3>3. frmevt'[camera'[c].play] = frmevt[camera[c].play]
      BY <1>7, <1>11, <3>1 DEF Guarded
    <3> QED
      BY <1>2, <1>6, <3>1, <3>2, <3>3 DEF MutexInv
  <2> QED
    BY <2>1 DEF MutexInv
<1>13. \A c \in Cams \ {o} : camera[c].plays = 1 =>
         /\ playevt'[camera'[c].play] = playevt[camera[c].play]
         /\ (Ended(c))' <=> Ended(c)
         /\ (Awaited(c))' <=> Awaited(c)
  <2> SUFFICES ASSUME NEW c \in Cams \ {o}, camera[c].plays = 1
               PROVE  /\ playevt'[camera'[c].play] = playevt[camera[c].play]
                      /\ (Ended(c))' <=> Ended(c)
                      /\ (Awaited(c))' <=> Awaited(c)
    OBVIOUS
  <2>1. camera'[c] = camera[c] /\ camera[c].play \in Plays /\ camera[c].play # i
    BY <1>4, <1>11
  <2>2. (Awaited(c))' <=> Awaited(c)
    BY <1>0, <1>1, <1>6, <2>1 DEF Awaited, Past, S
  <2>3. pc'[camera'[c].play] = pc[camera[c].play]
    BY <1>0, <1>6, <2>1
  <2>4. (Ended(c))' <=> Ended(c)
    BY <2>3 DEF Ended
  <2>5. playevt'[camera'[c].play] = playevt[camera[c].play]
    BY <1>7, <2>1
  <2> QED
    BY <2>2, <2>4, <2>5
<1>14. camera[o].plays = 1 => i \notin told
  BY <1>1, <1>2, <1>3 DEF ToldInv, i
<1>15. \A c \in Cams : c = o => ~(Awaited(c))'
  BY <1>0, <1>6 DEF Awaited, Past, S
<1>16. SignalInv'
  <2> SUFFICES ASSUME NEW c \in Cams, camera'[c].plays = 1, playevt'[camera'[c].play],
                      ~camera'[c].stopped \/ camera'[c].play \in told' \/ (Awaited(c))'
               PROVE  (Ended(c))'
    BY DEF SignalInv
  <2>1. c # o
    BY <1>1, <1>5, <1>14, <1>15
  <2> QED
    BY <1>1, <1>2, <1>4, <1>13, <2>1 DEF SignalInv
<1>17. ToldInv'
  <2>1. \A j \in told' : j <= plays'
    BY <1>1, <1>2 DEF ToldInv
  <2>2. ASSUME NEW c \in Cams, camera'[c].plays = 1, camera'[c].play \in told'
        PROVE  camera'[c].stopped /\ ((Awaited(c))' => (Ended(c))')
    <3>1. c # o
      BY <1>1, <1>5, <1>14, <2>2
    <3> QED
      BY <1>1, <1>2, <1>4, <1>13, <2>2, <3>1 DEF ToldInv
  <2> QED
    BY <2>1, <2>2 DEF ToldInv
<1> QED
  BY <1>8, <1>9, <1>10, <1>12, <1>16, <1>17, CallTypes DEF Inv

\* What the steps of stop and the end of delcam have in common.
LEMMA StopFacts ==
  ASSUME Inv, Stop
  PROVE  LET o == at[TheScript]
         IN  /\ o \in Cams /\ camera[o].stopped /\ camera[o].life # "none"
             /\ pc[TheScript] \in Stopping /\ mark[TheScript] \in Marks
             /\ \A t \in Threads \ {TheScript} : pc'[t] = pc[t]
             /\ UNCHANGED <<plays, at, told>>
             /\ \A c \in Cams \ {o} : camera'[c] = camera[c]
             /\ camera'[o].life # "none" /\ camera'[o].stopped
             /\ camera'[o].play = camera[o].play /\ camera'[o].plays = camera[o].plays
             /\ camera'[o].class = camera[o].class
<1> USE DEF At, camVars, eventVars, watchVars, ghosts
<1> DEFINE o == at[TheScript]
<1>0. /\ pc \in [Threads -> Labels] /\ at \in [Threads -> {0} \cup Cams]
      /\ camera \in [Cams -> CameraData] /\ TheScript \in Threads
  BY DEF Inv, TypeInv, DataTypes, LabelTypes, TypeOK, Threads, Readers
<1>1. pc[TheScript] \in Stopping
  BY DEF Stop, StopWaits, Release, Delete, Erase, Stopping
<1>2. o \in Cams /\ camera[o].stopped /\ mark[TheScript] \in Marks
  BY <1>0, <1>1 DEF Inv, CamsInv, Stops
<1>3. camera[o].life # "none"
  BY <1>0, <1>2 DEF Inv, PlayInv, Placed, Cams
<1>4. UNCHANGED <<plays, at, told>> /\ \A t \in Threads \ {TheScript} : pc'[t] = pc[t]
  BY <1>0 DEF Stop, StopWaits, Release, Delete, Erase, Goto
<1>5. CASE camera' = camera
  BY <1>1, <1>2, <1>3, <1>4, <1>5
<1>6. CASE Release
  <2>1. camera' = [camera EXCEPT ![o] = Shut(camera[o])]
    BY <1>0, <1>2, <1>6 DEF Release, Shut
  <2>2. camera'[o] = Shut(camera[o]) /\ camera[o] \in CameraData
        /\ \A c \in Cams \ {o} : camera'[c] = camera[c]
    BY <1>0, <1>2, <2>1
  <2>3. /\ Shut(camera[o]).life = camera[o].life /\ Shut(camera[o]).class = camera[o].class
        /\ Shut(camera[o]).stopped = camera[o].stopped
        /\ Shut(camera[o]).play = camera[o].play /\ Shut(camera[o]).plays = camera[o].plays
    BY <2>2, FieldFacts
  <2> QED
    BY <1>1, <1>2, <1>3, <1>4, <2>2, <2>3
<1>7. CASE Delete
  <2>1. camera' = [camera EXCEPT ![o].life = "freed"]
    BY <1>7 DEF Delete
  <2>2. /\ camera'[o].life = "freed" /\ camera'[o].stopped
        /\ camera'[o].play = camera[o].play /\ camera'[o].plays = camera[o].plays
        /\ camera'[o].class = camera[o].class
        /\ \A c \in Cams \ {o} : camera'[c] = camera[c]
    BY <1>0, <1>2, <2>1 DEF CameraData
  <2> QED
    BY <1>1, <1>2, <1>3, <1>4, <2>2
<1> QED
  BY <1>5, <1>6, <1>7 DEF Stop, StopWaits, Erase

LEMMA StopStep == ASSUME Inv, Stop PROVE Inv'
<1> USE DEF At, camVars, eventVars, watchVars, ghosts
<1> DEFINE o == at[TheScript]  S == TheScript
<1>0. /\ pc \in [Threads -> Labels] /\ at \in [Threads -> {0} \cup Cams]
      /\ event \in [Threads -> {0} \cup Plays] /\ mark \in [Readers -> {NoMark} \cup Marks]
      /\ cams \in [Marks -> {0} \cup Cams]
      /\ playevt \in [Plays -> BOOLEAN] /\ frmevt \in [Plays -> BOOLEAN]
      /\ Plays \subseteq Threads /\ S \in Threads /\ S \in Readers /\ S \notin Plays /\ 0 \notin Cams
  BY DEF Inv, TypeInv, DataTypes, LabelTypes, TypeOK, Threads, Readers, Plays, TheScript,
         Watching, Cams
<1>1. /\ o \in Cams /\ camera[o].stopped /\ camera[o].life # "none"
      /\ pc[S] \in Stopping /\ mark[S] \in Marks
      /\ \A t \in Threads \ {S} : pc'[t] = pc[t]
      /\ UNCHANGED <<plays, at, told>>
      /\ \A c \in Cams \ {o} : camera'[c] = camera[c]
      /\ camera'[o].life # "none" /\ camera'[o].stopped
      /\ camera'[o].play = camera[o].play /\ camera'[o].plays = camera[o].plays
      /\ camera'[o].class = camera[o].class
  BY StopFacts
<1>2. PlayInv /\ EventInv /\ CamsInv /\ MutexInv /\ SignalInv /\ ToldInv
  BY DEF Inv
<1>3. PlayInv'
  BY <1>0, <1>1, <1>2, PlaysKept DEF Stopping
<1>4. pc[S] \in {"stop", "release"} => event[S] \in Plays /\ at[event[S]] = o
  BY <1>0, <1>2 DEF EventInv
<1>5. EventInv'
  <2>1. \A t \in Threads \ {S} : event'[t] = event[t]
    BY <1>0 DEF Stop, StopWaits, Release, Delete, Erase, Waited
  <2>2. pc'[S] = "release" => pc[S] = "stop" /\ event' = event
    BY <1>0 DEF Stop, StopWaits, Release, Delete, Erase, Goto
  <2>3. pc'[S] \in {"release", "delete", "erase", "in"}
    BY <1>0 DEF Stop, StopWaits, Release, Delete, Erase, Goto
  <2> QED
    BY <1>0, <1>1, <1>2, <1>4, <2>1, <2>2, <2>3 DEF EventInv
<1>6. CamsInv'
  <2>1. CASE pc[S] # "erase"
    <3>1. UNCHANGED <<cams, mark>> /\ pc'[S] \in {"release", "delete", "erase"}
      BY <1>0, <2>1 DEF Stop, StopWaits, Release, Delete, Erase, Goto
    <3>2. Mapped' /\ Apart'
      BY <1>0, <1>1, <1>2, <3>1 DEF CamsInv, Mapped, Apart
    <3>3. Stopped' /\ Stops' /\ Living' /\ Adding'
      BY <1>0, <1>1, <1>2, <3>1 DEF CamsInv, Stopped, Stops, Living, Adding, Stopping
    <3>4. Freed' /\ Within'
      BY <1>0, <1>1, <1>2, <3>1 DEF CamsInv, Freed, Within
    <3> QED
      BY <3>2, <3>3, <3>4 DEF CamsInv
  <2>2. CASE pc[S] = "erase"
    <3>1. /\ camera' = camera /\ pc'[S] = "in"
          /\ \A m \in Marks : cams'[m] = IF m = mark[S] THEN 0 ELSE cams[m]
      BY <1>0, <2>2 DEF Stop, StopWaits, Release, Delete, Erase, Goto
    <3>2. Mapped' /\ Apart'
      BY <1>0, <1>1, <1>2, <3>1 DEF CamsInv, Mapped, Apart
    <3>3. Stopped' /\ Stops' /\ Living' /\ Adding'
      BY <1>0, <1>1, <1>2, <3>1 DEF CamsInv, Stopped, Stops, Living, Adding, Stopping
    <3>4. Freed' /\ Within'
      BY <1>0, <1>1, <1>2, <3>1 DEF CamsInv, Freed, Within
    <3> QED
      BY <3>2, <3>3, <3>4 DEF CamsInv
  <2> QED
    BY <2>1, <2>2
<1>7. \A c \in Cams : camera[c].plays = 1 =>
        /\ camera[c].play \in Plays
        /\ pc[S] \in {"stop", "release"} => (event[S] = camera[c].play <=> c = o)
  BY <1>4, OnePlay
<1>8. MutexInv'
  <2>1. ASSUME NEW c \in Cams, NEW t \in Threads, (Guarded(c))', pc'[t] = "frame", at'[t] = c
        PROVE  /\ ~frmevt'[camera'[c].play]
               /\ \A u \in Threads : pc'[u] = "frame" /\ at'[u] = c => u = t
    <3>1. c # o /\ Guarded(c) /\ camera'[c] = camera[c]
      BY <1>1, <2>1 DEF Guarded
    <3>2. pc'[S] \in {"release", "delete", "erase", "in"}
      BY <1>0 DEF Stop, StopWaits, Release, Delete, Erase, Goto
    <3>3. /\ pc[t] = "frame" /\ at[t] = c
          /\ \A u \in Threads : pc'[u] = "frame" /\ at'[u] = c => pc[u] = "frame" /\ at[u] = c
      BY <1>1, <2>1, <3>2
    <3>4. frmevt'[camera[c].play] = frmevt[camera[c].play]
      BY <1>0, <1>7, <3>1 DEF Guarded, Stop, StopWaits, Release, Delete, Erase
    <3> QED
      BY <1>2, <3>1, <3>3, <3>4 DEF MutexInv
  <2> QED
    BY <2>1 DEF MutexInv
<1>9. \A c \in Cams : camera[c].plays = 1 => ((Ended(c))' <=> Ended(c))
  <2>1. \A c \in Cams : camera'[c].play = camera[c].play
    BY <1>1
  <2> QED
    BY <1>0, <1>1, <1>7, <2>1 DEF Ended
<1>10. CASE pc[S] = "stop"
  <2>1. StopWaits
    BY <1>10 DEF Stop, Release, Delete, Erase
  <2>2. camera' = camera /\ pc'[S] # "stop"
    BY <1>0, <2>1 DEF StopWaits, Goto
  <2>3. \A c \in Cams : c # o => ((Awaited(c))' <=> Awaited(c))
    BY <1>1, <1>10, <2>1, <2>2 DEF StopWaits, Awaited, Past
  <2>4. \A c \in Cams : camera[c].plays = 1 => (playevt'[camera[c].play] => playevt[camera[c].play])
    BY <1>0, <1>7, <2>1 DEF StopWaits
  <2>5. \/ camera[o].plays = 1 => playevt[camera[o].play] /\ ~playevt'[camera[o].play]
        \/ o \in late'
    BY <1>0, <1>1, <1>7, <1>10, <2>1 DEF StopWaits, HasEnded
  <2>6. SignalInv'
    <3> SUFFICES ASSUME NEW c \in Cams, camera'[c].plays = 1, playevt'[camera'[c].play],
                        ~camera'[c].stopped \/ camera'[c].play \in told' \/ (Awaited(c))'
                 PROVE  (Ended(c))'
      BY DEF SignalInv
    <3>1. playevt[camera[c].play]
      BY <2>2, <2>4
    <3>2. ~camera[c].stopped \/ camera[c].play \in told \/ Awaited(c)
      BY <1>1, <2>2, <2>3, <2>5 DEF Awaited
    <3> QED
      BY <1>2, <1>9, <2>2, <3>1, <3>2 DEF SignalInv
  <2>7. ToldInv'
    <3>1. ASSUME NEW c \in Cams, camera[c].plays = 1, camera[c].play \in told, (Awaited(c))'
          PROVE  Ended(c)
      <4>1. CASE c = o
        <5>1. playevt[camera[o].play]
          BY <2>5, <3>1, <4>1 DEF Awaited
        <5> QED
          BY <1>2, <3>1, <4>1, <5>1 DEF SignalInv
      <4>2. CASE c # o
        BY <1>2, <2>3, <3>1, <4>2 DEF ToldInv
      <4> QED
        BY <4>1, <4>2
    <3> QED
      BY <1>1, <1>2, <1>9, <2>2, <3>1 DEF ToldInv
  <2> QED
    BY <1>3, <1>5, <1>6, <1>8, <2>6, <2>7, StopTypes DEF Inv
<1>11. CASE pc[S] # "stop"
  <2>1. UNCHANGED <<playevt, late>> /\ pc'[S] # "stop"
    BY <1>0, <1>11 DEF Stop, StopWaits, Release, Delete, Erase, Goto
  <2>2. \A c \in Cams : /\ camera'[c].play = camera[c].play /\ camera'[c].plays = camera[c].plays
                        /\ camera'[c].stopped = camera[c].stopped
    <3>1. camera'[o].stopped = camera[o].stopped
      BY <1>1, <1>11, StopTypes DEF Inv, TypeInv, DataTypes, CameraData
    <3> QED
      BY <1>1, <3>1
  <2>3. \A c \in Cams : (Awaited(c))' <=> Awaited(c)
    BY <1>1, <1>11, <2>1, <2>2 DEF Awaited, Past
  <2>4. SignalInv' /\ ToldInv'
    BY <1>1, <1>2, <1>9, <2>1, <2>2, <2>3 DEF SignalInv, ToldInv
  <2> QED
    BY <1>3, <1>5, <1>6, <1>8, <2>4, StopTypes DEF Inv
<1> QED
  BY <1>10, <1>11

-----------------------------------------------------------------------------
(* The theorems                                                            *)

\* The steps by kind, of a program that has not broken.
LEMMA NextKinds ==
  ASSUME Next
  PROVE  /\ broken = "no"
         /\ \/ Filling \/ Aside \/ Look \/ Stop
            \/ Play \/ \E opens \in BOOLEAN : Open(opens)
            \/ \E m \in Marks : \/ \E class \in Classes : AddCam(m, class)
                                \/ Snapshot(m) \/ DelCam(m)
<1> USE DEF Runnable
<1>0. TheScript \in Readers /\ Watching \in Readers
  BY DEF Readers
<1>1. CASE Runnable(Enter) \/ Runnable(Exit) \/ Runnable(Watch) \/ Runnable(Show)
           \/ Runnable(Stop)
  BY <1>1 DEF Watch, Aside
<1>2. CASE Runnable(Script)
  BY <1>0, <1>2 DEF Script, Aside
<1>3. CASE \E m \in Marks, tms \in 0 .. MaxTms : Runnable(Monitor(Watching, m, tms))
  BY <1>0, <1>3 DEF Aside
<1>4. CASE \/ \E i \in Plays : Runnable(Loop(i)) \/ Runnable(Receive(i))
           \/ \E t \in Threads : Runnable(Passes(t)) \/ Runnable(LeaveFrame(t))
  BY <1>4 DEF Filling
<1>5. CASE \E r \in Readers : Runnable(Throws(r))
  BY <1>5 DEF Aside
<1> QED
  BY <1>1, <1>2, <1>3, <1>4, <1>5 DEF Next

LEMMA NextInv == Inv /\ [Next]_vars => Inv'
<1>1. ASSUME Inv, Next PROVE Inv'
  BY <1>1, NextKinds, FillingStep, AsideStep, LookStep, StopStep, AddCamStep, PlayStep, OpenStep,
     SnapshotStep, DelCamStep
<1>2. ASSUME Inv, UNCHANGED vars PROVE Inv'
  <2> USE <1>2 DEF vars
  <2>1. TypeInv'
    BY DEF Inv, TypeInv, DataTypes, LabelTypes, TypeOK
  <2>2. PlayInv'
    BY DEF Inv, PlayInv, Unplayed, Unstarted, Placed, Blank, Filled, Single, Fresh
  <2>3. EventInv' /\ CamsInv'
    BY DEF Inv, EventInv, CamsInv, Mapped, Apart, Stopped, Stops, Living, Adding, Freed, Within, At
  <2>4. MutexInv' /\ SignalInv' /\ ToldInv'
    BY DEF Inv, MutexInv, SignalInv, ToldInv, Guarded, Awaited, Past, Ended, At
  <2> QED
    BY <2>1, <2>2, <2>3, <2>4 DEF Inv
<1> QED
  BY <1>1, <1>2

\* Always: every play has its camera and its events, a waiting thread waits for
\* an event of its camera, the map holds no camera that was freed, and only a
\* thread that has ended, or stop itself, has set m_playevt.
THEOREM InvAlways == Spec => []Inv
  BY InitInv, NextInv, PTL DEF Spec

\* Types of all variables.
THEOREM TypeCorrect == Spec => []TypeOK
<1>1. Inv => TypeOK
  BY DEF Inv, TypeInv, DataTypes
<1> QED
  BY InvAlways, <1>1, PTL

\* m_frmevt is a mutex of the threads that fill and read the frames of a camera,
\* until it is stopped or opened a second time, and but for screens.
THEOREM FrameIsExclusive == Spec => []OneInFrame
<1>1. ASSUME Inv PROVE OneInFrame
  <2> SUFFICES ASSUME NEW o \in Cams, ~camera[o].stopped, ~(camera[o].plays > 1),
                      camera[o].class # "screen"
               PROVE  ~(Cardinality(Inside(o)) > 1)
    BY DEF OneInFrame
  <2>1. PlayInv /\ MutexInv /\ camera[o] \in CameraData /\ o # 0
    BY <1>1 DEF Inv, TypeInv, DataTypes, Cams
  <2>2. CASE Inside(o) = {}
    BY <2>2, FS_EmptySet
  <2>3. CASE Inside(o) # {}
    <3>1. PICK t \in Inside(o) : TRUE
      BY <2>3
    <3>2. t \in Threads /\ pc[t] = "frame" /\ at[t] = o
      BY <3>1 DEF Inside
    <3>3. camera[o].plays = 1
      <4>1. camera[o].plays >= 1 /\ camera[o].plays \in Nat
        BY <2>1, <3>2 DEF PlayInv, Placed, Filled, Fresh, CameraData, Threads
      <4> QED
        BY <4>1
    <3>4. Inside(o) = {t}
      BY <2>1, <3>2, <3>3 DEF MutexInv, Guarded, Inside, At
    <3>5. Cardinality(Inside(o)) = 1
      BY <3>4, FS_Singleton, Zenon
    <3> QED
      BY <3>5
  <2> QED
    BY <2>2, <2>3
<1> QED
  BY InvAlways, <1>1, PTL

\* What StopIsSafe says of camera o.
Excused(o) ==
  /\ camera[o].stopped
  /\ o \in late \/ camera[o].play \notin told \/ camera[o].plays > 1 \/ at[Watching] = o

\* A thread at a camera that stop is through with.
LEMMA LateComer ==
  ASSUME Inv, NEW t \in Threads, at[t] \in Cams, camera[at[t]].stopped,
         ~(At(TheScript, "stop") /\ at[TheScript] = at[t]),
         t \in Plays => pc[t] # "done", t # TheScript
  PROVE  Excused(at[t])
<1> DEFINE o == at[t]
<1>1. camera[o] \in CameraData /\ camera[o].plays >= 1 /\ o # 0
  BY DEF Inv, TypeInv, DataTypes, PlayInv, Placed, Filled, Fresh, CamsInv, Adding, Cams
<1>2. CASE t = Watching
  BY <1>2 DEF Excused
<1>3. CASE t \in Plays /\ camera[o].plays = 1
  <2>1. t = camera[o].play
    BY <1>3, OnePlay
  <2>2. ~Ended(o)
    BY <1>3, <2>1 DEF Ended, At
  <2> QED
    BY <1>3, <2>2 DEF Excused, Inv, ToldInv, Awaited, Past
<1>4. CASE camera[o].plays > 1
  BY <1>4 DEF Excused
<1>5. camera[o].plays = 1 \/ camera[o].plays > 1
  BY <1>1 DEF CameraData
<1> QED
  BY <1>2, <1>3, <1>4, <1>5 DEF Threads, Readers

\* A freed camera that is used.
LEMMA UsedFreed ==
  ASSUME Inv, NEW t \in Threads, at[t] \in Cams, Frees(at[t]),
         t \in Plays => pc[t] # "done",
         t = TheScript => pc[t] \in {"want", "frame"}
  PROVE  Excused(at[t])
<1>1. camera[at[t]].life = "freed" /\ camera[at[t]].stopped
  BY DEF Frees, Inv, CamsInv, Freed
<1>2. t # TheScript
  BY <1>1 DEF Inv, CamsInv, Living
<1>3. ~(At(TheScript, "stop") /\ at[TheScript] = at[t])
  BY <1>1 DEF Inv, CamsInv, Living, At
<1> QED
  BY <1>1, <1>2, <1>3, LateComer

LEMMA SafeStep ==
  ASSUME Inv, Next, broken' \in {"freed", "released"}
  PROVE  \E o \in Cams : (Excused(o))'
<1> USE DEF At, camVars, eventVars, watchVars, ghosts
<1>0. broken = "no" /\ (\A i \in Plays : i \in Threads /\ i # TheScript)
  BY NextKinds DEF Threads, Plays, TheScript
<1>1. ASSUME NEW t \in Threads, Touch(t), UNCHANGED <<camera, late, told, at>>,
             at[t] \in Cams, t \in Plays => pc[t] # "done",
             t = TheScript => pc[t] \in {"want", "frame"}
      PROVE  \E o \in Cams : (Excused(o))'
  <2>1. Frees(at[t])
    BY <1>0, <1>1 DEF Touch
  <2> QED
    BY <1>1, <2>1, UsedFreed DEF Excused
<1>2. CASE Filling
  <2>1. ASSUME NEW i \in Plays, Test(i) \/ Receive(i) \/ Ask(i) \/ End(i)
        PROVE  \E o \in Cams : (Excused(o))'
    <3>1. Touch(i) /\ UNCHANGED <<camera, late, told, at>> /\ pc[i] \notin {"none", "done"}
      BY <2>1 DEF Test, Receive, Ask, End
    <3> QED
      BY <1>0, <1>1, <3>1, PlaceFacts
  <2>2. ASSUME NEW i \in Plays, Signalled(i) \/ TimedOut(i) PROVE broken' = broken
    BY <2>2 DEF Signalled, TimedOut
  <2>3. ASSUME NEW t \in Threads, Passes(t) \/ LeaveFrame(t)
        PROVE  \E o \in Cams : (Excused(o))'
    <3>1. Touch(t) /\ UNCHANGED <<camera, late, told, at>> /\ pc[t] \in {"want", "frame"}
      BY <2>3 DEF Passes, LeaveFrame
    <3> QED
      BY <1>1, <3>1, PlaceFacts
  <2> QED
    BY <1>0, <1>2, <2>1, <2>2, <2>3 DEF Filling, Loop
<1>3. CASE Look
  <2>1. PICK m \in Marks : cams[m] # 0 /\ Frees(cams[m]) /\ WaitFor(Watching, m)
    <3>1. Min(Ahead) \in Marks
      BY <1>3, NextEntry DEF Inv, Look
    <3> QED
      BY <1>0, <1>3, <3>1 DEF Look, HasFrame
  <2>2. cams[m] \in Cams /\ at'[Watching] = cams[m] /\ camera' = camera
    BY <1>3, <2>1 DEF Look, WaitFor, Inv, TypeInv, DataTypes, TypeOK, Threads, Readers
  <2>3. camera[cams[m]].stopped
    BY <2>1, <2>2 DEF Frees, Inv, CamsInv, Freed
  <2> DEFINE o == cams[m]
  <2>4. \A c \in Cams : c = o => (Excused(c))'
    BY <2>2, <2>3 DEF Excused
  <2> QED
    BY <2>2, <2>4
<1>4. CASE Stop
  <2>1. Release /\ Inside(at[TheScript]) # {}
    BY <1>0, <1>4 DEF Stop, StopWaits, Release, Delete, Erase
  <2>2. PICK t \in Threads : pc[t] = "frame" /\ at[t] = at[TheScript]
    BY <2>1 DEF Inside
  <2>3. at[TheScript] \in Cams /\ camera[at[TheScript]].stopped
    BY <1>4, StopFacts
  <2>4. Excused(at[t])
    BY <2>1, <2>2, <2>3, LateComer DEF Release
  <2>5. UNCHANGED <<late, told, at>>
    BY <2>1 DEF Release
  <2>6. /\ camera'[at[t]].stopped /\ camera'[at[t]].play = camera[at[t]].play
        /\ camera'[at[t]].plays = camera[at[t]].plays
    BY <1>4, <2>2, StopFacts
  <2>7. \A c \in Cams : c = at[t] => (Excused(c))'
    BY <2>4, <2>5, <2>6 DEF Excused
  <2> QED
    BY <2>2, <2>3, <2>7
<1>5. CASE Aside
  <2>1. CASE Enter \/ Exit \/ Display \/ Wake \/ Walked \/ Short \/ Shown \/ Show
    BY <1>0, <2>1 DEF Enter, Exit, Display, Wake, Walked, Short, Shown, Show
  <2>2. CASE Destory \/ UseNull \/ \E r \in Readers : Throws(r)
    BY <1>0, <2>2 DEF Destory, UseNull, Throws
  <2>3. ASSUME NEW r \in Readers, NEW m \in Marks, NEW tms \in 0 .. MaxTms, Monitor(r, m, tms)
        PROVE  broken' \in {"list", broken}
    BY <2>3 DEF Monitor
  <2> QED
    BY <1>0, <1>5, <2>1, <2>2, <2>3 DEF Aside
<1>6. CASE Play \/ \E opens \in BOOLEAN : Open(opens)
  <2>1. broken' \in {"reopened", broken}
    BY <1>6 DEF Play, Open
  <2> QED
    BY <1>0, <2>1
<1>7. CASE \E m \in Marks : (\E class \in Classes : AddCam(m, class)) \/ Snapshot(m) \/ DelCam(m)
  <2>1. broken' = broken
    <3>1. PICK m \in Marks : (\E class \in Classes : AddCam(m, class)) \/ Snapshot(m) \/ DelCam(m)
      BY <1>7
    <3> QED
      BY <3>1 DEF AddCam, Snapshot, DelCam
  <2> QED
    BY <1>0, <2>1
<1> QED
  BY <1>2, <1>3, <1>4, <1>5, <1>6, <1>7, NextKinds

\* A camera is released or freed under one of its threads only when stop has
\* waited in vain or has met its own signal, when the camera was played twice, or
\* while the watching thread is at it.
THEOREM StopsSafely == Spec => []StopIsSafe
<1>1. Init => StopIsSafe
  BY DEF Init, StopIsSafe
<1>2. ASSUME Inv, StopIsSafe, [Next]_vars PROVE StopIsSafe'
  <2>1. CASE Next
    <3>1. ASSUME broken' \in {"freed", "released"} PROVE \E o \in Cams : (Excused(o))'
      BY <1>2, <2>1, <3>1, SafeStep
    <3> QED
      BY <3>1 DEF StopIsSafe, Excused
  <2>2. CASE UNCHANGED vars
    BY <1>2, <2>2 DEF vars, StopIsSafe
  <2> QED
    BY <1>2, <2>1, <2>2
<1> QED
  BY InvAlways, <1>1, <1>2, PTL DEF Spec

-----------------------------------------------------------------------------
(* Numbers of parts                                                        *)

\* What the assumption on the constants gives.
LEMMA Consts ==
    /\ Modulus \in Nat /\ Modulus > 1 /\ MaxLogins \in Nat
    /\ Len(Ends) \in Nat \ {0} /\ Images = 1 .. Len(Ends)
    /\ \A k \in Images : Ends[k] \in Nat \ {0}
BY PnpAssumption DEF PnpAssumption, Images

\* Images follow each other without a gap.
LEMMA Numbering ==
         /\ \A k \in Images : /\ Start(k) \in Stream /\ Finish(k) \in Stream
                              /\ Start(k) <= Finish(k)
         /\ \A j, k \in Images : j < k => Finish(j) < Start(k)
         /\ \A k \in Images : k + 1 \in Images => Start(k + 1) = Finish(k) + 1
         /\ \A k \in Images, n \in Stream : n > Finish(k) => k + 1 \in Images
<1>1. /\ Len(Ends) \in Nat \ {0} /\ Images = 1 .. Len(Ends) /\ Images = DOMAIN Ends
      /\ \A k \in Images : Ends[k] \in Nat \ {0}
  BY Consts DEF Images
<1>2. \A j, k \in Images : j < k => Ends[j] < Ends[k]
  BY <1>1, PnpAssumption DEF PnpAssumption
<1>3. \A k \in Images : Ends[k] <= Ends[Len(Ends)]
  <2> SUFFICES ASSUME NEW k \in Images PROVE Ends[k] <= Ends[Len(Ends)]
    OBVIOUS
  <2>1. /\ Len(Ends) \in Images /\ k \in Nat /\ Len(Ends) \in Nat
        /\ Ends[k] \in Nat /\ Ends[Len(Ends)] \in Nat /\ k <= Len(Ends)
    BY <1>1
  <2>2. CASE k = Len(Ends)
    BY <2>1, <2>2
  <2>3. CASE k < Len(Ends)
    BY <1>2, <2>1, <2>3
  <2> QED
    BY <2>1, <2>2, <2>3
<1>4. \A k \in Images : k # 1 => k - 1 \in Images /\ Ends[k - 1] < Ends[k]
  BY <1>1, <1>2
<1>5. ASSUME NEW j \in Images, NEW k \in Images, j < k PROVE Finish(j) < Start(k)
  <2>1. k # 1 /\ k - 1 \in Images /\ j <= k - 1
    BY <1>1, <1>5
  <2>2. Ends[j] <= Ends[k - 1]
    <3>1. k - 1 \in Nat /\ j \in Nat /\ Ends[j] \in Nat /\ Ends[k - 1] \in Nat
      BY <1>1, <2>1
    <3>2. CASE j = k - 1
      BY <3>1, <3>2
    <3>3. CASE j < k - 1
      BY <1>2, <2>1, <3>1, <3>3
    <3> QED
      BY <2>1, <3>1, <3>2, <3>3
  <2>3. Ends[j] \in Nat /\ Ends[k - 1] \in Nat
    BY <1>1, <2>1
  <2> QED
    BY <2>1, <2>2, <2>3 DEF Start, Finish
<1> QED
  BY <1>1, <1>3, <1>4, <1>5 DEF Start, Finish, Stream

\* The image that a last part ends, among the parts of an image.
LEMMA OneEnd ==
  ASSUME NEW k \in Images, NEW n \in LastParts,
         Start(k) <= n, n <= Finish(k)
  PROVE  n = Finish(k)
<1>1. PICK j \in Images : n = Finish(j)
  BY DEF LastParts
<1>2. j \in Nat /\ k \in Nat /\ Finish(j) \in Nat /\ Finish(k) \in Nat /\ Start(k) \in Nat
  BY Consts, Numbering DEF Stream
<1>3. ~(j < k)
  BY <1>1, <1>2, Numbering
<1>4. ~(k < j)
  <2>1. k < j => Finish(k) < Start(j) /\ Start(j) <= Finish(j) /\ Start(j) \in Nat
    BY Numbering DEF Stream
  <2> QED
    BY <1>1, <1>2, <2>1
<1> QED
  BY <1>1, <1>2, <1>3, <1>4

\* The numbers of parts are positive.
LEMMA StreamNat == ASSUME NEW n \in Stream PROVE n \in Nat /\ n >= 1
BY Numbering, Consts DEF Stream, Finish

\* A number and its index: within a lap they differ by a constant.
LEMMA Division ==
  ASSUME NEW n \in Nat \ {0}
  PROVE  /\ Lap(n) \in Nat /\ Index(n) \in 0 .. Modulus - 1
         /\ n - 1 = Modulus * Lap(n) + Index(n)
<1> DEFINE M == Modulus  x == n - 1
<1>1. M \in Nat /\ M > 0 /\ x \in Nat
  BY Consts
<1> HIDE DEF M, x
<1>2. x \div M \in Nat /\ x % M \in 0 .. M - 1 /\ x = M * (x \div M) + (x % M)
  BY <1>1, Z3
<1> QED
  BY <1>2 DEF Lap, Index, M, x

\* Indices of one lap are as far apart as the numbers.
LEMMA OneLap ==
  ASSUME NEW a \in Nat \ {0}, NEW b \in Nat \ {0}, Lap(a) = Lap(b)
  PROVE  Index(a) - Index(b) = a - b
<1>1. /\ a - 1 = Modulus * Lap(a) + Index(a) /\ Index(a) \in Int
      /\ b - 1 = Modulus * Lap(a) + Index(b) /\ Index(b) \in Int
      /\ Modulus \in Int /\ Lap(a) \in Int
  BY Division, Consts
<1> DEFINE m == Modulus * Lap(a)
<1>2. m \in Int
  BY <1>1
<1> HIDE DEF m
<1>3. a - 1 = m + Index(a) /\ b - 1 = m + Index(b)
  BY <1>1 DEF m
<1>4. Index(a) \in Int /\ Index(b) \in Int
  BY <1>1
<1> QED
  BY <1>2, <1>3, <1>4

\* A number between two of one lap is of that lap.
LEMMA LapBetween ==
  ASSUME NEW a \in Nat \ {0}, NEW b \in Nat \ {0}, NEW c \in Nat \ {0},
         a <= b, b <= c, Lap(a) = Lap(c)
  PROVE  Lap(b) = Lap(a)
<1> DEFINE M == Modulus  q == Lap(a)  p == Lap(b)
<1>1. q \in Nat /\ p \in Nat /\ M \in Nat /\ M > 1
  BY Division, Consts
<1>0. Index(a) \in 0 .. M - 1 /\ Index(b) \in 0 .. M - 1 /\ Index(c) \in 0 .. M - 1
  BY Division, Consts
<1>7. /\ a - 1 = M * q + Index(a) /\ b - 1 = M * p + Index(b) /\ c - 1 = M * q + Index(c)
  BY Division, Consts
<1> HIDE DEF M, q, p
<1>2. M * q \in Nat /\ M * p \in Nat
  BY <1>1
<1>3. M * (q + 1) = M * q + M /\ M * (p + 1) = M * p + M
  BY <1>1
<1>4. ASSUME p > q PROVE FALSE
  <2>1. M * p >= M * (q + 1)
    BY <1>1, <1>4
  <2> DEFINE x == M * p  y == M * q
  <2>2. /\ x >= y + M /\ x \in Nat /\ y \in Nat
        /\ b - 1 = x + Index(b) /\ c - 1 = y + Index(c)
    BY <1>1, <1>7, <1>2, <1>3, <2>1
  <2> HIDE DEF x, y
  <2>3. M \in Nat
    BY <1>1
  <2> QED
    BY <1>0, <2>2, <2>3
<1>5. ASSUME q > p PROVE FALSE
  <2>1. M * q >= M * (p + 1)
    BY <1>1, <1>5
  <2> DEFINE x == M * p  y == M * q
  <2>2. /\ y >= x + M /\ x \in Nat /\ y \in Nat
        /\ b - 1 = x + Index(b) /\ a - 1 = y + Index(a)
    BY <1>1, <1>7, <1>2, <1>3, <2>1
  <2> HIDE DEF x, y
  <2>3. M \in Nat
    BY <1>1
  <2> QED
    BY <1>0, <2>2, <2>3
<1>6. p = q
  BY <1>1, <1>4, <1>5
<1> QED
  BY <1>6 DEF p, q

-----------------------------------------------------------------------------
(* The parts in vframe                                                     *)

\* The greatest member of a bounded set.
LEMMA GreatestMember ==
  ASSUME NEW b \in Nat, NEW S \in SUBSET (0 .. b), S # {}
  PROVE  Max(S) \in S /\ \A y \in S : Max(S) >= y
<1> DEFINE T == {b - x : x \in S}
<1>0. \A x \in S : x \in Int /\ b - x \in Nat
  OBVIOUS
<1>1. T \in SUBSET Nat /\ T # {}
  BY <1>0
<1>2. PICK t \in T : \A y \in T : t <= y
  <2> HIDE DEF T
  <2> QED
    BY <1>1, LeastMember
<1>3. PICK x \in S : t = b - x
  BY <1>2
<1>4. \A y \in S : x >= y
  <2> SUFFICES ASSUME NEW y \in S PROVE x >= y
    OBVIOUS
  <2>1. b - y \in T /\ x \in Int /\ y \in Int
    BY <1>0
  <2>2. b - x <= b - y
    BY <1>2, <1>3, <2>1
  <2> QED
    BY <2>1, <2>2
<1> QED
  BY <1>3, <1>4 DEF Max

\* A frame whose numbers have no gap: its ends, and what it is put together to.
LEMMA Interval ==
  ASSUME NEW lo \in Nat, NEW hi \in Nat, lo <= hi, NEW frame, DOMAIN frame = lo .. hi
  PROVE  /\ Lowest(frame) = lo /\ Highest(frame) = hi /\ Contiguous(frame)
         /\ DOMAIN Joined(frame) = 1 .. hi - lo + 1
         /\ \A m \in 1 .. hi - lo + 1 : Joined(frame)[m] = frame[lo + m - 1]
<1>1. Lowest(frame) = lo
  <2>1. lo \in lo .. hi /\ \A y \in lo .. hi : lo =< y
    OBVIOUS
  <2> QED
    BY <2>1 DEF Lowest, Min
<1>2. Highest(frame) = hi
  <2>1. hi \in lo .. hi /\ \A y \in lo .. hi : hi >= y
    OBVIOUS
  <2> QED
    BY <2>1 DEF Highest, Max
<1>3. Cardinality(DOMAIN frame) = hi - lo + 1
  BY FS_Interval
<1>4. \A i \in lo .. hi : Place(frame, i) = i - lo + 1
  <2> SUFFICES ASSUME NEW i \in lo .. hi PROVE Place(frame, i) = i - lo + 1
    OBVIOUS
  <2>1. {j \in lo .. hi : j <= i} = lo .. i
    OBVIOUS
  <2>2. Place(frame, i) = Cardinality(lo .. i)
    BY <2>1 DEF Place
  <2> QED
    BY <2>2, FS_Interval
<1>5. ASSUME NEW m \in 1 .. hi - lo + 1
      PROVE  (CHOOSE i \in DOMAIN frame : Place(frame, i) = m) = lo + m - 1
  <2>1. lo + m - 1 \in lo .. hi
    OBVIOUS
  <2>2. \A i \in lo .. hi : Place(frame, i) = m <=> i = lo + m - 1
    BY <1>4
  <2> QED
    BY <2>1, <2>2
<1>6. DOMAIN Joined(frame) = 1 .. hi - lo + 1
  BY <1>3 DEF Joined
<1>7. ASSUME NEW m \in 1 .. hi - lo + 1 PROVE Joined(frame)[m] = frame[lo + m - 1]
  BY <1>3, <1>5 DEF Joined
<1> QED
  BY <1>1, <1>2, <1>3, <1>6, <1>7 DEF Contiguous

\* What the test in work says: numbers without a gap are an interval.
LEMMA Gapless ==
  ASSUME NEW b \in Nat, NEW frame, DOMAIN frame \in SUBSET (0 .. b), DOMAIN frame # {},
         Contiguous(frame)
  PROVE  /\ DOMAIN frame = Lowest(frame) .. Highest(frame)
         /\ DOMAIN Joined(frame) = 1 .. Highest(frame) - Lowest(frame) + 1
         /\ \A m \in 1 .. Highest(frame) - Lowest(frame) + 1 :
              Joined(frame)[m] = frame[Lowest(frame) + m - 1]
         /\ Lowest(frame) \in Nat /\ Highest(frame) \in Nat /\ Lowest(frame) <= Highest(frame)
<1> DEFINE lo == Lowest(frame)  hi == Highest(frame)
<1>1. /\ lo \in DOMAIN frame /\ \A y \in DOMAIN frame : lo <= y
      /\ hi \in DOMAIN frame /\ \A y \in DOMAIN frame : hi >= y
  <2>1. DOMAIN frame \in SUBSET Nat
    OBVIOUS
  <2>2. lo \in DOMAIN frame /\ \A y \in DOMAIN frame : lo <= y
    BY <2>1, LeastMember DEF Lowest
  <2>3. hi \in DOMAIN frame /\ \A y \in DOMAIN frame : hi >= y
    BY GreatestMember DEF Highest
  <2> QED
    BY <2>2, <2>3
<1>2. lo \in Nat /\ hi \in Nat /\ lo <= hi
  BY <1>1
<1>3. DOMAIN frame \in SUBSET (lo .. hi)
  <2>1. \A y \in DOMAIN frame : y \in Nat /\ lo <= y /\ y <= hi
    BY <1>1, <1>2
  <2> QED
    BY <1>2, <2>1
<1>4. Cardinality(lo .. hi) = Cardinality(DOMAIN frame) /\ IsFiniteSet(lo .. hi)
  BY <1>2, FS_Interval DEF Contiguous
<1>5. DOMAIN frame = lo .. hi
  BY <1>3, <1>4, FS_Subset
<1> QED
  BY <1>2, <1>5, Interval

-----------------------------------------------------------------------------
(* What is in vframe, and what of it is shown                              *)

\* A frame under construction: each part under its index, and one first part.
FrameOK(frame) ==
  /\ DOMAIN frame \subseteq 0 .. Modulus - 1
  /\ \A i \in DOMAIN frame : frame[i] \in Parts /\ Index(frame[i].n) = i
  /\ \A i, j \in DOMAIN frame : IsFirst(frame[i].n) /\ IsFirst(frame[j].n) => i = j

\* What Whole and Complete say of a camera.
LooksWhole(f) ==
  /\ f # << >>
  /\ \A i \in DOMAIN f : /\ f[i].login = f[1].login /\ f[1].login # Another
                         /\ Lap(f[i].n) = Lap(f[1].n)
  /\ IsFirst(f[1].n)
ShownOK(f)  == LooksWhole(f) => \E k \in Images : [i \in DOMAIN f |-> f[i].n] = ImageOf(k)
DueOK(s, l, f) ==
  \A k \in Images : /\ s = Start(k) .. Finish(k) - 1 /\ l = Finish(k)
                     /\ Start(k) < Finish(k) /\ Lap(Start(k)) = Lap(Finish(k))
                     => [i \in DOMAIN f |-> f[i].n] = ImageOf(k)

Typed     == PnpTypeOK /\ DOMAIN vframe = Cameras
InSession ==
  \A c \in Cameras : /\ status[c] = 2 => session[c] >= 1
                     /\ got[c].len = "part" => session[c] >= 1 /\ got[c].part \in Parts
                     /\ got[c].len # "idle" => latest[c] = 0
FramesOK  == \A c \in Cameras : FrameOK(vframe[c])
\* What has come, as long as it is the beginning of one image, is what is in vframe.
Begins(all)  == \E k \in Images : all \subseteq Start(k) .. Finish(k) - 1
Come(s, l)   == s \cup ({l} \ {0})
Holds(fr, all) ==
  Begins(all) => /\ DOMAIN fr = {Index(n) : n \in all}
                 /\ \A i \in DOMAIN fr : fr[i].n \in all
SinceOK == \A c \in Cameras : Holds(vframe[c], Come(since[c], latest[c]))
PnpInv == Typed /\ InSession /\ FramesOK /\ SinceOK /\ Whole /\ Complete

\* The empty frame.
LEMMA NothingOK == FrameOK(Nothing)
BY DEF FrameOK, Nothing

\* A part is put in: one that is no first part, or into the empty frame.
LEMMA PutOK ==
  ASSUME NEW frame, FrameOK(frame), NEW p \in Parts, ~IsFirst(p.n) \/ frame = Nothing
  PROVE  /\ FrameOK(Put(frame, p))
         /\ DOMAIN Put(frame, p) = DOMAIN frame \cup {Index(p.n)}
         /\ Put(frame, p)[Index(p.n)] = p
         /\ \A i \in DOMAIN Put(frame, p) : i # Index(p.n) => Put(frame, p)[i] = frame[i]
<1> DEFINE g == Put(frame, p)
<1>1. /\ DOMAIN g = DOMAIN frame \cup {Index(p.n)} /\ g[Index(p.n)] = p
      /\ \A i \in DOMAIN g : i # Index(p.n) => i \in DOMAIN frame /\ g[i] = frame[i]
  BY DEF Put
<1>2. Index(p.n) \in 0 .. Modulus - 1
  <2>1. p.n \in Stream
    BY DEF Parts
  <2> QED
    BY <2>1, StreamNat, Division
<1> HIDE DEF g
<1>3. DOMAIN g \subseteq 0 .. Modulus - 1
  BY <1>1, <1>2 DEF FrameOK
<1>4. \A i \in DOMAIN g : g[i] \in Parts /\ Index(g[i].n) = i
  BY <1>1 DEF FrameOK
<1>5. ASSUME NEW i \in DOMAIN g, NEW j \in DOMAIN g, IsFirst(g[i].n), IsFirst(g[j].n)
      PROVE  i = j
  <2>1. CASE frame = Nothing
    BY <1>1, <2>1 DEF Nothing
  <2>2. CASE ~IsFirst(p.n)
    BY <1>1, <1>5, <2>2 DEF FrameOK
  <2> QED
    BY <2>1, <2>2
<1>6. FrameOK(g)
  BY <1>3, <1>4, <1>5 DEF FrameOK
<1> QED
  BY <1>1, <1>6 DEF g

\* What is put together is a sequence of parts.
LEMMA JoinedType ==
  ASSUME NEW frame, FrameOK(frame), Contiguous(frame), DOMAIN frame # {}
  PROVE  Joined(frame) \in Seq(Parts)
<1> DEFINE lo == Lowest(frame)  hi == Highest(frame)  size == hi - lo + 1  f == Joined(frame)
<1>0. Modulus - 1 \in Nat /\ DOMAIN frame \in SUBSET (0 .. Modulus - 1)
  BY Consts DEF FrameOK
<1>1. DOMAIN frame = lo .. hi /\ lo \in Nat /\ hi \in Nat /\ lo <= hi
  BY <1>0, Gapless
<1>2. DOMAIN f = 1 .. size /\ \A m \in 1 .. size : f[m] = frame[lo + m - 1]
  BY <1>0, Gapless
<1>3. \A m \in 1 .. size : f[m] \in Parts
  BY <1>1, <1>2 DEF FrameOK
<1>4. f = [m \in DOMAIN f |-> f[m]]
  BY DEF Joined
<1> HIDE DEF lo, hi, f
<1>5. f \in [1 .. size -> Parts] /\ size \in Nat
  BY <1>1, <1>2, <1>3, <1>4
<1> QED
  BY <1>5 DEF f

\* The parts of a frame without gaps, put together, have their numbers in a row
\* when they are of one lap.
LEMMA InARow ==
  ASSUME NEW frame, FrameOK(frame), DOMAIN frame # {}, Contiguous(frame),
         \A m \in DOMAIN Joined(frame) : Lap(Joined(frame)[m].n) = Lap(Joined(frame)[1].n)
  PROVE  \E size \in Nat \ {0} :
           /\ DOMAIN Joined(frame) = 1 .. size
           /\ \A m \in 1 .. size : /\ Joined(frame)[m].n \in Stream
                                   /\ Joined(frame)[m].n = Joined(frame)[1].n + m - 1
           /\ \A i \in DOMAIN frame : \E m \in 1 .. size : Joined(frame)[m] = frame[i]
           /\ \A m, h \in 1 .. size : IsFirst(Joined(frame)[m].n) /\ IsFirst(Joined(frame)[h].n)
                => m = h
<1> DEFINE lo == Lowest(frame)  hi == Highest(frame)  size == hi - lo + 1  f == Joined(frame)
<1>0. Modulus - 1 \in Nat /\ DOMAIN frame \in SUBSET (0 .. Modulus - 1)
  BY Consts DEF FrameOK
<1>1. DOMAIN frame = lo .. hi /\ lo \in Nat /\ hi \in Nat /\ lo <= hi
  BY <1>0, Gapless
<1>2. DOMAIN f = 1 .. size /\ \A m \in 1 .. size : f[m] = frame[lo + m - 1]
  BY <1>0, Gapless
<1> HIDE DEF lo, hi, f
<1>3. size \in Nat \ {0} /\ DOMAIN f = 1 .. size
  BY <1>1, <1>2
<1>4. \A m \in 1 .. size : lo + m - 1 \in DOMAIN frame /\ f[m] = frame[lo + m - 1]
  BY <1>1, <1>2
<1>5. \A m \in 1 .. size : f[m].n \in Stream /\ Index(f[m].n) = lo + m - 1
  BY <1>4 DEF FrameOK, Parts
<1>6. ASSUME NEW m \in 1 .. size PROVE f[m].n = f[1].n + m - 1
  <2>1. f[m].n \in Nat \ {0} /\ f[1].n \in Nat \ {0} /\ Lap(f[m].n) = Lap(f[1].n)
    <3>1. 1 \in 1 .. size
      BY <1>3
    <3> QED
      BY <1>3, <1>5, <3>1, StreamNat DEF f
  <2>2. Index(f[m].n) - Index(f[1].n) = f[m].n - f[1].n
    BY <2>1, OneLap
  <2>3. Index(f[m].n) = lo + m - 1 /\ Index(f[1].n) = lo + 1 - 1
    BY <1>3, <1>5
  <2>4. m \in Int /\ lo \in Int /\ f[m].n \in Int /\ f[1].n \in Int
    BY <1>1, <1>3, <2>1
  <2> QED
    BY <2>2, <2>3, <2>4
<1>7. \A i \in DOMAIN frame : i - lo + 1 \in 1 .. size /\ f[i - lo + 1] = frame[i]
  <2> SUFFICES ASSUME NEW i \in DOMAIN frame
               PROVE  i - lo + 1 \in 1 .. size /\ f[i - lo + 1] = frame[i]
    OBVIOUS
  <2>1. i - lo + 1 \in 1 .. size /\ lo + (i - lo + 1) - 1 = i
    BY <1>1
  <2> QED
    BY <1>4, <2>1
<1>8. ASSUME NEW m \in 1 .. size, NEW h \in 1 .. size, IsFirst(f[m].n), IsFirst(f[h].n)
      PROVE  m = h
  <2>1. lo + m - 1 = lo + h - 1
    BY <1>4, <1>8 DEF FrameOK
  <2> QED
    BY <1>1, <2>1
<1> QED
  <2>1. \A i \in DOMAIN frame : \E m \in 1 .. size : f[m] = frame[i]
    BY <1>7
  <2>2. \A m \in 1 .. size : f[m].n \in Stream /\ f[m].n = f[1].n + m - 1
    BY <1>5, <1>6
  <2> HIDE DEF size
  <2> QED
    BY <1>3, <1>8, <2>1, <2>2 DEF f

\* A last part shows a whole image, or something that does not look like one.
LEMMA LastShowsWhole ==
  ASSUME NEW frame, FrameOK(frame), DOMAIN frame # {}, Contiguous(frame),
         NEW i \in DOMAIN frame, IsLast(frame[i].n) \/ frame[i].login = Another
  PROVE  ShownOK(Joined(frame))
<1> DEFINE f == Joined(frame)
<1> SUFFICES ASSUME LooksWhole(f)
             PROVE  \E k \in Images : [j \in DOMAIN f |-> f[j].n] = ImageOf(k)
  BY DEF ShownOK
<1>1. PICK size \in Nat \ {0} :
        /\ DOMAIN f = 1 .. size
        /\ \A m \in 1 .. size : f[m].n \in Stream /\ f[m].n = f[1].n + m - 1
        /\ \A j \in DOMAIN frame : \E m \in 1 .. size : f[m] = frame[j]
        /\ \A m, h \in 1 .. size : IsFirst(f[m].n) /\ IsFirst(f[h].n) => m = h
  <2>1. \A m \in DOMAIN f : Lap(f[m].n) = Lap(f[1].n)
    BY DEF LooksWhole
  <2> HIDE DEF f
  <2> QED
    BY <2>1, InARow DEF f
<1>2. PICK k \in Images : f[1].n = Start(k)
  BY DEF LooksWhole, IsFirst, FirstParts
<1>3. PICK l \in 1 .. size : f[l] = frame[i]
  BY <1>1
<1> HIDE DEF f
<1>4. f[l].n \in LastParts
  <2>1. l \in DOMAIN f
    BY <1>1
  <2>2. f[l].login # Another
    BY <2>1 DEF LooksWhole
  <2> QED
    BY <1>3, <2>2 DEF IsLast
<1>5. /\ Start(k) \in Nat \ {0} /\ Finish(k) \in Nat /\ Start(k) <= Finish(k)
  BY Numbering, StreamNat
<1>6. \A m \in 1 .. size : f[m].n = Start(k) + m - 1 /\ f[m].n \in Stream /\ m \in Nat /\ m >= 1
  BY <1>1, <1>2
\* The image after k would begin with a first part.
<1>7. \A m \in 1 .. size : f[m].n <= Finish(k)
  <2> SUFFICES ASSUME NEW m \in 1 .. size, f[m].n > Finish(k) PROVE FALSE
    BY <1>5, <1>6
  <2>1. k + 1 \in Images /\ Start(k + 1) = Finish(k) + 1
    BY <1>6, Numbering
  <2> DEFINE h == Finish(k) + 1 - Start(k) + 1
  <2>2. h \in 1 .. size /\ h # 1
    BY <1>5, <1>6
  <2>3. f[h].n = Start(k + 1)
    <3>1. f[h].n = Start(k) + h - 1
      BY <1>6, <2>2
    <3> QED
      BY <1>5, <2>1, <3>1
  <2>4. IsFirst(f[h].n) /\ IsFirst(f[1].n)
    BY <1>2, <2>1, <2>3 DEF IsFirst, FirstParts
  <2>5. 1 \in 1 .. size
    BY <1>1
  <2> HIDE DEF h
  <2> QED
    BY <1>1, <2>2, <2>4, <2>5
<1>8. f[l].n = Finish(k)
  <2>1. Start(k) <= f[l].n /\ f[l].n <= Finish(k)
    BY <1>5, <1>6, <1>7
  <2> QED
    BY <1>4, <2>1, OneEnd
<1>9. size = Finish(k) - Start(k) + 1
  <2>1. l = Finish(k) - Start(k) + 1 /\ l <= size
    BY <1>5, <1>6, <1>8
  <2>2. size \in 1 .. size
    BY <1>1
  <2>3. Start(k) + size - 1 <= Finish(k)
    BY <1>6, <1>7, <2>2
  <2> QED
    BY <1>1, <1>5, <2>1, <2>3
<1>10. [j \in DOMAIN f |-> f[j].n] = ImageOf(k)
  BY <1>1, <1>6, <1>9 DEF ImageOf
<1> QED
  BY <1>10 DEF f

\* All the parts of an image within a lap: they are shown.
LEMMA AllShown ==
  ASSUME NEW k \in Images, Lap(Start(k)) = Lap(Finish(k)), NEW frame, FrameOK(frame),
         DOMAIN frame = {Index(n) : n \in Start(k) .. Finish(k)},
         \A i \in DOMAIN frame : frame[i].n \in Start(k) .. Finish(k)
  PROVE  /\ Contiguous(frame) /\ IsMark(frame[Lowest(frame)].n)
         /\ [m \in DOMAIN Joined(frame) |-> Joined(frame)[m].n] = ImageOf(k)
<1> DEFINE a == Start(k)  z == Finish(k)  lo == Index(a)  hi == lo + z - a
<1>1. a \in Nat \ {0} /\ z \in Nat \ {0} /\ a <= z
  BY Numbering, StreamNat
<1>2. lo \in Nat /\ hi \in Nat /\ lo <= hi
  <2>1. lo \in Nat
    <3>1. lo \in 0 .. Modulus - 1
      BY <1>1, Division
    <3> QED
      BY <3>1
  <2> QED
    BY <1>1, <2>1
<1>3. \A n \in a .. z : Index(n) = lo + n - a
  <2> SUFFICES ASSUME NEW n \in a .. z PROVE Index(n) = lo + n - a
    OBVIOUS
  <2>1. n \in Nat \ {0} /\ a <= n /\ n <= z
    BY <1>1
  <2>2. Lap(n) = Lap(a)
    BY <1>1, <2>1, LapBetween
  <2>3. Index(n) - Index(a) = n - a
    BY <1>1, <2>1, <2>2, OneLap
  <2>4. Index(n) \in Int
    BY <2>1, Division, Consts
  <2> QED
    BY <1>1, <1>2, <2>1, <2>3, <2>4
<1> HIDE DEF lo
<1>4. DOMAIN frame = lo .. hi
  <2>1. \A n \in a .. z : lo + n - a \in lo .. hi
    BY <1>1, <1>2
  <2>2. \A i \in lo .. hi : i - lo + a \in a .. z /\ lo + (i - lo + a) - a = i
    BY <1>1, <1>2
  <2>3. \A i \in lo .. hi : i \in DOMAIN frame
    BY <1>3, <2>2
  <2>4. \A i \in DOMAIN frame : i \in lo .. hi
    BY <1>3, <2>1
  <2> QED
    BY <2>3, <2>4
<1>5. \A i \in lo .. hi : frame[i].n = i - lo + a
  <2> SUFFICES ASSUME NEW i \in lo .. hi PROVE frame[i].n = i - lo + a
    OBVIOUS
  <2>1. Index(frame[i].n) = i /\ frame[i].n \in a .. z
    BY <1>4 DEF FrameOK
  <2>2. i = lo + frame[i].n - a /\ frame[i].n \in Int
    BY <1>1, <1>3, <2>1
  <2> QED
    BY <1>1, <1>2, <2>2
<1>6. /\ Lowest(frame) = lo /\ Contiguous(frame)
      /\ DOMAIN Joined(frame) = 1 .. hi - lo + 1
      /\ \A m \in 1 .. hi - lo + 1 : Joined(frame)[m] = frame[lo + m - 1]
  <2> HIDE DEF hi
  <2>1. Lowest(frame) = lo /\ Highest(frame) = hi
    BY <1>2, <1>4, Interval
  <2>2. DOMAIN Joined(frame) = 1 .. hi - lo + 1
    BY <1>2, <1>4, Interval
  <2>3. Contiguous(frame)
    BY <1>2, <1>4, Interval, Zenon
  <2>4. ASSUME NEW m \in 1 .. hi - lo + 1 PROVE Joined(frame)[m] = frame[lo + m - 1]
    <3>1. Modulus - 1 \in Nat /\ DOMAIN frame \in SUBSET (0 .. Modulus - 1)
      BY Consts DEF FrameOK
    <3>2. DOMAIN frame # {}
      BY <1>2, <1>4
    <3> QED
      BY <2>1, <2>3, <3>1, <3>2, Gapless
  <2> QED
    BY <2>1, <2>2, <2>3, <2>4
<1>7. IsMark(frame[Lowest(frame)].n)
  <2>1. frame[lo].n = a
    BY <1>1, <1>2, <1>5
  <2> QED
    BY <1>6, <2>1 DEF IsMark, IsFirst, FirstParts
<1>8. [m \in DOMAIN Joined(frame) |-> Joined(frame)[m].n] = ImageOf(k)
  <2>1. DOMAIN Joined(frame) = 1 .. z - a + 1
    BY <1>1, <1>2, <1>6
  <2>2. ASSUME NEW m \in 1 .. z - a + 1 PROVE Joined(frame)[m].n = a + m - 1
    <3>1. Joined(frame)[m] = frame[lo + m - 1]
      BY <1>1, <1>2, <1>6
    <3>2. lo + m - 1 \in lo .. hi /\ (lo + m - 1) - lo + a = a + m - 1
      BY <1>1, <1>2
    <3> QED
      BY <1>5, <3>1, <3>2
  <2> QED
    BY <2>1, <2>2 DEF ImageOf
<1> QED
  BY <1>6, <1>7, <1>8

-----------------------------------------------------------------------------
(* Every step                                                              *)

\* At the start.
LEMMA PnpInitInv == PnpInit => PnpInv
<1> SUFFICES ASSUME PnpInit PROVE PnpInv
  OBVIOUS
<1>1. Typed
  <2>1. /\ status \in [Cameras -> 0 .. 2] /\ logins \in 0 .. MaxLogins
        /\ session \in [Cameras -> 0 .. logins] /\ quiet \in BOOLEAN
    <3>1. 0 \in 0 .. 0 /\ 0 \in 0 .. MaxLogins /\ 0 \in 0 .. 2 /\ logins = 0
      BY Consts DEF PnpInit
    <3>2. session = [c \in Cameras |-> 0] /\ status = [c \in Cameras |-> 0] /\ quiet = FALSE
      BY DEF PnpInit
    <3>3. session \in [Cameras -> 0 .. logins]
      BY <3>1, <3>2
    <3>4. quiet \in BOOLEAN
      BY <3>2, Zenon
    <3> QED
      BY <3>1, <3>2, <3>3, <3>4
  <2>2. DOMAIN vframe = Cameras /\ \A c \in Cameras : DOMAIN vframe[c] = {}
    BY DEF PnpInit, Nothing
  <2>3. /\ got \in [Cameras -> [len : {"idle", "none", "four", "part"}, part : Parts \cup {NoPart}]]
        /\ shown \in [Cameras -> Seq(Parts)]
    BY DEF PnpInit, Idle, Got
  <2>4. /\ since \in [Cameras -> SUBSET (Stream \cup {Stray})]
        /\ latest \in [Cameras -> Stream \cup {Stray, 0}]
        /\ echo \in 0 .. 1 + (IF Timeouts > Beats THEN Timeouts ELSE Beats)
    BY PnpAssumption DEF PnpAssumption, PnpInit
  <2> QED
    BY <2>1, <2>2, <2>3, <2>4 DEF Typed, PnpTypeOK
<1>2. InSession
  BY DEF PnpInit, InSession, Idle, Got
<1>3. FramesOK /\ SinceOK
  <2>1. \A c \in Cameras : vframe[c] = Nothing /\ Come(since[c], latest[c]) = {}
    BY DEF PnpInit, Come
  <2>2. DOMAIN Nothing = {} /\ {Index(n) : n \in {}} = {}
    BY DEF Nothing
  <2> QED
    BY <2>1, <2>2, NothingOK DEF FramesOK, SinceOK, Holds
<1>4. Whole /\ Complete
  <2>1. \A k \in Images : Finish(k) # 0
    BY Numbering, StreamNat
  <2> QED
    BY <2>1 DEF PnpInit, Whole, Complete
<1> QED
  BY <1>1, <1>2, <1>3, <1>4 DEF PnpInv

\* Which sets of numbers are the beginning of an image.
LEMMA Beginnings ==
  /\ \A all : Stray \in all => ~Begins(all)
  /\ \A all, n : Begins(all \cup {n}) => Begins(all)
  /\ \A all : \A n \in all : n \in Stream /\ IsLast(n) => ~Begins(all)
  /\ \A k \in Images : Begins(Start(k) .. Finish(k) - 1)
<1>1. \A k \in Images : Start(k) \in Nat /\ Finish(k) \in Nat /\ Start(k) >= 1
  BY Numbering, StreamNat
<1>2. \A all : Stray \in all => ~Begins(all)
  BY <1>1 DEF Begins, Stray
<1>3. \A all, n : Begins(all \cup {n}) => Begins(all)
  BY DEF Begins
<1>4. ASSUME NEW all, NEW n \in all, n \in Stream, IsLast(n), Begins(all) PROVE FALSE
  <2>1. PICK k \in Images : all \subseteq Start(k) .. Finish(k) - 1
    BY <1>4 DEF Begins
  <2>2. n \in Start(k) .. Finish(k) - 1
    BY <1>4, <2>1
  <2>3. Start(k) <= n /\ n <= Finish(k) /\ n # Finish(k)
    BY <1>1, <2>1, <2>2
  <2>4. n \in LastParts
    BY <1>4 DEF IsLast
  <2> QED
    BY <2>1, <2>3, <2>4, OneEnd
<1>5. \A k \in Images : Begins(Start(k) .. Finish(k) - 1)
  BY DEF Begins
<1> QED
  BY <1>2, <1>3, <1>4, <1>5

\* What a thread makes of the part in the buffer.
LEMMA FrameStep ==
  ASSUME PnpInv, NEW c \in Cameras, got[c].len = "part", Frame(c)
  PROVE  \E fr, f, s, l :
           /\ vframe' = [vframe EXCEPT ![c] = fr] /\ FrameOK(fr)
           /\ shown' = [shown EXCEPT ![c] = f] /\ f \in Seq(Parts) /\ ShownOK(f)
           /\ since' = [since EXCEPT ![c] = s] /\ s \in SUBSET (Stream \cup {Stray})
           /\ latest' = [latest EXCEPT ![c] = l] /\ l \in Stream \cup {Stray, 0}
           /\ Holds(fr, Come(s, l)) /\ DueOK(s, l, f)
<1> DEFINE p == got[c].part  fr == vframe'[c]  f == shown'[c]
           s == IF IsFirst(p.n) THEN {} ELSE since[c]
           l == Seen(c, p)
<1>1. /\ p \in Parts /\ p.n \in Stream /\ session[c] >= 1 /\ session[c] # Another
      /\ FrameOK(vframe[c]) /\ since[c] \in SUBSET (Stream \cup {Stray}) /\ latest[c] = 0
  BY DEF PnpInv, InSession, FramesOK, Parts, Another, Typed, PnpTypeOK
<1>2. /\ DOMAIN vframe = Cameras /\ DOMAIN shown = Cameras /\ DOMAIN latest = Cameras
      /\ DOMAIN since = Cameras
  BY DEF PnpInv, Typed, PnpTypeOK
<1>3. /\ vframe' = [vframe EXCEPT ![c] = fr] /\ shown' = [shown EXCEPT ![c] = f]
      /\ since' = [since EXCEPT ![c] = s] /\ latest' = [latest EXCEPT ![c] = l]
  BY <1>2 DEF Frame, FirstPart, LastPart, MiddlePart, Shows, Note
<1>4. /\ l \in {p.n, Stray} /\ l # 0 /\ Come(s, l) = s \cup {l}
      /\ s \in SUBSET (Stream \cup {Stray}) /\ l \in Stream \cup {Stray, 0}
      /\ p.login = Another => l = Stray
  <2>1. p.n # 0 /\ Stray # 0
    BY <1>1, StreamNat DEF Stray
  <2> QED
    BY <1>1, <2>1 DEF Seen, Come
<1>5. CASE IsFirst(p.n)
  <2>1. fr = Put(Nothing, p) /\ f = << >>
    BY <1>2, <1>5 DEF Frame, FirstPart, Shows
  <2>2. FrameOK(fr) /\ DOMAIN fr = {Index(p.n)} /\ fr[Index(p.n)] = p
    <3>1. DOMAIN Nothing = {}
      BY DEF Nothing
    <3> DEFINE g == Put(Nothing, p)
    <3>2. FrameOK(g) /\ DOMAIN g = DOMAIN Nothing \cup {Index(p.n)} /\ g[Index(p.n)] = p
      BY <1>1, NothingOK, PutOK
    <3> HIDE DEF g
    <3>3. DOMAIN g = {Index(p.n)}
      BY <3>1, <3>2
    <3> QED
      BY <2>1, <3>2, <3>3 DEF g
  <2>3. f \in Seq(Parts) /\ ShownOK(f)
    BY <2>1 DEF ShownOK, LooksWhole
  <2>4. DueOK(s, l, f)
    <3>1. s = {} /\ \A k \in Images : Start(k) < Finish(k) => Start(k) \in Start(k) .. Finish(k) - 1
      BY <1>5, Numbering, StreamNat
    <3> QED
      BY <3>1 DEF DueOK
  <2>5. Holds(fr, Come(s, l))
    <3>1. CASE l = Stray
      BY <1>4, <3>1, Beginnings DEF Holds
    <3>2. CASE l = p.n
      BY <1>4, <1>5, <2>2, <3>2 DEF Holds
    <3> QED
      BY <1>4, <3>1, <3>2
  <2> HIDE DEF fr, f, s, l
  <2> QED
    BY <1>3, <1>4, <2>2, <2>3, <2>4, <2>5
<1>6. CASE ~IsFirst(p.n)
  <2> DEFINE frame == Put(vframe[c], p)
  <2>1. /\ FrameOK(frame) /\ DOMAIN frame = DOMAIN vframe[c] \cup {Index(p.n)}
        /\ frame[Index(p.n)] = p
        /\ \A i \in DOMAIN frame : i # Index(p.n) => frame[i] = vframe[c][i]
    BY <1>1, <1>6, PutOK
  <2> DEFINE seen == since[c] \cup {p.n}
  <2>2. ASSUME Begins(since[c])
        PROVE  /\ DOMAIN frame = {Index(n) : n \in seen}
               /\ \A i \in DOMAIN frame : frame[i].n \in seen
    <3>1. /\ DOMAIN vframe[c] = {Index(n) : n \in since[c]}
          /\ \A i \in DOMAIN vframe[c] : vframe[c][i].n \in since[c]
      <4>1. Come(since[c], latest[c]) = since[c] /\ Holds(vframe[c], Come(since[c], latest[c]))
        BY <1>1 DEF Come, PnpInv, SinceOK
      <4> QED
        BY <2>2, <4>1 DEF Holds
    <3> HIDE DEF frame
    <3> QED
      BY <2>1, <3>1
  <2>3. s = since[c]
    BY <1>6
  <2>4. CASE LastPart(c, p) /\ (IsLast(p.n) \/ p.login = Another)
    <3>1. /\ fr = Nothing
          /\ f = IF IsMark(frame[Lowest(frame)].n) /\ Contiguous(frame)
                 THEN Joined(frame) ELSE << >>
      BY <1>2, <2>4 DEF LastPart, Shows
    <3>2. Holds(fr, Come(s, l))
      <4>1. ~Begins(s \cup {l})
        BY <1>1, <1>4, <2>4, Beginnings
      <4> QED
        BY <1>4, <4>1 DEF Holds
    <3>3. FrameOK(fr)
      BY <3>1, NothingOK
    <3>4. f \in Seq(Parts)
      BY <2>1, <3>1, JoinedType
    <3>5. ShownOK(f)
      <4>1. CASE f = << >>
        BY <4>1 DEF ShownOK, LooksWhole
      <4>2. CASE f # << >>
        <5>1. f = Joined(frame) /\ Contiguous(frame)
          BY <3>1, <4>2
        <5>2. /\ Index(p.n) \in DOMAIN frame
              /\ IsLast(frame[Index(p.n)].n) \/ frame[Index(p.n)].login = Another
          BY <2>1, <2>4
        <5> HIDE DEF f, frame
        <5> QED
          BY <2>1, <5>1, <5>2, LastShowsWhole
      <4> QED
        BY <4>1, <4>2
    <3>6. DueOK(s, l, f)
      <4> SUFFICES ASSUME NEW k \in Images, s = Start(k) .. Finish(k) - 1, l = Finish(k),
                          Start(k) < Finish(k), Lap(Start(k)) = Lap(Finish(k))
                   PROVE  [j \in DOMAIN f |-> f[j].n] = ImageOf(k)
        BY DEF DueOK
      <4>1. Start(k) \in Nat /\ Finish(k) \in Nat /\ Finish(k) # Stray
        BY Numbering, StreamNat DEF Stray
      <4>2. seen = Start(k) .. Finish(k)
        <5>1. p.n = Finish(k)
          BY <1>4, <4>1
        <5> QED
          BY <2>3, <4>1, <5>1
      <4>3. Begins(since[c])
        BY <2>3, Beginnings
      <4>4. /\ DOMAIN frame = {Index(n) : n \in Start(k) .. Finish(k)}
            /\ \A i \in DOMAIN frame : frame[i].n \in Start(k) .. Finish(k)
        BY <2>2, <4>2, <4>3
      <4> HIDE DEF frame
      <4>5. /\ Contiguous(frame) /\ IsMark(frame[Lowest(frame)].n)
            /\ [j \in DOMAIN Joined(frame) |-> Joined(frame)[j].n] = ImageOf(k)
        BY <2>1, <4>4, AllShown
      <4>6. f = Joined(frame)
        BY <3>1, <4>5
      <4> QED
        BY <4>5, <4>6
    <3> HIDE DEF fr, f, s, l
    <3> QED
      BY <1>3, <1>4, <3>2, <3>3, <3>4, <3>5, <3>6
  <2>5. CASE MiddlePart(c, p) /\ (~IsLast(p.n) \/ p.login = Another)
    <3>1. fr = frame /\ f = << >>
      BY <1>2, <2>5 DEF MiddlePart, Shows
    <3>2. DueOK(s, l, f)
      <4> SUFFICES ASSUME NEW k \in Images, l = Finish(k) PROVE FALSE
        BY DEF DueOK
      <4>1. Finish(k) # Stray /\ IsLast(Finish(k))
        BY Numbering, StreamNat DEF Stray, IsLast, LastParts
      <4> QED
        BY <1>4, <2>5, <4>1
    <3>3. Holds(fr, Come(s, l))
      <4>1. CASE l = Stray
        BY <1>4, <4>1, Beginnings DEF Holds
      <4>2. CASE l = p.n
        <5> HIDE DEF frame, l
        <5>1. Come(s, l) = seen
          BY <1>4, <2>3, <4>2
        <5>2. Begins(seen) => Begins(since[c])
          BY Beginnings
        <5> QED
          BY <2>2, <3>1, <5>1, <5>2 DEF Holds
      <4> QED
        BY <1>4, <4>1, <4>2
    <3>4. f \in Seq(Parts) /\ ShownOK(f)
      BY <3>1 DEF ShownOK, LooksWhole
    <3> HIDE DEF fr, f, s, l, frame
    <3> QED
      BY <1>3, <1>4, <2>1, <3>1, <3>2, <3>3, <3>4
  <2> QED
    BY <1>6, <2>4, <2>5 DEF Frame
<1> QED
  BY <1>5, <1>6

\* Whole and Complete camera by camera, and what leaves them as they are.
LEMMA Views ==
  /\ Whole <=> \A c \in Cameras : ShownOK(shown[c])
  /\ Complete <=> \A c \in Cameras : DueOK(since[c], latest[c], shown[c])
  /\ Whole' <=> \A c \in Cameras : ShownOK(shown'[c])
  /\ Complete' <=> \A c \in Cameras : DueOK(since'[c], latest'[c], shown'[c])
BY DEF Whole, Complete, ShownOK, LooksWhole, DueOK

LEMMA SameViews ==
  ASSUME Whole, Complete, shown' = shown, since' = since, latest' = latest
  PROVE  Whole' /\ Complete'
BY Views

\* Every step preserves the invariant.
LEMMA PnpNextInv == ASSUME PnpInv, [PnpNext]_pnpVars PROVE PnpInv'
<1>1. ASSUME NEW c \in Cameras, got[c].len = "part", Frame(c),
             got' = [got EXCEPT ![c] = Idle], UNCHANGED <<session, logins, quiet>>
      PROVE  PnpInv'
  <2>1. PICK fr, f, s, l :
           /\ vframe' = [vframe EXCEPT ![c] = fr] /\ FrameOK(fr)
           /\ shown' = [shown EXCEPT ![c] = f] /\ f \in Seq(Parts) /\ ShownOK(f)
           /\ since' = [since EXCEPT ![c] = s] /\ s \in SUBSET (Stream \cup {Stray})
           /\ latest' = [latest EXCEPT ![c] = l] /\ l \in Stream \cup {Stray, 0}
           /\ Holds(fr, Come(s, l)) /\ DueOK(s, l, f)
    BY <1>1, FrameStep
  <2>3. status' = status /\ echo' = 0
    BY <1>1 DEF Frame
  <2>4. Typed'
    <3>1. /\ status' \in [Cameras -> 0 .. 2] /\ logins' \in 0 .. MaxLogins
          /\ session' \in [Cameras -> 0 .. logins'] /\ quiet' \in BOOLEAN
      BY <1>1, <2>3 DEF PnpInv, Typed, PnpTypeOK
    <3>2. /\ DOMAIN vframe' = Cameras
          /\ \A d \in Cameras : /\ DOMAIN vframe'[d] \subseteq 0 .. Modulus - 1
                                /\ \A i \in DOMAIN vframe'[d] : vframe'[d][i] \in Parts
      BY <2>1 DEF PnpInv, Typed, PnpTypeOK, FrameOK
    <3>3. got' \in [Cameras -> [len : {"idle", "none", "four", "part"}, part : Parts \cup {NoPart}]]
      BY <1>1 DEF PnpInv, Typed, PnpTypeOK, Idle, Got
    <3>4. /\ shown' \in [Cameras -> Seq(Parts)]
          /\ since' \in [Cameras -> SUBSET (Stream \cup {Stray})]
          /\ latest' \in [Cameras -> Stream \cup {Stray, 0}]
      BY <2>1 DEF PnpInv, Typed, PnpTypeOK
    <3>5. echo' \in 0 .. 1 + (IF Timeouts > Beats THEN Timeouts ELSE Beats)
      BY <2>3, PnpAssumption DEF PnpAssumption
    <3> QED
      BY <3>1, <3>2, <3>3, <3>4, <3>5 DEF Typed, PnpTypeOK
  <2>5. InSession'
    <3>1. /\ got'[c].len = "idle" /\ \A d \in Cameras \ {c} : got'[d] = got[d]
          /\ \A d \in Cameras \ {c} : latest'[d] = latest[d]
      BY <1>1, <2>1 DEF PnpInv, Typed, PnpTypeOK, Idle, Got
    <3> QED
      BY <1>1, <2>3, <3>1 DEF PnpInv, InSession, Idle, Got
  <2>6. FramesOK'
    BY <2>1 DEF PnpInv, Typed, FramesOK
  <2>7. SinceOK'
    BY <2>1 DEF PnpInv, Typed, PnpTypeOK, SinceOK
  <2>8. Whole' /\ Complete'
    <3>1. \A d \in Cameras : ShownOK(shown[d]) /\ DueOK(since[d], latest[d], shown[d])
      BY Views DEF PnpInv
    <3>2. \A d \in Cameras : ShownOK(shown'[d]) /\ DueOK(since'[d], latest'[d], shown'[d])
      BY <2>1, <3>1 DEF PnpInv, Typed, PnpTypeOK
    <3> QED
      BY <3>2, Views
  <2> QED
    BY <2>4, <2>5, <2>6, <2>7, <2>8 DEF PnpInv
<1>2. ASSUME NEW c \in Cameras, NEW limit \in {Timeouts, Beats}, NEW next \in 0 .. 2, next # 2,
             Empty(c, limit, next),
             got' = [got EXCEPT ![c] = Idle], UNCHANGED <<session, logins, quiet>>
      PROVE  PnpInv'
  <2>1. /\ status' \in {status, [status EXCEPT ![c] = next]}
        /\ UNCHANGED <<vframe, shown, since, latest>>
    BY <1>2 DEF Empty, Close, frameVars
  <2>2. Typed'
    <3>1. /\ status' \in [Cameras -> 0 .. 2] /\ logins' \in 0 .. MaxLogins
          /\ session' \in [Cameras -> 0 .. logins'] /\ quiet' \in BOOLEAN
      <4>1. status \in [Cameras -> 0 .. 2] /\ [status EXCEPT ![c] = next] \in [Cameras -> 0 .. 2]
        BY DEF PnpInv, Typed, PnpTypeOK
      <4>2. status' \in [Cameras -> 0 .. 2]
        BY <2>1, <4>1
      <4>3. quiet' \in BOOLEAN
        BY <1>2, Zenon DEF PnpInv, Typed, PnpTypeOK
      <4> QED
        BY <1>2, <4>2, <4>3 DEF PnpInv, Typed, PnpTypeOK
    <3>2. /\ DOMAIN vframe' = Cameras
          /\ \A d \in Cameras : /\ DOMAIN vframe'[d] \subseteq 0 .. Modulus - 1
                                /\ \A i \in DOMAIN vframe'[d] : vframe'[d][i] \in Parts
      BY <2>1 DEF PnpInv, Typed, PnpTypeOK
    <3>3. got' \in [Cameras -> [len : {"idle", "none", "four", "part"}, part : Parts \cup {NoPart}]]
      BY <1>2 DEF PnpInv, Typed, PnpTypeOK, Idle, Got
    <3>4. /\ shown' \in [Cameras -> Seq(Parts)]
          /\ since' \in [Cameras -> SUBSET (Stream \cup {Stray})]
          /\ latest' \in [Cameras -> Stream \cup {Stray, 0}]
      BY <2>1 DEF PnpInv, Typed, PnpTypeOK
    <3>5. echo' \in 0 .. 1 + (IF Timeouts > Beats THEN Timeouts ELSE Beats)
      <4>1. /\ echo \in 0 .. 1 + (IF Timeouts > Beats THEN Timeouts ELSE Beats)
            /\ Timeouts \in Nat /\ Beats \in Nat
        BY PnpAssumption DEF PnpAssumption, PnpInv, Typed, PnpTypeOK
      <4>2. echo' = 0 \/ (echo' = echo + 1 /\ ~(echo > limit))
        BY <1>2 DEF Empty, Close, Counted
      <4> QED
        BY <4>1, <4>2
    <3> QED
      BY <3>1, <3>2, <3>3, <3>4, <3>5 DEF Typed, PnpTypeOK
  <2>3. InSession'
    BY <1>2, <2>1 DEF PnpInv, Typed, PnpTypeOK, InSession, Idle, Got
  <2>4. FramesOK' /\ SinceOK'
    BY <2>1 DEF PnpInv, FramesOK, SinceOK
  <2>5. Whole' /\ Complete'
    BY <2>1, SameViews DEF PnpInv
  <2> QED
    BY <2>2, <2>3, <2>4, <2>5 DEF PnpInv
<1>3. ASSUME NEW c \in Cameras, Query(c) PROVE PnpInv'
  <2>1. Typed'
    <3>1. /\ status' = [status EXCEPT ![c] = 1]
          /\ UNCHANGED <<session, logins, echo, got, quiet, vframe, shown, since, latest>>
      BY <1>3 DEF Query, frameVars
    <3> QED
      BY <3>1 DEF PnpInv, Typed, PnpTypeOK
  <2>2. InSession'
    BY <1>3 DEF PnpInv, Typed, PnpTypeOK, InSession, Query, Parts, frameVars
  <2>3. FramesOK' /\ SinceOK' /\ Whole' /\ Complete'
    BY <1>3, SameViews DEF PnpInv, FramesOK, SinceOK, Query, frameVars
  <2> QED
    BY <2>1, <2>2, <2>3 DEF PnpInv
<1>4. ASSUME NEW c \in Cameras, Login(c) PROVE PnpInv'
  <2>1. Typed'
    <3>1. /\ status' \in [Cameras -> 0 .. 2] /\ logins' \in 0 .. MaxLogins
      BY <1>4, Consts DEF PnpInv, Typed, PnpTypeOK, Login
    <3>2. session' \in [Cameras -> 0 .. logins']
      <4>1. /\ logins \in Nat /\ logins' = logins + 1 /\ session \in [Cameras -> 0 .. logins]
            /\ session' = [session EXCEPT ![c] = logins + 1]
        BY <1>4, Consts DEF PnpInv, Typed, PnpTypeOK, Login
      <4>2. 0 .. logins \subseteq 0 .. logins' /\ logins + 1 \in 0 .. logins'
        BY <4>1
      <4> QED
        BY <4>1, <4>2
    <3>3. /\ since' \in [Cameras -> SUBSET (Stream \cup {Stray})]
          /\ latest' \in [Cameras -> Stream \cup {Stray, 0}]
      BY <1>4 DEF PnpInv, Typed, PnpTypeOK, Login
    <3>4. UNCHANGED <<echo, got, quiet, vframe, shown>>
      BY <1>4 DEF Login
    <3> QED
      BY <3>1, <3>2, <3>3, <3>4 DEF PnpInv, Typed, PnpTypeOK
  <2>2. InSession'
    BY <1>4 DEF PnpInv, Typed, PnpTypeOK, InSession, Login
  <2>3. FramesOK' /\ SinceOK'
    <3>1. \A d \in Cameras : d # c => since'[d] = since[d] /\ latest'[d] = latest[d]
      BY <1>4 DEF PnpInv, Typed, PnpTypeOK, Login
    <3>2. Stray \in Come(since'[c], latest'[c]) /\ vframe' = vframe
      BY <1>4 DEF PnpInv, Typed, PnpTypeOK, Login, Come
    <3>3. Holds(vframe'[c], Come(since'[c], latest'[c]))
      BY <3>2, Beginnings DEF Holds
    <3> QED
      BY <3>1, <3>2, <3>3 DEF PnpInv, FramesOK, SinceOK
  <2>4. Whole' /\ Complete'
    <3>1. \A d \in Cameras : ShownOK(shown[d]) /\ DueOK(since[d], latest[d], shown[d])
      BY Views DEF PnpInv
    <3>2. shown' = shown /\ latest'[c] = 0
      BY <1>4 DEF PnpInv, Typed, PnpTypeOK, Login
    <3>3. \A d \in Cameras : d # c => since'[d] = since[d] /\ latest'[d] = latest[d]
      BY <1>4 DEF PnpInv, Typed, PnpTypeOK, Login
    <3>4. DueOK(since'[c], latest'[c], shown'[c])
      BY <3>2, Numbering, StreamNat DEF DueOK
    <3> QED
      BY <3>1, <3>2, <3>3, <3>4, Views
  <2> QED
    BY <2>1, <2>2, <2>3, <2>4 DEF PnpInv
<1>5. ASSUME NEW c \in Cameras, Recvfrom(c) PROVE PnpInv'
  <2>0. /\ UNCHANGED <<status, session, logins, echo, quiet, vframe>>
        /\ since' = [since EXCEPT ![c] = Passed(c)]
        /\ latest' = [latest EXCEPT ![c] = 0]
        /\ shown' = [shown EXCEPT ![c] = << >>]
    BY <1>5 DEF Recvfrom, ReceiveNone, ReceivePart, TurnOver, Shows
  <2>5. /\ since'[c] = Passed(c) /\ latest'[c] = 0 /\ shown'[c] = << >>
        /\ \A d \in Cameras : d # c => /\ since'[d] = since[d] /\ latest'[d] = latest[d]
                                        /\ shown'[d] = shown[d]
    BY <2>0 DEF PnpInv, Typed, PnpTypeOK
  <2>6. Passed(c) = IF Begins(Come(since[c], latest[c])) THEN Come(since[c], latest[c]) ELSE {Stray}
    BY DEF Passed, Begins, Come
  <2>7. Come(since'[c], latest'[c]) = Passed(c)
    BY <2>5 DEF Come
  <2>4. /\ got' \in [Cameras -> [len : {"idle", "none", "four", "part"}, part : Parts \cup {NoPart}]]
        /\ InSession'
    <3>1. CASE ReceiveNone(c)
      <4>1. PICK len \in {"none", "four"} : got' = [got EXCEPT ![c] = Got(len, NoPart)]
        BY <3>1 DEF ReceiveNone
      <4>2. got' \in [Cameras -> [len : {"idle", "none", "four", "part"}, part : Parts \cup {NoPart}]]
        BY <4>1 DEF PnpInv, Typed, PnpTypeOK, Got
      <4>3. got'[c].len # "part" /\ \A d \in Cameras : d # c => got'[d] = got[d]
        BY <4>1 DEF PnpInv, Typed, PnpTypeOK, Got
      <4> QED
        BY <2>0, <2>5, <4>2, <4>3 DEF PnpInv, InSession
    <3>2. ASSUME NEW n \in Reaches[c], ReceivePart(c, n)
          PROVE  /\ got' \in [Cameras -> [len : {"idle", "none", "four", "part"},
                                          part : Parts \cup {NoPart}]]
                 /\ InSession'
      <4>1. /\ n \in Stream /\ 0 \in {Another} \cup 1 .. MaxLogins
            /\ session[c] \in {Another} \cup 1 .. MaxLogins
        BY PnpAssumption DEF PnpAssumption, Stream, Finish, Another, PnpInv, Typed, PnpTypeOK
      <4> DEFINE p == [login |-> session[c], n |-> n]  q == [p EXCEPT !.login = Another]
      <4>2. p \in Parts /\ q \in Parts
        BY <4>1 DEF Parts, Another
      <4> HIDE DEF p, q
      <4>3. got' = [d \in Cameras |-> IF d = c THEN Got("part", p)
                                      ELSE IF got[d].len = "part" THEN Got("part", q) ELSE got[d]]
        BY <3>2 DEF ReceivePart, p, q
      <4>4. got' \in [Cameras -> [len : {"idle", "none", "four", "part"}, part : Parts \cup {NoPart}]]
        BY <4>2, <4>3 DEF Got, PnpInv, Typed, PnpTypeOK
      <4>5. InSession'
        <5>1. \A d \in Cameras : /\ got'[d].len = "part" =>
                                     /\ got'[d].part \in Parts
                                     /\ d = c \/ got[d].len = "part"
                                 /\ d # c /\ got'[d].len # "idle" => got[d].len # "idle"
          BY <4>2, <4>3 DEF Got, PnpInv, InSession
        <5>2. status[c] = 2
          BY <3>2 DEF ReceivePart
        <5> QED
          BY <2>0, <2>5, <5>1, <5>2 DEF PnpInv, InSession
      <4> QED
        BY <4>4, <4>5
    <3> QED
      BY <1>5, <3>1, <3>2 DEF Recvfrom
  <2>1. Typed'
    <3>1. Come(since[c], latest[c]) \in SUBSET (Stream \cup {Stray})
      BY DEF Come, PnpInv, Typed, PnpTypeOK
    <3>2. Passed(c) \in SUBSET (Stream \cup {Stray})
      BY <2>6, <3>1
    <3>3. /\ since' \in [Cameras -> SUBSET (Stream \cup {Stray})]
          /\ latest' \in [Cameras -> Stream \cup {Stray, 0}] /\ shown' \in [Cameras -> Seq(Parts)]
      BY <2>0, <3>2 DEF PnpInv, Typed, PnpTypeOK
    <3> QED
      BY <2>0, <2>4, <3>3 DEF PnpInv, Typed, PnpTypeOK
  <2>2. InSession'
    BY <2>4
  <2>3. FramesOK' /\ SinceOK'
    <3>1. Holds(vframe[c], Come(since[c], latest[c]))
      BY DEF PnpInv, SinceOK
    <3>2. Holds(vframe'[c], Come(since'[c], latest'[c]))
      BY <2>0, <2>6, <2>7, <3>1, Beginnings DEF Holds
    <3> QED
      BY <2>0, <2>5, <3>2 DEF PnpInv, FramesOK, SinceOK
  <2>8. Whole' /\ Complete'
    <3>1. \A d \in Cameras : ShownOK(shown[d]) /\ DueOK(since[d], latest[d], shown[d])
      BY Views DEF PnpInv
    <3>2. ShownOK(<< >>) /\ \A s : DueOK(s, 0, << >>)
      BY Numbering, StreamNat DEF ShownOK, LooksWhole, DueOK
    <3> QED
      BY <2>5, <3>1, <3>2, Views
  <2> QED
    BY <2>1, <2>2, <2>3, <2>8 DEF PnpInv
<1>6. CASE GoQuiet \/ UNCHANGED pnpVars
  <2>1. /\ UNCHANGED <<status, session, logins, echo, got, vframe, shown, since, latest>>
        /\ quiet' = TRUE \/ quiet' = quiet
    BY <1>6 DEF GoQuiet, pnpVars, frameVars
  <2>2. Typed'
    BY <2>1 DEF PnpInv, Typed, PnpTypeOK
  <2>3. InSession' /\ FramesOK' /\ SinceOK' /\ Whole' /\ Complete'
    BY <2>1, SameViews DEF PnpInv, InSession, FramesOK, SinceOK
  <2> QED
    BY <2>2, <2>3 DEF PnpInv
<1>7. ASSUME NEW c \in Cameras, Work(c) PROVE PnpInv'
  <2>1. got' = [got EXCEPT ![c] = Idle] /\ UNCHANGED <<session, logins, quiet>>
    BY <1>7 DEF Work
  <2>2. CASE Empty(c, Timeouts, 0)
    <3>1. Timeouts \in {Timeouts, Beats} /\ 0 \in 0 .. 2 /\ 0 # 2
      OBVIOUS
    <3> QED
      BY <1>2, <2>1, <2>2, <3>1
  <2>3. CASE Empty(c, Beats, 1)
    <3>1. Beats \in {Timeouts, Beats} /\ 1 \in 0 .. 2 /\ 1 # 2
      OBVIOUS
    <3> QED
      BY <1>2, <2>1, <2>3, <3>1
  <2>4. CASE got[c].len = "part" /\ Frame(c)
    BY <1>1, <2>1, <2>4
  <2> QED
    BY <1>7, <2>2, <2>3, <2>4 DEF Work
<1> QED
  BY <1>3, <1>4, <1>5, <1>6, <1>7 DEF PnpNext

\* Always: what vframe holds is filed under its index, with one first part, and
\* it is what has come since the last first part while that begins one image.
THEOREM PnpInvAlways == PnpSpec => []PnpInv
  BY PnpInitInv, PnpNextInv, PTL DEF PnpSpec

\* Types of all variables of Pnp.
THEOREM PnpTypeCorrect == PnpSpec => []PnpTypeOK
<1>1. PnpInv => PnpTypeOK
  BY DEF PnpInv, Typed
<1> QED
  BY PnpInvAlways, <1>1, PTL

\* What work shows is one image with all its parts in order, unless it has parts
\* of another thread, of two sessions or laps, or begins with no first part.
THEOREM ShownIsWhole == PnpSpec => []Whole
<1>1. PnpInv => Whole
  BY DEF PnpInv
<1> QED
  BY PnpInvAlways, <1>1, PTL

\* An image within a lap is shown when its last part comes and, since its first one,
\* all the parts between have come and nothing else.
THEOREM ImageIsShown == PnpSpec => []Complete
<1>1. PnpInv => Complete
  BY DEF PnpInv
<1> QED
  BY PnpInvAlways, <1>1, PTL

=============================================================================
