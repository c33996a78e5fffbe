-------------------------------- MODULE Webcam --------------------------------
(***************************************************************************)
(* The webcam module (modules/webcam: cammgr.cpp, interface.cpp and the    *)
(* five classes of cameras): a map from marks to cameras, a thread for     *)
(* every play of a camera, and the thread that shows the cameras of        *)
(* theWatchList to a script.  Each play makes two auto-reset events:       *)
(*   m_frmevt   set at first and used as the mutex of the camera's frame;  *)
(*   m_playevt  tells the thread to end, and stop that it has ended.       *)
(* The classes differ in their loop and in stop:                           *)
(*   "capture"  camera.cpp, onvifpr.cpp: m_bExit is tested besides;        *)
(*   "snaps"    snaps.cpp: a recv with no end of waiting before each frame;*)
(*   "pnp"      pnppr.cpp: the same with a limit; stop leaves m_frmevt be; *)
(*   "screen"   screen.cpp: m_frmevt is reset without being waited for.    *)
(*                                                                         *)
(* The script calls with the mutex of its Lua state.  The events are those *)
(* of module Event, taken at the instant they promise.  "broken" becomes   *)
(* the reason once the program has reached undefined behaviour.            *)
(***************************************************************************)
EXTENDS Integers, FiniteSetsExt

CONSTANTS
  Marks,    \* names of cameras, numbered in the order of the maps
  Classes,  \* the classes in use
  MaxCams,  \* bound on the camera objects
  MaxPlays, \* bound on the calls of play
  MaxTms    \* bound on the second argument of monitor

ASSUME ConstAssumption ==
  /\ Marks \subseteq Nat \ {0}
  /\ Classes \subseteq {"capture", "snaps", "pnp", "screen"}
  /\ MaxCams \in Nat /\ MaxPlays \in Nat /\ MaxTms \in Nat

VARIABLES
  theCameras, \* whether the manager exists
  cams,       \* cams[m]: the camera under mark m, or 0
  camera,     \* camera[o]: the fields of camera o
  plays,      \* calls of play so far
  playevt,    \* playevt[i]: the flag of the m_playevt that play i made
  frmevt,     \* frmevt[i]: the flag of its m_frmevt
  list,       \* theWatchList[m], or Absent
  exitevt,    \* theExitEvt: "NULL", "set" or "reset"
  lock,       \* the thread inside the Lua state, or Nobody
  pc,         \* where each thread is
  at,         \* the camera each thread works on
  event,      \* the play whose event each thread waits for, or 0
  mark,       \* the mark the script or the watching thread works on
  told,       \* the plays whose thread took the signal of m_playevt
  late,       \* cameras whose stop gave up waiting for m_playevt
  broken      \* "no", or why the program is past defined behaviour

vars == <<theCameras, cams, camera, plays, playevt, frmevt, list, exitevt, lock, pc, at, event,
          mark, told, late, broken>>
camVars   == <<theCameras, cams, camera, plays>>
eventVars == <<playevt, frmevt>>
watchVars == <<list, exitevt>>
ghosts    == <<told, late>>

Cams    == 1 .. MaxCams
Plays   == 1 .. MaxPlays
TheScript == 0    \* the thread of the script, and that of the function watching
Watching  == -1
Nobody    == -2
Readers   == {TheScript, Watching}
Threads   == Readers \cup Plays
Absent  == -1
NoMark  == 0

\* camera[o].play is the last play of o: its events are the ones in the fields.
Unmade == [life |-> "none", class |-> "none", exit |-> FALSE, open |-> FALSE, play |-> 0,
           plays |-> 0, stopped |-> FALSE]

At(t, label)    == pc[t] = label
Goto(t, label)  == pc' = [pc EXCEPT ![t] = label]
Waits(t, o)     == event' = [event EXCEPT ![t] = camera[o].play]
Waited(t)       == event' = [event EXCEPT ![t] = 0]
Class(t)        == camera[at[t]].class
Inside(o)       == {t \in Threads : pc[t] = "frame" /\ at[t] = o}
Frees(o)        == camera[o].life = "freed"

\* Thread t reads a field of its camera.
Touch(t) == broken' = IF Frees(at[t]) THEN "freed" ELSE broken

-----------------------------------------------------------------------------
(* playthread of the five classes                                          *)

\* The head of the loop: m_bExit, then event_timedwait(m_playevt).
Test(i) ==
  /\ At(i, "test")
  /\ Touch(i)
  /\ IF Class(i) = "capture" /\ camera[at[i]].exit
     THEN Goto(i, "end") /\ UNCHANGED event
     ELSE Goto(i, "nap") /\ Waits(i, at[i])
  /\ UNCHANGED <<camVars, eventVars, watchVars, lock, at, mark, ghosts>>

\* The wait takes the signal and leaves the loop.
Signalled(i) ==
  /\ At(i, "nap") /\ playevt[event[i]]
  /\ playevt' = [playevt EXCEPT ![event[i]] = FALSE]
  /\ told' = told \cup {i}
  /\ Goto(i, "end") /\ Waited(i)
  /\ UNCHANGED <<camVars, frmevt, watchVars, lock, at, mark, late, broken>>

TimedOut(i) ==
  /\ At(i, "nap")
  /\ Goto(i, IF Class(i) \in {"snaps", "pnp"} THEN "recv" ELSE "ask") /\ Waited(i)
  /\ UNCHANGED <<camVars, eventVars, watchVars, lock, at, mark, ghosts, broken>>

\* connect, recv, recvfrom: a frame has come (to "ask") or not yet.
Receive(i) ==
  /\ At(i, "recv")
  /\ Touch(i)
  /\ \E next \in {"ask", "test"} : Goto(i, next)
  /\ UNCHANGED <<camVars, eventVars, watchVars, lock, at, event, mark, ghosts>>

\* event_wait(m_frmevt), or event_reset alone on the screen.
Ask(i) ==
  /\ At(i, "ask")
  /\ Touch(i)
  /\ IF Class(i) = "screen"
     THEN /\ frmevt' = [frmevt EXCEPT ![camera[at[i]].play] = FALSE]
          /\ Goto(i, "frame") /\ UNCHANGED event
     ELSE Goto(i, "want") /\ Waits(i, at[i]) /\ UNCHANGED frmevt
  /\ UNCHANGED <<camVars, playevt, watchVars, lock, at, mark, ghosts>>

\* event_set(m_playevt) after the loop.
End(i) ==
  /\ At(i, "end")
  /\ Touch(i)
  /\ playevt' = [playevt EXCEPT ![camera[at[i]].play] = TRUE]
  /\ Goto(i, "done")
  /\ UNCHANGED <<camVars, frmevt, watchVars, lock, at, event, mark, ghosts>>

-----------------------------------------------------------------------------
(* The frame, for the threads that fill it and the readers (getframe)      *)

\* Mutant of Taken: a manual-reset event.
NotTaken(t) == frmevt

Taken(t) == [frmevt EXCEPT ![event[t]] = FALSE]

\* event_wait returns, and event_reset finds the flag down; the frame is used.
Passes(t) ==
  /\ At(t, "want") /\ frmevt[event[t]]
  /\ frmevt' = Taken(t)
  /\ Touch(t)
  /\ Goto(t, "frame") /\ Waited(t)
  /\ UNCHANGED <<camVars, playevt, watchVars, lock, at, mark, ghosts>>

AfterFrame(t) == CASE t = TheScript -> "in" [] t = Watching -> "shown" [] OTHER -> "test"

\* Mutant of Returned: getframe returns without event_set.
NotReturned(t) == IF t \in Plays THEN [frmevt EXCEPT ![camera[at[t]].play] = TRUE] ELSE frmevt

Returned(t) == [frmevt EXCEPT ![camera[at[t]].play] = TRUE]

\* event_set(m_frmevt), of the field as it is now.
LeaveFrame(t) ==
  /\ At(t, "frame")
  /\ Touch(t)
  /\ frmevt' = Returned(t)
  /\ Goto(t, AfterFrame(t))
  /\ UNCHANGED <<camVars, playevt, watchVars, lock, at, event, mark, ghosts>>

\* cv::imencode of a picture that has not been read yet, or could not be.
Throws(r) ==
  /\ At(r, "frame") /\ Class(r) = "capture"
  /\ broken' = "thrown"
  /\ UNCHANGED <<camVars, eventVars, watchVars, lock, pc, at, event, mark, ghosts>>

\* getfrm finds a camera; a closed capture has no frame, and what a freed camera
\* has is undefined.
HasFrame(m) ==
  LET o == cams[m] IN o # 0 /\ (camera[o].class = "capture" => camera[o].open \/ Frees(o))

WaitFor(t, m) ==
  /\ at' = [at EXCEPT ![t] = cams[m]]
  /\ Waits(t, cams[m])
  /\ Goto(t, "want")

-----------------------------------------------------------------------------
(* Calls of the script                                                     *)

Enter ==
  /\ At(TheScript, "out") /\ lock = Nobody
  /\ lock' = TheScript
  /\ Goto(TheScript, "in")
  /\ UNCHANGED <<camVars, eventVars, watchVars, at, event, mark, ghosts, broken>>

Exit ==
  /\ At(TheScript, "in")
  /\ lock' = Nobody
  /\ Goto(TheScript, "out")
  /\ UNCHANGED <<camVars, eventVars, watchVars, at, event, mark, ghosts, broken>>

\* A new object takes the first free number.
FreeCams == {o \in Cams : camera[o] = Unmade}
NewCam(m) == IF cams[m] = 0 THEN Min(FreeCams) ELSE cams[m]

\* addcam: add.  The map keeps a camera it has under the mark, the new object is
\* lost, and play is called on the old one.
AddCam(m, class) ==
  /\ At(TheScript, "in") /\ theCameras /\ plays < MaxPlays
  /\ cams[m] = 0 => FreeCams # {}
  /\ LET o == NewCam(m)
     IN  /\ cams' = [cams EXCEPT ![m] = o]
         /\ camera' = IF cams[m] = 0
                      THEN [camera EXCEPT ![o].life = "live", ![o].class = class]
                      ELSE camera
         /\ at' = [at EXCEPT ![TheScript] = o]
  /\ Goto(TheScript, "add")
  /\ UNCHANGED <<theCameras, plays, eventVars, watchVars, lock, event, mark, ghosts, broken>>

\* play: new events take the place of the old ones, if any.
Play ==
  /\ At(TheScript, "add")
  /\ LET o == at[TheScript]  i == plays + 1
     IN  /\ camera' = [camera EXCEPT ![o].exit = FALSE, ![o].play = i, ![o].plays = @ + 1]
         /\ plays' = i
         /\ playevt' = [playevt EXCEPT ![i] = FALSE]
         /\ frmevt' = [frmevt EXCEPT ![i] = TRUE]
         /\ at' = [at EXCEPT ![i] = o]
  /\ Goto(TheScript, "open")
  /\ UNCHANGED <<theCameras, cams, watchVars, lock, event, mark, ghosts, broken>>

\* Then the device of a capture is opened, once more if it was, whoever reads it.
\* One that does not open has no thread.
Open(opens) ==
  /\ At(TheScript, "open")
  /\ LET o       == at[TheScript]
         capture == camera[o].class = "capture"
     IN  /\ camera' = [camera EXCEPT ![o].open = capture /\ opens]
         /\ pc' = [pc EXCEPT ![TheScript] = "in",
                             ![camera[o].play] = IF capture => opens THEN "test" ELSE "done"]
         /\ broken' = IF capture /\ Inside(o) # {} THEN "reopened" ELSE broken
  /\ UNCHANGED <<theCameras, cams, plays, eventVars, watchVars, lock, at, event, mark, ghosts>>

\* snapshot, takephoto.
Snapshot(m) ==
  /\ At(TheScript, "in") /\ theCameras /\ HasFrame(m)
  /\ WaitFor(TheScript, m)
  /\ UNCHANGED <<camVars, eventVars, watchVars, lock, mark, ghosts, broken>>

\* delcam: del, stop up to its first wait.
DelCam(m) ==
  /\ At(TheScript, "in") /\ theCameras /\ cams[m] # 0
  /\ LET o == cams[m]  i == camera[o].play
     IN  /\ camera' = [camera EXCEPT ![o].exit = TRUE, ![o].stopped = TRUE]
         /\ playevt' = [playevt EXCEPT ![i] = TRUE]
         /\ frmevt' = [frmevt EXCEPT ![i] = @ \/ camera[o].class # "pnp"]
         /\ at' = [at EXCEPT ![TheScript] = o]
         /\ Waits(TheScript, o)
  /\ mark' = [mark EXCEPT ![TheScript] = m]
  /\ Goto(TheScript, "stop")
  /\ UNCHANGED <<theCameras, cams, plays, watchVars, lock, ghosts, broken>>

\* Mutant of HasEnded: stop does not wait.
NotAwaited == TRUE

HasEnded == playevt[event[TheScript]]

\* event_timedwait(m_playevt): it may well take the signal stop has just set.
StopWaits ==
  /\ At(TheScript, "stop")
  /\ \/ /\ HasEnded
        /\ playevt' = [playevt EXCEPT ![event[TheScript]] = FALSE]
        /\ UNCHANGED late
     \/ late' = late \cup {at[TheScript]} /\ UNCHANGED playevt
  /\ Goto(TheScript, IF Class(TheScript) = "capture" THEN "release" ELSE "delete")
  /\ UNCHANGED <<camVars, frmevt, watchVars, lock, at, event, mark, told, broken>>

\* event_timedwait(m_frmevt), with or without success; release of the device.
Release ==
  /\ At(TheScript, "release")
  /\ \/ frmevt[event[TheScript]] /\ frmevt' = [frmevt EXCEPT ![event[TheScript]] = FALSE]
     \/ UNCHANGED frmevt
  /\ camera' = [camera EXCEPT ![at[TheScript]].open = FALSE]
  /\ broken' = IF Inside(at[TheScript]) # {} THEN "released" ELSE broken
  /\ Goto(TheScript, "delete")
  /\ UNCHANGED <<theCameras, cams, plays, playevt, watchVars, lock, at, event, mark, ghosts>>

\* The object goes before its entry of the map.
Delete ==
  /\ At(TheScript, "delete")
  /\ camera' = [camera EXCEPT ![at[TheScript]].life = "freed"]
  /\ Goto(TheScript, "erase") /\ Waited(TheScript)
  /\ UNCHANGED <<theCameras, cams, plays, eventVars, watchVars, lock, at, mark, ghosts, broken>>

Erase ==
  /\ At(TheScript, "erase")
  /\ cams' = [cams EXCEPT ![mark[TheScript]] = 0]
  /\ mark' = [mark EXCEPT ![TheScript] = NoMark]
  /\ Goto(TheScript, "in")
  /\ UNCHANGED <<theCameras, camera, plays, eventVars, watchVars, lock, at, event, ghosts, broken>>

\* display: its static waittime keeps the first value, so it only ever starts.
Display ==
  /\ At(TheScript, "in") /\ At(Watching, "none")
  /\ exitevt' = "reset"
  /\ Goto(Watching, "sleep")
  /\ UNCHANGED <<camVars, eventVars, list, lock, at, event, mark, ghosts, broken>>

Walks == pc[Watching] \notin {"none", "sleep", "gone"}

\* monitor, by the script or in the callback of the watching thread.  The walk
\* over theWatchList stands on an entry, and moves between entries at "look".
Monitor(t, m, tms) ==
  /\ IF t = TheScript THEN At(t, "in") ELSE At(t, "call")
  /\ list' = [list EXCEPT ![m] = IF tms = 0 THEN Absent ELSE tms]
  /\ broken' = IF \/ tms = 0 /\ Walks /\ mark[Watching] = m
                  \/ At(Watching, "look") /\ (tms = 0) # (list[m] = Absent)
               THEN "list" ELSE broken
  /\ UNCHANGED <<camVars, eventVars, exitevt, lock, pc, at, event, mark, ghosts>>

\* destory: the cameras and their threads stay, the watching thread is not awaited.
Destory ==
  /\ At(TheScript, "in") /\ theCameras
  /\ theCameras' = FALSE
  /\ IF exitevt = "NULL" THEN broken' = "null" /\ UNCHANGED exitevt
                         ELSE exitevt' = "set" /\ UNCHANGED broken
  /\ UNCHANGED <<cams, camera, plays, eventVars, list, lock, pc, at, event, mark, ghosts>>

\* Any other call that uses the manager after that.
UseNull ==
  /\ At(TheScript, "in") /\ ~theCameras
  /\ broken' = "null"
  /\ UNCHANGED <<camVars, eventVars, watchVars, lock, pc, at, event, mark, ghosts>>

-----------------------------------------------------------------------------
(* watching                                                                *)

\* The entries behind the one the walk stands on.
Ahead == {m \in Marks : list[m] # Absent /\ m > mark[Watching]}

\* event_timedwait(theExitEvt) times out, or takes the signal, which the thread
\* gives again as it ends.
Wake ==
  /\ At(Watching, "sleep")
  /\ \/ Goto(Watching, "look")
     \/ exitevt = "set" /\ Goto(Watching, "gone")
  /\ UNCHANGED <<camVars, eventVars, watchVars, lock, at, event, mark, ghosts, broken>>

\* The next entry: it is counted down, and its camera asked for a frame unless
\* that makes it 0.  Between add and play a camera has no m_frmevt.
Look ==
  /\ At(Watching, "look") /\ Ahead # {}
  /\ LET m == Min(Ahead)
     IN  /\ mark' = [mark EXCEPT ![Watching] = m]
         /\ list' = [list EXCEPT ![m] = IF @ = 0 THEN 0 ELSE @ - 1]
         /\ \/ /\ list[m] \in {0, 1} \/ (theCameras /\ ~HasFrame(m))
               /\ UNCHANGED <<pc, at, event, broken>>
            \/ /\ list[m] > 1 /\ (theCameras => HasFrame(m) /\ camera[cams[m]].play = 0)
               /\ broken' = "null" /\ UNCHANGED <<pc, at, event>>
            \/ /\ list[m] > 1 /\ theCameras /\ HasFrame(m) /\ camera[cams[m]].play # 0
               /\ WaitFor(Watching, m)
               /\ broken' = IF Frees(cams[m]) THEN "freed" ELSE broken
  /\ UNCHANGED <<camVars, eventVars, exitevt, lock, ghosts>>

Walked ==
  /\ At(Watching, "look") /\ Ahead = {}
  /\ mark' = [mark EXCEPT ![Watching] = NoMark]
  /\ Goto(Watching, "sleep")
  /\ UNCHANGED <<camVars, eventVars, watchVars, lock, at, event, ghosts, broken>>

\* A short frame is not shown; a whole one is, with the mutex of the state.
Show ==
  /\ At(Watching, "shown") /\ lock = Nobody
  /\ lock' = Watching
  /\ Goto(Watching, "call")
  /\ UNCHANGED <<camVars, eventVars, watchVars, at, event, mark, ghosts, broken>>

Short ==
  /\ At(Watching, "shown")
  /\ Goto(Watching, "look")
  /\ UNCHANGED <<camVars, eventVars, watchVars, lock, at, event, mark, ghosts, broken>>

Shown ==
  /\ At(Watching, "call")
  /\ lock' = Nobody
  /\ Goto(Watching, "look")
  /\ UNCHANGED <<camVars, eventVars, watchVars, at, event, mark, ghosts, broken>>

-----------------------------------------------------------------------------

Init ==
  /\ theCameras = TRUE
  /\ cams = [m \in Marks |-> 0]
  /\ camera = [o \in Cams |-> Unmade]
  /\ plays = 0
  /\ playevt = [i \in Plays |-> FALSE] /\ frmevt = [i \in Plays |-> FALSE]
  /\ list = [m \in Marks |-> Absent] /\ exitevt = "NULL"
  /\ lock = Nobody
  /\ pc = [t \in Threads |-> IF t = TheScript THEN "out" ELSE "none"]
  /\ at = [t \in Threads |-> 0] /\ event = [t \in Threads |-> 0]
  /\ mark = [r \in Readers |-> NoMark]
  /\ told = {} /\ late = {} /\ broken = "no"

Runnable(A) == broken = "no" /\ A

Loop(i) == Test(i) \/ Signalled(i) \/ TimedOut(i) \/ Ask(i) \/ End(i)

Script ==
  \/ \E m \in Marks : \/ \E class \in Classes : AddCam(m, class)
                      \/ Snapshot(m) \/ DelCam(m)
                      \/ \E tms \in 0 .. MaxTms : Monitor(TheScript, m, tms)
  \/ Play \/ \E opens \in BOOLEAN : Open(opens)
  \/ Display \/ Destory \/ UseNull

Stop == StopWaits \/ Release \/ Delete \/ Erase

Watch == Wake \/ Look \/ Walked \/ Short \/ Shown

Next ==
  \/ Runnable(Enter) \/ Runnable(Exit) \/ Runnable(Script) \/ Runnable(Stop)
  \/ Runnable(Watch) \/ Runnable(Show)
  \/ \E m \in Marks, tms \in 0 .. MaxTms : Runnable(Monitor(Watching, m, tms))
  \/ \E i \in Plays : Runnable(Loop(i)) \/ Runnable(Receive(i))
  \/ \E t \in Threads : Runnable(Passes(t)) \/ Runnable(LeaveFrame(t))
  \/ \E r \in Readers : Runnable(Throws(r))

Spec == Init /\ [][Next]_vars

\* A thread inside a frame gets out of it, and a reader that the event lets pass
\* again and again passes: each thread that fills frames sleeps in event_timedwait
\* between two of them.
Fairness ==
  /\ \A t \in Threads : WF_vars(Runnable(LeaveFrame(t)))
  /\ \A r \in Readers : SF_vars(Runnable(Passes(r)))

FairSpec == Spec /\ Fairness

-----------------------------------------------------------------------------
(* Properties                                                              *)

TypeOK ==
  /\ theCameras \in BOOLEAN
  /\ cams \in [Marks -> {0} \cup Cams]
  /\ \A o \in Cams : /\ camera[o].life \in {"none", "live", "freed"}
                     /\ camera[o].class \in Classes \cup {"none"}
                     /\ camera[o].play \in 0 .. plays
  /\ plays \in 0 .. MaxPlays
  /\ playevt \in [Plays -> BOOLEAN] /\ frmevt \in [Plays -> BOOLEAN]
  /\ list \in [Marks -> Absent .. MaxTms] /\ exitevt \in {"NULL", "set", "reset"}
  /\ lock \in Readers \cup {Nobody}
  /\ at \in [Threads -> {0} \cup Cams] /\ event \in [Threads -> {0} \cup Plays]
  /\ mark \in [Readers -> {NoMark} \cup Marks]
  /\ told \subseteq Plays /\ late \subseteq Cams
  /\ broken \in {"no", "freed", "released", "reopened", "list", "null", "thrown"}

\* The event m_frmevt is a mutex: of the threads that fill and read the frame of
\* a camera at most one is inside, until the camera is stopped (stop sets the
\* event without having it), opened a second time (play makes a new event, and
\* the threads give back the new one for the old) or is a screen, whose thread
\* resets the event and does not wait for it.
OneInFrame ==
  \A o \in Cams :
    Cardinality(Inside(o)) > 1 =>
      camera[o].stopped \/ camera[o].plays > 1 \/ camera[o].class = "screen"

\* stop may release and delcam delete a camera that is in use only when it
\* waited in vain, when the signal it waited for was the one it had sent itself
\* (the thread never took it), when the camera was opened twice and has two
\* threads for one event, or when the watching thread is at this camera.
StopIsSafe ==
  broken \in {"freed", "released"} =>
    \E o \in Cams :
      /\ camera[o].stopped
      /\ \/ o \in late \/ camera[o].play \notin told
         \/ camera[o].plays > 1 \/ at[Watching] = o

\* A reader that waits for the frame of a camera in use gets it: whoever has the
\* frame gives it back, on every path.
ReaderServed ==
  \A r \in Readers :
    At(r, "want") ~> \/ ~At(r, "want") \/ broken # "no"
                     \/ camera[at[r]].stopped \/ camera[at[r]].plays > 1

=============================================================================
