# Quantum_Project in TLA+

Quantum_Project is a host program, *quark* (`platform/quark`), that runs a Lua
script, serves HTTP, and loads Lua modules written in C++ (`modules/*`): devices
and channels (sermon), web sockets (websock), sockets and serial lines (unicom),
cameras (webcam), ssh, and many bindings to libraries. This directory holds TLA+
modules that model the parts of it in which threads meet, TLC configurations
that check them on small instances, and TLAPS proofs for all instances. What is
said here of the code refers to the Linux build (`__GNUC__` branches).

To check: `tlc -workers 2 -config <cfg> <module>` for each run of
`PROJECT.json`, `tlapm <module>` for each module whose name ends in `Proofs`.

## 1. The system

### Threads and how they meet

`main` (quark/main.cpp:69) starts three message loops (taskmgr: LUA, WEB, NET),
calls `machine.poweron`, reads the console until `exit`, calls
`machine.poweroff` and stops the loops. A loop runs closures one at a time, first
in first out, delayed ones when their time has come.

| thread | what it runs | what it shares |
|---|---|---|
| main | `poweron`: comm server, web server, then `cbusiness::start`; `poweroff` | theState, luastates, fdarray, m_bExit |
| web work thread | `tcps::workthread`: select, accept, recv, dispath | fdarray, mytranfile and the other globals of the upload |
| WEB | `request`, `replay`, and through `onwebtask` also `cbusiness::execute` | sockets by number, the upload, Lua states |
| LUA | `dotimer`, which posts itself again | theState |
| NET | `cbusiness::transmit`, UDP | the comm server |
| threads of modules | `responsetolua`: callbacks into the script | the state that loaded the module |
| websock work thread | `websock::workthread`: select, accept, recv, dispath, callbacks | myclient and fdarray, with the script's sends and stop |
| ssh: `g_thread`, a message loop | `do_execute`: the commands of all scripts in turn, callbacks | peerlists and its sessions, the registry of the first state |
| webcam: one per play of a camera | `workthread` of its class: fills the frame, until it is told to end | m_frmevt, m_playevt, the frame; of network cameras also static variables |
| webcam: `watching` | shows the cameras of theWatchList to the script | theWatchList, the cameras, theExitEvt |
| sermon: one per channel, one for the machine, one per replay | `workthread` of xbase, `historythread` of datamgr | task lists, the map of channels, history globals |

The server is started *before* the startup script is loaded, so requests may
meet a script that is half loaded. Sockets and requests travel from the work
thread to WEB as bare descriptor numbers. A Lua state has one stack: only
`luaL_lock`, a mutex added to liblua, keeps threads apart in it, and some paths do
not take it.

### Components

| component | source | state | operations | what makes it right |
|---|---|---|---|---|
| web server | quark/websvr.cpp | fdarray, maxfd, WEB queue, the one upload | accept, recv, dispath, request, replay, upload, stop | a socket has one owner, answers reach who asked, everybody is served |
| Lua host | quark/business.cpp | theState, luastates, timers | start, stop, install, settimer, execute, dotimer | states are entered by one thread, one state per script, timers last |
| machine, loops, main | quark/machine.cpp, taskmgr.cpp, main.cpp | the loops | poweron, poweroff, run, stop | start order, end order, nobody joined waits forever |
| comm server | quark/commsvr.cpp | sequence number | write in fragments; receiver never started | every message is reassembled from its fragments |
| event | modules/*/event.cpp (five equal copies) | flag, mutex, condition | create, wait, timedwait, set, reset, destroy | no lost wake-up, one wait per set, exact timeouts |
| sermon: xbase | sermon/kernel/xbase.cpp | two task lists, two events, exitthread | start, addtask, workthread, stop | tasks once and in order, stop comes back |
| sermon: machine | sermon/machine.cpp, interface.cpp | mymodules | open, write, history, close; replies to Lua | requests reach their channel, replies their trigger |
| sermon: channels | sermon/module/*.cpp, disksvr.cpp | a device each | dotask, dowork | device protocols |
| sermon: history | sermon/kernel/datamgr.cpp, db/*.cpp | replay thread and its globals, day files | saveframe, requestHistoryData, stopGetHistoryData | one replay at a time, each ends, frames of the right channel |
| websock | websock/websock.cpp | fdarray, the one client, maxfd | start, work thread, handshake, decode, send, stop | numbers stand for its own connections, frames go to the client, whole, and back |
| unicom | unicom/*.cpp | a channel per handle | open, read, write, close, all blocking, in the caller's thread | |
| webcam: cameras | webcam/cammgr.cpp, interface.cpp, camera.cpp, onvifpr.cpp, snaps.cpp, pnppr.cpp, screen.cpp | map of cameras, two events per play, theWatchList | add, play, snapshot, monitor, display, del, destory | one thread in a frame, no camera deleted under its thread, readers are served |
| webcam: protocol | webcam/pnppr.cpp | vframe, static buffer and counter | query, login, receive parts, put an image together | an image is shown whole, and when it is complete; silence is noticed |
| ssh | ssh/ssh.cpp, interface.cpp | peerlists, static counters, g_thread, callbacks in the registry | connect, connect_privatekey, disconnect, request, destory | the right session, one answer per request, no use of a freed session |
| vpn, system, bindings | modules/* | handles of libraries | call through | one handle, one call |
| front ends, Lua libraries, projects | platform/webui, lualibs, projectX, utils | | | |
| vendored libraries | libbase, liblua, lib3th, thirdlibs, darknet, libcap | | | taken as their callers use them |

### What is hard here

* Two threads close sockets by number, and the kernel hands out the lowest free
  number at once: a stale number hits another client.
* The upload is a global that both threads test, with no lock between them.
* Which paths take `luaL_lock` and which do not; a failed chunk frees a state that a
  module still calls back into; the close callback runs unlocked.
* An auto-reset event serves as the mutex of sermon's task lists, another one
  wakes the worker, and `stop` sets both by force and destroys them.
* A worker that stops (and joins) itself; loops that are joined while they wait for
  the mutex of a state.
* A delayed task that keeps itself alive only by posting itself on every path.
* The web socket server has many connections and one client, whose number the work
  thread and the script both write; a frame is two calls of `send`.
* ssh counts the handles of its two connects apart, in static variables that are read
  again after the insertion; one thread runs the commands of all scripts and looks up
  every callback in the registry of the first of them; peerlists has no lock; `destory`
  joins that thread while it holds the mutex that thread may need.
* A camera's event is the mutex of its frame and is made anew at each play; `stop` sets
  the event it then waits for itself, and the camera is deleted after a wait that may
  have been in vain.
* The parts of an image come by UDP, with numbers of two bytes, into a buffer that all
  cameras share.
* Wake-ups, timeouts and spurious returns of a condition variable.

`PROJECT.json` lists each at its line ("hazards"), with the properties that cover it. Met
while reading, and the subject of no property: `recv` of a snapshot camera has no time limit
(snaps.cpp:75), so that its thread may never see that it is to end; `destory` of webcam sets
theExitEvt without asking whether `display` has made it (interface.cpp:144), and `monitor`
changes theWatchList while `watching` walks it (both break `Webcam`, as "null" and "list"). In
no model: `stop` of a network camera that has been given up closes descriptor 0, the console's
(`mysock = 0` at pnppr.cpp:215, `close(mysock)` at 78); the map of cameras itself has no lock,
though `watching` looks cameras up in it while the script inserts and erases (only which
camera it finds is modelled, not a look into a tree that is being changed); `move` pushes into
a list that the camera's thread reads (pnppr.cpp:310); `transmit` of the comm server keeps the
number of its fragments in one byte (commsvr.cpp:48); `cbusiness::execute` leaves its results
on the stack of a state that lives on (business.cpp:120, 132, 149).

## 2. The modules

| module | models | composed of |
|---|---|---|
| `WebServer` | websvr.cpp: `tcps` and `cwebsvr` | |
| `Business` | business.cpp, with `poweron`/`poweroff` and the LUA loop, `luaL_lock`, and the callbacks of sermon and websock | |
| `Event` | the promise of event.h | |
| `EventPosix` | event.cpp on pthreads | implements `Event` |
| `Mailbox` | the promise of a task list | |
| `Xbase` | xbase.cpp, with `machine::stop` and `cssp::close` as callers of `stop` | implements `Mailbox`; its events are atomic, as `Event` says |
| `History` | the replay threads of kernel/datamgr.cpp, the requests that start and stop them, `machine::stop` beside them | the machine's list is a sequence, as `Mailbox` says |
| `WsFrames` | the frame headers and the decoder of websock.cpp, beside a reading by RFC 6455 | |
| `WebSock` | websock.cpp: work thread, script, the descriptors of the process | a message is one token, `WsFrames` says what becomes of it |
| `Ssh` | ssh/ssh.cpp and interface.cpp: scripts, g_thread, the registry of Lua | enters states as `Business` does |
| `Webcam` | webcam: the manager, the five classes of cameras, `watching` | its events are atomic, as `Event` says |
| `Pnp` | webcam/pnppr.cpp: search, login, the parts of images | its thread's waiting is in `Webcam` |
| `MC*` | sets of messages and lengths, symmetry | |
| `*Proofs` | theorems and proofs; those of `WsFrames` are in `WebSockProofs`, those of `Pnp` in `WebcamProofs` | |

**WebServer.** `slots` is `fdarray`, `fdtab` the kernel's descriptor table (lowest
number first), `webq` the FIFO of the WEB loop, `up` the four globals of the upload,
`closer` how far `stop` has got. The work thread goes select → accept | scan →
dispath → post or close → clear; WEB goes idle → execute | file | upload → reply.
One action is one stretch of code between two points where the other thread can
change what it reads. A client sends one message, because the server reads a
connection once. `raw`, `body` and `up` are the byte counts that decide how an upload
proceeds (`raw` is -1 when recv failed at once, and nothing can be read of such a message).
`body` is negative when the message ends inside the headers of its part; the size that the
code computes from it is unsigned and wraps at `Word` (websvr.cpp:423). Of the contents, `flaw`
tells the messages that end the process in their own handler: a first line that overruns
`analysehead`'s buffer ("long", 254), headers whose `substr` throws ("bare", 430, 436, 437), a
script result that is no string ("nil", business.cpp:120), an answer that overruns `replay`'s
buffer ("big", 361). `answers`, `leaked`, `badclose` are history variables.

**Business.** States are created, kept in `luastates` by script, closed. `pc[t]` and
`at[t]` say which code a thread is in and in which state. `run` is a call under
`luaL_lock`; `load`, `chunk`, `dofile`, `goodbye`, `callback` are code without it. When
two threads are inside one state the action `Clash` may set `broken`; nothing is
modelled after that. `ModLocks` selects the callbacks: websock's locked one, sermon's
unlocked one, or both.

**EventPosix.** Each pthread call is a step; sleeping releases the mutex in the same
step. `manual` is chosen at the start, as is the first value of the flag.

**Xbase.** Each operation on an event is a step: take, reset, push or swap, set,
signal. `hub` tells the machine, which another thread stops, from a channel, which
stops itself on a `close_channel` task. Destroyed events are "gone", and using one
sets `broken`. `EventPosixProofs!Implements` is why an event may be atomic here.

**History.** `threadExit` and `historyTask` belong to a channel, `rawdatals` to all.
`new` is a worker between the flag and `pthread_create`, the other labels are a
replay's: begin → load → export → test ⇄ frame → tested → marker → clear → exit. A loaded record
is known by the replay that read it and its number. At export the replay writes `rawdatals` to a
file (line 194). `Fail` is what ends the program for a lone replay: a time longer than its
array ("text", 180-182), a row or blob whose reading throws ("load", 86-100), a `fopen` that
fails unchecked ("file", 114). `mixed`, `late`, `failed` and `sent`
are history variables: a replay is mixed once another one was under way with it,
in any channel; what such replays send is not followed further (and not recorded,
to keep the state space small), only that the flag, `rawdatals` and the
program survive it, or how they do not.

**WsFrames.** Headers are sequences of bytes, as `sends` computes them with 8-bit conversions;
`Told` is how a client reads them. A frame that arrives is described by what the decoder looks
at (fin, mask, opcode, length), by how much of it one `recv` has read, and by the place of its
first zero byte. Its specification is `FramesSpec`, so that one module of proofs can extend it
beside `WebSock`; likewise `PnpSpec` beside `Webcam`.

**WebSock.** A work thread goes test → select → accept | scan → recv → dispath, then to a
callback (notify → noted after a handshake, callback → answer for a frame) and to close →
forget. The script is in `lock`'s holder, a thread of the host or the callback of a work
thread; `call` tells where it is in a function of the module: between the two sends, in
`stop`, in `start`. Each `send`, `close`, `accept` and assignment of `myclient` that the other
side can see is a step of its own. `fdtab` is the kernel's table of descriptors, which other
parts of the program use too, and the lowest free number is given out. Whatever comes from
another than the client passes `anyhttphead` first, a frame of a client that was forgotten
too; a line without a colon makes a string of NULL there (345). `broken` ends a behaviour:
"head" is that, and a key `handshake` cannot take, "stray" the use of a number that belongs to
another part of the program, "pipe" a SIGPIPE, "console" the use of number 0, "unset" a call
before the first `start`, which finds members without a value. `last` (who shook hands last),
`torn` (who got one part of a frame) and `choked` (whose send was not complete) are history
variables.

**Ssh.** A script's thread is in the host (`out`), in the script (`run`) or in a call of the
module, which it is in with the mutex of its state: `insert` and `return` of a connect,
`erase` of a disconnect, `join` of destory. g_thread goes idle → find → exec → lock → run, the
callback, in which it is a script's thread itself and calls the module. A session is known by
the order in which it was opened, `peerlists` maps handles to sessions, `handle` has the two
static counters. `registry` is what `luaL_ref` and `luaL_unref` keep: a list of free cells
headed by cell 0. Calls that change the map beside another thread break the program ("map"),
as do the use of a freed session, of a deleted object, of a command string that was collected,
a thread that joins itself. Of the connects that fail, and of what the other side says, only
what breaks the program is modelled: `NoAuthlist` (strstr of the NULL that
libssh2_userauth_list may return, 96-97 and 165-166) and `Overrun` (a socket number beyond
fd_set, 222, and an answer that fills retbuf, which lua_pushstring then reads past, 258 and
278). `target`, `replies` and `habits`, what the program did that not every program does, are
history variables.

**Webcam.** Every call of `play` has its two events and its thread, numbered by `plays`; a
camera's fields name those of its last play. A thread of a play goes test → want → frame →
test until it takes the signal of m_playevt or sees m_bExit; the script and `watching` are the
readers. `stop` waits, releases, and the manager deletes and erases. The classes differ where
the comment of the module says. `add` is three steps: the camera is in the map (`AddCam`), its
events are made (`Play`), it is opened and its thread runs (`Open`); between them `watching`
may find a camera without events, or a local camera not open yet. A camera that `del` has
freed and not erased yet may have a frame or not (`HasFrame`), for getfrm calls into freed
memory; who waits for it breaks the program ("freed"). `Throws` is cv::imencode of a picture
that was not read (camera.cpp:72), which nothing catches ("thrown"). Taking m_frmevt and
resetting it is one step, and so is a look-up in the map; `display` starts `watching` once.
Left out: `move`, the storage of films, the search for cameras, and what a callback does other
than call `monitor`. `told` and `late` are history variables.

**Pnp.** A camera is unknown, found or logged in. Its stream is a sequence of parts, of which
`Ends` names the last one of each image; a receive gives any part that is not lost for good
(`Reaches`), so parts may be lost, repeated and reordered. What `recvfrom` gave lies in the
static buffer until the thread has used it: another camera's thread may write over it. `work`
is the step that keeps the part and, at a last one, shows the frame. `Modulus` is that of part
numbers. Acknowledgements and the heartbeats that the program sends are left out. `quiet` is
when nothing more comes; `session`, `since` and `latest` are history variables: what an
observer has seen handled since the last first part, a part of another camera or session as
`Stray`; as soon as that is not all of one image, `{Stray}` is kept until the next first part.

## 3. What is checked

Bounds are the constants of each cfg. Deadlock is not checked where every thread may
come to rest: the server after `stop`, the host at its end, callers that call no more.

| run | bounds | question |
|---|---|---|
| `WebServer_safety` | 3 clients, 2 descriptors, 2 slots, uploads whole, in parts and cut inside a part header, messages that their handlers do not survive; one client may reset or send what is no plain request in one piece; sizes modulo 16 | who owns a socket, who gets an answer, what leaks, what crashes |
| `WebServer_live` | 3 clients that call Lua or upload, 2 descriptors, 1 slot | is everybody accepted or turned away, then served, while uploads leave descriptors; does `stop` end the thread |
| `Business` | 3 states, 3 scripts of which one fails, 2 timers, both kinds of callback | where can threads meet in a state, what can break the host; does who needs a mutex get it, does `poweroff` end |
| `Business_callbacks` | unlocked callbacks | *violated*: a callback must lock (modules/system/interface.cpp:33), sermon's does not |
| `EventPosix` | 3 threads, both kinds of event | is it an `Event`; do waits return |
| `Xbase` | 2 producers with 2 tasks each, hub and channel | order, what breaks after `stop`, does every task run and `stop` return |
| `WsFrames` | the lengths around 0, 125, 126, 256, 65535, 65536, 2^24 and 2^31, whole, cut and fragmented | which lengths is a client told, which frames reach the script as they were sent |
| `WebSock` | 2 clients of which one may close, 2 slots, 3 descriptors of which others may hold one, one start | whose number is in myclient, who gets which part of a frame, when is the client forgotten; does the thread end after `stop`; in service, is everybody accepted and read |
| `History` | 2 channels, 2 replays, at most 2 records each | what does a replay send, when do two overlap, what breaks then, does a channel serve again |
| `Ssh` | 2 scripts, 2 sessions by both connects, 2 requests, one object | on which session does a command run, which callback gets its answer, what breaks a program; are requests answered, does `destory` return |
| `Webcam` | one camera of each class, 2 plays, script and `watching` | who is in a frame, when is a camera deleted under a thread, do readers get the frame |
| `Pnp` | 2 cameras, 2 sessions, images of 3, 2 and 2 parts, part numbers modulo 6, `Timeouts` 0 and `Beats` 1 for the code's 4 and 6 | which frames are shown, is a complete one shown, is silence noticed |

Why the bounds are enough: every hazard of the web server needs at most two sockets in flight
and a third client that receives a number again (with fewer descriptors than clients numbers
are always reused); with two slots one can be filled while the other is scanned, and more
clients than slots turn one away. The upload messages are a whole upload, one part of a larger
one, one cut inside its part header and one without a file name, which drive the state machine
through all its branches, also interleaved; a message of each `flaw` is among them. What is no
plain request in one piece (`Odd`) is sent by the client that may reset, the other two call
Lua or upload. Sizes are 4 at most, so that `Word` = 16 for 2^32 tells a wrapped size from a
real one. Two descriptors and one slot are few enough for two leaked upload sockets to leave
nothing to `accept`. In `Business` a script of each kind (startup, loading, failing) and a
state for each suffice. Three threads make a signal choose between two sleepers. Two producers
make the list hold tasks of both while the worker swaps. With two clients one is closed, or
connects, while frames go to the other, and three descriptors are fewer than the server and
the others want, so that every number is used again. Two replays meet in one channel or in
two, and two records tell a lost one from one sent twice. Two scripts make one of them the one
that g_thread does not look up, two sessions collide in a handle and can be taken for each
other, and two requests use a freed cell again. One camera can be opened twice, which is when
its events are changed under its threads; the classes do not meet, so one is followed at a
time. In `Pnp` two images lie within a lap, so that late parts of the one meet the other, and
the number wraps within the third; a session follows another with parts left over, and a last
part of the second camera spoils or stops the other's. The largest run is `WebServer_safety`
with 1.8 million states; with two workers a run takes two to four minutes at most. Type
invariants are theorems, and those of `Webcam` and `Pnp` (`TypeOK`) hold on the instances of
their runs; no run lists one, as they say little. Some invariants that the proofs below
establish are in no run either (`NobodyLeftAsleep`, `OneInside`, `WakeUp`, `SlotsAreOurs`,
`OneStatePerScript`, `TimersConserved`, and `BreaksOnlyAtEdges` of `WebSock`, which TLC agrees
to for two messages per client). The safety results of section 4 hold for all sizes.

**Fairness.** Threads are run by the kernel: weak fairness of each thread's next
step. Strong fairness is assumed in six places. (1) A thread that keeps asking for
a mutex (`luaL_lock`, the mutex of an event, `myreccs`) gets it; the others hold it
for the time of one call and leave it free between two. Pthread mutexes promise this only
in practice, and for `luaL_lock` it rests on scripts that return. (2) A timed wait ends when its
deadline has passed, whatever wakes it before. (3) A message loop that was told to quit
gets to that task: it is in the same FIFO as the tasks before it. (4) The work
thread of `WebSock` waits for the mutex of the Lua state, as in (1), and the script that
holds it leaves it (`Exit`, and the steps of a call once begun). (5) g_thread of `Ssh`
gets the mutex for its callback, as in (1). (6) A reader of `Webcam` whom m_frmevt lets
pass again and again passes: the threads that fill frames sleep in between. In `Pnp` a
receive returns because SO_RCVTIMEO is set. In `History` the
replays and a worker that is creating one are run, no more. Nothing is assumed
of clients, scripts that send requests, or the console.

The GNU C library passes on a signal that meets a waiter which is timing out;
POSIX alone would let it be lost. `EventPosix` assumes glibc.

### Findings

* `Business_callbacks`: a comment in modules/system/interface.cpp:33 demands that
  callbacks lock and unlock; in sermon both calls are commented out
  (modules/sermon/interface.cpp:26, 36). `Exclusive` and `BreaksOnlyAtEdges` say what
  depends on it.

Facts the properties state as exceptions, because nothing promises otherwise: the sockets of
unfinished uploads are never closed (`OnlyUploadsLeak`), and when they have used the
descriptors up `accept` fails for good and nobody is served (`Drained`, the exception of
`Served`). An upload can be broken by any other client, and breaks by itself when it ends
inside its part header or its last piece is no longer than the boundary; headers that `substr`
or `sscanf` cannot take, a script result that is no string and an answer too long for its
buffer end the process too (`CrashNeedsCompany`). The startup script can get two states
(`OneStatePerScript`), a closed channel can be used again (`BreaksOnlyAfterStop`), and replays
share one vector and one flag, so that those that meet may mix their records, end each other
or throw (`OneAtATime`, `BreaksOnlyTogether`); a lone one dies of its own text, of what SQLite
throws, or of the file that could not be opened (`Fail`, of which that property says nothing).
A binary message of 126 bytes and a text of 65536 or more get a header that says something
else (`LengthsTold`); frames that one `recv` does not read whole, or that carry a zero byte, a
fragment or more than 65535 bytes, do not reach the script as they were sent (`Decoded`). The
web socket server forgets its client when any connection closes (`Remembered`); for a moment
before that, and after `stop`, myclient may be a number of somebody else (`ClientIsKnown`,
`BreaksOnlyAtEdges`); while the process has no free descriptor `accept` fails again and again
and nobody is read (`Served`); what the client it has forgotten sends is read as an HTTP head,
and a head may end the program (`BreaksOnlyAtEdges`). Handles that the two connects of ssh
gave may be equal, and then a command runs on the session opened last (`RightSession`); the
callback of a script that did not load ssh first is not called, or somebody else's is
(`OwnReply`); a program that frees sessions outside callbacks, or from two scripts, or calls
`destory`, may break (`BreaksOnlyOutOfOrder`), one that does none of this only by what a
single call may do (`Lone`: no list of ways to log in, a socket beyond fd_set, an answer as
long as retbuf, a collected command), and one that calls `destory` with requests under way may
hang (`DestoryReturns`). `stop` of a camera may take its own signal (`StopIsSafe`); a second
`play` and a screen let two threads into a frame (`OneInFrame`). Frames of network cameras are
mixed when two cameras write into the static buffer, when parts outlive a session, and when
part numbers wrap (`Whole`). An image whose parts have all come is sure to be shown only if
nothing else came between: a part of another image, however late, of another camera or session, or its own
last part before the others may cost it, for work shows no frame with a gap (pnppr.cpp:251);
an image of one part, or one within which the number wraps, is never shown (`Complete`).

## 4. What is proved

All for every value of the constants that the modules' assumptions allow.

| theorem | says |
|---|---|
| `WebServerProofs!SocketOwnership`, `NoStrayClose` | until `stop` every open socket has one owner, and no close meets a free number: `OneOwner`, `NoBadClose` |
| `WebServerProofs!AnswersGoHome`, `NobodyDropped` | answers reach who asked; without uploads everybody is answered: `ReplyToRequester`, `NeverSilent` |
| `WebServerProofs!LeaksAreUploads`, `CrashNeedsASecond` | `OnlyUploadsLeak`, `CrashNeedsCompany` |
| `BusinessProofs!MutualExclusion` | only unlocked code meets another thread in a state: `Exclusive` |
| `BusinessProofs!SoundInService` | `BreaksOnlyAtEdges` |
| `BusinessProofs!StatePerScript`, `TimersKept` | `OneStatePerScript`, `TimersConserved` |
| `EventPosixProofs!NoLostWakeUp` | `NobodyLeftAsleep` |
| `EventPosixProofs!Implements` | the pthread event implements `Event` |
| `XbaseProofs!MutualExclusion`, `NeverSleepsOnWork`, `SoundUntilStop` | `OneInside`, `WakeUp`, `BreaksOnlyAfterStop` |
| `XbaseProofs!Fifo` | the task list implements `Mailbox` |
| `HistoryProofs!FaithfulAlone`, `StopTakesEffect` | a replay no other one meets: `Faithful`, `StopWorks` |
| `HistoryProofs!OverlapNeedsStop`, `NothingLeft`, `SoundAlone` | `OneAtATime`, `Tidy`; beside what one replay dies of by itself, replays break the program only together or after the machine: `BreaksOnlyTogether` |
| `WebSockProofs!Headers`, `Decoding` | `LengthsTold`, `Decoded`, for all lengths of 32 bits |
| `WebSockProofs!SlotsHeld` | in service fdarray is the set of the connections: `SlotsAreOurs` |
| `WebSockProofs!ClientKept`, `ClientRemembered` | `ClientIsKnown`, `Remembered` |
| `WebSockProofs!BreaksAtEdges` | `BreaksOnlyAtEdges` |
| `WebSockProofs!FramesAreWhole` | who gets one part of a frame without the other: `WholeFrames` |
| `SshProofs!RightTarget` | a command runs on the session whose handle it was given: `RightSession` |
| `SshProofs!AnswersOwn` | a command calls its own callback, once, with its own answer: `OwnReply` |
| `SshProofs!SoundInOrder` | a program in order is broken by no other thread, only by what one call may do by itself: `BreaksOnlyOutOfOrder` |
| `WebcamProofs!ShownIsWhole`, `ImageIsShown` | which frames are shown, and that an image is whose parts have come with nothing else between: `Whole`, `Complete` |
| `WebcamProofs!FrameIsExclusive`, `StopsSafely` | who is inside a frame, when a camera in use is freed: `OneInFrame`, `StopIsSafe` |
| `TypeCorrect` of each, `FrameTypes`, `PnpTypeCorrect` | the type invariant |
| `SshProofs!BaseAlways`, `WebcamProofs!InvAlways`, `PnpInvAlways` | the inductive invariants those theorems rest on |

**Arguments.** *WebServer*: `OneOwner` is strengthened by what a thread holds at each label
(`WorkJobOK`: the work thread's socket is the one in its current slot and it has a message in
hand after reading; `WebJobOK`, `QueueOK`, `UnreadOK`): a close frees a number only its owner
knew, and accept gives out a number that nobody had. `ReplyToRequester` follows a message
instead of a number: each is read once and is in one place, the queue or one thread's hands
(`ReadOnce`), and the number that travels with it stands for its sender or for nobody
(`RouteOK`), for the server closes that number only when the message is done with.
`CrashNeedsCompany`: until a second client has a message beside an upload, each step of the
upload finds the globals as its last step left them (`Alone`), and each piece is as long as
its message says (`Piece`), unless that size wrapped. `NeverSilent`: without uploads, what
select found readable is so when the scan gets there (`ReadyOK`), so recv fails only on a
connection that has been reset (`CloseOK`). *Business*: who is in `run` holds the mutex of its
state (`HoldOK`), so two in `run` in one state are one; a state in `luastates` is open until
`poweroff` (`MapOK`), so a request that holds one cannot lose it (`CallerOK`); a state under
`dofile` is not yet in the map (`LoadOK`); an open state other than the startup's is in the
map or being loaded (`OwnerOK`). *EventPosix*: who holds the mutex is known from the labels
(`MutexOK`); nobody sleeps on a raised manual-reset flag (`BroadcastOK`). The refinement lets
a call take effect in the step that settles its result. *Xbase*: before `stop`, the event is
set only when nobody is inside (`MutexOK`); the last batch is empty when the lists are swapped
(`BatchOK`), so that the swap leaves `worktasks \o mytasks` as it was. *History*: two replays
under way are both mixed (`MixedOK`), so one that is not is alone, and `rawdatals` is what it
has loaded, `sent` the part it has passed (`AloneOK`); a channel whose flag is up has no
replay under way unless one was told to stop (`FlagOK`, `OneOK`); what it has sent when it
leaves the loop stays (`DoneOK`). *WsFrames*: case by case on the form of the header; the
bytes of a length are put together again by division with remainder (`FourBytes`). *WebSock*:
between the first `start` and a `stop` there is one work thread at most (`StartOK`) and
nothing before it (`FreshOK`); the slot it has in hand is not empty and the message is that
slot's (`HandOK`); a number in a slot is a connection's, once (`Apart`), unless the thread is
between close and forget there (`SlotOK`), and each connection has a slot (`HeldOK`), so that
what the thread closes or reads is a connection; a close frees the client's number only in
that moment (`KnownInv`); a thread that is about to forget has closed a connection
(`RememberInv`). What breaks follows action by action (`BreakInv`). `WholeFrames` needs no
service: a number in fdarray or myclient was a client's, and if it is not any more that client
is closed (`NumbersTaken`), through every stop and start; so the body of a frame misses the
client of the header only when that client is gone or another one came (`HeadOK`). *Ssh*: two
threads in calls of the module are in two states (`LockOK`), so while one script opens the
sessions one connect at most is between its counter and its return; then no two sessions have
a handle in common (`HandlesApart`), a counter in use is nobody's handle yet (`CounterNew`),
and an entry of peerlists is the session of that handle (`EntriesOwn`). In a program that
keeps to the order nobody is in a connect while g_thread has anything to do
(`NothingPending`), so that it is alone with the map; entries are open sessions, each under
one handle, but for the one g_thread is just erasing (`EntriesOpen`, `EntriesApart`). For
`OwnReply` the free list of a registry is described by its length and its end (`CellsOK`):
followed from cell 0 it visits distinct free cells, so that `luaL_ref` never gives out a cell
in use and the callback of an open request stays where it was put (`PendingOK`); tasks are
posted once (`QueueOK`) and answered once (`RepliesOK`). *Webcam*: the marks name different
cameras, a freed camera is under none but the one being erased (`CamsInv`), and every play has
its thread and events (`PlayInv`, `EventInv`); a camera that `play` was not called for yet is
in the script's hands alone, which is then inside `add` (`Fresh`, `Adding`). While a camera
was played once and is not stopped, its m_frmevt is down whenever somebody is inside, and
nobody else is (`MutexInv`); its m_playevt is up only once its thread has ended, or stop
itself has set it (`SignalInv`, `ToldInv`). *Pnp*: each part in vframe lies under its index
and one of them is a first part (`FrameOK`), so that parts of one lap without a gap
(`Gapless`) have consecutive numbers (`OneLap`), reach no further than the image of the first
one, and with a last part among them no less (`LastShowsWhole`). While the parts since the
last first one are all of one image and session, they are exactly what vframe holds
(`SinceOK`); those of an image within a lap make an interval (`AllShown`). The least and the
greatest number come from well-foundedness of the naturals, not from induction.

**Only model-checked**: the liveness properties (`Served`, `StopEnds`, `MutexIsGiven`,
`PoweroffEnds`, `WaitsReturn`, `EveryTaskRuns`, `StopReturns`, `ReadyAgain`, `Replied`,
`DestoryReturns`, `ReaderServed`, `GivenUp`), because fairness and ENABLED are out of the
prover's reach. Every safety property of a passing run is a theorem.

## 5. Not modelled, and the plan

Not modelled for good: vendored libraries, Windows code (service wrapper, RAS), the front
ends, unicom (sequential: no thread but the caller's), bindings without state of their own,
device protocols, image coding and packet capture (I/O and data, no control shared between
threads). Byte offsets of HTTP and multipart headers are inputs of `WebServer`, cut and
malformed ones among them. Memory races are modelled where an outcome differs (`Clash`,
`broken`), not at the level of words.

Next, in this order:

1. `Sermon` (sermon/machine.cpp): the hub's map of channels, `transhistorydata`,
   routing of replies to triggers; composes `Mailbox`es.
2. `CommFrames` (commsvr.cpp 43-84): fragments with one-byte counters, against
   reassembly.
3. Proofs about those two as they come; and that each model without failures implements a
   simpler one (the web server a server that answers one client at a time, the replay a
   reader of its records).
