# Legato in TLA+

Legato lets computers share one mouse and keyboard: pushing the pointer past the
edge of a screen moves it to the machine on that side, and what is typed goes
there. Connected machines also share a Caps Lock, a clipboard and files, and a Mac
can show an extra display in a window of another machine. This directory holds
TLA+ modules of that program, the TLC runs that check them, and proofs that TLAPS
checks.

Paths below are relative to `src/crates/`.

## The system

Every machine runs the same program, and any machine can drive any other. Its
threads of control:

    user ──> capture thread ──> control stream ──> run loop of the peer
               (Controller) ──> datagrams, lossy ─┘      │       │
                    ^                                    │       v
                    ├──── PeerEntered, PeerYield, ... ───┘   injection thread
    user ───────────┴── LocalActivity ──────────────────────>  (Receiver)

    app ──> Engine (settings) ──> run loop ──> tasks: a dial loop per peer, a task
                                      │        per connection, file and stream
                                      │
                                      ├──> clipboard watcher thread
                                      └──> Mac: capture and encoder threads, a task
                                           per video track;  viewer: a decoder
                                           thread per track

| component | state it keeps | operations | interacts with | what is hard | what makes it correct |
|---|---|---|---|---|---|
| Receiver and selector (`legato-core/src/receiver.rs`, `legato-engine/src/run/input.rs`, `inject_loop` in `run.rs`) | driver, entered, newest sequence number, keys and buttons down, repeat, clicks | a control message, a datagram, local activity, disconnect, tick, stop | fed by the run loop and the capture thread through one queue; sends `Yield` | late messages of an earlier driver, reordered motion, the repeat timer, stops with keys down | nothing stays down unless the driver holds it; only the driver's input; motion never goes back |
| Controller (`legato-core/src/controller.rs`) | local / remote / parked / portal, shared cursor, push, routes of keys and buttons, shown display, reports | own motion, keys, buttons, scroll; `PeerYield`, `PeerLost`, `PeerEntered`, `YieldedTo`, `PeerPointer`; layout, portal | emits messages, datagrams and pin/release actions | both users act at once, stale reports, a layout or viewer that goes under the pointer | releases go where presses went; the pointer is pinned exactly while away; no two machines drive each other |
| Capture backends (`legato-windows`, `legato-macos`) | pin, cover or catcher, warp, carried files | hook and tap callbacks, commands, apply | controller, OS | warps that look like motion, hooks before posted messages | only pushes cross; who is driven follows the pointer |
| Run loop (`legato-engine/src/run.rs`) | session tables, peers, layout, Caps Lock, viewing, host, inbox | every session event, user command and timer | all other parts, by queues | order between its queues | what it hears reaches every part |
| Sessions (`legato-net/src/session.rs`, `lib.rs`) | the hub: active session per peer, dial loops | dial, accept, replace, end, announce screens | events to the run loop | replaced sessions, two dial loops, changes during the handshake | session table and desk follow the connections |
| Pairing, peer store (`legato-net/src/pairing.rs`, `store.rs`) | paired peers, busy flag, allow-list; the app's one attempt | initiate, accept, decide, save, forget | sessions, app | one side saves, the other gives up | both or neither, and only by both users |
| Caps Lock (`legato-core/src/locks.rs`) | state, Lamport clock, settling | local read, peer's change, announce | run loop, OS | crossing changes, presses that show late | machines agree and stop changing |
| Layout, arrangement (`legato-core/src/layout.rs`, `legato-engine/src/arrange.rs`, `legato-app/src/snap.rs`) | places of machines on the desk | build, place, mirror a peer's placement, drop in the editor | controller, run loop | scales, roundings, mirrored placements, answers to answers | neighbors share an edge and overlap nothing |
| Engine, configuration, control mode (`legato-engine/src/lib.rs`, `config.rs`) | settings, sharing, control policy | edit, apply, start, stop | everything | changes that cross, a save that fails | the newest choice rules everywhere |
| Clipboard (`legato-engine/src/clipboard.rs`) | last change seen, what a peer set | poll, set, start, stop | run loop, OS | echo | copies get round, and only copies |
| File transfers (`legato-engine/src/files.rs`) | open batches, generations, cancelled batches, names on disk | send, receive, save, finish, fail, cancel, disconnect | run loop, tasks that save | late completions, headers that race a cancellation, names that clean alike | a batch is reported only whole; what was acknowledged is on disk |
| Extended displays (`legato-engine/src/extend.rs`, `legato-app/src/main.rs`) | host, viewing, viewer window, generations | request, start, stop, resize, arrange | app, run loops of both machines | stops and answers of an earlier display | viewer and Mac agree in the end |
| Video (`legato-screen`, `extend/queue.rs`) | policy, encoders, bounded queues, decoders | capture, encode, push, send, keyframe, reconfigure, decode | run loop | full queues, dropped frames, backlog | no frame without the one it depends on; a still screen ends sharp |
| Key maps, CLI (`legato-core/src/keymap.rs`, `legato-cli`) | tables; none | | | | out of scope |

`PROJECT.json` lists every component with its status, and the hazards, each with
its line and the properties that would catch it going wrong.

## The modules

| module | models | state and actions |
|---|---|---|
| `Wire` | input messages, wrapping sequence numbers | operators only; `SeqMod` stands for 2^32 |
| `Receiver` | `Receiver` and `InputReceiver` | a record with the code's fields and, beside them, what the injections left in the OS; one operator per call |
| `DrivenMachine` | the promise of a driven machine | an owner and what is held for it; abstract |
| `InjectLoop` | `inject_loop` | one action per queue entry, timer, stop and start; connected peers send anything in any order |
| `InjectLoopProofs` | | the inductive invariant and the theorems |
| `Controller` | `Controller` on a desk, without portal | a record with the code's fields, one operator per event; actions for the backend collect in `out`: messages per peer, datagrams, what becomes of the OS pointer and where it is warped |
| `Handover` | machines, each with Controller, Receiver, run loop and queues, and the network between them | the user's input, the run loop's events, each thread's queue, failing links, killed machines |
| `HandoverProofs` | | their inductive invariants and theorems |
| `Portal` | `Controller` with a portal, a shown display and carried files, and what the backend makes of its actions | a record of a capture thread and of what its peers hold; one operator per event |
| `Capture` | the capture thread around it: hooks and tap, commands, drags | where the cursor is, what the user holds, the run loop's peers; the user, the run loop and the peers act |
| `CaptureProofs` | | its inductive invariant and its theorems |
| `CapsLock` | `CapsLock` and the run loop's use of it | pressing, checking, hearing, connecting, dropping |
| `CapsLockProofs` | | its inductive invariant and its theorems |
| `Sessions` | `Hub`, `dial_loop`, `dial`, `run`, `Handler`, `add_paired`, `unpair` | dial loops, a task per connection and end, the hub, what the run loop was told; one action per step between two awaits or locks |
| `SessionsProofs` | | its inductive invariant and its theorems |
| `Pairing` | `PairAttempt`, `Handler`, `Store`, `add_paired`, and the app's dialog | connections with two ends, each a task with a step; what the app holds and shows; peers saved and allowed |
| `PairingProofs` | | its inductive invariant and its theorems |
| `Layout` | desk geometry, `arrange::build`, `snap` | operators only, on boxes with integer sides |
| `Clipboard` | `watch` | the thread as a record with its step; one operator per call of the OS |
| `Desk` | settings, run loops and watchers of connected machines | edits, the run loop noticing them, messages and clipboards on their way, connections |
| `Files` | `send`, `PendingBatch`, `Inbox`, `Batch`, `save`, file streams | a task per batch and per stream, the run loop's event queue, the disk |
| `FilesProofs` | | its inductive invariant and its theorems |
| `Extend` | `Host`, `Viewing`, `Showing`, the Extend messages, the viewer window | app, run loops, messages, streams, decoders |
| `VideoSize` | `request_for`, the app's note, `stream_config`, `fit_within`, `max_fps` | operators only, in whole pixels |
| `Adaptive` | `Policy` | operators only; what depends on time is a parameter |
| `Stream` | `DisplayStream`, `Encoding`, the queue, `send_track`, `decode` | capture, the encoder thread, a sender and a decoder per track |
| `StreamProofs` | | its inductive invariant and its theorems |
| `MCInjectLoop`, `MCHandover`, `MCCapsLock`, `MCDesk`, `MCExtend`, `MCFiles`, `MCPairing` | | values for TLC |

**Controller.** `peer = NoMachine` is `State::Local`, any other value
`State::Remote`, `idle` its parked form. The desk is a row: positions
`1 .. Width` on each machine, and `Beyond` in place of the layout's geometry
(`layout.display_at` just past the edge). One motion event is one step; a push
counts steps. Clock readings are parameters chosen freely: whether the last push
is too old to continue, whether the last report was within `REPORT_EVERY`. Routes
of keys and buttons are as in the code, with `"none"` for an absent entry.

**Handover.** What arrives on a connection is kept in `net`, in order, with the
events `Connected` and `Disconnected` in the same queue, because the run loop
hears them from one channel. Datagrams are a set: any order, and lost when
`MaxDatagrams` are in flight. `capq` and `injq` are the two threads' queues.
An input event that the capture thread handles is one action, from the activity
filter to the messages sent, as the callback is in the code. `pinned` is the
backend's `pin`.

`up` are the connections there are, `active` the peers each machine's network task
runs a session with, `sessions` the run loop's table. A connection that fails
(`LinkFails`), or whose machine is killed (`Restart`), leaves `up`; each end notices
by itself and at any later time (`EndNoticed`), if only after the idle timeout of
five seconds (`net/lib.rs:172`). The machine with the smaller id dials (`Dials`), a
second after it noticed (`session.rs:388`); the other may not have noticed by then.
Its session is then replaced (`session.rs:464`), and the task of the old one tells
nobody (`543`–`564`): that is `Reconnect`, which asks only the dialer to have noticed.
A killed machine forgets everything while its OS keeps pointer and pressed keys.
What a sender writes to a connection that has ended or been replaced is lost, and so
is a suffix of what was on its way; the news `Connected` and `Disconnected` do not
cross the network and are not. Left out: both ends register a new connection in one
step (`Sessions` has the steps between), and what the replaced session had received
and not handed on is not heard after the new `Connected`.

Two abbreviations keep TLC's state space in reach and change no behaviour:
a `LocalActivity` is not queued behind another, nor into an empty queue of a
machine nobody drives, where handling it changes nothing.

**Portal and Capture.** Where `Controller` has positions, here the caller chooses
where a motion leads, among the outcomes the code tells apart: within the desk,
against an edge with or without a peer beyond, on the picture, at its brink. The
peers are simplified to what they are told: `driven` and `held` change when a
message to a connected peer is sent. Queues and crossing messages are `Handover`'s
subject; here it is what the thread does to itself. `windows` chooses the
backend. On Windows raw motion adds up while the cursor is pinned. On macOS a warp
leaves a jump in the first event that the system makes after it, unless that event
is measured from where the warp went (`warpedTo`), and two things come between. An
event made before the warp may be handled after it, since the tap drains its commands
first (`macos/capture.rs:537`): that is the motion `"late"`, which may be measured as
a push and leaves the jump to the next. And a peer that drives here moves the cursor
by injected events on another thread, with queues of its own (`run.rs:619`), before or
after this one unparks for it: `Unpark` forgets the warp and not the jump, which
`PeerMovesUs` takes whenever it happens. That it takes it is assumed of macOS, where
the injected event is the next one after the warp. While what is remembered and what
the next event holds may not belong together, `mixed` is set. A drag that started here
meets the catcher window, and the thread hears of it by a posted message.

**InjectLoop.** Peers send any message at any time while their connection, or its
unheard end, is there. Three history variables (`visit`, `presses`, `pressedBy`)
record what the properties talk about and guard nothing.

**CapsLock.** Ids are numbers since ties compare them. `pressing` counts injected
presses that do not show yet; a press shows before the reads it is given run
out, which is what `SETTLE_READS` assumes, so `Check` waits for it. Stopping and
starting sharing, which would reset a clock, is left out.

**Sessions.** Two machines: sessions with different peers share only the start and
stop of the hub. A task is one end of a connection. It enters the hub under the
lock and tells the run loop after it, so these are two actions, and so are
leaving the hub and telling that. `told` is what the run loop makes of the events
sent so far. A connection that is closed, broken or times out leaves `up`; its
tasks notice at any later time. A stop aborts the dial loops with whatever they
are doing, but not the tasks that accept, as in the code. `AddPaired` saves the
peer and dials it in one step. Connections and loops are names, taken up again
once nothing refers to them.

**Pairing.** The code both users compare is derived from the connection, so it is
the connection. Each end's `step` is where its task waits; what it wrote is
`said`, what has arrived is `heard`. A timeout is a kind of trouble, as are a
failed handshake, a broken connection, a full disk, a restart, an unpairing.
The dialog and the attempt it stands for are two fields of `app`, as in the code,
where one may be there without the other.

**Desk.** The run loop has copies of settings and displays and notices changes
later; `Relayout` is what it does then. Settings change in one step, since the
code saves and publishes under a lock. `history` records what users did and
guards nothing. A connection that ends loses a suffix of each queue. Clipboards
are a set: each has its own stream. Displays are boxes in a machine's units, a
machine's `perDesk` units one desk unit; divisions are exact for the values of
the run, and `Layout` is where the code rounds.

**Files.** Two batches are enough for one to be in the way of the other. A name is split
as `safe_parts` splits it: `Parts` are its components between slashes and backslashes,
without blank ones and `.`. So a name with a backslash, an ordinary character on macOS,
becomes a folder with a file in it; a name of which nothing is left is refused; two
folders of one name, chosen in different places, become one, in which files of one name
lie beside each other. `Collected` assumes nothing of the names but that they have
components. A file's stream has a task on the receiver that reads the header, posts it,
and saves when the run loop has reserved a path; how the save ended comes back on another
channel, so it may be heard before or after any event. `data` says what happened to the
bytes, with `"maybe"` for a connection that broke after all were sent: the receiver may or
may not have them. `Break(TRUE)` is a connection that a newer one replaces, of which the
run loop hears nothing.

**Extend.** One track and no queues, which `Stream` has. A picture shown has a
number (`at`) in the order in which pictures were taken and a timestamp that
starts anew with each display. `asked` is the size of the window the app wants.
A viewer's `Output` closes with its viewing, so late pictures of an earlier one
are dropped. What a Mac is asked for is a number of `Areas`, whose sizes
`VideoSize` computes with.

**Stream.** A frame names in `ref` the one it was encoded after. What a lock
guards in the code is one step. `Reconfigure` starts every track again, at a new size
or, when only rate, quality or tracks change, at the old one. It forgets the last
picture, and the next comes when something on the display changes. Times are choices:
whether a second big change came soon enough, whether the sharp track is at its rate.
`Tick` is a step only when it does something.

## The runs

| run | bounds | shows |
|---|---|---|
| `inject_loop` | 2 peers, a repeating key, a modifier, a button, 2 positions, sequence numbers modulo 4, click count up to 2 | the receiver's invariants, motion never goes back, `InjectLoop` implements `DrivenMachine` |
| `handover` | 2 machines side by side, one position each, 4 inputs, one key, one button, one datagram in flight | `PinnedWhileAway`, `LocalReleasesSeen`, `NoMutualDriving`, `DriverDrives`, `HeldButtonKeepsPointer` |
| `handover_failures` | 2 machines, 2 positions each, 2 inputs, one failure (broken connection or killed machine), each end noticing in its time, reconnection before or after | `LostPeerLetsGo`, `DeskFollowsConnections`, `PointerComesHome` |
| `stuck_key` | 5 inputs: users cross, one types | a counterexample, see below |
| `capture` | one machine, Windows or macOS, 2 peers, one key, one button | who is driven and who holds what follows the pointer; typing on a picture; on macOS only pushes cross, with two exceptions |
| `caps_lock` | 2 machines, one on Windows, 3 presses, one broken connection, `SETTLE_READS` as in the code | `Agreement`, `PressIsOneChange`, `EventuallyAgree` |
| `sessions` | each machine pairs once, two failures (a stop, an unpairing or a broken connection each), one change of displays, 2 connections and 2 dial loops at a time | `OneConnection`, `ScreensArrive`, `DialerToldRight`, `EventuallyInTouch` |
| `pairing` | 2 machines, which may change places, 2 attempts, one kind of trouble | `PairedByBoth`, `BothOrNeither`, `AllowedIsPaired` |
| `desk` | 2 machines of different scale, one with a display to unplug, 2 contents, clocks 0 and 2, 2 things that users or the network do | `NewestChoiceRules`, `CopiesGetRound`, `EdgesAreShared`, `ComesToRest` |
| `files` | 2 batches of up to 3 entries, 4 choices of names, one break, one fault | `SentIsSaved`, `ReportedIsWhole`, `CancelSticks` |
| `extend` | a viewer, 2 Macs, 2 displays opened, one kind of failure, one new size, picture or cursor | `ViewedIsHosted`, `HostedIsViewed`, `SeenAsTold`, `ComesToRest` |
| `stream` | queues and network of one frame, 2 pictures, one reconfiguration, one decoder error, one dropped picture | `NoGaps`, `StillIsSharp` |

Every module with a `Next` but `Desk` has a type invariant, `TypeOK`. It is proved for
`InjectLoop`, `Handover`, `Capture`, `Pairing`, `Sessions`, `Stream` and `CapsLock`; for
the others add it to the run's configuration: it holds in all.

**Why the bounds are enough.** `inject_loop` and `capture` have no bound on
behaviours at all: their states are finite. Four inputs of `handover` reach every
hand-over that differs: crossing, pressing, being taken back, crossing again, and
both users at once. One position per machine makes every motion an edge, the case
where something changes; two, in the run with failures, tell the entry from the
return point. `SeqMod = 16` is more than twice the numbers a bounded run draws, so
`Newer` is never ambiguous there; wrapping is exercised in `inject_loop`, modulo 4.
Two failures of `sessions` make a stale connection beside a new one, and a
replaced session that ends late. Two attempts of `pairing` cross each other, or
follow one another while tasks of the first still run. Two events of `desk` are
two copies, two choices, or a change while a connection fails, and every program
step in between is free. In `files`, one selection has two folders whose names clean alike
against a file in their way, one a second name that is refused, one a file and a
folder of one name and a backslash that leads into the folder, one a folder chosen
twice against a name of blanks; a break in the
middle of any of it is one break. Two displays of `extend`, one after the other,
make every answer of the first late; sizes are chosen where a rate is limited and
where a window is flat. A queue of one frame in `stream` is full at the second,
and a second picture is enough for a frame that depends on a dropped one.

**Deadlock.** `CHECK_DEADLOCK FALSE` stands in `stuck_key`, whose specification is
a part of `Next` that runs out of steps, and where everything may come to rest
until a user or the network does something that a bound no longer allows:
`sessions`, `pairing`, `desk`, `files`, `extend`, `stream`, `capture`.

**Fairness.** `FairSpec` of `Handover`: every thread drains its queue and the run
loop hears what has arrived; they are loops that block only on an empty queue. And each
end of a connection that is gone notices, which `max_idle_timeout` sees to. Users,
the network, new connections and the timer that sends late reports owe nothing.
`CapsLock`: the 100 ms timer ticks, an injected press shows, what has come is
heard, and a missing connection is dialled again, which is what `dial_loop` does
for ever. `Sessions`: loops and tasks run on, since tokio polls what is ready and
every wait has a timeout. `Desk` and `Extend`: some loop goes on as long as any has
something to do, which is less than fairness to each. `Stream`: each thread and
task goes on, time passes, and the network takes frames. Users and failures owe
nothing anywhere.

## What the code does not keep

`stuck_key` is a run that expects a violation, and `PROJECT.json` quotes the
documents: **a stale Yield strands a key.** A drives B. B's user moves the mouse: B
releases, sends `Yield`. Before it arrives A crosses again (or resumes) and presses
a key. B enters, presses the key. Now A hears the `Yield`, parks and drops the key's
route. A's release goes nowhere. B holds the key, and repeats it.

Nine more configurations show a counterexample each; run them by hand
(`tlc -config MCKilled.cfg MCHandover`, and so on).

- **A killed driver comes back quickly** (`MCKilled`, `MCHandover`, `NoKeysStuck`).
  The new session replaces the old one, no `Disconnected` is sent
  (`session.rs:464`, `543`), nothing is released.
- **A driven machine comes back quickly** (`MCReplaced`, `MCHandover`,
  `DriverDrives`). The connection breaks; the dialer, which is driven, notices, lets go
  of its driver and is back before the other end has noticed. That end hears of no
  loss and goes on driving a machine that forgot it; its pointer stays away until its user
  crosses back, or the other's takes it over. Nobody has to be killed.
- **Both park** (`MCBothParked`, `MCHandover`, `PointerIsSomewhere`). Both users
  cross and return at once. Each machine's report of its own pointer parks the
  other (`controller.rs:583`). No cursor is shown until someone moves a mouse.
- **Three machines, one tie** (`MCCapsThree`, `MCCapsLock`, `Agreement`). Ties
  compare the peer that passes a state on (`locks.rs:68`). Three machines that
  connect with differing locks can end with different ones until the next press.
- **Two dial loops** (`MCRePaired`, `Sessions`, `OneConnection`). The other machine
  forgets this one and pairs again: this one still has its dial loop, and
  `add_paired` starts a second (`session.rs:370`).
- **A forgotten peer keeps a session** (`MCForgotten`, `Sessions`,
  `ForgottenIsDropped`). `unpair` closes the session in the hub; a handshake past
  the allow-list enters the hub afterwards (`session.rs:461`).
- **An old picture stays** (`MCNewest`, `MCExtend`, `NewestIsShown`). A stream says
  nothing of the display it belongs to. One of an earlier display that arrives after
  the next was asked for is decoded for the next (`run.rs:656`). Timestamps start
  anew with each display, so the new pictures are taken for older ones and not drawn
  until they catch up (`extend.rs:133`).

- **A push from before a warp** (`MCUnpushed`, `Capture`, `OnlyPushesEverCross`). On
  macOS the tap handles its commands, among them a warp, and then the event it was
  called for, whose place is from before the warp (`macos/capture.rs:537`). The way
  between the two is taken for motion (`286`) and may cross an edge without a push.
- **No picture after a reconfiguration** (`MCReconfigured`, `Stream`,
  `StillIsSharpAnyway`). `DisplayStream::reconfigure` says "Every track starts again with a
  keyframe". The last picture is forgotten, also when the size is what it was, and
  the capture delivers another only when something changes (`mac/capture.rs:3`): on a
  display that is still no track sends anything.

Seen while modelling, and excepted by name in a property or left without one:

- *Sessions.* Where sessions are accepted, the task of an old session may tell its
  end after the next session's beginning was told, and the run loop drops a peer
  it has. `DialerToldRight` holds for the machine that dials.
- *Caps Lock.* On Windows a change that crosses another while an injected press is
  on its way toggles once too often; the machines agree in the end, maybe on the
  older state.
- *Pairing.* A timeout is one-sided: the machine that gives up does not know that the
  other's decision was on its way (`pairing.rs:67`). A cancel while waiting does
  not withdraw an acceptance (`main.rs:436`). `HeldIsShown` of `Pairing` fails:
  the end of one attempt closes the dialog of another that arrived meanwhile
  (`main.rs:432`, `450`), which then cannot be answered. An unpairing between
  saving and allowing leaves the peer allowed until a restart (`net/lib.rs:111`).
- *Control mode.* Two choices in the same second stay different (`engine/lib.rs:253`).
- *Clipboard.* A copy between the write of a peer's content and the reading of the
  count is never sent; two machines that copy at once may swap; what a peer put
  there is not sent when it is copied again.
- *Desk.* The app forgets where a peer placed this machine later than the engine does
  (`run.rs:504`). `snap` uses a peer's bounding box, so a machine with an uneven
  outline may land with a gap (`snap.rs:3`).
- *Extended displays.* `ExtendStop` has no generation: one from a display that could
  not be added ends a newer viewing. `ExtendEnded` of an earlier display closes a
  newer window of the same peer. A viewer whose decoder cannot be set up stops the
  Mac and does not tell its own app. A second viewer takes the Mac's display without
  the first being told (`run.rs:527`), which goes on showing the last picture. A flat
  window asks for less than a display may have, and the Mac raises it to another shape
  than the app says.
- *Files.* A name with a backslash, which macOS allows, arrives as a folder
  (`files.rs:53`). Two folders of one name chosen in different places arrive as one.
- *Capture.* On Windows raw motion adds up while the cursor is pinned, so the first
  motion after a visit may count as a push. A held key's auto-repeat re-enters a
  portal that the peer just took back (`windows/capture.rs:380`). A window brought in
  front of the picture does not stop keys from going to the peer until the mouse
  moves. A left button that comes up before a posted `WM_FILES_ENTERED` leaves
  `carrying` set (`windows/capture.rs:965`).
- *Engine.* `stop_sharing` lets go of the mutex before the task has ended
  (`engine/lib.rs:308`): sharing started meanwhile loses its commands and sessions to
  the end of the first.

## What is proved

Eight modules of proofs, one per component, each for every value of its constants that the
named assumptions allow. Each starts from an invariant the runs do not name: what they
check is true in every reachable state, and almost never kept by a step alone. TLC
checked each strengthened invariant first, on the run of its module.

| module | theorem | states |
|---|---|---|
| `InjectLoopProofs` | `TypeCorrect` | `Spec => []TypeOK` |
| | `NothingStuck` | `Spec => []NothingHeldUnlessDriven` |
| | `OnlyTheDriversInput` | `Spec => []HeldForDriver` |
| | `OnlyHeldKeysRepeat` | `Spec => []RepeatIsHeld` |
| | `DriverConnected` | `Spec => []DriverIsConnected` |
| | `ClicksStartAfresh` | `Spec => []ClicksWithinVisit` |
| | `OnlyNewMotionMoves` | `Spec => MotionNeverGoesBack` |
| | `Implementation` | `Spec => ImplementsDrivenMachine` |
| `HandoverProofs` | `Types` | `Spec => []TypeOK` |
| | `PinnedRight` | `Spec => []PinnedWhileAway` |
| | `DeskRight` | `Spec => []DeskFollowsConnections` |
| | `LostLetsGo` | `Spec => []LostPeerLetsGo` |
| | `NoTwoDrive` | `Spec => []NoMutualDriving` |
| | `DriverHasIt` | `Spec /\ [][NotReplaced /\ Uncontested]_vars => []DriverDrives` |
| | `DriverHasItOfTwo` | `Machine = {a, b}` implies `Spec /\ [][NotReplaced]_vars => []DriverDrives` |
| | `SeenComesUp` | `Spec /\ [][NotKilled]_vars => []LocalReleasesSeen` |
| | `ButtonKeepsPointer` | `Spec /\ [][NotKilled]_vars => HeldButtonKeepsPointer` |
| `CaptureProofs` | `Types` | `Spec => []TypeOK` |
| | `DrivenRight` | `Spec => []DrivenWherePointerIs` |
| | `HeldRight` | `Spec => []HeldWhereItWentDown` |
| | `PictureRight` | `Spec => PictureGetsInput` |
| | `DragStays` | `BlockWhileHeld` implies `Spec => HeldKeepsPointer` |
| | `PushesCross` | `Spec => OnlyPushesCross` |
| `PairingProofs` | `Types` | `Spec => []TypeOK` |
| | `SavedByBoth` | `Spec => []PairedByBoth` |
| | `AllowedAreSaved` | `Spec => []AllowedIsPaired` |
| | `BothSaveOrNeither` | `Spec => []BothOrNeither` |
| `SessionsProofs` | `Types` | `Spec => []TypeOK` |
| | `TableRight` | `Spec => []TableIsWhatRuns` |
| | `ScreensKnown` | `Spec => []ScreensArrive` |
| | `OneAtMost` | `Spec /\ [][NotWhileDialling]_vars => []OneConnection` |
| | `ToldInOrder` | `Spec /\ [][NotWhileDialling]_vars => []DialerToldRight` |
| `StreamProofs` | `Types` | `Spec => []TypeOK` |
| | `InStep` | `Spec => []NoGaps` |
| `FilesProofs` | `Types` | `Spec => []TypeOK` |
| | `ReportedSaved` | `Spec => []ReportedAreSaved`, a part of `ReportedIsWhole` |
| | `SentSaved` | `Spec => []SentSaves`, a part of `SentIsSaved` |
| | `SentIsOnDisk` | `Spec => []SentIsSaved` |
| | `ReportedWhole` | `Spec => []ReportedIsWhole` |
| | `CallOffSticks` | at most `MaxHistory` batches imply `Spec => []CancelSticks` |
| `CapsLockProofs` | `Types` | `Spec => []TypeOK` |
| | `TwoAgree` | `Machine = {a, b}` implies `Spec => []Agreement` |
| | `OnePressOneChange` | `Spec => PressIsOneChange` |

**InjectLoop.** A release only undoes what the receiver remembers, so
`NothingHeldUnlessDriven` needs that receiver and OS agree (`osKeys = keys`,
`osButtons = buttons`); a repeat of a key that is not held would break that, so it needs
`RepeatIsHeld`; `ClicksWithinVisit` needs the same bound for the last click. There is a
lemma per receiver operator about what it keeps, and one about where it moves the
pointer: what the receiver releases is what is down, so it moves the pointer by a release
only if a button changes. `Implementation` maps the owner to the
driver while entered, and each action to `TakeOver`, `HandBack`, `Press`, `Lift` or a
stutter. The assumptions are those of `Wire`, `Receiver` and `InjectLoop`: an even
modulus of at least 4, a null driver and key outside their sets, disjoint keys and
buttons.

**Handover.** The runs have two machines; the theorems hold for any number of them, any
desk whose machines are not their own neighbours (`Beyond`, since `edge_crossing` never
answers with the display it starts from), any keys and buttons, and whatever is lost,
fails or is killed. A lemma per handler of `Controller` says where the pointer may go
(`Stays`, `Turns`), what it asks of the OS pointer (`PinRight`) and which routes it keeps
(`RoutesKept`); from these:
`PointerInv`, the types, a pointer only on machines of the desk, and `PinnedWhileAway`.
`HeldInv` adds that exactly what the user holds has a route, and exactly what this
machine's OS saw go down a route to here. A killed program forgets its routes while the
user goes on holding, so `LocalReleasesSeen` and
`HeldButtonKeepsPointer` are proved for runs in which none is killed (`NotKilled`),
whatever else fails; the run that checks them has no failures.
`LinkInv` looks ahead in what is on its way: `UpAfter` is what a run loop will know of a
connection after hearing so much of it, and at the end of the queue that is whether the
network task runs a session (`active`), which for a connection in `up` both ends do
(`NetInv`); an `Enter` is heard only while its sender has a session (`EntersUp`),
since what a replaced or failed connection still delivers comes before the news.
`LayoutInv` says the last layout queued for the capture thread, or else the one it has, is
the session table; `DriverInv` that whoever has no session and is driver here, or has an
`Enter` in the injection thread's queue, has its `Disconnected` further back in it. When
everything has been heard, and every end noticed, these are `DeskFollowsConnections` and
`LostPeerLetsGo`. A killed machine's empty table and queues satisfy them as well. What a
step does to one queue of messages is one of a few things (`NetStep`), and each of these
invariants needs to be shown to survive just those.
`Clash` is behind `NoMutualDriving`: of two machines that drive each other, one is
`Recalled`, that is, an `Enter`, a `Yield` or the end of the connection is on its way to
it, or queued for its capture thread, or it has yet to notice that end (`Stale`). A user
step that leaves a machine driving a peer has put an `Enter` behind what was on its way
there, or it was driving before (`DriveTold`, from a lemma per handler about what it sends:
`Visits`); no other step makes a machine drive (`DriveKept`); and what recalls a machine is
used up only in taking its pointer home (`RecalledStays`). A machine that drives a peer it
is cut off from is recalled too (`CutOff`): by the last layout in its queue, whose
existence follows from the well-foundedness of the numbers (`Least`). A replaced session
adds a case: the machine that has not heard the new `Connected` says what nobody hears.
`Unaware` says of it that a dialer which drives it meanwhile is recalled itself, or has put
an `Enter` behind that `Connected`.
`VisitsKept` is behind `DriverDrives`: a driver that is not recalled is `Awaited` by the
machine it drives. Either its last `Enter` is still on its way there with no `Leave` or
end of the connection behind it, or none of these is on its way and the injection thread,
once it has handled what it has queued, will have let it in (`InAfter`), or will end the
visit by local input on the way and say so (`InOrTold`). That `Yield` is sent needs the
two to be connected just then, which a driver that is not recalled is (`BothConnected`).
Two steps break the invariant, and the theorem excludes no others: a dialer is back
before the driver noticed that it was gone, and has forgotten it (`NotReplaced`;
`MCReplaced` is the counterexample without it), and the injection thread gives a third
machine that enters the visit of the first, who is not told either (`Uncontested`,
`run/input.rs:32`). Losses, kills and connections that come back after both have noticed
are all in. Between two machines there is no third, so `DriverHasItOfTwo` needs the first
condition only; in the run `handover` nothing fails and it holds.

**Capture.** `Good` says of a thread's state which modes go together (`ModeOK`: pinned
exactly on a peer's screens, parked only there, on a portal only at its peer), who is
driven (`DrivenOK`), that only the peer the pointer is on has routes, and none while
parked (`KeysOK`), and that routes are of what the user holds (`DownOK`). `KeysOK` is what
`HeldWhereItWentDown` lacks: a `Leave` empties the peer it goes to, and no other peer may
have had anything. `JumpOK`, a jump is pending on macOS only while the warp is remembered
or the two are `mixed`, carries `OnlyPushesCross`, which claims nothing of motion from
before a warp, of a peer's under way, and of the next event after these. `RunLoopOK` says
what the run loop knows beside it: that a peer it is losing has no connection, and that
one that connects was not on the desk. A lemma per operator of `Portal` shows that it
keeps `Good`; where the desk or a connection changes first, from the weaker `DeskOK`. The
assumptions: the words of routes and goals are not peers, and for `DragStays` the setting
`block_switch_while_button_held`, which the code has on by default and without which the
property is not meant to hold.

**Pairing.** A connection is `Honest` when what each end said, heard and has come to fits
together; `Offers` ties a dialog and a message of the app to the end that waits for it;
`BothGoOn` says that without trouble an end saves only if the other does; and a machine
that may connect without being saved is one that is just being allowed.

**Sessions.** `Known` is what a machine will know of the other's screens once it has read
what is on its way. `Announced`: it is what the other has, or what it put in its hello and
will correct when it enters the hub. `Told` says the same of what the run loop was told.
`OneConnection` and `DialerToldRight` need one dial loop per peer, hence
`NotWhileDialling`: a machine does not save a pairing again while it still dials that
peer. The code does not prevent it, and then both fail (`MCRePaired`, above); the run
`sessions` lets each machine pair once. Types, table and screens need no such condition.

**Stream.** From decoder to encoder every frame on its way is a keyframe or was encoded
after the one before it (`Chain`), across wire, sender, queue and the frame in the
encoder; a queue that needs a keyframe takes no other, and a decoder out of step takes no
other (`Any`).

**Files.** `Ahead`, `Before`: where a sender is in its batch says how far each stream can
be. `Goods` and `Counted`: what a batch counts as done are files that were saved and whose
completion was read, for this generation and not for an earlier batch of the name.
Of what is on the disk two more invariants speak. `Together`: a batch is saved under one
generation. A batch called off on the way may be opened again by what arrives late, and
then its files would lie in two folders; but of such a batch the sender has an entry that
is not saved and never will be (`CalledOff`, `LostBehind`), so of a batch without one
every answered entry has the same generation (`OneGeneration`). `DiskInv`: every entry
begun is where its stream says, whole once it is saved (`OnDisk`); an open batch's folders
are on disk and two of them differ in name exactly if they do in path (`FoldersThere`);
what a stream of the open generation was given lies in the folder the batch made for it
(`FoldersHold`, `RootsHold`); and entries of one generation lie together as their names
do (`Alike`). `Reserve` goes down a name component after component; `Descended` says what
holds of the disk and the folders after so many of them, for any name, and with it no
file is ever given a path that is taken. `Collected` asks only that names have components:
they may be the same, lead into each other and clean alike, and nothing relates the order
of a selection to them. Then "as their names do" means: two folders on the disk are one
exactly if their components, as `safe_parts` takes names apart, are the same, and a file
shares its path with nothing.
`CallOffSticks` needs that the list of called-off batches forgets none: the code keeps
256, so it holds for as many batches as are called off before one is forgotten.

**Caps Lock.** `Meet` says of two machines and what is on its way each way: what each will
have after hearing the last of it is the same state, at the same clock, or a tie that both
settle alike. `Growing` keeps clocks on the way in order. `OnePressOneChange` follows one
press through any number of machines: `Quietly` nobody has pressed, `Unread` the machine
with the press has not looked, `Spread` the change is everywhere newer than anything else.
For three machines `Agreement` is false (`MCCapsThree`), and no theorem says it.

### Met on the way

Attempts that failed told something of the model, and of the code:

- Guards of `PeerPointer` and `SetLayout` in `Portal`, and of `Become` in `Capture`,
  overlapped, which leaves a `CASE` open in TLA+ though TLC takes the first: made disjoint.
  The words for routes and goals were not said to differ from peers: an assumption now.
- `DialerToldRight` resisted where the dial loop of a forgotten pairing survives: with
  that loop TLC finds it violated too, in the configuration of `MCRePaired`.
- Nothing in `Handover` said that a display is not its own neighbour (`Beyond`); with one
  that is, a pointer would enter its own machine. `edge_crossing` skips the display it
  starts from: an assumption now.

### Only model-checked

- Liveness under fairness, which the prover does not do: `PointerComesHome`,
  `EventuallyAgree`, `EventuallyInTouch`, `StillIsSharp`, both `ComesToRest`.
  `StillIsSharp` claims nothing until a picture of the size of the tracks has come since
  the last reconfiguration.
- The properties of `Desk` and `Extend`. They are worded for any number of machines and
  viewers: a machine that is off may hold a choice nobody has heard of, and a viewer
  whose display another one took is not told, nor when that one lets go of it
  (`run.rs:527`); `NewestChoiceRules` and `ViewedIsHosted` claim nothing then.

No module uses a RECURSIVE operator.

## Not modelled

- The engine's tasks that start and stop sharing at once, and reading and writing
  the settings file: in `Desk` a stop has ended before sharing starts.
- Three machines in `Handover`: at two inputs each they are beyond TLC. `InjectLoop`
  has two peers, so that input of a first driver is ignored once a second entered is
  checked there; that the first is not told is what `DriverHasIt` assumes away. Its proof
  is for any number of machines.
- Changes of the key remap while a remapped key is held (`controller.rs:1104`).
- A push distance below the activity threshold (`activity.rs:29`): `Handover` counts
  both in the same steps.
- What is done with received files, progress and speed; statistics of streams.
- Discovery, relays and paths of connections; the encoding of messages.
- The OS calls of the backends, GPU code; the user interface's layout
  and wording, the tray, the self-restart; the command line; tables of key codes.
