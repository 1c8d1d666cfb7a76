-------------------------------- MODULE Desk --------------------------------
(***************************************************************************)
(* What connected machines share besides input: where they sit (Layout),     *)
(* which of them may drive the others, and the clipboard (Clipboard).        *)
(*                                                                         *)
(* Settings are edited in transactions that save before they publish         *)
(* (legato-engine/src/lib.rs); the run loop (run.rs) works with a copy until *)
(* it notices.  Messages between two machines arrive in order, with the      *)
(* beginning and end of their connection among them; a clipboard travels on  *)
(* a stream of its own.                                                    *)
(***************************************************************************)
EXTENDS Layout

CONSTANTS
    Machines, Anyone,
    Screens,        \* [Machines -> the displays each may have]
    FirstScreens,   \* [Machines -> the displays each has at first]
    FirstPlaces,    \* [Machines -> [Machines -> neighbors in legato.toml]]
    Drops,          \* where a machine is dropped in the editor
    Windows,        \* where else than on a whole display a Mac's extra one is shown
    ExtraSizes,     \* ... and its size on the Mac
    Contents, Nothing,
    Clocks,         \* readings of the machines' clocks
    MaxEvents       \* bound: things users and the network do

ASSUME DeskAssumption ==
    /\ Clocks \subseteq Nat /\ MaxEvents \in Nat
    /\ Anyone \notin Machines /\ Nothing \notin Contents

C == INSTANCE Clipboard

VARIABLES
    config,     \* [Machines -> settings, saved and published]
    displays,   \* [Machines -> what the OS reports]
    loop,       \* [Machines -> what the run loop knows]
    known,      \* [Machines -> [Machines -> displays last seen of a peer]]
    links,      \* connected pairs
    net,        \* [from -> [to -> messages]]
    clip,       \* [Machines -> clipboard and its watcher]
    copied,     \* [Machines -> copies not yet seen by the run loop]
    blobs,      \* clipboards on their way
    events,     \* how much was done
    history     \* what users did: for the properties only

vars == <<config, displays, loop, known, links, net, clip, copied, blobs, events, history>>

NoPeer == [connected |-> FALSE]
Peer(screens, placedUs) == [connected |-> TRUE, screens |-> screens, placedUs |-> placedUs]
Mode(who, at) == [who |-> who, at |-> at]

(* The messages of Control; a session starts with the peer's Hello.         *)
HelloMsg(screens) == [kind |-> "connected", screens |-> screens]
ScreensMsg(screens) == [kind |-> "screens", screens |-> screens]
PlacementMsg(place) == [kind |-> "placement", place |-> place]
ControlModeMsg(mode) == [kind |-> "control", mode |-> mode]

(* Sharing starts with the settings and displays of the moment.              *)
NewLoop(c, screens) ==
    [on |-> TRUE, config |-> c, screens |-> screens, peers |-> [p \in Machines |-> NoPeer],
     layout |-> [p \in Machines |-> Nowhere]]

FirstConfig(m) == [places |-> FirstPlaces[m], control |-> Mode(Anyone, 0), clipboard |-> TRUE]

Init ==
    /\ config = [m \in Machines |-> FirstConfig(m)]
    /\ displays = FirstScreens
    /\ loop = [m \in Machines |-> NewLoop(FirstConfig(m), FirstScreens[m])]
    /\ known = [m \in Machines |-> [p \in Machines |-> Nothing]]
    /\ links = {}
    /\ net = [m \in Machines |-> [p \in Machines |-> <<>>]]
    /\ clip = [m \in Machines |-> C!Watcher(Nothing)]
    /\ copied = [m \in Machines |-> <<>>]
    /\ blobs = {}
    /\ events = 0
    /\ history = [modes |-> {Mode(Anyone, 0)}, unsaved |-> FALSE, copies |-> {},
                  alone |-> Nothing, drops |-> [m \in Machines |-> [p \in Machines |-> Nothing]]]

(* A watcher that is new, or failed to write, takes what is there for its     *)
(* machine's own.                                                           *)
Owned(ms) == {<<m, clip[m].content>> : m \in ms}

Event == events < MaxEvents /\ events' = events + 1

Peers(m) == {p \in Machines : loop[m].peers[p].connected}

(* Nothing is left to do for anyone.                                         *)
Settled ==
    /\ \A m \in Machines :
        /\ loop[m].on => /\ loop[m].config = config[m] /\ loop[m].screens = displays[m]
                         /\ \A p \in Machines : loop[p].on /\ p # m => {m, p} \in links
        /\ copied[m] = <<>> /\ C!Idle(clip[m])
        /\ \A p \in Machines : net[m][p] = <<>>
    /\ blobs = {}

-----------------------------------------------------------------------------
(* What the run loop sends. *)

Nothings == [p \in Machines |-> <<>>]

Arranged(l) ==
    [p \in Machines |->
        IF l.peers[p].connected
        THEN Build(l.screens, l.peers[p].screens, l.config.places[p], l.peers[p].placedUs)
        ELSE Nowhere]

(* A peer is told its place if it is placed here, and not after its own.     *)
Placement(l, p) ==
    PlacementMsg(IF l.config.places[p].kind = "none" THEN Nowhere ELSE Arranged(l)[p])

(* Mutant: the place told is the one before. *)
RelayoutLate(m, l, queues, first) ==
    /\ loop' = [loop EXCEPT ![m] = [l EXCEPT !.layout = Arranged(l)]]
    /\ net' = [queues EXCEPT ![m] = [p \in Machines |->
          IF {m, p} \in links /\ l.peers[p].connected
          THEN Append(@[p] \o first[p],
                      Placement(IF loop[m].peers[p].connected THEN loop[m] ELSE l, p))
          ELSE @[p]]]

(* relayout, after other messages; sessions that have ended swallow them.     *)
Relayout(m, l, queues, first) ==
    /\ loop' = [loop EXCEPT ![m] = [l EXCEPT !.layout = Arranged(l)]]
    /\ net' = [queues EXCEPT ![m] = [p \in Machines |->
          IF {m, p} \in links /\ l.peers[p].connected
          THEN Append(@[p] \o first[p], Placement(l, p)) ELSE @[p]]]

(* Which machines' screens the pointer of a machine may be taken to.          *)
Allows(mode, m) == mode.who \in {Anyone, m}
Reach(m) ==
    IF loop[m].on /\ Allows(loop[m].config.control, m)
    THEN {p \in Peers(m) : loop[m].layout[p].placed} ELSE {}

-----------------------------------------------------------------------------
(* The run loop notices changes made on its own machine. *)

ScreensChanged(m) ==
    /\ loop[m].on /\ loop[m].screens # displays[m]
    /\ Relayout(m, [loop[m] EXCEPT !.screens = displays[m]], net,
                [p \in Machines |-> <<ScreensMsg(displays[m])>>])
    /\ UNCHANGED <<config, displays, known, links, clip, copied, blobs, events, history>>

ConfigChanged(m) ==
    LET old == loop[m].config
        new == config[m]
        restart == new.clipboard # old.clipboard
    IN  /\ loop[m].on /\ old # new
        /\ restart => C!CanStop(clip[m])
        /\ clip' = IF ~restart THEN clip
                   ELSE [clip EXCEPT ![m] = IF new.clipboard THEN C!Start(@) ELSE C!Stop(@)]
        /\ Relayout(m, [loop[m] EXCEPT !.config = new], net,
             [p \in Machines |-> IF new.control = old.control THEN <<>>
                                 ELSE <<ControlModeMsg(new.control)>>])
        /\ history' = IF restart THEN [history EXCEPT !.copies = @ \cup Owned({m})] ELSE history
        /\ UNCHANGED <<config, displays, known, links, copied, blobs, events>>

(* Mutant: only machines on the desk get a copy. *)
SendToNeighbors(m) ==
    /\ loop[m].on /\ copied[m] # <<>>
    /\ blobs' = blobs \cup
         {[from |-> m, to |-> p, content |-> Head(copied[m]), event |-> events] :
            p \in {q \in Peers(m) : {m, q} \in links /\ loop[m].layout[q].placed}}
    /\ copied' = [copied EXCEPT ![m] = Tail(@)]
    /\ UNCHANGED <<config, displays, loop, known, links, net, clip, events, history>>

SendCopied(m) ==
    /\ loop[m].on /\ copied[m] # <<>>
    /\ blobs' = blobs \cup
         {[from |-> m, to |-> p, content |-> Head(copied[m]), event |-> events] :
            p \in {q \in Peers(m) : {m, q} \in links}}
    /\ copied' = [copied EXCEPT ![m] = Tail(@)]
    /\ UNCHANGED <<config, displays, loop, known, links, net, clip, events, history>>

-----------------------------------------------------------------------------
(* ... and what its peers tell. *)

OnConnected(m, p, msg, rest) ==
    /\ Relayout(m, [loop[m] EXCEPT !.peers[p] = Peer(msg.screens, Nowhere)], rest,
                [Nothings EXCEPT ![p] = <<ControlModeMsg(loop[m].config.control)>>])
    /\ known' = [known EXCEPT ![m][p] = msg.screens]
    /\ UNCHANGED <<config, events, history>>

OnScreens(m, p, msg, rest) ==
    /\ Relayout(m, [loop[m] EXCEPT !.peers[p].screens = msg.screens], rest, Nothings)
    /\ known' = [known EXCEPT ![m][p] = msg.screens]
    /\ UNCHANGED <<config, events, history>>

(* Mutant: a placement that changes nothing is answered all the same. *)
OnPlacementAlways(m, p, msg, rest) ==
    /\ Relayout(m, [loop[m] EXCEPT !.peers[p].placedUs = msg.place], rest, Nothings)
    /\ UNCHANGED <<config, known, events, history>>

OnPlacement(m, p, msg, rest) ==
    /\ IF loop[m].peers[p].placedUs = msg.place
       THEN net' = rest /\ UNCHANGED loop
       ELSE Relayout(m, [loop[m] EXCEPT !.peers[p].placedUs = msg.place], rest, Nothings)
    /\ UNCHANGED <<config, known, events, history>>

(* Mutant: a change is compared with the run loop's copy, and put into it. *)
ApplyToCopy(m, mode) ==
    IF mode.at > loop[m].config.control.at
    THEN [loop[m].config EXCEPT !.control = mode] ELSE config[m]

(* apply_control_mode: the newer change, in the settings of the moment.      *)
Apply(m, mode) ==
    IF mode.at > config[m].control.at THEN [config[m] EXCEPT !.control = mode] ELSE config[m]

(* ... which may fail to be saved.                                           *)
OnControl(m, p, msg, rest) ==
    /\ \/ config' = [config EXCEPT ![m] = Apply(m, msg.mode)] /\ UNCHANGED <<events, history>>
       \/ /\ Apply(m, msg.mode) # config[m] /\ Event
          /\ history' = [history EXCEPT !.unsaved = TRUE] /\ UNCHANGED config
    /\ net' = rest
    /\ UNCHANGED <<loop, known>>

OnDisconnected(m, p, msg, rest) ==
    /\ Relayout(m, [loop[m] EXCEPT !.peers[p] = NoPeer], rest, Nothings)
    /\ UNCHANGED <<config, known, events, history>>

Hear(m, p) ==
    /\ loop[m].on /\ net[p][m] # <<>>
    /\ LET msg == Head(net[p][m])
           rest == [net EXCEPT ![p][m] = Tail(@)]
       IN  \/ msg.kind = "connected" /\ OnConnected(m, p, msg, rest)
           \/ msg.kind = "screens" /\ OnScreens(m, p, msg, rest)
           \/ msg.kind = "placement" /\ OnPlacement(m, p, msg, rest)
           \/ msg.kind = "control" /\ OnControl(m, p, msg, rest)
           \/ msg.kind = "disconnected" /\ OnDisconnected(m, p, msg, rest)
    /\ UNCHANGED <<displays, links, clip, copied, blobs>>

(* Streams arrive in any order.                                              *)
HearBlob(b) ==
    /\ loop[b.to].on
    /\ clip' = [clip EXCEPT ![b.to] = C!Set(@, b.content)]
    /\ blobs' = blobs \ {b}
    /\ UNCHANGED <<config, displays, loop, known, links, net, copied, events, history>>

-----------------------------------------------------------------------------
(* The clipboard watcher. *)

ClipWrites(m) ==
    /\ C!CanWrite(clip[m])
    /\ \/ clip' = [clip EXCEPT ![m] = C!Write(@)] /\ UNCHANGED <<events, history>>
       \/ /\ Event /\ clip' = [clip EXCEPT ![m] = C!WriteFails(@)]
          /\ history' = [history EXCEPT !.alone = Nothing, !.copies = @ \cup Owned({m})]
    /\ UNCHANGED <<config, displays, loop, known, links, net, copied, blobs>>

ClipCounts(m) ==
    /\ C!CanCount(clip[m])
    /\ clip' = [clip EXCEPT ![m] = C!Count(@)]
    /\ UNCHANGED <<config, displays, loop, known, links, net, copied, blobs, events, history>>

ClipReads(m) ==
    /\ C!CanRead(clip[m])
    /\ clip' = [clip EXCEPT ![m] = C!Read(@)]
    /\ copied' = IF C!Copied(clip[m])
                 THEN [copied EXCEPT ![m] = Append(@, clip[m].content)] ELSE copied
    /\ UNCHANGED <<config, displays, loop, known, links, net, blobs, events, history>>

-----------------------------------------------------------------------------
(* What users and the network do. *)

Edit(m, new) ==
    /\ new # config[m] /\ Event
    /\ config' = [config EXCEPT ![m] = new]
    /\ UNCHANGED <<displays, loop, known, links, net, clip, copied, blobs>>

(* The arrangement editor knows the displays of peers seen once.             *)
DropPeer(m, p) ==
    /\ m # p /\ known[m][p] # Nothing
    /\ \E place \in {Snap(displays[m], [Bounds(known[m][p]) EXCEPT !.x = at.x, !.y = at.y]) :
                      at \in Drops} :
         /\ place.placed
         /\ Edit(m, [config[m] EXCEPT !.places[p] = At(place)])
    /\ history' = [history EXCEPT !.drops[m][p] = <<displays[m], known[m][p]>>]

(* Several changes within a second are still newer, each than the one before. *)
SetController(m) ==
    \E who \in Machines \cup {Anyone}, now \in Clocks :
        LET mode == Mode(who, Max({now, config[m].control.at + 1}))
        IN  /\ Edit(m, [config[m] EXCEPT !.control = mode])
            /\ history' = [history EXCEPT !.modes = @ \cup {mode}]

ShareClipboard(m) ==
    /\ Edit(m, [config[m] EXCEPT !.clipboard = ~@])
    /\ history' = [history EXCEPT !.alone = Nothing]

Plug(m) ==
    /\ Event
    /\ \E s \in Screens[m] \ {displays[m]} : displays' = [displays EXCEPT ![m] = s]
    /\ UNCHANGED <<config, loop, known, links, net, clip, copied, blobs, history>>

Rewrite(m) ==
    /\ clip[m].content # Nothing /\ Event
    /\ clip' = [clip EXCEPT ![m] = C!Rewrite(@)]
    /\ UNCHANGED <<config, displays, loop, known, links, net, copied, blobs, history>>

(* A copy made while nothing else is under way is all machines' to have,     *)
(* unless its maker holds it from a peer already.                            *)
Copy(m) ==
    \E content \in Contents :
        LET alone == /\ Settled /\ content # clip[m].fromPeer
                     /\ \A p \in Machines : loop[p].on /\ clip[p].on
        IN  /\ Event
            /\ clip' = [clip EXCEPT ![m] = C!Copy(@, content)]
            /\ history' = [history EXCEPT !.copies = @ \cup {<<m, content>>},
                                          !.alone = IF alone THEN content ELSE Nothing]
            /\ UNCHANGED <<config, displays, loop, known, links, net, copied, blobs>>

Start(m) ==
    /\ ~loop[m].on
    /\ loop' = [loop EXCEPT ![m] = NewLoop(config[m], displays[m])]
    /\ clip' = IF config[m].clipboard THEN [clip EXCEPT ![m] = C!Start(@)] ELSE clip
    /\ history' = [history EXCEPT !.copies = @ \cup Owned({m})]
    /\ UNCHANGED <<config, displays, known, links, net, copied, blobs, events>>

(* Both have noticed the end of the connection before.                       *)
Connect(m, p) ==
    /\ m # p /\ {m, p} \notin links /\ loop[m].on /\ loop[p].on
    /\ net[m][p] = <<>> /\ net[p][m] = <<>>
    /\ ~loop[m].peers[p].connected /\ ~loop[p].peers[m].connected
    /\ links' = links \cup {{m, p}}
    /\ net' = [net EXCEPT ![m][p] = <<HelloMsg(loop[m].screens)>>,
                          ![p][m] = <<HelloMsg(loop[p].screens)>>]
    /\ UNCHANGED <<config, displays, loop, known, clip, copied, blobs, events, history>>

(* What has not arrived is lost.                                             *)
Ended(queue, heard) ==
    Append(SubSeq(queue, 1, heard), [kind |-> "disconnected"])

LinkFails(m, p) ==
    /\ m # p /\ {m, p} \in links /\ Event
    /\ links' = links \ {{m, p}}
    /\ \E i \in 0..Len(net[m][p]), j \in 0..Len(net[p][m]) :
         net' = [net EXCEPT ![m][p] = Ended(@, i), ![p][m] = Ended(@, j)]
    /\ blobs' = {b \in blobs : {b.from, b.to} # {m, p}}
    /\ history' = [history EXCEPT !.alone = Nothing]
    /\ UNCHANGED <<config, displays, loop, known, clip, copied>>

(* Sharing stops: the run loop is gone, and its sessions with it.            *)
Stop(m) ==
    /\ loop[m].on /\ C!CanStop(clip[m]) /\ Event
    /\ loop' = [loop EXCEPT ![m] = [NewLoop(config[m], displays[m]) EXCEPT !.on = FALSE]]
    /\ clip' = [clip EXCEPT ![m] = C!Stop(@)]
    /\ copied' = [copied EXCEPT ![m] = <<>>]
    /\ links' = {l \in links : m \notin l}
    /\ net' = [q \in Machines |-> [p \in Machines |->
         CASE p = m -> <<>>
           [] q = m /\ {m, p} \in links -> Ended(net[q][p], Len(net[q][p]))
           [] OTHER -> net[q][p]]]
    /\ blobs' = {b \in blobs : m \notin {b.from, b.to}}
    /\ history' = [history EXCEPT !.alone = Nothing]
    /\ UNCHANGED <<config, displays, known>>

-----------------------------------------------------------------------------

Program ==
    \/ \E m \in Machines : \/ ScreensChanged(m) \/ ConfigChanged(m) \/ SendCopied(m)
                           \/ ClipWrites(m) \/ ClipCounts(m) \/ ClipReads(m)
    \/ \E m, p \in Machines : Hear(m, p) \/ Connect(m, p)
    \/ \E b \in blobs : HearBlob(b)

World ==
    \/ \E m \in Machines : \/ SetController(m) \/ ShareClipboard(m) \/ Plug(m) \/ Copy(m) \/ Rewrite(m)
                           \/ Start(m) \/ Stop(m)
    \/ \E m, p \in Machines : DropPeer(m, p) \/ LinkFails(m, p)

Next == Program \/ World

Spec == Init /\ [][Next]_vars

(* Run loops, watchers and dial loops run on; users and the network owe nothing. *)
FairSpec == Spec /\ WF_vars(Program)

-----------------------------------------------------------------------------

(* "The most recent change wins everywhere" (config.rs): once nothing is under *)
(* way, and none is off that may have a newer one, every machine has, and goes *)
(* by, a newest choice.  Machines that chose in the same second may differ.    *)
NewestChoiceRules ==
    Settled /\ ~history.unsaved /\ (\A m \in Machines : loop[m].on) =>
        \A m \in Machines :
            /\ config[m].control \in history.modes
            /\ \A mode \in history.modes : mode.at <= config[m].control.at
            /\ Reach(m) # {} => Allows(config[m].control, m)

(* Only what a user copied on a machine leaves it: what a peer put there is   *)
(* not sent on, however copies, writes, polls and clipboard managers mix      *)
(* (clipboard.rs).  A watcher that starts, or failed to write, forgets whose   *)
(* the content is.                                                           *)
OnlyCopiesAreSent ==
    \A b \in blobs : <<b.from, b.content>> \in history.copies

(* A copy made while all is quiet is on every clipboard in the end.           *)
CopyArrives ==
    Settled /\ history.alone # Nothing =>
        \A m \in Machines : clip[m].content = history.alone

(* What users copy, and only that, gets round.                                *)
CopiesGetRound == OnlyCopiesAreSent /\ CopyArrives

(* Shared edges are for the pointer to cross.                                 *)
Touch(a, b) ==
    /\ ~Overlap(a, b)
    /\ \/ Overlap(a, Box(b.x - 1, b.y, b.w + 2, b.h))
       \/ Overlap(a, Box(b.x, b.y - 1, b.w, b.h + 2))

(* A machine dropped in the editor sits flush with a display and covers none, *)
(* until displays change.                                                    *)
DropsTouch ==
    \A m, p \in Machines :
        LET rects == DeskRects(displays[m], Place(0, 0))
            at == config[m].places[p]
        IN  at.kind = "at" /\ history.drops[m][p] = <<displays[m], known[m][p]>> =>
               LET box == [Bounds(known[m][p]) EXCEPT !.x = at.place.x, !.y = at.place.y]
               IN  /\ \A r \in rects : ~Overlap(r, box)
                   /\ \E r \in rects : Touch(r, box)

(* A Mac's extra display, wherever it is shown, touches the Mac's main display *)
(* and covers none of it; and what is shown straight above, below, left or     *)
(* right of the main display on the desk is there on the Mac as well.          *)
ExtraIsBeside ==
    \A m \in Machines : \A p \in Peers(m) :
        LET mac == loop[m].peers[p].screens
            main == mac.displays[Main(mac)]
            o == loop[m].layout[p]
        IN  o.placed =>
              \A area \in Windows \cup Range(loop[m].screens.displays), size \in ExtraSizes :
                \A extra \in {PlaceExtraDisplay(loop[m].screens, mac, o, area, size)} :
                  LET shown == Shown(loop[m].screens, area)
                      desk == DeskRect(mac, o, Main(mac))
                  IN  /\ Touch(extra, main)
                      /\ shown.x < Right(desk) /\ desk.x < Right(shown) =>
                            /\ Bottom(shown) <= desk.y => Bottom(extra) = main.y
                            /\ shown.y >= Bottom(desk) => extra.y = Bottom(main)
                      /\ shown.y < Bottom(desk) /\ desk.y < Bottom(shown) =>
                            /\ Right(shown) <= desk.x => Right(extra) = main.x
                            /\ shown.x >= Right(desk) => extra.x = Right(main)

(* Whatever is placed shares an edge for the pointer to cross: machines       *)
(* dropped on the desk (snap.rs) and extra displays on their Mac (extend.rs,   *)
(* place_extra_display), for every arrangement and set of displays that the   *)
(* machines come to.                                                         *)
EdgesAreShared == DropsTouch /\ ExtraIsBeside

(* Machines that answer each other's placements and clipboards come to an end  *)
(* of it, and then a machine that has no arrangement of a peer's own mirrors  *)
(* the one the peer made: what is to the right there has this machine to its  *)
(* left (run.rs, relayout and Placement).                                    *)
ComesToRest ==
    <>[](/\ Settled
         /\ \A m, p \in Machines :
              /\ {m, p} \in links
              /\ config[p].places[m].kind = "none" /\ config[m].places[p].kind # "none"
              => loop[p].layout[m] = Mirrored(loop[m].layout[p]))
=============================================================================
