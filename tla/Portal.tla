-------------------------------- MODULE Portal --------------------------------
(***************************************************************************)
(* The controlling side of a machine that shows a peer's display in a      *)
(* window (its portal), or has a display of its own shown by a peer        *)
(* (legato-core/src/controller.rs), and what its capture backend does with *)
(* the controller's actions (legato-windows/src/capture.rs drain and       *)
(* apply, legato-macos/src/capture.rs apply).                              *)
(*                                                                         *)
(* A capture thread is a record; each operator is the effect of one event, *)
(* the actions the backend performs and what they do to the peers          *)
(* included: a message sent over a connection that is up is handled there  *)
(* at once (Handover has the messages on their way).  Screens are not      *)
(* drawn: where a motion leads is the caller's choice, among the outcomes  *)
(* the code tells apart.  Controller has the desk, the push against an     *)
(* edge and the reports of the pointer, which are left out here.           *)
(***************************************************************************)
EXTENDS FiniteSets

CONSTANTS
    Peer,
    NoPeer,         \* None, where a peer is expected
    Key, Button,
    Left,           \* the button that drags
    BlockWhileHeld  \* config: no crossing while a button is held

ASSUME PortalAssumption ==
    /\ NoPeer \notin Peer
    /\ Left \in Button
    /\ Key \cap Button = {}
    /\ BlockWhileHeld \in BOOLEAN
    \* Words for where input or the pointer goes are not peers.
    /\ {"none", "local", "dropped", "stay", "portal", "shown"}
         \cap (Peer \union {NoPeer}) = {}

Input == Key \union Button
Home == NoPeer      \* this machine, as what a crossing leads to

(* Where a key or button went: nowhere yet, here, to a peer, or to a peer   *)
(* that has released it since.                                              *)
Route == {"none", "local", "dropped"} \union Peer

CaptureState ==
    [ windows  : BOOLEAN,                   \* the backend: Windows or macOS
      on       : {"local", "remote", "portal"},
      peer     : Peer \union {NoPeer},      \* the one the pointer is on
      idle     : BOOLEAN,                   \* parked there
      portal   : Peer \union {NoPeer},      \* whose display is shown here
      shown    : Peer \union {NoPeer},      \* who shows a display of ours
      layout   : SUBSET Peer,
      routes   : [Input -> Route],
      carrying : BOOLEAN,
      pin      : BOOLEAN,
      window   : {"hidden", "cover", "catcher"},
      peerMoved: BOOLEAN,
      warpedTo : BOOLEAN,                   \* macOS: Some
      \* What the code cannot see:
      jump     : BOOLEAN,       \* the next motion event holds more than the
                                \* user's motion (raw, or the jump of a warp)
      mixed    : BOOLEAN,       \* macOS: what is remembered of the warp and the
                                \* next motion event do not belong together
      down     : SUBSET Input,  \* what the user holds
      here     : SUBSET Input,  \* what this machine's applications saw pressed
      up       : SUBSET Peer,   \* connections
      driven   : SUBSET Peer,   \* peers whose driver is this machine
      held     : [Peer -> SUBSET Input] ]   \* what is injected down there

NewCapture(windows) ==
    [ windows |-> windows, on |-> "local", peer |-> NoPeer, idle |-> FALSE,
      portal |-> NoPeer, shown |-> NoPeer, layout |-> {},
      routes |-> [i \in Input |-> "none"], carrying |-> FALSE,
      pin |-> FALSE, window |-> "hidden", peerMoved |-> FALSE,
      warpedTo |-> FALSE, jump |-> FALSE, mixed |-> FALSE, down |-> {}, here |-> {},
      up |-> {}, driven |-> {}, held |-> [p \in Peer |-> {}] ]

-----------------------------------------------------------------------------

(***************************************************************************)
(* Messages to a peer.  A connection that is gone loses them; a peer this  *)
(* machine does not drive ignores its keys and buttons (Receiver).         *)
(***************************************************************************)
SendEnter(s, p) == IF p \in s.up THEN [s EXCEPT !.driven = @ \union {p}] ELSE s

SendLeave(s, p) ==
    IF p \in s.driven
      THEN [s EXCEPT !.driven = @ \ {p}, !.held[p] = {}]
      ELSE s

SendPress(s, p, i) ==
    IF p \in s.driven THEN [s EXCEPT !.held[p] = @ \union {i}] ELSE s

SendRelease(s, p, i) == [s EXCEPT !.held[p] = @ \ {i}]

-----------------------------------------------------------------------------

(***************************************************************************)
(* The controller's actions for the backend.  The cover is the invisible   *)
(* window that hides the pinned cursor (on macOS, CGDisplayHideCursor);    *)
(* the catcher is the same window, waiting for a drag.                     *)
(***************************************************************************)
Warped(s) ==
    IF s.windows THEN s
    ELSE [s EXCEPT !.jump = TRUE, !.warpedTo = TRUE, !.mixed = FALSE]

(* Mutant: the first motion after a warp is not measured from it. *)
CaptureUnwarped(s) ==
    [s EXCEPT !.pin = TRUE, !.peerMoved = FALSE, !.window = "cover",
              !.jump = ~s.windows, !.mixed = FALSE]

Capture(s) ==
    Warped([s EXCEPT !.pin = TRUE, !.peerMoved = FALSE, !.window = "cover"])

(* The cursor is put where the controller says, unless a peer put it        *)
(* somewhere while it was pinned.                                           *)
Release(s) ==
    Warped([s EXCEPT !.pin = FALSE, !.peerMoved = FALSE, !.window = "hidden"])

EnterPortal(s) == [s EXCEPT !.pin = FALSE, !.window = "hidden"]

(* The peer's pointer came across, and takes the cursor from where it was   *)
(* warped.  It does so on another thread, which may not have got to it yet. *)
Unpark(s) ==
    [s EXCEPT !.pin = FALSE, !.peerMoved = FALSE, !.window = "hidden",
              !.warpedTo = FALSE, !.mixed = ~s.windows /\ s.jump]

-----------------------------------------------------------------------------

(***************************************************************************)
(* Helpers of the handlers.                                                *)
(***************************************************************************)
CurrentRoute(s) == IF s.on = "local" THEN "local" ELSE s.peer

(* Mutant: only a drag on this machine counts. *)
NeverHolding(s, p) == FALSE

HoldingOn(s, p) == \E b \in Button : s.routes[b] = p

SwitchBlocked(s) ==
    /\ BlockWhileHeld
    /\ \E b \in Button : s.routes[b] # "none"
    /\ ~s.carrying

(* Mutant: the peer's keys are forgotten, not remembered as dropped. *)
ForgetRoutes(s, p) ==
    [s EXCEPT !.routes = [i \in Input |-> IF @[i] = p THEN "local" ELSE @[i]]]

DropRoutes(s, p) ==
    [s EXCEPT !.routes = [i \in Input |-> IF @[i] = p THEN "dropped" ELSE @[i]]]

ToLocal(s) == [s EXCEPT !.on = "local", !.peer = NoPeer, !.idle = FALSE]

ToRemote(s, p, idle) == [s EXCEPT !.on = "remote", !.peer = p, !.idle = idle]

ToPortal(s, p) == [s EXCEPT !.on = "portal", !.peer = p, !.idle = FALSE]

EnterPeer(s, p) == ToRemote(SendEnter(s, p), p, FALSE)

LeavePeer(s, p) == DropRoutes(SendLeave(s, p), p)

(* Mutant: the peer is not told. *)
LeavePortalSilently(s) == ToLocal(DropRoutes(s, s.peer))

LeavePortal(s) == ToLocal(LeavePeer(s, s.peer))

ExitToLocal(s, notify) ==
    LET left == IF notify THEN LeavePeer(s, s.peer) ELSE s
    IN CASE s.on = "portal" -> ToLocal(left)
         [] s.on = "remote" -> Release(ToLocal(left))
         [] OTHER           -> s

(* Own input while parked: take the pointer back. *)
Resume(s) ==
    IF s.on = "remote" /\ s.idle /\ s.peer \in s.layout
      THEN [SendEnter(s, s.peer) EXCEPT !.idle = FALSE]
      ELSE s

-----------------------------------------------------------------------------

(***************************************************************************)
(* The user's input.                                                       *)
(***************************************************************************)

(* portal_to_remote.  beside says that one of the peer's displays touches   *)
(* the edge the pointer goes past.                                          *)
PortalToRemote(s, beside) ==
    IF beside /\ s.portal = s.peer /\ s.peer \in s.layout
      THEN Capture(ToRemote(s, s.peer, FALSE))
      ELSE s

MayEnterPortal(s) ==
    s.portal # NoPeer /\ s.on # "remote" /\ s.portal \in s.layout

(* The pointer is on the portal's picture.  past: it was pushed far enough  *)
(* past an edge of the screens that leads to the same peer.                 *)
PortalMotion(s, past, beside) ==
    LET entered == IF s.on = "portal" THEN s ELSE SendEnter(s, s.portal)
        within  == ToPortal(entered, s.portal)
    IN IF ~MayEnterPortal(s) THEN s
       ELSE IF past THEN PortalToRemote(within, beside)
       ELSE within

(* The pointer moved on this machine's screens.  to: the peer past the edge *)
(* it was pushed far enough against, if any.                                *)
LocalMotion(s, to, beside) ==
    LET free == IF s.on = "portal" THEN LeavePortal(s) ELSE s
    IN IF s.on = "portal" /\ HoldingOn(s, s.peer) THEN PortalToRemote(s, beside)
       ELSE IF free.on # "local" \/ to = NoPeer \/ SwitchBlocked(free) THEN free
       ELSE Capture(EnterPeer(free, to))

(* remote_to_portal *)
RemoteToPortal(s) == EnterPortal(ToPortal(s, s.peer))

(* remote_to_shown: onto the picture of the display of ours the peer shows. *)
RemoteToShown(s) == Release(ToLocal(LeavePeer(s, s.peer)))

OntoPortal(s) == s.portal = s.peer /\ s.peer \in s.layout

OntoShown(s) == s.shown = s.peer /\ s.peer \in s.layout /\ ~HoldingOn(s, s.peer)

(* captured_motion once resumed, by where the pointer would go: on over the *)
(* peer's screens, onto a display shown here, or past an edge far enough    *)
(* (to Home or to another peer).                                            *)
MoveOn(s, goal) ==
    CASE goal = "portal" /\ OntoPortal(s) -> RemoteToPortal(s)
      [] goal = "shown" /\ OntoShown(s)   -> RemoteToShown(s)
      [] goal \in Peer \union {Home} /\ ~SwitchBlocked(s) ->
           IF goal = Home THEN Release(ToLocal(LeavePeer(s, s.peer)))
                          ELSE EnterPeer(LeavePeer(s, s.peer), goal)
      [] OTHER -> s

(* A key or button goes down.  A key that is down already is the keyboard's *)
(* auto-repeat, which changes nothing here.                                 *)
Press(s, i) ==
    LET awake == Resume(s)
        route == CurrentRoute(awake)
        known == [awake EXCEPT !.routes[i] = route]
    IN IF i \in Key /\ s.routes[i] # "none" THEN s
       ELSE IF route = "local" THEN [known EXCEPT !.here = @ \union {i}]
       ELSE SendPress(known, route, i)

(* It goes up where it went down.  With files carried, the left button      *)
(* drops them.                                                              *)
LetGo(s, i) ==
    LET route == IF s.routes[i] = "none" THEN CurrentRoute(s) ELSE s.routes[i]
        up    == [s EXCEPT !.routes[i] = "none", !.carrying = @ /\ i # Left]
    IN CASE route = "local"   -> [up EXCEPT !.here = @ \ {i}]
         [] route = "dropped" -> up
         [] OTHER             -> SendRelease(up, route, i)

-----------------------------------------------------------------------------

(***************************************************************************)
(* Events from the peers, and settings.                                    *)
(***************************************************************************)
PeerYield(s, p) ==
    DropRoutes(CASE s.on = "remote" /\ s.peer = p -> [s EXCEPT !.idle = TRUE]
                 [] s.on = "portal" /\ s.peer = p -> ExitToLocal(s, TRUE)
                 [] OTHER -> s, p)

PeerLost(s, p) ==
    DropRoutes(IF s.peer = p THEN ExitToLocal(s, FALSE) ELSE s, p)

PeerEntered(s, p) ==
    IF s.on = "remote" /\ s.peer = p THEN Unpark(ToLocal(s)) ELSE s

(* Where the peer's own mouse has its pointer: on the display shown here    *)
(* (the cursor here shows it) or on its own screens (park there).           *)
PeerPointer(s, p, onPortal) ==
    IF p \notin s.layout THEN s
    ELSE CASE s.on = "remote" /\ s.peer = p /\ s.idle /\ onPortal -> Unpark(ToLocal(s))
           [] s.on = "local" /\ ~onPortal -> Capture(ToRemote(s, p, TRUE))
           [] OTHER -> s

SetPortal(s, p) ==
    LET left == IF s.on = "portal" /\ s.peer # p THEN LeavePortal(s) ELSE s
    IN [left EXCEPT !.portal = p]

SetShown(s, p) == [s EXCEPT !.shown = p]

(* moved: this machine's own displays changed. *)
SetLayout(s, peers, moved) ==
    LET new == [s EXCEPT !.layout = peers]
    IN CASE s.on = "portal" /\ s.peer \notin peers -> LeavePortal(new)
         [] s.on = "remote" /\ s.peer \notin peers ->
              DropRoutes(ExitToLocal(new, TRUE), s.peer)
         [] s.on = "remote" /\ s.peer \in peers /\ moved -> Capture(new)
         [] OTHER -> new
=============================================================================
