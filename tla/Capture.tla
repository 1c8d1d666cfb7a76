-------------------------------- MODULE Capture --------------------------------
(***************************************************************************)
(* The capture thread of one machine: its hooks and event tap, the         *)
(* commands it takes from the run loop, and the user in front of it        *)
(* (legato-windows/src/capture.rs and drop.rs, legato-macos/src/           *)
(* capture.rs; the controller is Portal's).  Peers may take their pointer  *)
(* back, come across, or be lost at any moment; files may be dragged.      *)
(*                                                                         *)
(* The run loop's commands are taken in order; it sends nothing between    *)
(* the three commands that follow a lost connection.                       *)
(***************************************************************************)
EXTENDS Portal, Naturals

VARIABLES
    cap,        \* the thread's state and the peers' (Portal)
    zone,       \* where the cursor is, while it is not pinned
    entered,    \* WM_FILES_ENTERED is posted: a drag of files met our window
    known,      \* the run loop's peers
    parting,    \* the lost peer the run loop is busy with, and how far it is
    step        \* what the user just did: a Motion, or other

vars == <<cap, zone, entered, known, parting, step>>

(* brink: on the picture of a full-screen portal, at an edge of the screen. *)
Zone == {"desk", "edge", "picture", "brink", "shown"}
OnPicture == {"picture", "brink"}

Places(s) ==
    {"desk", "edge"} \union (IF s.portal # NoPeer THEN OnPicture ELSE {})
                     \union (IF s.shown # NoPeer THEN {"shown"} ELSE {})

(* The mouse moves, or pushes past an edge, or (late) did so before the     *)
(* cursor was last warped, and the event comes only now.                    *)
Motion == {"moved", "pushed", "late"}

NobodyParts == [peer |-> NoPeer, at |-> 0]

TypeOK ==
    /\ cap \in CaptureState
    /\ zone \in Zone
    /\ entered \in BOOLEAN
    /\ known \in SUBSET Peer
    /\ parting \in [peer : Peer \union {NoPeer}, at : 0 .. 2]
    /\ step \in Motion \union {"other"}

Init ==
    /\ cap \in {NewCapture(windows) : windows \in BOOLEAN}
    /\ zone = "desk"
    /\ entered = FALSE
    /\ known = {}
    /\ parting = NobodyParts
    /\ step = "other"

(* The cursor stays where it is unless it was let go somewhere, or what it  *)
(* was over is gone.                                                        *)
Become(s, at) ==
    /\ cap' = s
    /\ zone' \in IF cap.pin /\ ~s.pin THEN Places(s)
                ELSE IF ~s.pin /\ at \in Places(s) THEN {at} ELSE {"desk"}

-----------------------------------------------------------------------------

(***************************************************************************)
(* The user.                                                               *)
(***************************************************************************)

(* Whether a motion event says the user pushed past the edge.  On macOS the *)
(* first event after a warp is measured from where the warp put the cursor, *)
(* which is wrong of one from before the warp, and when a peer has moved    *)
(* the cursor since; the jump of the warp is in the first event the system  *)
(* made after it.  On Windows motion on this machine is the raw motion      *)
(* since the last one.                                                      *)
Reported(s, motion) ==
    IF \/ motion = "late"
       \/ s.windows /\ ~s.pin /\ s.jump
       \/ ~s.windows /\ (IF s.warpedTo THEN s.mixed ELSE s.jump)
      THEN BOOLEAN ELSE {motion = "pushed"}

(* The event took the raw motion, or was the first handled after the warp.  *)
(* A late one leaves the jump to another.                                   *)
Seen(s, motion) ==
    [s EXCEPT !.jump = @ /\ motion = "late", !.warpedTo = FALSE,
              !.mixed = motion = "late"]

(* Events made before the warp come before those made after it. *)
MayCome(s, motion) == motion = "late" => ~s.windows /\ s.jump

(* Dragging against an edge that leads somewhere: offer to catch files. *)
Catch(s, at) ==
    LET offer == at = "edge" /\ Left \in s.down /\ ~s.carrying /\ s.layout # {}
    IN IF ~s.windows \/ s.pin THEN s
       ELSE [s EXCEPT !.window = IF offer THEN "catcher" ELSE "hidden"]

(* The mouse moves the cursor to at; to is the peer past an edge there. *)
UserMoves(at, to, motion, beside) ==
    /\ ~cap.pin /\ MayCome(cap, motion)
    /\ \E far \in Reported(cap, motion) :
         LET s == Seen(cap, motion)
             across == IF far /\ at \in {"edge", "shown"} THEN to ELSE NoPeer
         IN IF at \in OnPicture
              THEN Become(PortalMotion(s, far /\ at = "brink" /\ to = s.portal,
                                       beside), at)
              ELSE Become(Catch(LocalMotion(s, across, beside), at), at)
    /\ step' = motion
    /\ UNCHANGED <<entered, known, parting>>

Targets(at) == IF at = "shown" THEN {cap.shown} \intersect cap.layout ELSE cap.layout

(* The mouse moves while the cursor is pinned.  Raw motion goes on adding   *)
(* up on Windows.                                                           *)
UserMovesPinned(goal, motion) ==
    /\ cap.pin /\ MayCome(cap, motion)
    /\ \E far \in Reported(cap, motion) :
         LET crossing == goal \in Peer \union {Home}
             s == MoveOn(Resume(Seen(cap, motion)), IF crossing /\ ~far THEN "stay" ELSE goal)
         IN Become([s EXCEPT !.jump = @ \/ s.windows], zone)
    /\ step' = motion
    /\ UNCHANGED <<entered, known, parting>>

Goals == {"stay", "portal", "shown", Home} \union (cap.layout \ {cap.peer})

(* can_reenter_portal and portal_hit: the pointer rests on the picture      *)
(* without being in it.                                                     *)
CanReenter == cap.windows /\ ~cap.pin /\ cap.on = "local" /\ zone \in OnPicture

(* Mutant: only motion goes into the portal. *)
StayOut(s) == s

Reenter(s) == IF CanReenter THEN PortalMotion(s, FALSE, FALSE) ELSE s

UserPresses(i) ==
    /\ i \notin cap.down
    /\ Become(Press(Reenter([cap EXCEPT !.down = @ \union {i}]), i), zone)
    /\ step' = "other"
    /\ UNCHANGED <<entered, known, parting>>

(* The keyboard repeats a key. *)
UserRepeats(k) ==
    /\ k \in cap.down
    /\ Become(Press(Reenter(cap), k), zone)
    /\ step' = "other"
    /\ UNCHANGED <<entered, known, parting>>

StopCatching(s, i) ==
    IF i = Left /\ s.window = "catcher" THEN [s EXCEPT !.window = "hidden"] ELSE s

UserReleases(i) ==
    /\ i \in cap.down
    /\ Become(StopCatching(LetGo([cap EXCEPT !.down = @ \ {i}], i), i), zone)
    /\ step' = "other"
    /\ UNCHANGED <<entered, known, parting>>

(* Another window comes in front of the picture, or goes. *)
WindowsChange ==
    /\ cap.portal # NoPeer /\ ~cap.pin
    /\ zone' = CASE zone = "picture" -> "desk"
                 [] zone = "desk"    -> "picture"
                 [] OTHER            -> zone
    /\ step' = "other"
    /\ UNCHANGED <<cap, entered, known, parting>>

-----------------------------------------------------------------------------

(***************************************************************************)
(* Dragged files: a drag that started here meets the catcher (or the cover *)
(* under the pinned cursor); the thread hears of it by a posted message.   *)
(***************************************************************************)
DragEnter ==
    /\ cap.windows /\ cap.window # "hidden"
    /\ Left \in cap.down /\ cap.routes[Left] = "local"
    /\ entered' = TRUE
    /\ step' = "other"
    /\ UNCHANGED <<cap, zone, known, parting>>

FilesEntered ==
    /\ entered
    /\ entered' = FALSE
    /\ cap' = [cap EXCEPT !.carrying = TRUE]
    /\ step' = "other"
    /\ UNCHANGED <<zone, known, parting>>

-----------------------------------------------------------------------------

(***************************************************************************)
(* Commands from the run loop, while it is not busy with a lost peer.      *)
(***************************************************************************)
Commanded(s) ==
    /\ Become(s, zone)
    /\ step' = "other"
    /\ UNCHANGED <<entered, parting>>

Connects(p) ==
    /\ parting = NobodyParts /\ p \notin known
    /\ known' = known \union {p}
    /\ Commanded(SetLayout([cap EXCEPT !.up = @ \union {p}],
                           cap.layout \union {p}, FALSE))

(* Relayout: peers come on and off the desk, the control mode forbids       *)
(* driving, this machine's displays change.                                 *)
Relayout(peers, moved) ==
    /\ parting = NobodyParts
    /\ Commanded(SetLayout(cap, peers, moved))
    /\ UNCHANGED known

(* The viewer of a peer's display opens or closes: Windows only. *)
ViewerChanges(p) ==
    /\ parting = NobodyParts /\ cap.windows
    /\ Commanded(SetPortal(cap, p))
    /\ UNCHANGED known

(* A peer shows a display of this Mac, or stops. *)
ShownChanges(p) ==
    /\ parting = NobodyParts /\ ~cap.windows
    /\ Commanded(SetShown(cap, p))
    /\ UNCHANGED known

(* The peer's own keyboard or mouse is used: it releases all that is held   *)
(* there, and says so.                                                      *)
PeerTakesBack(p) ==
    /\ p \in cap.driven
    /\ Commanded(PeerYield(SendLeave(cap, p), p))
    /\ UNCHANGED known

(* A driven peer takes its pointer back before it comes across, which it   *)
(* says first (PeerTakesBack).                                              *)
PeerComesAcross(p) ==
    /\ p \in cap.up \ cap.driven
    /\ Commanded(PeerEntered(cap, p))
    /\ UNCHANGED known

(* A peer driving this machine moves its cursor.  On macOS that takes the   *)
(* jump of a warp, and the cursor from where it was warped.                 *)
PeerMovesUs ==
    /\ cap.up # {}
    /\ cap.windows => cap.pin
    /\ cap' = IF cap.windows THEN [cap EXCEPT !.peerMoved = TRUE]
              ELSE [cap EXCEPT !.jump = FALSE, !.mixed = cap.warpedTo]
    /\ step' = "other"
    /\ UNCHANGED <<zone, entered, known, parting>>

PeerReports(p, onPortal) ==
    /\ p \in cap.up \ cap.driven
    /\ onPortal => cap.portal = p
    /\ LET s == PeerPointer(cap, p, onPortal)
       IN IF onPortal /\ s.on = "local" /\ p \in cap.layout
            THEN cap' = s /\ zone' \in {"picture", "desk"}  \* or covered
            ELSE Become(s, zone)
    /\ step' = "other"
    /\ UNCHANGED <<entered, known, parting>>

(* The connection dies; the peer releases everything. *)
LinkDies(p) ==
    /\ p \in cap.up
    /\ cap' = [SendLeave(cap, p) EXCEPT !.up = @ \ {p}]
    /\ step' = "other"
    /\ UNCHANGED <<zone, entered, known, parting>>

(* The run loop hears of it: first what it showed goes, ...                 *)
DisplayGoes(p) ==
    /\ parting = NobodyParts /\ p \in known \ cap.up
    /\ LET gone == IF cap.portal = p THEN SetPortal(cap, NoPeer) ELSE cap
       IN Become(IF cap.shown = p THEN SetShown(gone, NoPeer) ELSE gone, zone)
    /\ parting' = [peer |-> p, at |-> 1]
    /\ step' = "other"
    /\ UNCHANGED <<entered, known>>

(* ... then the pointer comes home, ...                                     *)
PeerGoes ==
    /\ parting.at = 1
    /\ Become(PeerLost(cap, parting.peer), zone)
    /\ parting' = [parting EXCEPT !.at = 2]
    /\ step' = "other"
    /\ UNCHANGED <<entered, known>>

(* ... then it leaves the desk. *)
LayoutGoes ==
    /\ parting.at = 2
    /\ Become(SetLayout(cap, cap.layout \ {parting.peer}, FALSE), zone)
    /\ known' = known \ {parting.peer}
    /\ parting' = NobodyParts
    /\ step' = "other"
    /\ UNCHANGED entered

-----------------------------------------------------------------------------

User ==
    \/ \E at \in Places(cap), motion \in Motion, beside \in BOOLEAN :
         \E to \in Targets(at) \union {NoPeer} : UserMoves(at, to, motion, beside)
    \/ \E goal \in Goals, motion \in Motion : UserMovesPinned(goal, motion)
    \/ \E i \in Input : UserPresses(i) \/ UserReleases(i)
    \/ \E k \in Key : UserRepeats(k)
    \/ WindowsChange
    \/ DragEnter
    \/ FilesEntered

RunLoop ==
    \/ \E p \in Peer : Connects(p) \/ DisplayGoes(p)
    \/ \E peers \in SUBSET known, moved \in BOOLEAN : Relayout(peers, moved)
    \/ \E p \in (known \intersect cap.up) \union {NoPeer} :
         ViewerChanges(p) \/ ShownChanges(p)
    \/ PeerGoes
    \/ LayoutGoes

Peers ==
    \/ \E p \in Peer : PeerTakesBack(p) \/ PeerComesAcross(p) \/ LinkDies(p)
    \/ \E p \in Peer, onPortal \in BOOLEAN : PeerReports(p, onPortal)
    \/ PeerMovesUs

Next == User \/ RunLoop \/ Peers

Spec == Init /\ [][Next]_vars

-----------------------------------------------------------------------------

(***************************************************************************)
(* Properties.                                                             *)
(***************************************************************************)

(* A connected peer is driven by this machine exactly while the pointer is  *)
(* on it (on its screens or on the picture of its display) and not parked:  *)
(* no way of leaving, a closed viewer or a changed layout included, leaves  *)
(* a peer waiting for input, and no way of entering goes untold.            *)
DrivenWherePointerIs ==
    \A p \in cap.up : p \in cap.driven <=> cap.peer = p /\ ~cap.idle

(* Of all the user holds, a connected peer holds exactly what went down     *)
(* there since it last released it all, and this machine exactly what went  *)
(* down here, wherever the pointer has been since.                          *)
HeldWhereItWentDown ==
    /\ \A p \in cap.up : cap.held[p] = {i \in cap.down : cap.routes[i] = p}
    /\ cap.here = {i \in cap.down : cap.routes[i] = "local"}

(* A key or button pressed with the pointer on the uncovered picture of a   *)
(* peer's display goes down on that peer, also when it took its pointer     *)
(* back and the mouse has not moved since.                                  *)
PictureGetsInput ==
    [][ \A i \in Input, p \in Peer :
          /\ i \in cap'.down \ cap.down
          /\ ~cap.pin /\ zone \in OnPicture
          /\ cap.portal = p /\ p \in cap.layout \intersect cap.up
          => i \in cap'.held[p] ]_vars

(* Dragging something on a peer, the mouse never takes the pointer off that *)
(* peer, unless files are carried: not past an edge, not off the picture of *)
(* its display, not onto the picture of a display of ours it shows.         *)
HeldKeepsPointer ==
    [][ \A p \in Peer :
          /\ \E b \in Button : cap.routes[b] = p
          /\ ~cap.carrying /\ step' # "other"
          => cap'.peer = cap.peer ]_vars

(* On macOS the pointer crosses an edge only when the user pushed it across *)
(* it: the jump of a warp never counts, whether this thread warped the      *)
(* cursor for the user, a peer or a layout.  Excepted is motion from before *)
(* the warp handled after it, a peer's under way to the cursor, and the     *)
(* next event after these.                                                  *)
OnlyPushesCross ==
    [][ ~cap.windows /\ step' = "moved" /\ ~cap.mixed
        => \/ cap'.peer = cap.peer
           \/ cap'.on = "local" /\ cap.shown = cap.peer ]_vars

(* The same without the exception, which the code does not keep.            *)
OnlyPushesEverCross ==
    [][ ~cap.windows /\ step' = "moved"
        => \/ cap'.peer = cap.peer
           \/ cap'.on = "local" /\ cap.shown = cap.peer ]_vars
=============================================================================
