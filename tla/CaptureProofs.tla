---------------------------- MODULE CaptureProofs ----------------------------
(***************************************************************************)
(* Proofs about the capture thread, for any peers, keys and buttons, on    *)
(* either backend: who is driven and who holds what follows the pointer,   *)
(* however the user, the peers and the run loop get in each other's way.   *)
(***************************************************************************)
EXTENDS Capture, TLAPS

(* The pointer is on a peer of the layout, on its screens with the cursor  *)
(* pinned, or on the picture of its display; parked only on its screens.   *)
ModeOK(s) ==
    /\ s.on = "local" <=> s.peer = NoPeer
    /\ s.on # "local" => s.peer \in s.layout
    /\ s.idle => s.on = "remote"
    /\ s.on = "portal" => s.portal = s.peer
    /\ s.pin <=> s.on = "remote"
    /\ ~s.windows => s.portal = NoPeer

(* On macOS a jump is only to come while the warp is remembered, unless    *)
(* something got between the two.                                          *)
JumpOK(s) == ~s.windows /\ s.jump => s.warpedTo \/ s.mixed

DrivenOK(s) ==
    \A p \in Peer : p \in s.driven <=> p \in s.up /\ p = s.peer /\ ~s.idle

(* Only the peer the pointer is on has routes; what is held there, and     *)
(* here, is what the routes say, and all of it is held by the user.        *)
KeysOK(s) ==
    /\ \A i \in Input : s.routes[i] \in Peer => s.routes[i] = s.peer /\ ~s.idle
    /\ \A p \in Peer, i \in Input :
         i \in s.held[p] <=> p \in s.up /\ s.routes[i] = p
    /\ \A i \in Input : i \in s.here <=> s.routes[i] = "local"

DownOK(s) == \A i \in Input : s.routes[i] # "none" => i \in s.down

Good(s) ==
    /\ s \in CaptureState
    /\ ModeOK(s) /\ JumpOK(s) /\ DrivenOK(s) /\ KeysOK(s) /\ DownOK(s)

(* What the run loop knows, and the peer it is busy losing. *)
RunLoopOK ==
    /\ cap.layout \subseteq known /\ cap.up \subseteq known
    /\ parting.at = 0 <=> parting = NobodyParts
    /\ parting.at # 0 => parting.peer \in known \ cap.up

IInv == TypeOK /\ Good(cap) /\ RunLoopOK

-----------------------------------------------------------------------------
(***************************************************************************)
(* The parts of a capture thread's state, to say what an operator keeps.   *)
(***************************************************************************)
SameFixed(s, t) ==
    /\ t.windows = s.windows /\ t.portal = s.portal /\ t.shown = s.shown
    /\ t.layout = s.layout /\ t.up = s.up /\ t.down = s.down

SameMode(s, t) == t.on = s.on /\ t.peer = s.peer /\ t.idle = s.idle

SameScreen(s, t) ==
    /\ t.pin = s.pin /\ t.window = s.window /\ t.peerMoved = s.peerMoved
    /\ t.warpedTo = s.warpedTo /\ t.jump = s.jump /\ t.mixed = s.mixed

SameTold(s, t) == t.driven = s.driven /\ t.held = s.held

SameKeys(s, t) == t.routes = s.routes /\ t.carrying = s.carrying /\ t.here = s.here


(* Nobody is driven, nothing is held at a peer, and what is held here was   *)
(* pressed here; LeavingOK: but for the routes that still say p.            *)
LeavingOK(s, p) ==
    /\ s.driven = {}
    /\ \A q \in Peer : s.held[q] = {}
    /\ \A i \in Input : s.routes[i] \in Peer => s.routes[i] = p
    /\ \A i \in Input : i \in s.here <=> s.routes[i] = "local"

Cleared(s) ==
    /\ s.driven = {}
    /\ \A q \in Peer : s.held[q] = {}
    /\ \A i \in Input : s.routes[i] \notin Peer
    /\ \A i \in Input : i \in s.here <=> s.routes[i] = "local"

(***************************************************************************)
(* What each helper of the controller and the backend changes.             *)
(***************************************************************************)
LEMMA NewCaptureGood ==
    ASSUME NEW windows \in BOOLEAN
    PROVE  Good(NewCapture(windows))
<1> DEFINE s == NewCapture(windows)
<1>1. s \in CaptureState
  BY PortalAssumption DEF NewCapture, CaptureState, Route
<1>2. /\ s.on = "local" /\ s.peer = NoPeer /\ s.idle = FALSE /\ s.pin = FALSE
      /\ s.portal = NoPeer /\ s.jump = FALSE /\ s.driven = {} /\ s.up = {} /\ s.here = {}
      /\ \A i \in Input : s.routes[i] = "none"
      /\ \A p \in Peer : s.held[p] = {}
  BY DEF NewCapture
<1> HIDE DEF s
<1>3. "none" \notin Peer
  BY PortalAssumption
<1>4. DrivenOK(s)
  BY <1>2 DEF DrivenOK
<1>5. KeysOK(s)
  BY <1>2, <1>3 DEF KeysOK
<1>6. ModeOK(s)
  BY <1>2, Zenon DEF ModeOK
<1>7. JumpOK(s) /\ DownOK(s)
  BY <1>2, Zenon DEF JumpOK, DownOK
<1> QED
  BY <1>1, <1>4, <1>5, <1>6, <1>7 DEF Good, s

LEMMA ToLocalIs ==
    ASSUME NEW s \in CaptureState
    PROVE  LET t == ToLocal(s) IN
           /\ t \in CaptureState
           /\ SameFixed(s, t) /\ SameScreen(s, t) /\ SameTold(s, t) /\ SameKeys(s, t)
           /\ t.on = "local" /\ t.peer = NoPeer /\ ~t.idle
BY DEF ToLocal, CaptureState, SameFixed, SameScreen, SameTold, SameKeys

LEMMA ToRemoteIs ==
    ASSUME NEW s \in CaptureState, NEW p \in Peer, NEW idle \in BOOLEAN
    PROVE  LET t == ToRemote(s, p, idle) IN
           /\ t \in CaptureState
           /\ SameFixed(s, t) /\ SameScreen(s, t) /\ SameTold(s, t) /\ SameKeys(s, t)
           /\ t.on = "remote" /\ t.peer = p /\ t.idle = idle
BY DEF ToRemote, CaptureState, SameFixed, SameScreen, SameTold, SameKeys

LEMMA ToPortalIs ==
    ASSUME NEW s \in CaptureState, NEW p \in Peer
    PROVE  LET t == ToPortal(s, p) IN
           /\ t \in CaptureState
           /\ SameFixed(s, t) /\ SameScreen(s, t) /\ SameTold(s, t) /\ SameKeys(s, t)
           /\ t.on = "portal" /\ t.peer = p /\ ~t.idle
BY DEF ToPortal, CaptureState, SameFixed, SameScreen, SameTold, SameKeys

LEMMA WarpedIs ==
    ASSUME NEW s \in CaptureState
    PROVE  LET t == Warped(s) IN
           /\ t \in CaptureState
           /\ SameFixed(s, t) /\ SameMode(s, t) /\ SameTold(s, t) /\ SameKeys(s, t)
           /\ t.pin = s.pin /\ JumpOK(t)
<1> DEFINE t == [s EXCEPT !.jump = TRUE, !.warpedTo = TRUE, !.mixed = FALSE]
<1>1. CASE s.windows
  BY <1>1 DEF Warped, JumpOK, SameFixed, SameMode, SameTold, SameKeys
<1>2. CASE ~s.windows
  <2>1. Warped(s) = t
    BY <1>2 DEF Warped
  <2>2. t \in CaptureState
    BY DEF CaptureState
  <2>3. /\ SameFixed(s, t) /\ SameMode(s, t) /\ SameTold(s, t) /\ SameKeys(s, t)
        /\ t.pin = s.pin /\ JumpOK(t)
    BY DEF CaptureState, SameFixed, SameMode, SameTold, SameKeys, JumpOK
  <2> QED
    BY <2>1, <2>2, <2>3
<1> QED
  BY <1>1, <1>2

LEMMA CaptureIs ==
    ASSUME NEW s \in CaptureState
    PROVE  LET t == Capture(s) IN
           /\ t \in CaptureState
           /\ SameFixed(s, t) /\ SameMode(s, t) /\ SameTold(s, t) /\ SameKeys(s, t)
           /\ t.pin /\ JumpOK(t)
<1> DEFINE u == [s EXCEPT !.pin = TRUE, !.peerMoved = FALSE, !.window = "cover"]
<1>1. u \in CaptureState
  BY DEF CaptureState
<1>2. /\ SameFixed(s, u) /\ SameMode(s, u) /\ SameTold(s, u) /\ SameKeys(s, u)
      /\ u.pin
  BY DEF CaptureState, SameFixed, SameMode, SameTold, SameKeys
<1>3. Capture(s) = Warped(u)
  BY DEF Capture
<1> HIDE DEF u
<1> QED
  BY <1>1, <1>2, <1>3, WarpedIs DEF SameFixed, SameMode, SameTold, SameKeys

LEMMA ReleaseIs ==
    ASSUME NEW s \in CaptureState
    PROVE  LET t == Release(s) IN
           /\ t \in CaptureState
           /\ SameFixed(s, t) /\ SameMode(s, t) /\ SameTold(s, t) /\ SameKeys(s, t)
           /\ ~t.pin /\ JumpOK(t)
<1> DEFINE u == [s EXCEPT !.pin = FALSE, !.peerMoved = FALSE, !.window = "hidden"]
<1>1. u \in CaptureState
  BY DEF CaptureState
<1>2. /\ SameFixed(s, u) /\ SameMode(s, u) /\ SameTold(s, u) /\ SameKeys(s, u)
      /\ ~u.pin
  BY DEF CaptureState, SameFixed, SameMode, SameTold, SameKeys
<1>3. Release(s) = Warped(u)
  BY DEF Release
<1> HIDE DEF u
<1> QED
  BY <1>1, <1>2, <1>3, WarpedIs DEF SameFixed, SameMode, SameTold, SameKeys

LEMMA EnterPortalIs ==
    ASSUME NEW s \in CaptureState
    PROVE  LET t == EnterPortal(s) IN
           /\ t \in CaptureState
           /\ SameFixed(s, t) /\ SameMode(s, t) /\ SameTold(s, t) /\ SameKeys(s, t)
           /\ ~t.pin /\ (JumpOK(s) => JumpOK(t))
BY DEF EnterPortal, JumpOK, CaptureState, SameFixed, SameMode, SameTold, SameKeys

LEMMA UnparkIs ==
    ASSUME NEW s \in CaptureState
    PROVE  LET t == Unpark(s) IN
           /\ t \in CaptureState
           /\ SameFixed(s, t) /\ SameMode(s, t) /\ SameTold(s, t) /\ SameKeys(s, t)
           /\ ~t.pin /\ JumpOK(t)
<1> DEFINE mixed == ~s.windows /\ s.jump
<1>1. mixed \in BOOLEAN /\ (~s.windows /\ s.jump => mixed)
  BY DEF CaptureState
<1>2. Unpark(s) = [s EXCEPT !.pin = FALSE, !.peerMoved = FALSE, !.window = "hidden",
                            !.warpedTo = FALSE, !.mixed = mixed]
  BY DEF Unpark
<1> HIDE DEF mixed
<1> DEFINE t == [s EXCEPT !.pin = FALSE, !.peerMoved = FALSE, !.window = "hidden",
                          !.warpedTo = FALSE, !.mixed = mixed]
<1>3. t \in CaptureState
  BY <1>1 DEF CaptureState
<1>4. SameFixed(s, t) /\ SameMode(s, t) /\ SameTold(s, t) /\ SameKeys(s, t)
  BY DEF CaptureState, SameFixed, SameMode, SameTold, SameKeys
<1>5. ~t.pin /\ t.mixed = mixed /\ t.jump = s.jump /\ t.windows = s.windows
  BY DEF CaptureState
<1>6. JumpOK(t)
  BY <1>1, <1>5 DEF JumpOK
<1> QED
  BY <1>2, <1>3, <1>4, <1>5, <1>6

LEMMA SendEnterIs ==
    ASSUME NEW s \in CaptureState, NEW p \in Peer
    PROVE  LET t == SendEnter(s, p) IN
           /\ t \in CaptureState
           /\ SameFixed(s, t) /\ SameMode(s, t) /\ SameScreen(s, t) /\ SameKeys(s, t)
           /\ t.held = s.held
           /\ t.driven = IF p \in s.up THEN s.driven \union {p} ELSE s.driven
BY DEF SendEnter, CaptureState, SameFixed, SameMode, SameScreen, SameKeys

LEMMA SendLeaveIs ==
    ASSUME NEW s \in CaptureState, NEW p \in Peer
    PROVE  LET t == SendLeave(s, p) IN
           /\ t \in CaptureState
           /\ SameFixed(s, t) /\ SameMode(s, t) /\ SameScreen(s, t) /\ SameKeys(s, t)
           /\ \A q \in Peer : t.held[q] = IF q = p /\ p \in s.driven THEN {} ELSE s.held[q]
           /\ t.driven = s.driven \ {p}
<1> DEFINE held == [s.held EXCEPT ![p] = {}]
           driven == s.driven \ {p}
<1>1. s.held \in [Peer -> SUBSET Input] /\ s.driven \subseteq Peer
  BY DEF CaptureState
<1>2. /\ held \in [Peer -> SUBSET Input] /\ driven \subseteq Peer
      /\ \A q \in Peer : held[q] = IF q = p THEN {} ELSE s.held[q]
  BY <1>1
<1>3. CASE p \in s.driven
  <2>1. SendLeave(s, p) = [s EXCEPT !.driven = driven, !.held = held]
    BY <1>3 DEF SendLeave
  <2> HIDE DEF driven, held
  <2> DEFINE t == SendLeave(s, p)
  <2>2. t \in CaptureState
    BY <1>2, <2>1 DEF CaptureState
  <2>3. SameFixed(s, t) /\ SameMode(s, t) /\ SameScreen(s, t) /\ SameKeys(s, t)
    BY <2>1 DEF CaptureState, SameFixed, SameMode, SameScreen, SameKeys
  <2>4. t.held = held /\ t.driven = driven
    BY <1>2, <2>1 DEF CaptureState
  <2> QED
    BY <1>2, <1>3, <2>2, <2>3, <2>4 DEF driven
<1>4. CASE p \notin s.driven
  <2>1. SendLeave(s, p) = s /\ s.driven \ {p} = s.driven
    BY <1>4 DEF SendLeave
  <2> QED
    BY <1>4, <2>1 DEF SameFixed, SameMode, SameScreen, SameKeys
<1> QED
  BY <1>3, <1>4

LEMMA SendPressIs ==
    ASSUME NEW s \in CaptureState, NEW p \in Peer, NEW i \in Input
    PROVE  LET t == SendPress(s, p, i) IN
           /\ t \in CaptureState
           /\ SameFixed(s, t) /\ SameMode(s, t) /\ SameScreen(s, t) /\ SameKeys(s, t)
           /\ \A q \in Peer : t.held[q] = IF q = p /\ p \in s.driven
                                          THEN s.held[q] \union {i} ELSE s.held[q]
           /\ t.driven = s.driven
<1> DEFINE held == [s.held EXCEPT ![p] = s.held[p] \union {i}]
<1>1. s.held \in [Peer -> SUBSET Input]
  BY DEF CaptureState
<1>2. /\ held \in [Peer -> SUBSET Input]
      /\ \A q \in Peer : held[q] = IF q = p THEN s.held[q] \union {i} ELSE s.held[q]
  BY <1>1
<1>3. CASE p \in s.driven
  <2>1. SendPress(s, p, i) = [s EXCEPT !.held = held]
    BY <1>3 DEF SendPress
  <2> HIDE DEF held
  <2> DEFINE t == SendPress(s, p, i)
  <2>2. t \in CaptureState
    BY <1>2, <2>1 DEF CaptureState
  <2>3. SameFixed(s, t) /\ SameMode(s, t) /\ SameScreen(s, t) /\ SameKeys(s, t)
    BY <2>1 DEF CaptureState, SameFixed, SameMode, SameScreen, SameKeys
  <2>4. t.held = held /\ t.driven = s.driven
    BY <1>2, <2>1 DEF CaptureState
  <2> QED
    BY <1>2, <1>3, <2>2, <2>3, <2>4
<1>4. CASE p \notin s.driven
  <2>1. SendPress(s, p, i) = s
    BY <1>4 DEF SendPress
  <2> QED
    BY <1>4, <2>1 DEF SameFixed, SameMode, SameScreen, SameKeys
<1> QED
  BY <1>3, <1>4

LEMMA SendReleaseIs ==
    ASSUME NEW s \in CaptureState, NEW p \in Peer, NEW i \in Input
    PROVE  LET t == SendRelease(s, p, i) IN
           /\ t \in CaptureState
           /\ SameFixed(s, t) /\ SameMode(s, t) /\ SameScreen(s, t) /\ SameKeys(s, t)
           /\ \A q \in Peer, j \in Input :
                j \in t.held[q] <=> j \in s.held[q] /\ ~(q = p /\ j = i)
           /\ t.driven = s.driven
BY DEF SendRelease, CaptureState, SameFixed, SameMode, SameScreen, SameKeys

LEMMA DropRoutesIs ==
    ASSUME NEW s \in CaptureState, NEW p \in Peer
    PROVE  LET t == DropRoutes(s, p) IN
           /\ t \in CaptureState
           /\ SameFixed(s, t) /\ SameMode(s, t) /\ SameScreen(s, t) /\ SameTold(s, t)
           /\ t.here = s.here /\ t.carrying = s.carrying
           /\ \A i \in Input : t.routes[i] = IF s.routes[i] = p THEN "dropped" ELSE s.routes[i]
BY DEF DropRoutes, CaptureState, Route, SameFixed, SameMode, SameScreen, SameTold

-----------------------------------------------------------------------------
(* Fields of a state, and the words that are not peers. *)
LEMMA Fields ==
    ASSUME NEW s \in CaptureState
    PROVE  /\ s.windows \in BOOLEAN /\ s.idle \in BOOLEAN /\ s.pin \in BOOLEAN
           /\ s.jump \in BOOLEAN /\ s.warpedTo \in BOOLEAN /\ s.mixed \in BOOLEAN
           /\ s.carrying \in BOOLEAN
           /\ s.on \in {"local", "remote", "portal"}
           /\ s.peer \in Peer \union {NoPeer} /\ s.portal \in Peer \union {NoPeer}
           /\ s.shown \in Peer \union {NoPeer} /\ s.layout \subseteq Peer
           /\ s.up \subseteq Peer /\ s.driven \subseteq Peer
           /\ \A i \in Input : s.routes[i] \in Route
BY DEF CaptureState

LEMMA Words ==
    /\ NoPeer \notin Peer
    /\ \A w \in {"none", "local", "dropped", "stay", "portal", "shown"} :
          w \notin Peer /\ w # NoPeer
    /\ Left \in Input
BY PortalAssumption DEF Input

(* Only the screen's part of a state changes. *)
LEMMA GoodScreen ==
    ASSUME NEW s, Good(s), NEW t \in CaptureState,
           SameFixed(s, t), SameMode(s, t), SameTold(s, t),
           t.routes = s.routes, t.here = s.here,
           t.pin = s.pin, JumpOK(t)
    PROVE  Good(t)
BY DEF Good, ModeOK, DrivenOK, KeysOK, DownOK, SameFixed, SameMode, SameTold

LEMMA DropClears ==
    ASSUME NEW s \in CaptureState, NEW p \in Peer, LeavingOK(s, p)
    PROVE  LET t == DropRoutes(s, p) IN Cleared(t) /\ (DownOK(s) => DownOK(t))
<1> DEFINE t == DropRoutes(s, p)
<1>1. /\ SameFixed(s, t) /\ SameTold(s, t) /\ t.here = s.here
      /\ \A i \in Input : t.routes[i] = IF s.routes[i] = p THEN "dropped" ELSE s.routes[i]
  BY DropRoutesIs
<1> HIDE DEF t
<1>2. t.driven = {} /\ \A q \in Peer : t.held[q] = {}
  BY <1>1 DEF LeavingOK, SameTold
<1>3. \A i \in Input : t.routes[i] \notin Peer
  BY <1>1, Words DEF LeavingOK
<1>4. \A i \in Input : i \in t.here <=> t.routes[i] = "local"
  BY <1>1, Words DEF LeavingOK
<1>5. DownOK(s) => DownOK(t)
  BY <1>1, Words DEF DownOK, SameFixed
<1> QED
  BY <1>2, <1>3, <1>4, <1>5 DEF Cleared, t

(* Where no route says p, dropping p's routes changes none. *)
LEMMA DropNothing ==
    ASSUME NEW s \in CaptureState, NEW p \in Peer, \A i \in Input : s.routes[i] # p
    PROVE  LET t == DropRoutes(s, p) IN
           /\ t \in CaptureState
           /\ SameFixed(s, t) /\ SameMode(s, t) /\ SameScreen(s, t) /\ SameTold(s, t)
           /\ t.here = s.here /\ t.carrying = s.carrying
           /\ \A i \in Input : t.routes[i] = s.routes[i]
BY DropRoutesIs

(* A peer that leaves, or is left, releases all that is held there. *)
LEMMA LeaveIsLeaving ==
    ASSUME NEW s \in CaptureState, DrivenOK(s), KeysOK(s), s.peer \in Peer
    PROVE  LeavingOK(SendLeave(s, s.peer), s.peer)
<1> DEFINE p == s.peer
           t == SendLeave(s, p)
<1>1. /\ SameKeys(s, t)
      /\ \A q \in Peer : t.held[q] = IF q = p /\ p \in s.driven THEN {} ELSE s.held[q]
      /\ t.driven = s.driven \ {p}
  BY SendLeaveIs
<1> HIDE DEF t
<1>2. s.driven \subseteq Peer /\ \A q \in Peer : s.held[q] \subseteq Input
  BY DEF CaptureState
<1>3. t.driven = {}
  BY <1>1, <1>2 DEF DrivenOK
<1>4. \A q \in Peer : q # p \/ p \notin s.driven => s.held[q] = {}
  BY <1>2, SMT DEF KeysOK, DrivenOK
<1>5. \A q \in Peer : t.held[q] = {}
  BY <1>1, <1>4
<1>6. /\ \A i \in Input : t.routes[i] \in Peer => t.routes[i] = p
      /\ \A i \in Input : i \in t.here <=> t.routes[i] = "local"
  BY <1>1 DEF SameKeys, KeysOK
<1> QED
  BY <1>3, <1>5, <1>6 DEF LeavingOK, t

LEMMA LeavePeerIs ==
    ASSUME NEW s \in CaptureState, DrivenOK(s), KeysOK(s), DownOK(s), s.peer \in Peer
    PROVE  LET t == LeavePeer(s, s.peer) IN
           /\ t \in CaptureState /\ SameFixed(s, t) /\ SameMode(s, t) /\ SameScreen(s, t)
           /\ t.carrying = s.carrying /\ Cleared(t) /\ DownOK(t)
<1> DEFINE u == SendLeave(s, s.peer)
           t == DropRoutes(u, s.peer)
<1>1. /\ u \in CaptureState
      /\ SameFixed(s, u) /\ SameMode(s, u) /\ SameScreen(s, u) /\ SameKeys(s, u)
  BY SendLeaveIs
<1>2. LeavingOK(u, s.peer)
  BY LeaveIsLeaving
<1>3. t = LeavePeer(s, s.peer)
  BY DEF LeavePeer
<1> HIDE DEF u
<1>4. DownOK(u)
  BY <1>1 DEF DownOK, SameFixed, SameKeys
<1>5. /\ t \in CaptureState
      /\ SameFixed(u, t) /\ SameMode(u, t) /\ SameScreen(u, t) /\ t.carrying = u.carrying
  BY <1>1, DropRoutesIs
<1>6. Cleared(t) /\ DownOK(t)
  BY <1>1, <1>2, <1>4, DropClears
<1> HIDE DEF t
<1>7. SameFixed(s, t) /\ SameMode(s, t) /\ SameScreen(s, t) /\ t.carrying = s.carrying
  BY <1>1, <1>5 DEF SameFixed, SameMode, SameScreen, SameKeys
<1> QED
  BY <1>3, <1>5, <1>6, <1>7

(* Cleared is fit for any mode in which nobody is driven. *)
LEMMA Nobody ==
    ASSUME NEW t \in CaptureState, Cleared(t), t.peer = NoPeer \/ t.idle
    PROVE  DrivenOK(t) /\ KeysOK(t)
BY Words DEF DrivenOK, KeysOK, Cleared

LEMMA StillCleared ==
    ASSUME NEW s, Cleared(s), NEW t, SameTold(s, t), SameKeys(s, t)
    PROVE  Cleared(t)
BY DEF Cleared, SameTold, SameKeys

LEMMA StillDown ==
    ASSUME NEW s, DownOK(s), NEW t, SameFixed(s, t), SameKeys(s, t)
    PROVE  DownOK(t)
BY DEF DownOK, SameFixed, SameKeys

(* The pointer is on no driven peer. *)
LEMMA IsCleared ==
    ASSUME NEW s, Good(s), s.on = "local" \/ s.idle
    PROVE  Cleared(s)
<1>1. s \in CaptureState /\ (s.peer = NoPeer \/ s.idle)
  BY DEF Good, ModeOK
<1>2. s.driven \subseteq Peer /\ \A q \in Peer : s.held[q] \subseteq Input
  BY <1>1 DEF CaptureState
<1>3. s.driven = {}
  BY <1>1, <1>2, Words DEF Good, DrivenOK
<1>4. \A i \in Input : s.routes[i] \notin Peer
  BY <1>1, Words DEF Good, KeysOK
<1>5. \A q \in Peer : s.held[q] = {}
  BY <1>2, <1>4 DEF Good, KeysOK
<1> QED
  BY <1>3, <1>4, <1>5 DEF Cleared, Good, KeysOK

-----------------------------------------------------------------------------
(***************************************************************************)
(* Each operator takes a good state to a good one.                         *)
(***************************************************************************)
LEMMA GoodLocal ==
    ASSUME NEW t \in CaptureState, Cleared(t), DownOK(t), JumpOK(t),
           t.on = "local", t.peer = NoPeer, ~t.idle, ~t.pin,
           ~t.windows => t.portal = NoPeer
    PROVE  Good(t)
<1>1. DrivenOK(t) /\ KeysOK(t)
  BY Nobody
<1>2. ModeOK(t)
  BY Zenon DEF ModeOK
<1> QED
  BY <1>1, <1>2 DEF Good

(* All a state must have for the pointer to leave its peer. *)
Leavable(s) ==
    /\ s \in CaptureState /\ s.peer \in Peer
    /\ DrivenOK(s) /\ KeysOK(s) /\ DownOK(s) /\ JumpOK(s)
    /\ ~s.windows => s.portal = NoPeer

LEMMA GoodLeavable ==
    ASSUME NEW s, Good(s), s.on # "local"
    PROVE  Leavable(s)
<1>1. s.peer \in Peer
  BY Fields DEF Good, ModeOK
<1> QED
  BY <1>1 DEF Good, ModeOK, Leavable

LEMMA ToLocalLeft ==
    ASSUME NEW s, Leavable(s)
    PROVE  LET t == ToLocal(LeavePeer(s, s.peer)) IN
           /\ t \in CaptureState /\ SameFixed(s, t) /\ SameScreen(s, t)
           /\ t.carrying = s.carrying /\ Cleared(t) /\ DownOK(t) /\ JumpOK(t)
           /\ t.on = "local" /\ t.peer = NoPeer /\ ~t.idle
<1> DEFINE u == LeavePeer(s, s.peer)
           t == ToLocal(u)
<1>1. /\ u \in CaptureState /\ SameFixed(s, u) /\ SameScreen(s, u)
      /\ u.carrying = s.carrying /\ Cleared(u) /\ DownOK(u)
  BY LeavePeerIs DEF Leavable
<1> HIDE DEF u
<1>2. /\ t \in CaptureState
      /\ SameFixed(u, t) /\ SameScreen(u, t) /\ SameTold(u, t) /\ SameKeys(u, t)
      /\ t.on = "local" /\ t.peer = NoPeer /\ ~t.idle
  BY <1>1, ToLocalIs
<1> HIDE DEF t
<1>3. Cleared(t) /\ DownOK(t)
  BY <1>1, <1>2, StillCleared, StillDown
<1>4. SameFixed(s, t) /\ SameScreen(s, t) /\ t.carrying = s.carrying
  BY <1>1, <1>2 DEF SameFixed, SameScreen, SameKeys
<1>5. JumpOK(t)
  BY <1>4 DEF JumpOK, SameFixed, SameScreen, Leavable
<1> QED
  BY <1>2, <1>3, <1>4, <1>5 DEF t, u

LEMMA LeavePortalGood ==
    ASSUME NEW s, Leavable(s), ~s.pin
    PROVE  LET t == LeavePortal(s) IN
           /\ Good(t) /\ SameFixed(s, t) /\ t.carrying = s.carrying
           /\ t.on = "local" /\ t.peer = NoPeer
<1> DEFINE t == ToLocal(LeavePeer(s, s.peer))
<1>1. /\ t \in CaptureState /\ SameFixed(s, t) /\ SameScreen(s, t)
      /\ t.carrying = s.carrying /\ Cleared(t) /\ DownOK(t) /\ JumpOK(t)
      /\ t.on = "local" /\ t.peer = NoPeer /\ ~t.idle
  BY ToLocalLeft
<1>2. t = LeavePortal(s)
  BY DEF LeavePortal
<1> HIDE DEF t
<1>3. ~t.pin /\ (~t.windows => t.portal = NoPeer)
  BY <1>1 DEF SameFixed, SameScreen, Leavable
<1> QED
  BY <1>1, <1>2, <1>3, GoodLocal

LEMMA HomeGood ==
    ASSUME NEW s, Leavable(s)
    PROVE  LET t == Release(ToLocal(LeavePeer(s, s.peer))) IN
           /\ Good(t) /\ SameFixed(s, t) /\ t.carrying = s.carrying
           /\ t.on = "local" /\ t.peer = NoPeer
<1> DEFINE u == ToLocal(LeavePeer(s, s.peer))
           t == Release(u)
<1>1. /\ u \in CaptureState /\ SameFixed(s, u)
      /\ u.carrying = s.carrying /\ Cleared(u) /\ DownOK(u) /\ JumpOK(u)
      /\ u.on = "local" /\ u.peer = NoPeer /\ ~u.idle
  BY ToLocalLeft
<1> HIDE DEF u
<1>2. /\ t \in CaptureState
      /\ SameFixed(u, t) /\ SameMode(u, t) /\ SameTold(u, t) /\ SameKeys(u, t)
      /\ ~t.pin /\ JumpOK(t)
  BY <1>1, ReleaseIs
<1> HIDE DEF t
<1>3. Cleared(t) /\ DownOK(t)
  BY <1>1, <1>2, StillCleared, StillDown
<1>4. t.on = "local" /\ t.peer = NoPeer /\ ~t.idle
  BY <1>1, <1>2, Zenon DEF SameMode
<1>5. SameFixed(s, t) /\ t.carrying = s.carrying
  BY <1>1, <1>2 DEF SameFixed, SameKeys
<1>6. ~t.windows => t.portal = NoPeer
  BY <1>5 DEF SameFixed, Leavable
<1>7. Good(t)
  BY <1>2, <1>3, <1>4, <1>6, GoodLocal
<1> QED
  BY <1>4, <1>5, <1>7 DEF t, u

(* The pointer enters a peer from a state in which it is on none. *)
LEMMA EnterIs ==
    ASSUME NEW u \in CaptureState, Cleared(u), DownOK(u), NEW p \in Peer
    PROVE  LET t == SendEnter(u, p) IN
           /\ t \in CaptureState
           /\ SameFixed(u, t) /\ SameMode(u, t) /\ SameScreen(u, t) /\ SameKeys(u, t)
           /\ DownOK(t)
           /\ \A q \in Peer : q \in t.driven <=> q \in t.up /\ q = p
           /\ \A q \in Peer : t.held[q] = {}
           /\ \A i \in Input : t.routes[i] \notin Peer
           /\ \A i \in Input : i \in t.here <=> t.routes[i] = "local"
<1> DEFINE t == SendEnter(u, p)
<1>1. /\ t \in CaptureState
      /\ SameFixed(u, t) /\ SameMode(u, t) /\ SameScreen(u, t) /\ SameKeys(u, t)
      /\ t.held = u.held
      /\ t.driven = IF p \in u.up THEN u.driven \union {p} ELSE u.driven
  BY SendEnterIs
<1> HIDE DEF t
<1>2. DownOK(t)
  BY <1>1, StillDown
<1>3. \A q \in Peer : q \in t.driven <=> q \in t.up /\ q = p
  BY <1>1 DEF Cleared, SameFixed
<1>4. /\ \A q \in Peer : t.held[q] = {}
      /\ \A i \in Input : t.routes[i] \notin Peer
      /\ \A i \in Input : i \in t.here <=> t.routes[i] = "local"
  BY <1>1 DEF Cleared, SameKeys
<1> QED
  BY <1>1, <1>2, <1>3, <1>4 DEF t

(* As EnterIs leaves it, with the pointer on that peer. *)
LEMMA EnteredOK ==
    ASSUME NEW t \in CaptureState, NEW p \in Peer, t.peer = p, ~t.idle,
           \A q \in Peer : q \in t.driven <=> q \in t.up /\ q = p,
           \A q \in Peer : t.held[q] = {},
           \A i \in Input : t.routes[i] \notin Peer,
           \A i \in Input : i \in t.here <=> t.routes[i] = "local"
    PROVE  DrivenOK(t) /\ KeysOK(t)
BY DEF DrivenOK, KeysOK

LEMMA EnterPeerIs ==
    ASSUME NEW u \in CaptureState, Cleared(u), DownOK(u), NEW p \in Peer
    PROVE  LET t == EnterPeer(u, p) IN
           /\ t \in CaptureState
           /\ SameFixed(u, t) /\ SameScreen(u, t) /\ SameKeys(u, t)
           /\ t.on = "remote" /\ t.peer = p /\ ~t.idle
           /\ DrivenOK(t) /\ KeysOK(t) /\ DownOK(t)
<1> DEFINE v == SendEnter(u, p)
           t == ToRemote(v, p, FALSE)
<1>1. /\ v \in CaptureState
      /\ SameFixed(u, v) /\ SameScreen(u, v) /\ SameKeys(u, v) /\ DownOK(v)
      /\ \A q \in Peer : q \in v.driven <=> q \in v.up /\ q = p
      /\ \A q \in Peer : v.held[q] = {}
      /\ \A i \in Input : v.routes[i] \notin Peer
      /\ \A i \in Input : i \in v.here <=> v.routes[i] = "local"
  BY EnterIs
<1>2. t = EnterPeer(u, p)
  BY DEF EnterPeer
<1> HIDE DEF v
<1>3. /\ t \in CaptureState
      /\ SameFixed(v, t) /\ SameScreen(v, t) /\ SameTold(v, t) /\ SameKeys(v, t)
      /\ t.on = "remote" /\ t.peer = p /\ t.idle = FALSE
  BY <1>1, ToRemoteIs
<1> HIDE DEF t
<1>4. DownOK(t)
  BY <1>1, <1>3, StillDown
<1>5. /\ \A q \in Peer : q \in t.driven <=> q \in t.up /\ q = p
      /\ \A q \in Peer : t.held[q] = {}
      /\ \A i \in Input : t.routes[i] \notin Peer
      /\ \A i \in Input : i \in t.here <=> t.routes[i] = "local"
  BY <1>1, <1>3 DEF SameFixed, SameTold, SameKeys
<1>6. DrivenOK(t) /\ KeysOK(t)
  BY <1>3, <1>5, EnteredOK
<1>7. SameFixed(u, t) /\ SameScreen(u, t) /\ SameKeys(u, t)
  BY <1>1, <1>3 DEF SameFixed, SameScreen, SameKeys
<1> QED
  BY <1>2, <1>3, <1>4, <1>6, <1>7
-----------------------------------------------------------------------------
(* Own input while parked: never parked after. *)
LEMMA ResumeGood ==
    ASSUME NEW s, Good(s)
    PROVE  LET t == Resume(s) IN
           /\ Good(t) /\ SameFixed(s, t) /\ SameScreen(s, t) /\ SameKeys(s, t)
           /\ t.on = s.on /\ t.peer = s.peer /\ ~t.idle
<1> DEFINE v == SendEnter(s, s.peer)
           t == [v EXCEPT !.idle = FALSE]
<1>1. s \in CaptureState /\ s.idle \in BOOLEAN
  BY Fields DEF Good
<1>2. CASE s.idle
  <2>1. s.on = "remote" /\ s.peer \in s.layout /\ s.peer \in Peer
    BY <1>1, <1>2, Fields DEF Good, ModeOK
  <2>2. Resume(s) = t
    BY <1>2, <2>1 DEF Resume
  <2>3. Cleared(s) /\ DownOK(s)
    BY <1>2, IsCleared DEF Good
  <2>4. /\ v \in CaptureState
        /\ SameFixed(s, v) /\ SameMode(s, v) /\ SameScreen(s, v) /\ SameKeys(s, v)
        /\ DownOK(v)
        /\ \A q \in Peer : q \in v.driven <=> q \in v.up /\ q = s.peer
        /\ \A q \in Peer : v.held[q] = {}
        /\ \A i \in Input : v.routes[i] \notin Peer
        /\ \A i \in Input : i \in v.here <=> v.routes[i] = "local"
    BY <1>1, <2>1, <2>3, EnterIs
  <2> HIDE DEF v
  <2>5. /\ t \in CaptureState
        /\ SameFixed(v, t) /\ SameScreen(v, t) /\ SameTold(v, t) /\ SameKeys(v, t)
        /\ t.on = v.on /\ t.peer = v.peer /\ t.idle = FALSE
    BY <2>4 DEF CaptureState, SameFixed, SameScreen, SameTold, SameKeys
  <2> HIDE DEF t
  <2>6. /\ SameFixed(s, t) /\ SameScreen(s, t) /\ SameKeys(s, t)
        /\ t.on = s.on /\ t.peer = s.peer /\ ~t.idle
    BY <2>4, <2>5 DEF SameFixed, SameScreen, SameKeys, SameMode
  <2>7. DownOK(t)
    BY <2>4, <2>5, StillDown
  <2>8. /\ \A q \in Peer : q \in t.driven <=> q \in t.up /\ q = s.peer
        /\ \A q \in Peer : t.held[q] = {}
        /\ \A i \in Input : t.routes[i] \notin Peer
        /\ \A i \in Input : i \in t.here <=> t.routes[i] = "local"
    BY <2>4, <2>5 DEF SameFixed, SameTold, SameKeys
  <2>9. DrivenOK(t) /\ KeysOK(t)
    BY <2>1, <2>5, <2>6, <2>8, EnteredOK
  <2>10. ModeOK(t) /\ JumpOK(t)
    BY <2>6 DEF Good, ModeOK, JumpOK, SameFixed, SameScreen
  <2> QED
    BY <2>2, <2>5, <2>6, <2>7, <2>9, <2>10 DEF Good
<1>3. CASE ~s.idle
  <2>1. Resume(s) = s
    BY <1>3 DEF Resume
  <2> QED
    BY <1>3, <2>1 DEF SameFixed, SameScreen, SameKeys
<1> QED
  BY <1>1, <1>2, <1>3

(* The pointer goes on in another mode, on the same peer. *)
LEMMA GoodMode ==
    ASSUME NEW s, Good(s), NEW t \in CaptureState, SameFixed(s, t), SameTold(s, t),
           SameKeys(s, t), t.peer = s.peer, ~s.idle, ~t.idle, JumpOK(t), ModeOK(t)
    PROVE  Good(t)
BY DEF Good, DrivenOK, KeysOK, DownOK, SameFixed, SameTold, SameKeys

LEMMA PortalToRemoteGood ==
    ASSUME NEW s, Good(s), s.on = "portal", NEW beside \in BOOLEAN
    PROVE  LET t == PortalToRemote(s, beside) IN
           Good(t) /\ SameFixed(s, t) /\ SameKeys(s, t) /\ t.peer = s.peer
<1> DEFINE v == ToRemote(s, s.peer, FALSE)
           t == Capture(v)
<1>1. s \in CaptureState /\ s.peer \in Peer /\ s.peer \in s.layout /\ ~s.idle
  BY Fields DEF Good, ModeOK
<1>2. /\ v \in CaptureState
      /\ SameFixed(s, v) /\ SameScreen(s, v) /\ SameTold(s, v) /\ SameKeys(s, v)
      /\ v.on = "remote" /\ v.peer = s.peer /\ v.idle = FALSE
  BY <1>1, ToRemoteIs
<1> HIDE DEF v
<1>3. JumpOK(v)
  BY <1>2 DEF JumpOK, Good, SameFixed, SameScreen
<1>4. /\ t \in CaptureState
      /\ SameFixed(v, t) /\ SameMode(v, t) /\ SameTold(v, t) /\ SameKeys(v, t)
      /\ t.pin /\ JumpOK(t)
  BY <1>2, <1>3, CaptureIs
<1>5. PortalToRemote(s, beside) \in {s, t}
  BY DEF PortalToRemote, v
<1> HIDE DEF t
<1>6. SameFixed(s, t) /\ SameTold(s, t) /\ SameKeys(s, t)
  BY <1>2, <1>4 DEF SameFixed, SameTold, SameKeys
<1>7. t.on = "remote" /\ t.peer = s.peer /\ t.idle = FALSE
  BY <1>2, <1>4 DEF SameMode
<1>8. ModeOK(t)
  <2>1. /\ t.peer # NoPeer /\ t.peer \in t.layout
        /\ ~t.windows => t.portal = NoPeer
    BY <1>1, <1>6, <1>7, Words DEF SameFixed, Good, ModeOK
  <2> QED
    BY <1>4, <1>7, <2>1 DEF ModeOK
<1>9. Good(t)
  BY <1>1, <1>4, <1>6, <1>7, <1>8, GoodMode
<1>10. SameFixed(s, s) /\ SameKeys(s, s)
  BY DEF SameFixed, SameKeys
<1> QED
  BY <1>5, <1>6, <1>7, <1>9, <1>10

(* Onto the portal's picture: its peer is driven then. *)
LEMMA WithinGood ==
    ASSUME NEW s, Good(s), MayEnterPortal(s)
    PROVE  LET t == ToPortal(IF s.on = "portal" THEN s ELSE SendEnter(s, s.portal), s.portal) IN
           /\ Good(t) /\ SameFixed(s, t) /\ SameKeys(s, t)
           /\ t.on = "portal" /\ t.peer = s.portal
<1> DEFINE v == IF s.on = "portal" THEN s ELSE SendEnter(s, s.portal)
           t == ToPortal(v, s.portal)
<1>1. s \in CaptureState /\ s.portal \in Peer /\ s.portal \in s.layout
  BY Fields DEF Good, MayEnterPortal
<1>2. ~s.pin /\ ~s.idle
  BY <1>1, Fields DEF Good, ModeOK, MayEnterPortal
<1>3. /\ v \in CaptureState /\ SameFixed(s, v) /\ SameScreen(s, v) /\ SameKeys(s, v)
      /\ \A q \in Peer : q \in v.driven <=> q \in v.up /\ q = s.portal
      /\ \A q \in Peer, i \in Input : i \in v.held[q] <=> q \in v.up /\ v.routes[i] = q
      /\ \A i \in Input : v.routes[i] \in Peer => v.routes[i] = s.portal
      /\ \A i \in Input : i \in v.here <=> v.routes[i] = "local"
  <2>1. CASE s.on = "portal"
    <3>1. v = s /\ s.peer = s.portal
      BY <2>1 DEF Good, ModeOK
    <3> QED
      BY <1>1, <1>2, <3>1 DEF Good, DrivenOK, KeysOK, SameFixed, SameScreen, SameKeys
  <2>2. CASE s.on # "portal"
    <3>1. s.on = "local" /\ v = SendEnter(s, s.portal)
      BY <1>1, <2>2, Fields DEF MayEnterPortal
    <3>2. Cleared(s) /\ DownOK(s)
      BY <3>1, IsCleared DEF Good
    <3> HIDE DEF v
    <3>3. /\ v \in CaptureState /\ SameFixed(s, v) /\ SameScreen(s, v) /\ SameKeys(s, v)
          /\ \A q \in Peer : q \in v.driven <=> q \in v.up /\ q = s.portal
          /\ \A q \in Peer : v.held[q] = {}
          /\ \A i \in Input : v.routes[i] \notin Peer
          /\ \A i \in Input : i \in v.here <=> v.routes[i] = "local"
      BY <1>1, <3>1, <3>2, EnterIs
    <3> QED
      BY <3>3
  <2> QED
    BY <2>1, <2>2
<1> HIDE DEF v
<1>4. /\ t \in CaptureState
      /\ SameFixed(v, t) /\ SameScreen(v, t) /\ SameTold(v, t) /\ SameKeys(v, t)
      /\ t.on = "portal" /\ t.peer = s.portal /\ ~t.idle
  BY <1>1, <1>3, ToPortalIs
<1> HIDE DEF t
<1>5. SameFixed(s, t) /\ SameScreen(s, t) /\ SameKeys(s, t)
  BY <1>3, <1>4 DEF SameFixed, SameScreen, SameKeys
<1>6. DrivenOK(t) /\ KeysOK(t)
  BY <1>3, <1>4 DEF DrivenOK, KeysOK, SameFixed, SameTold, SameKeys
<1>7. DownOK(t) /\ JumpOK(t)
  BY <1>5, StillDown DEF Good, JumpOK, SameFixed, SameScreen
<1>8. ModeOK(t)
  <2>1. /\ t.peer # NoPeer /\ t.peer \in t.layout /\ ~t.pin /\ t.portal = t.peer
        /\ ~t.windows => t.portal = NoPeer
    BY <1>1, <1>2, <1>4, <1>5, Words DEF SameFixed, SameScreen, Good, ModeOK
  <2> QED
    BY <1>4, <2>1, Zenon DEF ModeOK
<1> QED
  BY <1>4, <1>5, <1>6, <1>7, <1>8 DEF Good, t, v

LEMMA PortalMotionGood ==
    ASSUME NEW s, Good(s), NEW past \in BOOLEAN, NEW beside \in BOOLEAN
    PROVE  LET t == PortalMotion(s, past, beside) IN
           /\ Good(t) /\ SameFixed(s, t) /\ SameKeys(s, t)
           /\ ~MayEnterPortal(s) => t = s
           /\ MayEnterPortal(s) => t.peer = s.portal
           /\ MayEnterPortal(s) /\ ~past => t.on = "portal"
<1> DEFINE w == ToPortal(IF s.on = "portal" THEN s ELSE SendEnter(s, s.portal), s.portal)
<1>1. CASE MayEnterPortal(s)
  <2>1. /\ Good(w) /\ SameFixed(s, w) /\ SameKeys(s, w)
        /\ w.on = "portal" /\ w.peer = s.portal
    BY <1>1, WithinGood
  <2>2. PortalMotion(s, past, beside) = IF past THEN PortalToRemote(w, beside) ELSE w
    BY <1>1 DEF PortalMotion
  <2> HIDE DEF w
  <2>3. LET t == PortalToRemote(w, beside) IN
        Good(t) /\ SameFixed(w, t) /\ SameKeys(w, t) /\ t.peer = w.peer
    BY <2>1, PortalToRemoteGood
  <2>4. LET t == PortalToRemote(w, beside) IN
        Good(t) /\ SameFixed(s, t) /\ SameKeys(s, t) /\ t.peer = s.portal
    BY <2>1, <2>3 DEF SameFixed, SameKeys
  <2> QED
    BY <1>1, <2>1, <2>2, <2>4
<1>2. CASE ~MayEnterPortal(s)
  <2>1. PortalMotion(s, past, beside) = s
    BY <1>2 DEF PortalMotion
  <2> QED
    BY <1>2, <2>1 DEF SameFixed, SameKeys
<1> QED
  BY <1>1, <1>2
-----------------------------------------------------------------------------
(* The pointer crosses to a peer of the layout from this machine. *)
LEMMA CrossGood ==
    ASSUME NEW s, Good(s), s.on = "local", NEW p \in s.layout
    PROVE  LET t == Capture(EnterPeer(s, p)) IN
           Good(t) /\ SameFixed(s, t) /\ t.carrying = s.carrying /\ t.peer = p
<1> DEFINE u == EnterPeer(s, p)
           t == Capture(u)
<1>1. s \in CaptureState /\ p \in Peer /\ Cleared(s) /\ DownOK(s)
  BY IsCleared, Fields DEF Good
<1>2. /\ u \in CaptureState
      /\ SameFixed(s, u) /\ SameScreen(s, u) /\ SameKeys(s, u)
      /\ u.on = "remote" /\ u.peer = p /\ ~u.idle
      /\ DrivenOK(u) /\ KeysOK(u) /\ DownOK(u)
  BY <1>1, EnterPeerIs
<1> HIDE DEF u
<1>3. JumpOK(u)
  BY <1>2 DEF Good, JumpOK, SameFixed, SameScreen
<1>4. /\ t \in CaptureState
      /\ SameFixed(u, t) /\ SameMode(u, t) /\ SameTold(u, t) /\ SameKeys(u, t)
      /\ t.pin /\ JumpOK(t)
  BY <1>2, <1>3, CaptureIs
<1> HIDE DEF t
<1>5. DrivenOK(t) /\ KeysOK(t) /\ DownOK(t)
  BY <1>2, <1>4, StillDown DEF DrivenOK, KeysOK, SameFixed, SameMode, SameTold, SameKeys
<1>6. SameFixed(s, t) /\ t.carrying = s.carrying
  BY <1>2, <1>4 DEF SameFixed, SameKeys
<1>7. t.on = "remote" /\ t.peer = p /\ t.idle = u.idle
  BY <1>2, <1>4 DEF SameMode
<1>8. ModeOK(t)
  <2>1. /\ t.peer # NoPeer /\ t.peer \in t.layout
        /\ ~t.windows => t.portal = NoPeer
    BY <1>1, <1>6, <1>7, Words DEF SameFixed, Good, ModeOK
  <2> QED
    BY <1>4, <1>7, <2>1 DEF ModeOK
<1> QED
  BY <1>4, <1>5, <1>6, <1>7, <1>8 DEF Good, t, u

LEMMA LocalMotionGood ==
    ASSUME NEW s, Good(s), NEW to \in s.layout \union {NoPeer}, NEW beside \in BOOLEAN
    PROVE  LET t == LocalMotion(s, to, beside) IN
           /\ Good(t) /\ SameFixed(s, t)
           /\ s.on = "portal" /\ HoldingOn(s, s.peer) => t.peer = s.peer
           /\ s.on # "portal" /\ to = NoPeer => t = s
<1> DEFINE free == IF s.on = "portal" THEN LeavePortal(s) ELSE s
           t == LocalMotion(s, to, beside)
<1>1. s \in CaptureState /\ SameFixed(s, s)
  BY DEF Good, SameFixed
<1>2. CASE s.on = "portal" /\ HoldingOn(s, s.peer)
  <2>1. t = PortalToRemote(s, beside)
    BY <1>2 DEF LocalMotion
  <2> QED
    BY <1>2, <2>1, PortalToRemoteGood
<1>3. CASE ~(s.on = "portal" /\ HoldingOn(s, s.peer))
  <2>1. Good(free) /\ SameFixed(s, free)
    <3>1. CASE s.on = "portal"
      <4>1. Leavable(s) /\ ~s.pin
        BY <3>1, GoodLeavable, Fields DEF Good, ModeOK
      <4> QED
        BY <3>1, <4>1, LeavePortalGood
    <3> QED
      BY <1>1, <3>1
  <2>2. t = IF free.on # "local" \/ to = NoPeer \/ SwitchBlocked(free)
              THEN free ELSE Capture(EnterPeer(free, to))
    BY <1>3 DEF LocalMotion
  <2>3. s.on # "portal" => free = s
    OBVIOUS
  <2> HIDE DEF free, t
  <2>4. CASE free.on # "local" \/ to = NoPeer \/ SwitchBlocked(free)
    BY <1>3, <2>1, <2>2, <2>3, <2>4 DEF t
  <2>5. CASE free.on = "local" /\ to # NoPeer /\ ~SwitchBlocked(free)
    <3>1. to \in free.layout /\ t = Capture(EnterPeer(free, to))
      BY <2>1, <2>2, <2>5 DEF SameFixed
    <3>2. Good(t) /\ SameFixed(free, t)
      BY <2>1, <2>5, <3>1, CrossGood
    <3>3. SameFixed(s, t)
      BY <2>1, <3>2 DEF SameFixed
    <3> QED
      BY <1>3, <2>5, <3>2, <3>3 DEF t
  <2> QED
    BY <2>4, <2>5
<1> QED
  BY <1>2, <1>3

-----------------------------------------------------------------------------
LEMMA RemoteToPortalGood ==
    ASSUME NEW s, Good(s), s.on = "remote", ~s.idle, OntoPortal(s)
    PROVE  LET t == RemoteToPortal(s) IN
           Good(t) /\ SameFixed(s, t) /\ SameKeys(s, t) /\ t.peer = s.peer
<1> DEFINE v == ToPortal(s, s.peer)
           t == EnterPortal(v)
<1>1. s \in CaptureState /\ s.peer \in Peer /\ s.peer \in s.layout /\ s.portal = s.peer
  BY Fields DEF Good, OntoPortal
<1>2. /\ v \in CaptureState
      /\ SameFixed(s, v) /\ SameScreen(s, v) /\ SameTold(s, v) /\ SameKeys(s, v)
      /\ v.on = "portal" /\ v.peer = s.peer /\ ~v.idle
  BY <1>1, ToPortalIs
<1> HIDE DEF v
<1>3. JumpOK(v)
  BY <1>2 DEF JumpOK, Good, SameFixed, SameScreen
<1>4. /\ t \in CaptureState
      /\ SameFixed(v, t) /\ SameMode(v, t) /\ SameTold(v, t) /\ SameKeys(v, t)
      /\ ~t.pin /\ JumpOK(t)
  BY <1>2, <1>3, EnterPortalIs
<1>5. t = RemoteToPortal(s)
  BY DEF RemoteToPortal, v
<1> HIDE DEF t
<1>6. SameFixed(s, t) /\ SameTold(s, t) /\ SameKeys(s, t)
  BY <1>2, <1>4 DEF SameFixed, SameTold, SameKeys
<1>7. t.on = "portal" /\ t.peer = s.peer /\ ~t.idle
  BY <1>2, <1>4, Zenon DEF SameMode
<1>8. ModeOK(t)
  <2>1. /\ t.peer # NoPeer /\ t.peer \in t.layout /\ t.portal = t.peer
        /\ ~t.windows => t.portal = NoPeer
    BY <1>1, <1>6, <1>7, Words DEF SameFixed, Good, ModeOK
  <2> QED
    BY <1>4, <1>7, <2>1, Zenon DEF ModeOK
<1>9. Good(t)
  BY <1>1, <1>4, <1>6, <1>7, <1>8, GoodMode
<1> QED
  BY <1>5, <1>6, <1>7, <1>9

(* From a peer's screens straight onto another's. *)
LEMMA AcrossGood ==
    ASSUME NEW s, Good(s), s.on = "remote", NEW p \in s.layout
    PROVE  LET t == EnterPeer(LeavePeer(s, s.peer), p) IN Good(t) /\ SameFixed(s, t)
<1> DEFINE u == LeavePeer(s, s.peer)
           t == EnterPeer(u, p)
<1>1. Leavable(s) /\ p \in Peer /\ s \in CaptureState /\ s.pin
  BY GoodLeavable, Fields DEF Good, ModeOK
<1>2. /\ u \in CaptureState /\ SameFixed(s, u) /\ SameScreen(s, u)
      /\ Cleared(u) /\ DownOK(u)
  BY <1>1, LeavePeerIs DEF Leavable
<1> HIDE DEF u
<1>3. /\ t \in CaptureState
      /\ SameFixed(u, t) /\ SameScreen(u, t)
      /\ t.on = "remote" /\ t.peer = p /\ ~t.idle
      /\ DrivenOK(t) /\ KeysOK(t) /\ DownOK(t)
  BY <1>1, <1>2, EnterPeerIs
<1> HIDE DEF t
<1>4. SameFixed(s, t) /\ SameScreen(s, t)
  BY <1>2, <1>3 DEF SameFixed, SameScreen
<1>5. JumpOK(t)
  BY <1>4 DEF Good, JumpOK, SameFixed, SameScreen
<1>6. ModeOK(t)
  <2>1. /\ t.peer # NoPeer /\ t.peer \in t.layout /\ t.pin
        /\ ~t.windows => t.portal = NoPeer
    BY <1>1, <1>3, <1>4, Words DEF SameFixed, SameScreen, Good, ModeOK
  <2> QED
    BY <1>3, <2>1 DEF ModeOK
<1> QED
  BY <1>3, <1>4, <1>5, <1>6 DEF Good, t, u

LEMMA MoveOnGood ==
    ASSUME NEW s, Good(s), s.on = "remote", ~s.idle,
           NEW goal \in {"stay", "portal", "shown", Home} \union s.layout
    PROVE  LET t == MoveOn(s, goal) IN
           /\ Good(t) /\ SameFixed(s, t)
           /\ goal = "stay" => t = s
           /\ goal = "portal" => t.peer = s.peer
           /\ goal = "shown" =>
                \/ t.peer = s.peer
                \/ t.on = "local" /\ s.shown = s.peer /\ ~HoldingOn(s, s.peer)
           /\ SwitchBlocked(s) /\ goal \in Peer \union {Home} => t = s
<1> DEFINE t == MoveOn(s, goal)
<1>1. s \in CaptureState /\ s.layout \subseteq Peer /\ SameFixed(s, s) /\ Leavable(s)
  BY GoodLeavable, Fields DEF Good, SameFixed
<1>2. CASE goal = "stay"
  <2>1. t = s
    BY <1>2, Words DEF MoveOn, Home
  <2> QED
    BY <1>1, <1>2, <2>1, Words DEF Home
<1>3. CASE goal = "portal"
  <2>1. t = IF OntoPortal(s) THEN RemoteToPortal(s) ELSE s
    BY <1>3, Words DEF MoveOn, Home
  <2> HIDE DEF t
  <2>2. Good(t) /\ SameFixed(s, t) /\ t.peer = s.peer
    BY <1>1, <2>1, RemoteToPortalGood
  <2> QED
    BY <1>3, <2>2, Words DEF t, Home
<1>4. CASE goal = "shown"
  <2>1. t = IF OntoShown(s) THEN Release(ToLocal(LeavePeer(s, s.peer))) ELSE s
    BY <1>4, Words DEF MoveOn, Home, RemoteToShown
  <2> HIDE DEF t
  <2>2. CASE OntoShown(s)
    <3>1. Good(t) /\ SameFixed(s, t) /\ t.on = "local"
      BY <1>1, <2>1, <2>2, HomeGood
    <3> QED
      BY <1>4, <2>2, <3>1, Words DEF t, Home, OntoShown
  <2>3. CASE ~OntoShown(s)
    BY <1>1, <1>4, <2>1, <2>3, Words DEF t, Home
  <2> QED
    BY <2>2, <2>3
<1>5. CASE goal \in Peer \union {Home}
  <2>1. goal \notin {"stay", "portal", "shown"} /\ goal \in s.layout \union {Home}
    BY <1>1, <1>5, Words DEF Home
  <2>2. t = IF SwitchBlocked(s) THEN s
            ELSE IF goal = Home THEN Release(ToLocal(LeavePeer(s, s.peer)))
            ELSE EnterPeer(LeavePeer(s, s.peer), goal)
    BY <1>5, <2>1 DEF MoveOn
  <2> HIDE DEF t
  <2>3. CASE SwitchBlocked(s)
    BY <1>1, <2>1, <2>2, <2>3 DEF t
  <2>4. CASE ~SwitchBlocked(s) /\ goal = Home
    <3>1. Good(t) /\ SameFixed(s, t)
      BY <1>1, <2>2, <2>4, HomeGood
    <3> QED
      BY <2>1, <2>4, <3>1 DEF t
  <2>5. CASE ~SwitchBlocked(s) /\ goal # Home
    <3>1. Good(t) /\ SameFixed(s, t)
      BY <1>1, <2>1, <2>2, <2>5, AcrossGood
    <3> QED
      BY <2>1, <2>5, <3>1 DEF t
  <2> QED
    BY <2>3, <2>4, <2>5
<1> QED
  BY <1>1, <1>2, <1>3, <1>4, <1>5
-----------------------------------------------------------------------------
(* What changes only the screen's part, or what the user holds. *)
SameInput(s, t) ==
    /\ t.on = s.on /\ t.peer = s.peer /\ t.pin = s.pin
    /\ t.carrying = s.carrying /\ t.routes = s.routes

LEMMA SeenGood ==
    ASSUME NEW s, Good(s), NEW motion \in Motion
    PROVE  LET t == Seen(s, motion) IN
           Good(t) /\ SameFixed(s, t) /\ SameInput(s, t) /\ t.idle = s.idle
<1> DEFINE late == motion = "late"
           jump == s.jump /\ late
           t == [s EXCEPT !.jump = jump, !.warpedTo = FALSE, !.mixed = late]
<1>1. s \in CaptureState /\ late \in BOOLEAN /\ jump \in BOOLEAN /\ (jump => late)
  BY Fields DEF Good
<1>2. Seen(s, motion) = t
  BY DEF Seen
<1> HIDE DEF jump, late
<1>3. t \in CaptureState
  BY <1>1 DEF CaptureState
<1>4. SameFixed(s, t) /\ SameMode(s, t) /\ SameTold(s, t) /\ SameKeys(s, t)
  BY <1>1 DEF CaptureState, SameFixed, SameMode, SameTold, SameKeys
<1>5. t.pin = s.pin /\ t.jump = jump /\ t.mixed = late
  BY <1>1 DEF CaptureState
<1> HIDE DEF t
<1>6. Good(t)
  BY <1>1, <1>3, <1>4, <1>5, GoodScreen DEF JumpOK, SameKeys
<1> QED
  BY <1>2, <1>4, <1>5, <1>6 DEF SameInput, SameMode, SameKeys

LEMMA JumpsOnGood ==
    ASSUME NEW s, Good(s)
    PROVE  LET t == [s EXCEPT !.jump = @ \/ s.windows] IN
           Good(t) /\ SameFixed(s, t) /\ SameInput(s, t)
<1> DEFINE jump == s.jump \/ s.windows
           t == [s EXCEPT !.jump = jump]
<1>1. s \in CaptureState /\ jump \in BOOLEAN
  BY Fields DEF Good
<1>2. ~s.windows /\ jump => s.warpedTo \/ s.mixed
  BY DEF Good, JumpOK
<1> HIDE DEF jump
<1>3. /\ t \in CaptureState /\ SameFixed(s, t) /\ SameMode(s, t) /\ SameTold(s, t)
      /\ SameKeys(s, t) /\ t.pin = s.pin /\ t.jump = jump /\ t.warpedTo = s.warpedTo
      /\ t.mixed = s.mixed
  BY <1>1 DEF CaptureState, SameFixed, SameMode, SameTold, SameKeys
<1> HIDE DEF t
<1>4. JumpOK(t)
  BY <1>2, <1>3 DEF JumpOK, SameFixed
<1>5. Good(t)
  BY <1>3, <1>4, GoodScreen DEF SameKeys
<1> QED
  BY <1>3, <1>5 DEF SameInput, SameMode, SameKeys, t, jump

LEMMA WindowGood ==
    ASSUME NEW s, Good(s), NEW w \in {"hidden", "cover", "catcher"}
    PROVE  LET t == [s EXCEPT !.window = w] IN
           Good(t) /\ SameFixed(s, t) /\ SameInput(s, t)
<1> DEFINE t == [s EXCEPT !.window = w]
<1>1. s \in CaptureState
  BY DEF Good
<1>2. /\ t \in CaptureState /\ SameFixed(s, t) /\ SameMode(s, t) /\ SameTold(s, t)
      /\ SameKeys(s, t) /\ t.pin = s.pin /\ t.jump = s.jump /\ t.warpedTo = s.warpedTo
      /\ t.mixed = s.mixed
  BY <1>1 DEF CaptureState, SameFixed, SameMode, SameTold, SameKeys
<1> HIDE DEF t
<1>3. JumpOK(t)
  BY <1>2 DEF JumpOK, SameFixed, Good
<1>4. Good(t)
  BY <1>2, <1>3, GoodScreen DEF SameKeys
<1> QED
  BY <1>2, <1>4 DEF SameInput, SameMode, SameKeys, t

LEMMA CatchGood ==
    ASSUME NEW s, Good(s), NEW at
    PROVE  LET t == Catch(s, at) IN Good(t) /\ SameFixed(s, t) /\ SameInput(s, t)
<1>1. \/ Catch(s, at) = s
      \/ \E w \in {"hidden", "cover", "catcher"} : Catch(s, at) = [s EXCEPT !.window = w]
  BY DEF Catch
<1>2. SameFixed(s, s) /\ SameInput(s, s)
  BY DEF SameFixed, SameInput
<1>3. CASE Catch(s, at) = s
  BY <1>2, <1>3
<1>4. ASSUME NEW w \in {"hidden", "cover", "catcher"}, Catch(s, at) = [s EXCEPT !.window = w]
      PROVE  LET t == Catch(s, at) IN Good(t) /\ SameFixed(s, t) /\ SameInput(s, t)
  BY <1>4, WindowGood
<1> QED
  BY <1>1, <1>3, <1>4

LEMMA StopCatchingGood ==
    ASSUME NEW s, Good(s), NEW i
    PROVE  Good(StopCatching(s, i)) /\ SameFixed(s, StopCatching(s, i))
<1>1. SameFixed(s, s)
  BY DEF SameFixed
<1> QED
  BY <1>1, WindowGood DEF StopCatching

LEMMA CarryingGood ==
    ASSUME NEW s, Good(s)
    PROVE  LET t == [s EXCEPT !.carrying = TRUE] IN Good(t) /\ SameFixed(s, t)
<1> DEFINE t == [s EXCEPT !.carrying = TRUE]
<1>1. s \in CaptureState
  BY DEF Good
<1>2. /\ t \in CaptureState /\ SameFixed(s, t) /\ SameMode(s, t) /\ SameTold(s, t)
      /\ SameScreen(s, t) /\ t.routes = s.routes /\ t.here = s.here
  BY <1>1 DEF CaptureState, SameFixed, SameMode, SameTold, SameScreen
<1> HIDE DEF t
<1>3. t.pin = s.pin /\ JumpOK(t)
  BY <1>2 DEF JumpOK, SameFixed, SameScreen, Good
<1>4. Good(t)
  BY <1>2, <1>3, GoodScreen
<1> QED
  BY <1>2, <1>4 DEF t

LEMMA PeerMovedGood ==
    ASSUME NEW s, Good(s)
    PROVE  LET t == [s EXCEPT !.peerMoved = TRUE] IN Good(t) /\ SameFixed(s, t)
<1> DEFINE t == [s EXCEPT !.peerMoved = TRUE]
<1>1. s \in CaptureState
  BY DEF Good
<1>2. /\ t \in CaptureState /\ SameFixed(s, t) /\ SameMode(s, t) /\ SameTold(s, t)
      /\ SameKeys(s, t) /\ t.pin = s.pin /\ t.jump = s.jump /\ t.warpedTo = s.warpedTo
      /\ t.mixed = s.mixed
  BY <1>1 DEF CaptureState, SameFixed, SameMode, SameTold, SameKeys
<1> HIDE DEF t
<1>3. JumpOK(t)
  BY <1>2 DEF JumpOK, SameFixed, Good
<1>4. Good(t)
  BY <1>2, <1>3, GoodScreen DEF SameKeys
<1> QED
  BY <1>2, <1>4 DEF t

(* The user's hand: down, and what is noted of the rest. *)
SameBut(s, t) ==
    /\ t.windows = s.windows /\ t.portal = s.portal /\ t.shown = s.shown
    /\ t.layout = s.layout /\ t.up = s.up

LEMMA CursorTakenGood ==
    ASSUME NEW s, Good(s)
    PROVE  LET t == [s EXCEPT !.jump = FALSE, !.mixed = s.warpedTo] IN
           Good(t) /\ SameFixed(s, t)
<1> DEFINE t == [s EXCEPT !.jump = FALSE, !.mixed = s.warpedTo]
<1>1. s \in CaptureState /\ s.warpedTo \in BOOLEAN
  BY Fields DEF Good
<1>2. /\ t \in CaptureState /\ SameFixed(s, t) /\ SameMode(s, t) /\ SameTold(s, t)
      /\ SameKeys(s, t) /\ t.pin = s.pin /\ t.jump = FALSE
  BY <1>1 DEF CaptureState, SameFixed, SameMode, SameTold, SameKeys
<1> HIDE DEF t
<1>3. Good(t)
  BY <1>2, GoodScreen DEF JumpOK, SameKeys
<1> QED
  BY <1>2, <1>3 DEF t

LEMMA DownGood ==
    ASSUME NEW s, Good(s), NEW i \in Input
    PROVE  LET t == [s EXCEPT !.down = @ \union {i}] IN
           /\ Good(t) /\ SameBut(s, t) /\ SameInput(s, t)
           /\ t.down = s.down \union {i}
<1> DEFINE t == [s EXCEPT !.down = s.down \union {i}]
<1>1. s \in CaptureState
  BY DEF Good
<1>2. /\ t \in CaptureState /\ SameBut(s, t) /\ SameMode(s, t) /\ SameTold(s, t)
      /\ SameKeys(s, t) /\ SameScreen(s, t) /\ t.down = s.down \union {i}
  BY <1>1 DEF CaptureState, SameBut, SameMode, SameTold, SameKeys, SameScreen
<1> HIDE DEF t
<1>3. ModeOK(t) /\ JumpOK(t)
  BY <1>2 DEF Good, ModeOK, JumpOK, SameBut, SameMode, SameScreen
<1>4. DrivenOK(t) /\ KeysOK(t)
  BY <1>2 DEF Good, DrivenOK, KeysOK, SameBut, SameMode, SameTold, SameKeys
<1>5. DownOK(t)
  BY <1>2 DEF Good, DownOK, SameKeys
<1> QED
  BY <1>2, <1>3, <1>4, <1>5 DEF Good, SameInput, SameMode, SameScreen, SameKeys, t

-----------------------------------------------------------------------------
(* What the user presses goes where the pointer is, and stays noted there. *)
LEMMA PressGood ==
    ASSUME NEW s, Good(s), NEW i \in s.down, i \in Key \/ s.routes[i] = "none"
    PROVE  LET t == Press(s, i) IN
           /\ Good(t) /\ SameFixed(s, t)
           /\ s.routes[i] = "none" /\ s.peer \in s.up => i \in t.held[s.peer]
<1>1. s \in CaptureState /\ i \in Input
  BY DEF Good, CaptureState
<1>2. CASE s.routes[i] # "none"
  <2>1. Press(s, i) = s
    BY <1>2 DEF Press
  <2> QED
    BY <1>2, <2>1 DEF SameFixed
<1>3. CASE s.routes[i] = "none"
  <2> DEFINE w == Resume(s)
             route == CurrentRoute(w)
             routes == [w.routes EXCEPT ![i] = route]
             noted == [w EXCEPT !.routes = routes]
  <2>1. /\ Good(w) /\ SameFixed(s, w) /\ SameKeys(s, w)
        /\ w.on = s.on /\ w.peer = s.peer /\ ~w.idle
    BY ResumeGood
  <2>2. Press(s, i) = IF route = "local" THEN [noted EXCEPT !.here = @ \union {i}]
                      ELSE SendPress(noted, route, i)
    BY <1>3 DEF Press
  <2> HIDE DEF w
  <2>3. /\ w \in CaptureState /\ w.routes \in [Input -> Route] /\ w.here \subseteq Input
        /\ w.routes[i] = "none" /\ i \in w.down
        /\ w.on \in {"local", "remote", "portal"}
        /\ w.peer \in Peer \union {NoPeer}
    BY <1>3, <2>1 DEF Good, CaptureState, SameKeys, SameFixed
  <2>4. /\ w.on = "local" => route = "local" /\ w.peer = NoPeer
        /\ w.on # "local" => route = w.peer /\ w.peer \in Peer
    BY <2>1, <2>3 DEF CurrentRoute, Good, ModeOK
  <2>5. route \in Route /\ (route = "local" <=> w.on = "local")
    BY <2>4, Words DEF Route
  <2> HIDE DEF route
  <2>6. /\ routes \in [Input -> Route]
        /\ \A j \in Input : routes[j] = IF j = i THEN route ELSE w.routes[j]
    BY <1>1, <2>3, <2>5
  <2> HIDE DEF routes
  <2>7. /\ noted \in CaptureState /\ SameFixed(w, noted) /\ SameMode(w, noted)
        /\ SameScreen(w, noted) /\ SameTold(w, noted) /\ noted.routes = routes
        /\ noted.carrying = w.carrying /\ noted.here = w.here
    BY <2>3, <2>6 DEF CaptureState, SameFixed, SameMode, SameScreen, SameTold
  <2> HIDE DEF noted
  <2>8. CASE w.on = "local"
    <3> DEFINE t == [noted EXCEPT !.here = w.here \union {i}]
    <3>1. Press(s, i) = t
      BY <2>2, <2>5, <2>7, <2>8
    <3>2. /\ t \in CaptureState /\ SameFixed(noted, t) /\ SameMode(noted, t)
          /\ SameScreen(noted, t) /\ SameTold(noted, t) /\ t.routes = noted.routes
          /\ t.here = w.here \union {i}
      BY <1>1, <2>3, <2>7 DEF CaptureState, SameFixed, SameMode, SameScreen, SameTold
    <3> HIDE DEF t
    <3>3. /\ SameFixed(w, t) /\ SameMode(w, t) /\ SameScreen(w, t) /\ SameTold(w, t)
          /\ t.routes = routes
      BY <2>7, <3>2 DEF SameFixed, SameMode, SameScreen, SameTold
    <3>4. ModeOK(t) /\ JumpOK(t) /\ DrivenOK(t)
      BY <2>1, <3>3 DEF Good, ModeOK, JumpOK, DrivenOK, SameFixed, SameMode, SameScreen, SameTold
    <3>5. route = "local" /\ route \notin Peer /\ w.peer = NoPeer
      BY <2>4, <2>8, Words
    <3>6. \A j \in Input : t.routes[j] \in Peer => t.routes[j] = t.peer /\ ~t.idle
      BY <2>1, <2>6, <3>3, <3>5 DEF Good, KeysOK, SameMode
    <3>7. \A q \in Peer, j \in Input : j \in t.held[q] <=> q \in t.up /\ t.routes[j] = q
      BY <2>1, <2>3, <2>6, <3>3, <3>5, Words DEF Good, KeysOK, SameFixed, SameTold
    <3>8. \A j \in Input : j \in t.here <=> t.routes[j] = "local"
      BY <2>1, <2>6, <3>2, <3>3, <3>5 DEF Good, KeysOK
    <3>9. DownOK(t)
      BY <2>1, <2>3, <2>6, <3>3 DEF Good, DownOK, SameFixed
    <3>10. Good(t)
      BY <3>2, <3>4, <3>6, <3>7, <3>8, <3>9 DEF Good, KeysOK
    <3>11. SameFixed(s, t) /\ s.peer = NoPeer
      BY <2>1, <3>3, <3>5 DEF SameFixed
    <3> QED
      BY <1>1, <3>1, <3>10, <3>11, Words, Fields
  <2>9. CASE w.on # "local"
    <3> DEFINE t == SendPress(noted, route, i)
    <3>1. Press(s, i) = t /\ route = w.peer /\ route \in Peer
      BY <2>2, <2>4, <2>5, <2>9
    <3>2. /\ t \in CaptureState
          /\ SameFixed(noted, t) /\ SameMode(noted, t) /\ SameScreen(noted, t)
          /\ SameKeys(noted, t)
          /\ \A q \in Peer : t.held[q] = IF q = route /\ route \in noted.driven
                                         THEN noted.held[q] \union {i} ELSE noted.held[q]
          /\ t.driven = noted.driven
      <4>1. noted \in CaptureState /\ route \in Peer /\ i \in Input
        BY <1>1, <2>7, <3>1
      <4> HIDE DEF noted, route
      <4> QED
        BY <4>1, SendPressIs
    <3> HIDE DEF t
    <3>3. /\ SameFixed(w, t) /\ SameMode(w, t) /\ SameScreen(w, t)
          /\ t.routes = routes /\ t.here = w.here /\ t.driven = w.driven
          /\ \A q \in Peer : t.held[q] = IF q = route /\ route \in w.driven
                                         THEN w.held[q] \union {i} ELSE w.held[q]
      BY <2>7, <3>2 DEF SameFixed, SameMode, SameScreen, SameTold, SameKeys
    <3>4. ModeOK(t) /\ JumpOK(t) /\ DrivenOK(t)
      BY <2>1, <3>3 DEF Good, ModeOK, JumpOK, DrivenOK, SameFixed, SameMode, SameScreen
    <3>5. route \in w.driven <=> route \in w.up
      BY <2>1, <3>1 DEF Good, DrivenOK
    <3>6. \A j \in Input : t.routes[j] \in Peer => t.routes[j] = t.peer /\ ~t.idle
      BY <2>1, <2>6, <3>1, <3>3 DEF Good, KeysOK, SameMode
    <3>7. \A q \in Peer, j \in Input : j \in t.held[q] <=> q \in t.up /\ t.routes[j] = q
      <4>1. \A q \in Peer, j \in Input : j \in w.held[q] <=> q \in w.up /\ w.routes[j] = q
        BY <2>1 DEF Good, KeysOK
      <4>2. t.up = w.up
        BY <3>3 DEF SameFixed
      <4>3. \A q \in Peer : i \notin w.held[q]
        BY <1>1, <2>3, <4>1, Words
      <4> SUFFICES ASSUME NEW q \in Peer, NEW j \in Input
                   PROVE  j \in t.held[q] <=> q \in t.up /\ t.routes[j] = q
        OBVIOUS
      <4>4. t.routes[j] = IF j = i THEN route ELSE w.routes[j]
        BY <2>6, <3>3
      <4>5. j \in t.held[q] <=> j \in w.held[q] \/ (j = i /\ q = route /\ route \in w.driven)
        BY <3>3
      <4>6. CASE j = i
        BY <3>5, <4>2, <4>3, <4>4, <4>5, <4>6
      <4>7. CASE j # i
        BY <4>1, <4>2, <4>4, <4>5, <4>7
      <4> QED
        BY <4>6, <4>7
    <3>8. \A j \in Input : j \in t.here <=> t.routes[j] = "local"
      BY <2>1, <2>3, <2>6, <3>1, <3>3, Words DEF Good, KeysOK
    <3>9. DownOK(t)
      BY <2>1, <2>3, <2>6, <3>3 DEF Good, DownOK, SameFixed
    <3>10. Good(t)
      BY <3>2, <3>4, <3>6, <3>7, <3>8, <3>9 DEF Good, KeysOK
    <3>11. SameFixed(s, t) /\ s.peer = route /\ (route \in s.up => i \in t.held[route])
      BY <2>1, <3>1, <3>3, <3>5 DEF SameFixed
    <3> QED
      BY <3>1, <3>10, <3>11
  <2> QED
    BY <2>8, <2>9
<1> QED
  BY <1>2, <1>3
-----------------------------------------------------------------------------
(* What goes up is taken back where it went down, and forgotten. *)
LEMMA LetGoGood ==
    ASSUME NEW c, Good(c), NEW i \in Input
    PROVE  LET t == LetGo([c EXCEPT !.down = @ \ {i}], i) IN
           Good(t) /\ SameBut(c, t) /\ t.down \subseteq c.down
<1> DEFINE s == [c EXCEPT !.down = c.down \ {i}]
           route == IF s.routes[i] = "none" THEN CurrentRoute(s) ELSE s.routes[i]
           routes == [s.routes EXCEPT ![i] = "none"]
           carrying == s.carrying /\ i # Left
           up == [s EXCEPT !.routes = routes, !.carrying = carrying]
<1>1. c \in CaptureState
  BY DEF Good
<1>2. /\ s \in CaptureState /\ SameBut(c, s) /\ SameMode(c, s) /\ SameTold(c, s)
      /\ SameKeys(c, s) /\ SameScreen(c, s) /\ s.down = c.down \ {i}
  BY <1>1 DEF CaptureState, SameBut, SameMode, SameTold, SameKeys, SameScreen
<1>3. LetGo(s, i) = IF route = "local" THEN [up EXCEPT !.here = @ \ {i}]
                    ELSE IF route = "dropped" THEN up
                    ELSE SendRelease(up, route, i)
  BY DEF LetGo
<1> HIDE DEF s
<1>4. /\ s.routes \in [Input -> Route] /\ carrying \in BOOLEAN /\ s.here \subseteq Input
      /\ s.on \in {"local", "remote", "portal"} /\ s.peer \in Peer \union {NoPeer}
  BY <1>2 DEF CaptureState
<1>5. /\ s.on = "local" <=> s.peer = NoPeer
      /\ \A j \in Input : s.routes[j] \in Peer => s.routes[j] = s.peer /\ ~s.idle
      /\ \A q \in Peer, j \in Input : j \in s.held[q] <=> q \in s.up /\ s.routes[j] = q
      /\ \A j \in Input : j \in s.here <=> s.routes[j] = "local"
      /\ \A j \in Input : j # i /\ s.routes[j] # "none" => j \in s.down
  BY <1>1, <1>2 DEF Good, ModeOK, KeysOK, DownOK, SameBut, SameMode, SameTold, SameKeys
<1>6. ModeOK(s) /\ JumpOK(s) /\ DrivenOK(s)
  BY <1>2 DEF Good, ModeOK, JumpOK, DrivenOK, SameBut, SameMode, SameTold, SameScreen
<1>7. /\ route \in {"local", "dropped"} \union Peer
      /\ s.routes[i] # "none" => route = s.routes[i]
  BY <1>4, <1>5, Words DEF CurrentRoute, Route
<1> HIDE DEF route
<1>8. /\ routes \in [Input -> Route]
      /\ \A j \in Input : routes[j] = IF j = i THEN "none" ELSE s.routes[j]
  BY <1>4 DEF Route
<1> HIDE DEF routes, carrying
<1>9. /\ up \in CaptureState /\ SameFixed(s, up) /\ SameMode(s, up) /\ SameScreen(s, up)
      /\ SameTold(s, up) /\ up.routes = routes /\ up.here = s.here
  BY <1>2, <1>4, <1>8 DEF CaptureState, SameFixed, SameMode, SameScreen, SameTold
<1> HIDE DEF up
(* Who holds it is the only difference between the three ways. *)
<1>10. ASSUME NEW t \in CaptureState, SameFixed(up, t), SameMode(up, t), SameScreen(up, t),
              t.driven = up.driven, t.routes = up.routes,
              \A j \in Input : j \in t.here <=> j \in s.here /\ (j = i => route # "local"),
              \A q \in Peer, j \in Input :
                 j \in t.held[q] <=> j \in s.held[q] /\ (j = i => route # q)
       PROVE  Good(t) /\ SameBut(c, t) /\ t.down \subseteq c.down
  <2>1. /\ SameFixed(s, t) /\ SameMode(s, t) /\ SameScreen(s, t) /\ t.driven = s.driven
        /\ t.routes = routes
    BY <1>9, <1>10 DEF SameFixed, SameMode, SameScreen, SameTold
  <2>2. ModeOK(t) /\ JumpOK(t) /\ DrivenOK(t)
    BY <1>6, <2>1 DEF ModeOK, JumpOK, DrivenOK, SameFixed, SameMode, SameScreen
  <2>3. \A j \in Input : t.routes[j] \in Peer => t.routes[j] = t.peer /\ ~t.idle
    BY <1>5, <1>8, <2>1, Words DEF SameMode
  <2>4. \A q \in Peer, j \in Input : j \in t.held[q] <=> q \in t.up /\ t.routes[j] = q
    <3> SUFFICES ASSUME NEW q \in Peer, NEW j \in Input
                 PROVE  j \in t.held[q] <=> q \in t.up /\ t.routes[j] = q
      OBVIOUS
    <3>1. t.up = s.up /\ t.routes[j] = IF j = i THEN "none" ELSE s.routes[j]
      BY <1>8, <2>1 DEF SameFixed
    <3>2. j \in t.held[q] <=> j \in s.held[q] /\ (j = i => route # q)
      BY <1>10
    <3>3. CASE j = i
      BY <1>5, <1>7, <3>1, <3>2, <3>3, Words
    <3>4. CASE j # i
      BY <1>5, <3>1, <3>2, <3>4
    <3> QED
      BY <3>3, <3>4
  <2>5. \A j \in Input : j \in t.here <=> t.routes[j] = "local"
    <3> SUFFICES ASSUME NEW j \in Input
                 PROVE  j \in t.here <=> t.routes[j] = "local"
      OBVIOUS
    <3>1. t.routes[j] = IF j = i THEN "none" ELSE s.routes[j]
      BY <1>8, <2>1
    <3>2. j \in t.here <=> j \in s.here /\ (j = i => route # "local")
      BY <1>10
    <3>3. CASE j = i
      BY <1>5, <1>7, <3>1, <3>2, <3>3
    <3>4. CASE j # i
      BY <1>5, <3>1, <3>2, <3>4
    <3> QED
      BY <3>3, <3>4
  <2>6. DownOK(t)
    BY <1>5, <1>8, <2>1 DEF DownOK, SameFixed
  <2>7. SameBut(c, t) /\ t.down \subseteq c.down
    BY <1>2, <2>1 DEF SameBut, SameFixed
  <2> QED
    BY <1>10, <2>2, <2>3, <2>4, <2>5, <2>6, <2>7 DEF Good, KeysOK
<1> DEFINE t == LetGo(s, i)
<1>11. CASE route = "local"
  <2>1. t = [up EXCEPT !.here = s.here \ {i}]
    BY <1>3, <1>9, <1>11
  <2>2. /\ t \in CaptureState /\ SameFixed(up, t) /\ SameMode(up, t) /\ SameScreen(up, t)
        /\ SameTold(up, t) /\ t.routes = up.routes /\ t.here = s.here \ {i}
    BY <1>4, <1>9, <2>1 DEF CaptureState, SameFixed, SameMode, SameScreen, SameTold
  <2> HIDE DEF t
  <2>3. \A j \in Input : j \in t.here <=> j \in s.here /\ (j = i => route # "local")
    BY <1>11, <2>2
  <2>4. t.driven = up.driven /\ t.held = s.held
    BY <1>9, <2>2 DEF SameTold
  <2>5. \A q \in Peer, j \in Input : j \in t.held[q] <=> j \in s.held[q] /\ (j = i => route # q)
    BY <1>11, <2>4, Words
  <2>6. Good(t) /\ SameBut(c, t) /\ t.down \subseteq c.down
    BY <1>10, <2>2, <2>3, <2>4, <2>5
  <2> QED
    BY <2>6 DEF t, s
<1>12. CASE route = "dropped"
  <2>1. t = up
    BY <1>3, <1>12
  <2>2. SameFixed(up, up) /\ SameMode(up, up) /\ SameScreen(up, up)
    BY DEF SameFixed, SameMode, SameScreen
  <2>3. up.held = s.held /\ up.here = s.here
    BY <1>9 DEF SameTold
  <2>4. /\ \A j \in Input : j \in up.here <=> j \in s.here /\ (j = i => route # "local")
        /\ \A q \in Peer, j \in Input : j \in up.held[q] <=> j \in s.held[q] /\ (j = i => route # q)
    BY <1>12, <2>3, Words
  <2>5. Good(up) /\ SameBut(c, up) /\ up.down \subseteq c.down
    BY <1>9, <1>10, <2>2, <2>4
  <2> QED
    BY <2>1, <2>5 DEF s
<1>13. CASE route \in Peer
  <2> DEFINE r == SendRelease(up, route, i)
  <2>1. t = r
    BY <1>3, <1>13, Words
  <2>2. up \in CaptureState
    BY <1>9
  <2>3. /\ r \in CaptureState /\ SameFixed(up, r) /\ SameMode(up, r) /\ SameScreen(up, r)
        /\ SameKeys(up, r) /\ r.driven = up.driven
        /\ \A q \in Peer, j \in Input :
             j \in r.held[q] <=> j \in up.held[q] /\ ~(q = route /\ j = i)
    BY <1>13, <2>2, SendReleaseIs
  <2> HIDE DEF r
  <2>4. r.routes = up.routes /\ r.here = s.here /\ up.held = s.held
    BY <1>9, <2>3 DEF SameKeys, SameTold
  <2>5. \A j \in Input : j \in r.here <=> j \in s.here /\ (j = i => route # "local")
    BY <1>13, <2>4, Words
  <2>6. \A q \in Peer, j \in Input : j \in r.held[q] <=> j \in s.held[q] /\ (j = i => route # q)
    BY <2>3, <2>4
  <2>7. Good(r) /\ SameBut(c, r) /\ r.down \subseteq c.down
    BY <1>10, <2>3, <2>4, <2>5, <2>6
  <2> QED
    BY <2>1, <2>7 DEF s
<1> QED
  BY <1>7, <1>11, <1>12, <1>13

-----------------------------------------------------------------------------
(***************************************************************************)
(* The peers' events.                                                      *)
(***************************************************************************)
(* A driven peer takes its pointer back: parked, or the pointer is home. *)
LEMMA YieldGood ==
    ASSUME NEW c, Good(c), NEW p \in c.driven
    PROVE  LET t == PeerYield(SendLeave(c, p), p) IN Good(t) /\ SameFixed(c, t)
<1> DEFINE s == SendLeave(c, p)
<1>1. c \in CaptureState /\ p \in Peer /\ c.peer = p /\ c.on # "local" /\ ~c.idle
  BY Fields, Words DEF Good, DrivenOK, ModeOK
<1>2. Leavable(c)
  BY <1>1, GoodLeavable
<1>3. /\ s \in CaptureState
      /\ SameFixed(c, s) /\ SameMode(c, s) /\ SameScreen(c, s) /\ SameKeys(c, s)
  BY <1>1, SendLeaveIs
<1>4. LeavingOK(s, p)
  BY <1>1, LeaveIsLeaving DEF Good
<1> HIDE DEF s
<1>5. DownOK(s)
  BY <1>3, StillDown DEF Good
<1>6. s.on = c.on /\ s.peer = p /\ s.pin = c.pin /\ JumpOK(s)
  BY <1>1, <1>3 DEF SameMode, SameScreen, SameFixed, JumpOK, Good
<1>7. CASE s.on = "remote"
  <2> DEFINE v == [s EXCEPT !.idle = TRUE]
             t == DropRoutes(v, p)
  <2>1. PeerYield(s, p) = t
    BY <1>6, <1>7 DEF PeerYield
  <2>2. /\ v \in CaptureState /\ SameFixed(s, v) /\ SameScreen(s, v) /\ SameTold(s, v)
        /\ SameKeys(s, v) /\ v.on = s.on /\ v.peer = s.peer /\ v.idle = TRUE
    BY <1>3 DEF CaptureState, SameFixed, SameScreen, SameTold, SameKeys
  <2> HIDE DEF v
  <2>3. LeavingOK(v, p) /\ DownOK(v)
    BY <1>4, <1>5, <2>2, StillDown DEF LeavingOK, SameTold, SameKeys
  <2>4. /\ t \in CaptureState /\ SameFixed(v, t) /\ SameMode(v, t) /\ SameScreen(v, t)
        /\ Cleared(t) /\ DownOK(t)
    BY <1>1, <2>2, <2>3, DropRoutesIs, DropClears
  <2> HIDE DEF t
  <2>5. SameFixed(c, t) /\ SameScreen(c, t)
    BY <1>3, <2>2, <2>4 DEF SameFixed, SameScreen
  <2>6. t.on = "remote" /\ t.peer = p /\ t.idle = TRUE
    BY <1>6, <1>7, <2>2, <2>4 DEF SameMode
  <2>7. DrivenOK(t) /\ KeysOK(t)
    BY <2>4, <2>6, Nobody
  <2>8. ModeOK(t) /\ JumpOK(t)
    <3>1. /\ t.peer # NoPeer /\ t.peer \in t.layout /\ t.pin /\ JumpOK(t)
          /\ ~t.windows => t.portal = NoPeer
      BY <1>1, <1>6, <1>7, <2>5, <2>6, Words DEF SameFixed, SameScreen, Good, ModeOK, JumpOK
    <3> QED
      BY <2>6, <3>1 DEF ModeOK
  <2> QED
    BY <2>1, <2>4, <2>5, <2>7, <2>8 DEF Good, s
<1>8. CASE s.on = "portal"
  <2> DEFINE u == SendLeave(s, p)
             v == DropRoutes(u, p)
             w == ToLocal(v)
             t == DropRoutes(w, p)
  <2>1. PeerYield(s, p) = t
    BY <1>6, <1>8 DEF PeerYield, ExitToLocal, LeavePeer
  <2>2. u = s
    BY <1>4 DEF SendLeave, LeavingOK
  <2> HIDE DEF u
  <2>3. /\ v \in CaptureState /\ SameFixed(s, v) /\ SameScreen(s, v)
        /\ Cleared(v) /\ DownOK(v)
    BY <1>1, <1>3, <1>4, <1>5, <2>2, DropRoutesIs, DropClears
  <2> HIDE DEF v
  <2>4. /\ w \in CaptureState /\ SameFixed(v, w) /\ SameScreen(v, w) /\ SameTold(v, w)
        /\ SameKeys(v, w) /\ w.on = "local" /\ w.peer = NoPeer /\ ~w.idle
    BY <2>3, ToLocalIs
  <2> HIDE DEF w
  <2>5. Cleared(w) /\ DownOK(w)
    BY <2>3, <2>4, StillCleared, StillDown
  <2>6. LeavingOK(w, p)
    BY <2>5 DEF LeavingOK, Cleared
  <2>7. /\ t \in CaptureState /\ SameFixed(w, t) /\ SameMode(w, t) /\ SameScreen(w, t)
        /\ Cleared(t) /\ DownOK(t)
    BY <1>1, <2>4, <2>5, <2>6, DropRoutesIs, DropClears
  <2> HIDE DEF t
  <2>8. SameFixed(c, t) /\ SameScreen(c, t)
    BY <1>3, <2>3, <2>4, <2>7 DEF SameFixed, SameScreen
  <2>9. t.on = "local" /\ t.peer = NoPeer /\ ~t.idle
    BY <2>4, <2>7, Zenon DEF SameMode
  <2>10. /\ ~t.pin /\ JumpOK(t)
         /\ ~t.windows => t.portal = NoPeer
    BY <1>1, <1>6, <1>8, <2>8 DEF SameFixed, SameScreen, Good, ModeOK, JumpOK
  <2> QED
    BY <2>1, <2>7, <2>8, <2>9, <2>10, GoodLocal DEF s
<1> QED
  <2>1. s.on \in {"remote", "portal"}
    BY <1>1, <1>6, Fields
  <2> QED
    BY <1>7, <1>8, <2>1

(* A peer whose connection is gone: the pointer comes home without a word. *)
LEMMA LostGood ==
    ASSUME NEW s, Good(s), NEW p \in Peer \ s.up
    PROVE  LET t == PeerLost(s, p) IN Good(t) /\ SameFixed(s, t)
<1>1. s \in CaptureState /\ p \in Peer /\ p # NoPeer
  BY Words DEF Good
<1>2. CASE s.peer = p
  <2> DEFINE v == ToLocal(s)
             w == IF s.on = "portal" THEN v ELSE Release(v)
             t == DropRoutes(w, p)
  <2>1. s.on \in {"remote", "portal"}
    BY <1>1, <1>2, Fields DEF Good, ModeOK
  <2>2. PeerLost(s, p) = t
    BY <1>2, <2>1 DEF PeerLost, ExitToLocal
  <2>3. /\ s.driven \subseteq Peer /\ \A q \in Peer : s.held[q] \subseteq Input
    BY <1>1 DEF CaptureState
  <2>4. LeavingOK(s, p)
    <3>1. s.driven = {}
      BY <1>2, <2>3 DEF Good, DrivenOK
    <3>2. \A q \in Peer : s.held[q] = {}
      BY <1>2, <2>3 DEF Good, KeysOK
    <3> QED
      BY <1>2, <3>1, <3>2 DEF Good, KeysOK, LeavingOK
  <2>5. /\ v \in CaptureState /\ SameFixed(s, v) /\ SameScreen(s, v) /\ SameTold(s, v)
        /\ SameKeys(s, v) /\ v.on = "local" /\ v.peer = NoPeer /\ ~v.idle
    BY <1>1, ToLocalIs
  <2> HIDE DEF v
  <2>6. JumpOK(v)
    BY <2>5 DEF Good, JumpOK, SameFixed, SameScreen
  <2>7. /\ w \in CaptureState /\ SameFixed(v, w) /\ SameMode(v, w) /\ SameTold(v, w)
        /\ SameKeys(v, w) /\ ~w.pin /\ JumpOK(w)
    <3>1. CASE s.on = "portal"
      <4>1. w = v /\ ~s.pin
        BY <3>1 DEF Good, ModeOK
      <4>2. ~w.pin
        BY <2>5, <4>1 DEF SameScreen
      <4> QED
        BY <2>5, <2>6, <4>1, <4>2 DEF SameFixed, SameMode, SameTold, SameKeys
    <3>2. CASE s.on # "portal"
      <4>1. w = Release(v)
        BY <3>2
      <4> QED
        BY <2>5, <2>6, <4>1, ReleaseIs
    <3> QED
      BY <3>1, <3>2
  <2> HIDE DEF w
  <2>8. LeavingOK(w, p) /\ DownOK(w)
    <3>1. SameFixed(s, w) /\ SameTold(s, w) /\ SameKeys(s, w)
      BY <2>5, <2>7 DEF SameFixed, SameTold, SameKeys
    <3> QED
      BY <2>4, <3>1, StillDown DEF LeavingOK, SameTold, SameKeys, Good
  <2>9. /\ t \in CaptureState /\ SameFixed(w, t) /\ SameMode(w, t) /\ SameScreen(w, t)
        /\ Cleared(t) /\ DownOK(t)
    BY <1>1, <2>7, <2>8, DropRoutesIs, DropClears
  <2> HIDE DEF t
  <2>10. SameFixed(s, t)
    BY <2>5, <2>7, <2>9 DEF SameFixed
  <2>11. t.on = "local" /\ t.peer = NoPeer /\ ~t.idle
    BY <2>5, <2>7, <2>9, Zenon DEF SameMode
  <2>12. ~t.pin /\ JumpOK(t) /\ (~t.windows => t.portal = NoPeer)
    BY <2>7, <2>9, <2>10 DEF SameFixed, SameScreen, Good, ModeOK, JumpOK
  <2> QED
    BY <2>2, <2>9, <2>10, <2>11, <2>12, GoodLocal
<1>3. CASE s.peer # p
  <2> DEFINE t == DropRoutes(s, p)
  <2>1. PeerLost(s, p) = t
    BY <1>3 DEF PeerLost
  <2>2. \A i \in Input : s.routes[i] # p
    BY <1>1, <1>3 DEF Good, KeysOK
  <2>3. /\ t \in CaptureState
        /\ SameFixed(s, t) /\ SameMode(s, t) /\ SameScreen(s, t) /\ SameTold(s, t)
        /\ t.here = s.here /\ \A i \in Input : t.routes[i] = s.routes[i]
    BY <1>1, <2>2, DropNothing
  <2> HIDE DEF t
  <2>4. ModeOK(t) /\ JumpOK(t) /\ DrivenOK(t)
    BY <2>3 DEF Good, ModeOK, JumpOK, DrivenOK, SameFixed, SameMode, SameScreen, SameTold
  <2>5. KeysOK(t) /\ DownOK(t)
    BY <2>3 DEF Good, KeysOK, DownOK, SameFixed, SameMode, SameTold
  <2> QED
    BY <2>1, <2>3, <2>4, <2>5 DEF Good
<1> QED
  BY <1>2, <1>3
(* The pointer comes home from where it is parked, by the peer's own hand. *)
LEMMA UnparkGood ==
    ASSUME NEW s, Good(s), s.idle
    PROVE  LET t == Unpark(ToLocal(s)) IN Good(t) /\ SameFixed(s, t)
<1> DEFINE v == ToLocal(s)
           t == Unpark(v)
<1>1. s \in CaptureState /\ Cleared(s) /\ DownOK(s)
  BY IsCleared DEF Good
<1>2. /\ v \in CaptureState /\ SameFixed(s, v) /\ SameTold(s, v) /\ SameKeys(s, v)
      /\ v.on = "local" /\ v.peer = NoPeer /\ ~v.idle
  BY <1>1, ToLocalIs
<1> HIDE DEF v
<1>3. /\ t \in CaptureState /\ SameFixed(v, t) /\ SameMode(v, t) /\ SameTold(v, t)
      /\ SameKeys(v, t) /\ ~t.pin /\ JumpOK(t)
  BY <1>2, UnparkIs
<1> HIDE DEF t
<1>4. SameFixed(s, t) /\ SameTold(s, t) /\ SameKeys(s, t)
  BY <1>2, <1>3 DEF SameFixed, SameTold, SameKeys
<1>5. Cleared(t) /\ DownOK(t)
  BY <1>1, <1>4, StillCleared, StillDown
<1>6. t.on = "local" /\ t.peer = NoPeer /\ ~t.idle
  BY <1>2, <1>3, Zenon DEF SameMode
<1>7. ~t.windows => t.portal = NoPeer
  BY <1>4 DEF SameFixed, Good, ModeOK
<1> QED
  BY <1>3, <1>4, <1>5, <1>6, <1>7, GoodLocal DEF t, v

(* The peer's own mouse is on its screens: the pointer is parked there. *)
LEMMA ParkGood ==
    ASSUME NEW s, Good(s), s.on = "local", NEW p \in s.layout
    PROVE  LET t == Capture(ToRemote(s, p, TRUE)) IN Good(t) /\ SameFixed(s, t)
<1> DEFINE v == ToRemote(s, p, TRUE)
           t == Capture(v)
<1>1. s \in CaptureState /\ p \in Peer /\ Cleared(s) /\ DownOK(s)
  BY IsCleared, Fields DEF Good
<1>2. /\ v \in CaptureState
      /\ SameFixed(s, v) /\ SameScreen(s, v) /\ SameTold(s, v) /\ SameKeys(s, v)
      /\ v.on = "remote" /\ v.peer = p /\ v.idle = TRUE
  BY <1>1, ToRemoteIs
<1> HIDE DEF v
<1>3. JumpOK(v)
  BY <1>2 DEF Good, JumpOK, SameFixed, SameScreen
<1>4. /\ t \in CaptureState
      /\ SameFixed(v, t) /\ SameMode(v, t) /\ SameTold(v, t) /\ SameKeys(v, t)
      /\ t.pin /\ JumpOK(t)
  BY <1>2, <1>3, CaptureIs
<1> HIDE DEF t
<1>5. SameFixed(s, t) /\ SameTold(s, t) /\ SameKeys(s, t)
  BY <1>2, <1>4 DEF SameFixed, SameTold, SameKeys
<1>6. Cleared(t) /\ DownOK(t)
  BY <1>1, <1>5, StillCleared, StillDown
<1>7. t.on = "remote" /\ t.peer = p /\ t.idle = TRUE
  BY <1>2, <1>4 DEF SameMode
<1>8. DrivenOK(t) /\ KeysOK(t)
  BY <1>4, <1>6, <1>7, Nobody
<1>9. ModeOK(t)
  <2>1. /\ t.peer # NoPeer /\ t.peer \in t.layout
        /\ ~t.windows => t.portal = NoPeer
    BY <1>1, <1>5, <1>7, Words DEF SameFixed, Good, ModeOK
  <2> QED
    BY <1>4, <1>7, <2>1 DEF ModeOK
<1> QED
  BY <1>4, <1>5, <1>6, <1>8, <1>9 DEF Good, t, v

LEMMA EnteredGood ==
    ASSUME NEW s, Good(s), NEW p \in s.up \ s.driven
    PROVE  LET t == PeerEntered(s, p) IN Good(t) /\ SameFixed(s, t)
<1>1. SameFixed(s, s)
  BY DEF SameFixed
<1>2. s \in CaptureState /\ p \in Peer
  BY Fields DEF Good
<1>3. s.peer = p => s.idle
  BY <1>2 DEF Good, DrivenOK
<1> QED
  BY <1>1, <1>3, UnparkGood DEF PeerEntered

LEMMA PointerGood ==
    ASSUME NEW s, Good(s), NEW p, NEW onPortal \in BOOLEAN
    PROVE  LET t == PeerPointer(s, p, onPortal) IN Good(t) /\ SameFixed(s, t)
<1>1. SameFixed(s, s)
  BY DEF SameFixed
<1>2. \/ PeerPointer(s, p, onPortal) = s
      \/ s.idle /\ PeerPointer(s, p, onPortal) = Unpark(ToLocal(s))
      \/ /\ s.on = "local" /\ p \in s.layout
         /\ PeerPointer(s, p, onPortal) = Capture(ToRemote(s, p, TRUE))
  BY DEF PeerPointer
<1> QED
  BY <1>1, <1>2, UnparkGood, ParkGood

-----------------------------------------------------------------------------
(***************************************************************************)
(* Settings.                                                               *)
(***************************************************************************)
LEMMA SetPortalGood ==
    ASSUME NEW s, Good(s), NEW p \in Peer \union {NoPeer}, s.windows \/ p = NoPeer
    PROVE  LET t == SetPortal(s, p) IN
           /\ Good(t) /\ t.windows = s.windows /\ t.layout = s.layout /\ t.up = s.up
           /\ t.down = s.down
<1> DEFINE left == IF s.on = "portal" /\ s.peer # p THEN LeavePortal(s) ELSE s
           t == [left EXCEPT !.portal = p]
<1>1. t = SetPortal(s, p)
  BY DEF SetPortal
<1>2. /\ Good(left) /\ SameFixed(s, left)
      /\ left.on = "portal" => left.peer = p
  <2>1. CASE s.on = "portal" /\ s.peer # p
    <3>1. Leavable(s) /\ ~s.pin
      BY <2>1, GoodLeavable, Fields DEF Good, ModeOK
    <3> QED
      BY <2>1, <3>1, LeavePortalGood
  <2>2. CASE ~(s.on = "portal" /\ s.peer # p)
    <3>1. left = s
      BY <2>2
    <3> QED
      BY <2>2, <3>1 DEF SameFixed
  <2> QED
    BY <2>1, <2>2
<1> HIDE DEF left
<1>3. left \in CaptureState
  BY <1>2 DEF Good
<1>4. /\ t \in CaptureState /\ SameMode(left, t) /\ SameScreen(left, t)
      /\ SameTold(left, t) /\ SameKeys(left, t) /\ t.portal = p /\ t.windows = left.windows
      /\ t.layout = left.layout /\ t.up = left.up /\ t.down = left.down
  BY <1>3 DEF CaptureState, SameMode, SameScreen, SameTold, SameKeys
<1> HIDE DEF t
<1>5. ModeOK(t)
  BY <1>2, <1>4 DEF Good, ModeOK, SameMode, SameScreen, SameFixed
<1>6. JumpOK(t) /\ DrivenOK(t)
  BY <1>2, <1>4 DEF Good, JumpOK, DrivenOK, SameMode, SameScreen, SameTold
<1>7. KeysOK(t) /\ DownOK(t)
  BY <1>2, <1>4 DEF Good, KeysOK, DownOK, SameMode, SameTold, SameKeys
<1> QED
  BY <1>1, <1>2, <1>4, <1>5, <1>6, <1>7 DEF Good, SameFixed

LEMMA SetShownGood ==
    ASSUME NEW s, Good(s), NEW p \in Peer \union {NoPeer}
    PROVE  LET t == SetShown(s, p) IN
           /\ Good(t) /\ t.layout = s.layout /\ t.up = s.up /\ t.down = s.down
<1> DEFINE t == SetShown(s, p)
<1>1. s \in CaptureState
  BY DEF Good
<1>2. /\ t \in CaptureState /\ SameMode(s, t) /\ SameScreen(s, t)
      /\ SameTold(s, t) /\ SameKeys(s, t) /\ t.portal = s.portal /\ t.windows = s.windows
      /\ t.layout = s.layout /\ t.up = s.up /\ t.down = s.down
  BY <1>1 DEF SetShown, CaptureState, SameMode, SameScreen, SameTold, SameKeys
<1> HIDE DEF t
<1>3. ModeOK(t) /\ JumpOK(t) /\ DrivenOK(t)
  BY <1>2 DEF Good, ModeOK, JumpOK, DrivenOK, SameMode, SameScreen, SameTold
<1>4. KeysOK(t) /\ DownOK(t)
  BY <1>2 DEF Good, KeysOK, DownOK, SameMode, SameTold, SameKeys
<1> QED
  BY <1>2, <1>3, <1>4 DEF Good, t

(* A state whose desk has changed under it, and maybe its connections. *)
DeskOK(s) ==
    /\ s \in CaptureState /\ JumpOK(s) /\ DrivenOK(s) /\ KeysOK(s) /\ DownOK(s)
    /\ s.on = "local" <=> s.peer = NoPeer
    /\ s.idle => s.on = "remote"
    /\ s.on = "portal" => s.portal = s.peer
    /\ s.pin <=> s.on = "remote"
    /\ ~s.windows => s.portal = NoPeer

LEMMA SetLayoutGood ==
    ASSUME NEW s, DeskOK(s), NEW peers \in SUBSET Peer, NEW moved \in BOOLEAN
    PROVE  LET t == SetLayout(s, peers, moved) IN
           Good(t) /\ t.layout = peers /\ t.up = s.up /\ t.down = s.down
<1> DEFINE new == [s EXCEPT !.layout = peers]
           t == SetLayout(s, peers, moved)
<1>1. /\ s \in CaptureState /\ s.on \in {"local", "remote", "portal"}
      /\ s.peer \in Peer \union {NoPeer}
  BY Fields DEF DeskOK
<1>2. /\ new \in CaptureState /\ SameMode(s, new) /\ SameScreen(s, new)
      /\ SameTold(s, new) /\ SameKeys(s, new) /\ new.portal = s.portal
      /\ new.windows = s.windows /\ new.layout = peers /\ new.up = s.up
      /\ new.down = s.down
  BY <1>1 DEF CaptureState, SameMode, SameScreen, SameTold, SameKeys
<1>3. t = IF s.on = "portal" /\ s.peer \notin peers THEN LeavePortal(new)
          ELSE IF s.on = "remote" /\ s.peer \notin peers
            THEN DropRoutes(ExitToLocal(new, TRUE), s.peer)
          ELSE IF s.on = "remote" /\ moved THEN Capture(new)
          ELSE new
  BY DEF SetLayout
<1> HIDE DEF new, t
<1>4. /\ JumpOK(new) /\ DrivenOK(new) /\ KeysOK(new) /\ DownOK(new)
      /\ ~new.windows => new.portal = NoPeer
      /\ new.peer = s.peer /\ new.on = s.on /\ new.pin = s.pin
  <2>1. JumpOK(new) /\ DrivenOK(new)
    BY <1>2 DEF DeskOK, JumpOK, DrivenOK, SameMode, SameScreen, SameTold
  <2>2. KeysOK(new) /\ DownOK(new)
    BY <1>2 DEF DeskOK, KeysOK, DownOK, SameMode, SameTold, SameKeys
  <2> QED
    BY <1>2, <2>1, <2>2 DEF DeskOK, SameMode, SameScreen
<1>5. s.on # "local" => Leavable(new)
  BY <1>1, <1>2, <1>4 DEF DeskOK, Leavable
<1>6. CASE s.on = "portal" /\ s.peer \notin peers
  <2>1. t = LeavePortal(new)
    BY <1>3, <1>6
  <2>2. ~new.pin
    BY <1>4, <1>6 DEF DeskOK
  <2>3. Good(t) /\ SameFixed(new, t)
    BY <1>5, <1>6, <2>1, <2>2, LeavePortalGood
  <2> QED
    BY <1>2, <2>3 DEF SameFixed, t
<1>7. CASE s.on = "remote" /\ s.peer \notin peers
  <2> DEFINE u == Release(ToLocal(LeavePeer(new, new.peer)))
  <2>1. t = DropRoutes(u, s.peer)
    BY <1>3, <1>4, <1>7 DEF ExitToLocal
  <2>2. Good(u) /\ SameFixed(new, u) /\ u.on = "local" /\ u.peer = NoPeer
    BY <1>5, <1>7, HomeGood
  <2> HIDE DEF u
  <2>3. u \in CaptureState /\ Cleared(u) /\ s.peer \in Peer
    BY <1>1, <1>7, <2>2, IsCleared DEF Good, DeskOK
  <2>4. \A i \in Input : u.routes[i] # s.peer
    BY <2>3 DEF Cleared
  <2>5. /\ t \in CaptureState
        /\ SameFixed(u, t) /\ SameMode(u, t) /\ SameScreen(u, t) /\ SameTold(u, t)
        /\ t.here = u.here /\ \A i \in Input : t.routes[i] = u.routes[i]
    BY <2>1, <2>3, <2>4, DropNothing
  <2>6. ModeOK(t) /\ JumpOK(t) /\ DrivenOK(t)
    BY <2>2, <2>5 DEF Good, ModeOK, JumpOK, DrivenOK, SameFixed, SameMode, SameScreen, SameTold
  <2>7. KeysOK(t) /\ DownOK(t)
    BY <2>2, <2>5 DEF Good, KeysOK, DownOK, SameFixed, SameMode, SameTold
  <2> QED
    BY <1>2, <2>2, <2>5, <2>6, <2>7 DEF Good, SameFixed, t
<1>8. CASE s.on = "local" \/ s.peer \in peers
  <2>1. ModeOK(new)
    BY <1>2, <1>8 DEF DeskOK, ModeOK, SameMode, SameScreen
  <2>2. Good(new)
    BY <1>2, <1>4, <2>1 DEF Good
  <2>3. CASE s.on = "remote" /\ moved
    <3>1. t = Capture(new)
      BY <1>3, <1>8, <2>3
    <3>2. /\ t \in CaptureState
          /\ SameFixed(new, t) /\ SameMode(new, t) /\ SameTold(new, t) /\ SameKeys(new, t)
          /\ t.pin /\ JumpOK(t)
      BY <1>2, <1>4, <3>1, CaptureIs
    <3>3. t.pin = new.pin
      BY <1>2, <1>4, <2>3, <3>2, Fields DEF DeskOK
    <3>4. Good(t)
      BY <2>2, <3>2, <3>3, GoodScreen DEF SameKeys
    <3> QED
      BY <1>2, <3>2, <3>4 DEF SameFixed, t
  <2>4. CASE ~(s.on = "remote" /\ moved)
    <3>1. t = new
      BY <1>3, <1>8, <2>4
    <3> QED
      BY <1>2, <2>2, <3>1 DEF t
  <2> QED
    BY <2>3, <2>4
<1> QED
  BY <1>1, <1>6, <1>7, <1>8

(* A connection that dies takes with it what was driven and held there. *)
LEMMA LinkDiesGood ==
    ASSUME NEW s, Good(s), NEW p \in s.up
    PROVE  LET t == [SendLeave(s, p) EXCEPT !.up = @ \ {p}] IN
           /\ Good(t) /\ t.layout = s.layout /\ t.up = s.up \ {p} /\ t.down = s.down
<1> DEFINE v == SendLeave(s, p)
           t == [v EXCEPT !.up = v.up \ {p}]
<1>1. s \in CaptureState /\ p \in Peer
  BY Fields DEF Good
<1>2. /\ v \in CaptureState
      /\ SameFixed(s, v) /\ SameMode(s, v) /\ SameScreen(s, v) /\ SameKeys(s, v)
      /\ \A q \in Peer : v.held[q] = IF q = p /\ p \in s.driven THEN {} ELSE s.held[q]
      /\ v.driven = s.driven \ {p}
  BY <1>1, SendLeaveIs
<1> HIDE DEF v
<1>3. /\ t \in CaptureState /\ SameMode(v, t) /\ SameScreen(v, t)
      /\ SameTold(v, t) /\ SameKeys(v, t) /\ t.portal = v.portal
      /\ t.windows = v.windows /\ t.layout = v.layout /\ t.up = v.up \ {p}
      /\ t.down = v.down
  BY <1>2 DEF CaptureState, SameMode, SameScreen, SameTold, SameKeys
<1> HIDE DEF t
<1>4. /\ SameMode(s, t) /\ SameScreen(s, t) /\ SameKeys(s, t)
      /\ t.portal = s.portal /\ t.windows = s.windows /\ t.layout = s.layout
      /\ t.up = s.up \ {p} /\ t.down = s.down /\ t.driven = s.driven \ {p}
      /\ \A q \in Peer : t.held[q] = IF q = p /\ p \in s.driven THEN {} ELSE s.held[q]
  BY <1>2, <1>3 DEF SameFixed, SameMode, SameScreen, SameTold, SameKeys
<1>5. ModeOK(t) /\ JumpOK(t)
  BY <1>4 DEF Good, ModeOK, JumpOK, SameMode, SameScreen
<1>6. DrivenOK(t)
  BY <1>4 DEF Good, DrivenOK, SameMode
<1>7. KeysOK(t)
  <2>1. p \in s.driven \/ s.held[p] = {}
    <3>1. s.held[p] \subseteq Input
      BY <1>1 DEF CaptureState
    <3> QED
      BY <1>1, <3>1 DEF Good, DrivenOK, KeysOK
  <2>2. t.held[p] = {} /\ \A q \in Peer : q # p => t.held[q] = s.held[q]
    BY <1>1, <1>4, <2>1
  <2>3. \A q \in Peer, i \in Input : i \in t.held[q] <=> q \in t.up /\ t.routes[i] = q
    BY <1>4, <2>2 DEF Good, KeysOK, SameKeys
  <2> QED
    BY <1>4, <2>3 DEF Good, KeysOK, SameKeys, SameMode
<1>8. DownOK(t)
  BY <1>4 DEF Good, DownOK, SameKeys
<1> QED
  BY <1>3, <1>4, <1>5, <1>6, <1>7, <1>8 DEF Good, t, v

(* A peer the run loop does not know connects. *)
LEMMA ConnectGood ==
    ASSUME NEW s, Good(s), NEW p \in Peer, p \notin s.up, p \notin s.layout
    PROVE  LET t == [s EXCEPT !.up = @ \union {p}] IN
           DeskOK(t) /\ t.up = s.up \union {p} /\ t.down = s.down
<1> DEFINE t == [s EXCEPT !.up = s.up \union {p}]
<1>1. s \in CaptureState /\ s.peer # p
  BY Words DEF Good, ModeOK
<1>2. /\ t \in CaptureState /\ SameMode(s, t) /\ SameScreen(s, t)
      /\ SameTold(s, t) /\ SameKeys(s, t) /\ t.portal = s.portal
      /\ t.windows = s.windows /\ t.up = s.up \union {p}
      /\ t.down = s.down
  BY <1>1 DEF CaptureState, SameMode, SameScreen, SameTold, SameKeys
<1> HIDE DEF t
<1>3. JumpOK(t) /\ DrivenOK(t)
  BY <1>1, <1>2 DEF Good, JumpOK, DrivenOK, SameMode, SameScreen, SameTold
<1>4. KeysOK(t) /\ DownOK(t)
  BY <1>1, <1>2 DEF Good, KeysOK, DownOK, SameMode, SameTold, SameKeys
<1>5. /\ t.on = "local" <=> t.peer = NoPeer
      /\ t.idle => t.on = "remote"
      /\ t.on = "portal" => t.portal = t.peer
      /\ t.pin <=> t.on = "remote"
      /\ ~t.windows => t.portal = NoPeer
  BY <1>2 DEF Good, ModeOK, SameMode, SameScreen
<1> QED
  BY <1>2, <1>3, <1>4, <1>5 DEF DeskOK, t
-----------------------------------------------------------------------------
(***************************************************************************)
(* Each action keeps the invariant.                                        *)
(***************************************************************************)
LEMMA BecomeIs ==
    ASSUME NEW s, NEW at, zone \in Zone, Become(s, at)
    PROVE  cap' = s /\ zone' \in Zone
<1>1. Places(s) \subseteq Zone
  BY DEF Places, Zone, OnPicture
<1>2. \/ zone' \in Places(s)
      \/ at \in Places(s) /\ zone' = at
      \/ zone' = "desk"
  BY DEF Become
<1> QED
  BY <1>1, <1>2 DEF Become, Zone

(* What every step keeps, but for the run loop's own. *)
Kept ==
    /\ Good(cap') /\ zone' \in Zone
    /\ entered' \in BOOLEAN /\ step' \in Motion \union {"other"}

LEMMA KeptIs ==
    ASSUME IInv, Kept, UNCHANGED <<known, parting>>,
           cap'.layout = cap.layout, cap'.up \subseteq cap.up
    PROVE  IInv'
<1>1. TypeOK'
  BY DEF IInv, TypeOK, Kept, Good
<1>2. RunLoopOK'
  BY DEF IInv, RunLoopOK
<1> QED
  BY <1>1, <1>2 DEF IInv, Kept

LEMMA NotReported ==
    ASSUME Good(cap), ~cap.windows, ~cap.mixed, NEW motion \in Motion, motion # "late"
    PROVE  Reported(cap, motion) = {motion = "pushed"}
BY DEF Good, JumpOK, Reported

LEMMA UserMovesIs ==
    ASSUME IInv, NEW at, NEW to \in cap.layout \union {NoPeer},
           NEW motion \in Motion, NEW beside \in BOOLEAN,
           UserMoves(at, to, motion, beside)
    PROVE  /\ Kept /\ UNCHANGED <<known, parting>> /\ SameFixed(cap, cap')
           /\ \A p \in Peer : (\E b \in Button : cap.routes[b] = p) => cap'.peer = cap.peer
           /\ ~cap.windows /\ step' = "moved" /\ ~cap.mixed => cap'.peer = cap.peer
<1>0. PICK far \in Reported(cap, motion) :
         LET s == Seen(cap, motion)
             across == IF far /\ at \in {"edge", "shown"} THEN to ELSE NoPeer
         IN IF at \in OnPicture
              THEN Become(PortalMotion(s, far /\ at = "brink" /\ to = s.portal, beside), at)
              ELSE Become(Catch(LocalMotion(s, across, beside), at), at)
  BY DEF UserMoves
<1> DEFINE s == Seen(cap, motion)
           across == IF far /\ at \in {"edge", "shown"} THEN to ELSE NoPeer
           past == far /\ at = "brink" /\ to = s.portal
<1>1. /\ Good(cap) /\ zone \in Zone /\ entered \in BOOLEAN /\ ~cap.pin
      /\ far \in BOOLEAN /\ step' = motion
      /\ ~cap.windows /\ ~cap.mixed /\ motion = "moved" => ~far
      /\ UNCHANGED <<entered, known, parting>>
  BY NotReported DEF IInv, TypeOK, UserMoves, Reported, Motion
<1>2. Good(s) /\ SameFixed(cap, s) /\ SameInput(cap, s)
  BY <1>1, SeenGood
<1> HIDE DEF s
<1>3. Kept => Good(cap') /\ zone' \in Zone
  BY DEF Kept
<1>4. Good(cap') /\ zone' \in Zone => Kept
  BY <1>1 DEF Kept
<1>5. ASSUME NEW p \in Peer, NEW b \in Button, cap.routes[b] = p
      PROVE  s.on = "portal" /\ s.peer = p /\ HoldingOn(s, s.peer)
  <2>1. cap.peer = p /\ cap.on = "portal"
    BY <1>1, <1>5, Words, Fields DEF Good, KeysOK, ModeOK, Input
  <2> QED
    BY <1>2, <1>5, <2>1 DEF SameInput, HoldingOn
<1>6. CASE at \in OnPicture
  <2>1. Become(PortalMotion(s, past, beside), at) /\ past \in BOOLEAN
    BY <1>0, <1>1, <1>6 DEF s
  <2> HIDE DEF past
  <2>2. cap' = PortalMotion(s, past, beside) /\ zone' \in Zone
    BY <1>1, <2>1, BecomeIs
  <2>3. /\ Good(cap') /\ SameFixed(s, cap')
        /\ ~MayEnterPortal(s) => cap' = s
        /\ MayEnterPortal(s) => cap'.peer = s.portal
    BY <1>2, <2>1, <2>2, PortalMotionGood
  <2>4. SameFixed(cap, cap')
    BY <1>2, <2>3 DEF SameFixed
  <2>5. s.on = "portal" => cap'.peer = cap.peer
    BY <1>2, <2>3 DEF Good, ModeOK, SameInput
  <2>6. ~cap.windows => cap'.peer = cap.peer
    <3>1. ~cap.windows => ~MayEnterPortal(s)
      BY <1>2 DEF Good, ModeOK, SameFixed, MayEnterPortal
    <3> QED
      BY <1>2, <2>3, <3>1 DEF SameInput
  <2> QED
    BY <1>1, <1>4, <1>5, <2>2, <2>3, <2>4, <2>5, <2>6
<1>7. CASE at \notin OnPicture
  <2> DEFINE u == LocalMotion(s, across, beside)
  <2>1. Become(Catch(u, at), at)
    BY <1>0, <1>7 DEF s
  <2>2. across \in s.layout \union {NoPeer} /\ (~far => across = NoPeer)
    BY <1>2 DEF SameFixed
  <2> HIDE DEF across
  <2>3. /\ Good(u) /\ SameFixed(s, u)
        /\ s.on = "portal" /\ HoldingOn(s, s.peer) => u.peer = s.peer
        /\ s.on # "portal" /\ across = NoPeer => u = s
    BY <1>2, <2>2, LocalMotionGood
  <2> HIDE DEF u
  <2>4. cap' = Catch(u, at) /\ zone' \in Zone
    BY <1>1, <2>1, BecomeIs
  <2>5. Good(cap') /\ SameFixed(u, cap') /\ SameInput(u, cap')
    BY <2>3, <2>4, CatchGood
  <2>6. SameFixed(cap, cap')
    BY <1>2, <2>3, <2>5 DEF SameFixed
  <2>7. s.on = "portal" /\ HoldingOn(s, s.peer) => cap'.peer = cap.peer
    BY <1>2, <2>3, <2>5 DEF SameInput
  <2>8. ~cap.windows => s.on # "portal"
    BY <1>2, Fields, Words DEF Good, ModeOK, SameFixed
  <2>9. ~cap.windows /\ ~cap.mixed /\ motion = "moved" => cap'.peer = cap.peer
    BY <1>1, <1>2, <2>2, <2>3, <2>5, <2>8 DEF SameInput
  <2> QED
    BY <1>1, <1>4, <1>5, <2>4, <2>5, <2>6, <2>7, <2>9
<1> QED
  BY <1>6, <1>7

LEMMA UserMovesPinnedIs ==
    ASSUME IInv, NEW goal \in Goals, NEW motion \in Motion, UserMovesPinned(goal, motion)
    PROVE  /\ Kept /\ UNCHANGED <<known, parting>> /\ SameFixed(cap, cap')
           /\ \A p \in Peer :
                BlockWhileHeld /\ (\E b \in Button : cap.routes[b] = p) /\ ~cap.carrying
                => cap'.peer = cap.peer
           /\ ~cap.windows /\ step' = "moved" /\ ~cap.mixed =>
                \/ cap'.peer = cap.peer
                \/ cap'.on = "local" /\ cap.shown = cap.peer
<1> DEFINE crossing == goal \in Peer \union {Home}
           s == Seen(cap, motion)
           w == Resume(s)
<1>0. PICK far \in Reported(cap, motion) :
         Become([MoveOn(w, IF crossing /\ ~far THEN "stay" ELSE goal)
                   EXCEPT !.jump = @ \/ MoveOn(w, IF crossing /\ ~far THEN "stay" ELSE goal).windows],
                zone)
  BY DEF UserMovesPinned
<1> DEFINE to == IF crossing /\ ~far THEN "stay" ELSE goal
           u == MoveOn(w, to)
<1>1. /\ Good(cap) /\ zone \in Zone /\ entered \in BOOLEAN /\ cap.pin
      /\ far \in BOOLEAN /\ step' = motion
      /\ ~cap.windows /\ ~cap.mixed /\ motion = "moved" => ~far
      /\ UNCHANGED <<entered, known, parting>>
  BY NotReported DEF IInv, TypeOK, UserMovesPinned, Reported, Motion
<1>2. Good(s) /\ SameFixed(cap, s) /\ SameInput(cap, s)
  BY <1>1, SeenGood
<1> HIDE DEF s
<1>3. /\ Good(w) /\ SameFixed(s, w) /\ SameKeys(s, w)
      /\ w.on = s.on /\ w.peer = s.peer /\ ~w.idle
  BY <1>2, ResumeGood
<1> HIDE DEF w
<1>4. /\ w.on = "remote" /\ w.peer = cap.peer /\ SameFixed(cap, w)
      /\ w.carrying = cap.carrying /\ w.routes = cap.routes
  BY <1>1, <1>2, <1>3 DEF Good, ModeOK, SameFixed, SameInput, SameKeys
<1>5. to \in {"stay", "portal", "shown", Home} \union w.layout
  BY <1>4 DEF Goals, SameFixed
<1>6. to \in Peer \union {Home} => crossing /\ far
  BY <1>5, Words DEF Home
<1>7. to \in {"stay", "portal", "shown"} \/ to \in Peer \union {Home}
  BY <1>3, <1>5, Fields DEF Good
<1>8. Become([u EXCEPT !.jump = @ \/ u.windows], zone)
  BY <1>0
<1> HIDE DEF to
<1>9. /\ Good(u) /\ SameFixed(w, u)
      /\ to = "stay" => u = w
      /\ to = "portal" => u.peer = w.peer
      /\ to = "shown" =>
           \/ u.peer = w.peer
           \/ u.on = "local" /\ w.shown = w.peer /\ ~HoldingOn(w, w.peer)
      /\ SwitchBlocked(w) /\ to \in Peer \union {Home} => u = w
  BY <1>3, <1>4, <1>5, MoveOnGood
<1> HIDE DEF u
<1>10. cap' = [u EXCEPT !.jump = @ \/ u.windows] /\ zone' \in Zone
  BY <1>1, <1>8, BecomeIs
<1>11. Good(cap') /\ SameFixed(u, cap') /\ SameInput(u, cap')
  BY <1>9, <1>10, JumpsOnGood
<1>12. SameFixed(cap, cap') /\ cap'.peer = u.peer /\ cap'.on = u.on
  BY <1>4, <1>9, <1>11 DEF SameFixed, SameInput
<1>13. Kept
  BY <1>1, <1>10, <1>11 DEF Kept
<1>14. ASSUME NEW p \in Peer, BlockWhileHeld, NEW b \in Button, cap.routes[b] = p,
              ~cap.carrying
       PROVE  cap'.peer = cap.peer
  <2>1. cap.peer = p
    BY <1>1, <1>14 DEF Good, KeysOK, Input
  <2>2. HoldingOn(w, w.peer)
    BY <1>4, <1>14, <2>1 DEF HoldingOn
  <2>3. SwitchBlocked(w)
    BY <1>4, <1>14, Words DEF SwitchBlocked
  <2> QED
    BY <1>4, <1>7, <1>9, <1>12, <2>2, <2>3
<1>15. ASSUME ~cap.windows, step' = "moved", ~cap.mixed
       PROVE  cap'.peer = cap.peer \/ (cap'.on = "local" /\ cap.shown = cap.peer)
  <2>1. ~far
    BY <1>1, <1>15
  <2>2. w.shown = cap.shown
    BY <1>4 DEF SameFixed
  <2> QED
    BY <1>4, <1>6, <1>7, <1>9, <1>12, <2>1, <2>2
<1> QED
  BY <1>1, <1>12, <1>13, <1>14, <1>15
(* The portal's picture takes what is pressed on it, parked or not. *)
LEMMA UserPressesIs ==
    ASSUME IInv, NEW i \in Input, UserPresses(i)
    PROVE  /\ Kept /\ UNCHANGED <<known, parting>> /\ SameBut(cap, cap')
           /\ cap'.down = cap.down \union {i}
           /\ \A p \in Peer :
                /\ ~cap.pin /\ zone \in OnPicture
                /\ cap.portal = p /\ p \in cap.layout \intersect cap.up
                => i \in cap'.held[p]
<1> DEFINE d == [cap EXCEPT !.down = @ \union {i}]
           r == Reenter(d)
<1>1. /\ Good(cap) /\ zone \in Zone /\ entered \in BOOLEAN
      /\ i \notin cap.down /\ Become(Press(r, i), zone) /\ step' = "other"
      /\ UNCHANGED <<entered, known, parting>>
  BY DEF IInv, TypeOK, UserPresses
<1>2. Good(d) /\ SameBut(cap, d) /\ SameInput(cap, d) /\ d.down = cap.down \union {i}
  BY <1>1, DownGood
<1>3. r = IF CanReenter THEN PortalMotion(d, FALSE, FALSE) ELSE d
  BY DEF Reenter
<1> HIDE DEF d, r
<1>4. /\ Good(r) /\ SameFixed(d, r) /\ SameKeys(d, r)
      /\ CanReenter /\ MayEnterPortal(d) => r.peer = d.portal
      /\ ~CanReenter => r = d
  <2>1. LET t == PortalMotion(d, FALSE, FALSE) IN
        /\ Good(t) /\ SameFixed(d, t) /\ SameKeys(d, t)
        /\ MayEnterPortal(d) => t.peer = d.portal
    BY <1>2, PortalMotionGood
  <2>2. SameFixed(d, d) /\ SameKeys(d, d)
    BY DEF SameFixed, SameKeys
  <2> QED
    BY <1>2, <1>3, <2>1, <2>2
<1>5. r.routes[i] = "none" /\ i \in r.down
  <2>1. cap.routes[i] = "none"
    BY <1>1 DEF Good, DownOK
  <2> QED
    BY <1>2, <1>4, <2>1 DEF SameInput, SameKeys, SameFixed
<1>6. cap' = Press(r, i) /\ zone' \in Zone
  BY <1>1, BecomeIs
<1>7. /\ Good(cap') /\ SameFixed(r, cap')
      /\ r.peer \in r.up => i \in cap'.held[r.peer]
  BY <1>4, <1>5, <1>6, PressGood
<1>8. Kept
  BY <1>1, <1>6, <1>7 DEF Kept
<1>9. SameBut(cap, cap') /\ cap'.down = cap.down \union {i}
  BY <1>2, <1>4, <1>7 DEF SameBut, SameFixed
<1>10. ASSUME NEW p \in Peer, ~cap.pin, zone \in OnPicture,
              cap.portal = p, p \in cap.layout \intersect cap.up
       PROVE  i \in cap'.held[p]
  <2>1. cap.on \in {"local", "portal"} /\ cap.windows /\ p # NoPeer
    BY <1>1, <1>10, Fields, Words DEF Good, ModeOK
  <2>2. d.on = cap.on /\ d.peer = cap.peer /\ d.portal = p /\ p \in d.layout /\ p \in d.up
    BY <1>2, <1>10 DEF SameBut, SameInput
  <2>3. r.peer = p
    <3>1. CASE cap.on = "local"
      <4>1. CanReenter /\ MayEnterPortal(d)
        BY <1>10, <2>1, <2>2, <3>1 DEF CanReenter, MayEnterPortal
      <4> QED
        BY <1>4, <2>2, <4>1
    <3>2. CASE cap.on = "portal"
      <4>1. r = d
        BY <1>4, <3>2 DEF CanReenter
      <4>2. cap.peer = p
        BY <1>1, <1>10, <3>2 DEF Good, ModeOK
      <4> QED
        BY <2>2, <4>1, <4>2
    <3> QED
      BY <2>1, <3>1, <3>2
  <2>4. p \in r.up
    BY <1>4, <2>2 DEF SameFixed
  <2> QED
    BY <1>7, <2>3, <2>4
<1> QED
  BY <1>1, <1>8, <1>9, <1>10

LEMMA UserKeeps ==
    ASSUME IInv, User, ~\E i \in Input : UserPresses(i)
    PROVE  /\ Kept /\ UNCHANGED <<known, parting>>
           /\ SameBut(cap, cap') /\ cap'.down \subseteq cap.down
<1>0. /\ Good(cap) /\ zone \in Zone /\ entered \in BOOLEAN /\ SameBut(cap, cap)
      /\ cap \in CaptureState
  BY DEF IInv, TypeOK, SameBut, Good
<1>1. ASSUME NEW t, SameFixed(cap, t) PROVE SameBut(cap, t) /\ t.down \subseteq cap.down
  BY <1>1 DEF SameFixed, SameBut
<1>2. CASE \E at \in Places(cap), motion \in Motion, beside \in BOOLEAN :
             \E to \in Targets(at) \union {NoPeer} : UserMoves(at, to, motion, beside)
  <2>1. PICK at \in Places(cap), motion \in Motion, beside \in BOOLEAN :
           \E to \in Targets(at) \union {NoPeer} : UserMoves(at, to, motion, beside)
    BY <1>2
  <2>2. PICK to \in Targets(at) \union {NoPeer} : UserMoves(at, to, motion, beside)
    BY <2>1
  <2>3. to \in cap.layout \union {NoPeer}
    BY DEF Targets
  <2> QED
    BY <1>1, <2>2, <2>3, UserMovesIs
<1>3. CASE \E goal \in Goals, motion \in Motion : UserMovesPinned(goal, motion)
  BY <1>1, <1>3, UserMovesPinnedIs
<1>4. ASSUME NEW i \in Input, UserReleases(i)
      PROVE  Kept /\ UNCHANGED <<known, parting>> /\ SameBut(cap, cap') /\ cap'.down \subseteq cap.down
  <2> DEFINE u == LetGo([cap EXCEPT !.down = @ \ {i}], i)
  <2>1. Become(StopCatching(u, i), zone) /\ step' = "other" /\ UNCHANGED <<entered, known, parting>>
    BY <1>4 DEF UserReleases
  <2>2. Good(u) /\ SameBut(cap, u) /\ u.down \subseteq cap.down
    BY <1>0, LetGoGood
  <2> HIDE DEF u
  <2>3. Good(StopCatching(u, i)) /\ SameFixed(u, StopCatching(u, i))
    BY <2>2, StopCatchingGood
  <2>4. cap' = StopCatching(u, i) /\ zone' \in Zone
    BY <1>0, <2>1, BecomeIs
  <2>5. Good(cap') /\ SameFixed(u, cap')
    BY <2>3, <2>4
  <2> QED
    BY <1>0, <2>1, <2>2, <2>4, <2>5 DEF Kept, SameBut, SameFixed
<1>5. ASSUME NEW k \in Key, UserRepeats(k)
      PROVE  Kept /\ UNCHANGED <<known, parting>> /\ SameBut(cap, cap') /\ cap'.down \subseteq cap.down
  <2> DEFINE r == Reenter(cap)
  <2>1. /\ Become(Press(r, k), zone) /\ step' = "other" /\ UNCHANGED <<entered, known, parting>>
        /\ k \in cap.down
    BY <1>5 DEF UserRepeats
  <2>2. r = IF CanReenter THEN PortalMotion(cap, FALSE, FALSE) ELSE cap
    BY DEF Reenter
  <2> HIDE DEF r
  <2>3. Good(r) /\ SameFixed(cap, r)
    <3>1. LET t == PortalMotion(cap, FALSE, FALSE) IN Good(t) /\ SameFixed(cap, t)
      BY <1>0, PortalMotionGood
    <3>2. SameFixed(cap, cap)
      BY DEF SameFixed
    <3> QED
      BY <1>0, <2>2, <3>1, <3>2
  <2>4. k \in r.down
    BY <2>1, <2>3 DEF SameFixed
  <2>5. Good(Press(r, k)) /\ SameFixed(r, Press(r, k))
    BY <2>3, <2>4, PressGood
  <2>6. cap' = Press(r, k) /\ zone' \in Zone
    BY <1>0, <2>1, BecomeIs
  <2>7. Good(cap') /\ SameFixed(cap, cap')
    BY <2>3, <2>5, <2>6 DEF SameFixed
  <2> QED
    BY <1>0, <1>1, <2>1, <2>6, <2>7 DEF Kept
<1>6. CASE WindowsChange
  <2>1. zone' \in Zone
    BY <1>0, <1>6 DEF WindowsChange, Zone
  <2> QED
    BY <1>0, <1>6, <2>1 DEF WindowsChange, Kept
<1>7. CASE DragEnter
  BY <1>0, <1>7 DEF DragEnter, Kept
<1>8. CASE FilesEntered
  <2>1. Good(cap') /\ SameFixed(cap, cap')
    BY <1>0, <1>8, CarryingGood DEF FilesEntered
  <2> QED
    BY <1>0, <1>1, <1>8, <2>1 DEF FilesEntered, Kept
<1> QED
  BY <1>2, <1>3, <1>4, <1>5, <1>6, <1>7, <1>8 DEF User

LEMMA PeersKeep ==
    ASSUME IInv, Peers
    PROVE  /\ Kept /\ UNCHANGED <<known, parting>>
           /\ cap'.layout = cap.layout /\ cap'.up \subseteq cap.up /\ cap'.down = cap.down
<1>0. Good(cap) /\ zone \in Zone /\ entered \in BOOLEAN
  BY DEF IInv, TypeOK
<1>1. ASSUME NEW t, Good(t), SameFixed(cap, t), cap' = t, zone' \in Zone, step' = "other",
             UNCHANGED <<entered, known, parting>>
      PROVE  /\ Kept /\ UNCHANGED <<known, parting>>
             /\ cap'.layout = cap.layout /\ cap'.up \subseteq cap.up /\ cap'.down = cap.down
  BY <1>0, <1>1 DEF Kept, SameFixed
<1>2. ASSUME NEW p \in Peer, PeerTakesBack(p)
      PROVE  /\ Kept /\ UNCHANGED <<known, parting>>
             /\ cap'.layout = cap.layout /\ cap'.up \subseteq cap.up /\ cap'.down = cap.down
  <2> DEFINE t == PeerYield(SendLeave(cap, p), p)
  <2>1. /\ p \in cap.driven /\ Become(t, zone) /\ step' = "other"
        /\ UNCHANGED <<entered, known, parting>>
    BY <1>2 DEF PeerTakesBack, Commanded
  <2>2. Good(t) /\ SameFixed(cap, t)
    BY <1>0, <2>1, YieldGood
  <2> HIDE DEF t
  <2> QED
    BY <1>0, <1>1, <2>1, <2>2, BecomeIs
<1>3. ASSUME NEW p \in Peer, PeerComesAcross(p)
      PROVE  /\ Kept /\ UNCHANGED <<known, parting>>
             /\ cap'.layout = cap.layout /\ cap'.up \subseteq cap.up /\ cap'.down = cap.down
  <2> DEFINE t == PeerEntered(cap, p)
  <2>1. /\ p \in cap.up \ cap.driven /\ Become(t, zone) /\ step' = "other"
        /\ UNCHANGED <<entered, known, parting>>
    BY <1>3 DEF PeerComesAcross, Commanded
  <2>2. Good(t) /\ SameFixed(cap, t)
    BY <1>0, <2>1, EnteredGood
  <2> HIDE DEF t
  <2> QED
    BY <1>0, <1>1, <2>1, <2>2, BecomeIs
<1>4. ASSUME NEW p \in Peer, LinkDies(p)
      PROVE  /\ Kept /\ UNCHANGED <<known, parting>>
             /\ cap'.layout = cap.layout /\ cap'.up \subseteq cap.up /\ cap'.down = cap.down
  <2>1. /\ p \in cap.up /\ cap' = [SendLeave(cap, p) EXCEPT !.up = @ \ {p}]
        /\ step' = "other" /\ UNCHANGED <<zone, entered, known, parting>>
    BY <1>4 DEF LinkDies
  <2>2. /\ Good(cap') /\ cap'.layout = cap.layout /\ cap'.up = cap.up \ {p}
        /\ cap'.down = cap.down
    BY <1>0, <2>1, LinkDiesGood
  <2> QED
    BY <1>0, <2>1, <2>2 DEF Kept
<1>5. ASSUME NEW p \in Peer, NEW onPortal \in BOOLEAN, PeerReports(p, onPortal)
      PROVE  /\ Kept /\ UNCHANGED <<known, parting>>
             /\ cap'.layout = cap.layout /\ cap'.up \subseteq cap.up /\ cap'.down = cap.down
  <2> DEFINE t == PeerPointer(cap, p, onPortal)
  <2>1. /\ (cap' = t /\ zone' \in {"picture", "desk"}) \/ Become(t, zone)
        /\ step' = "other" /\ UNCHANGED <<entered, known, parting>>
    BY <1>5 DEF PeerReports
  <2>2. Good(t) /\ SameFixed(cap, t)
    BY <1>0, PointerGood
  <2> HIDE DEF t
  <2>3. cap' = t /\ zone' \in Zone
    BY <1>0, <2>1, BecomeIs DEF Zone
  <2> QED
    BY <1>1, <2>1, <2>2, <2>3
<1>6. CASE PeerMovesUs
  BY <1>0, <1>1, <1>6, PeerMovedGood, CursorTakenGood DEF PeerMovesUs
<1> QED
  BY <1>2, <1>3, <1>4, <1>5, <1>6 DEF Peers

-----------------------------------------------------------------------------
(* The run loop's commands: what it knows changes with what it says. *)
LEMMA ConnectsKeeps ==
    ASSUME IInv, NEW p \in Peer, Connects(p)
    PROVE  IInv' /\ cap'.down = cap.down
<1> DEFINE s == [cap EXCEPT !.up = @ \union {p}]
           peers == cap.layout \union {p}
           t == SetLayout(s, peers, FALSE)
<1>1. /\ Good(cap) /\ zone \in Zone /\ entered \in BOOLEAN /\ known \subseteq Peer
      /\ cap.layout \subseteq known /\ cap.up \subseteq known
      /\ parting = NobodyParts /\ p \notin known /\ known' = known \union {p}
      /\ Become(t, zone) /\ step' = "other" /\ UNCHANGED <<entered, parting>>
  BY DEF IInv, TypeOK, RunLoopOK, Connects, Commanded
<1>2. DeskOK(s) /\ s.up = cap.up \union {p} /\ s.down = cap.down
  BY <1>1, ConnectGood
<1>3. peers \in SUBSET Peer
  BY <1>1
<1> HIDE DEF s, peers
<1>4. Good(t) /\ t.layout = peers /\ t.up = s.up /\ t.down = s.down
  BY <1>2, <1>3, SetLayoutGood
<1> HIDE DEF t
<1>5. cap' = t /\ zone' \in Zone
  BY <1>1, BecomeIs
<1>6. TypeOK'
  BY <1>1, <1>4, <1>5 DEF IInv, TypeOK, Good
<1>7. RunLoopOK'
  BY <1>1, <1>2, <1>4, <1>5 DEF IInv, RunLoopOK, NobodyParts, peers
<1> QED
  BY <1>2, <1>4, <1>5, <1>6, <1>7 DEF IInv

LEMMA GoodDesk ==
    ASSUME NEW s, Good(s)
    PROVE  DeskOK(s)
BY DEF Good, ModeOK, DeskOK

LEMMA RelayoutKeeps ==
    ASSUME IInv, NEW peers \in SUBSET known, NEW moved \in BOOLEAN, Relayout(peers, moved)
    PROVE  IInv' /\ cap'.down = cap.down
<1> DEFINE t == SetLayout(cap, peers, moved)
<1>1. /\ Good(cap) /\ zone \in Zone /\ entered \in BOOLEAN /\ known \subseteq Peer
      /\ Become(t, zone) /\ step' = "other" /\ UNCHANGED <<entered, known, parting>>
  BY DEF IInv, TypeOK, Relayout, Commanded
<1>2. DeskOK(cap) /\ peers \in SUBSET Peer
  BY <1>1, GoodDesk
<1>3. Good(t) /\ t.layout = peers /\ t.up = cap.up /\ t.down = cap.down
  BY <1>2, SetLayoutGood
<1> HIDE DEF t
<1>4. cap' = t /\ zone' \in Zone
  BY <1>1, BecomeIs
<1>5. TypeOK'
  BY <1>1, <1>3, <1>4 DEF IInv, TypeOK, Good
<1>6. RunLoopOK'
  BY <1>1, <1>3, <1>4 DEF IInv, RunLoopOK
<1> QED
  BY <1>3, <1>4, <1>5, <1>6 DEF IInv

LEMMA ChangesKeep ==
    ASSUME IInv, NEW p \in (known \intersect cap.up) \union {NoPeer},
           ViewerChanges(p) \/ ShownChanges(p)
    PROVE  IInv' /\ cap'.down = cap.down
<1> DEFINE t == SetPortal(cap, p)
           u == SetShown(cap, p)
<1>1. Good(cap) /\ zone \in Zone /\ entered \in BOOLEAN /\ known \subseteq Peer
  BY DEF IInv, TypeOK
<1>2. p \in Peer \union {NoPeer}
  BY <1>1
<1>3. /\ (cap.windows /\ Become(t, zone)) \/ Become(u, zone)
      /\ step' = "other" /\ UNCHANGED <<entered, known, parting>>
  BY DEF ViewerChanges, ShownChanges, Commanded
<1>4. cap.windows => Good(t) /\ t.layout = cap.layout /\ t.up = cap.up /\ t.down = cap.down
  BY <1>1, <1>2, SetPortalGood
<1>5. Good(u) /\ u.layout = cap.layout /\ u.up = cap.up /\ u.down = cap.down
  BY <1>1, <1>2, SetShownGood
<1> HIDE DEF t, u
<1>6. /\ Good(cap') /\ cap'.layout = cap.layout /\ cap'.up = cap.up /\ cap'.down = cap.down
      /\ zone' \in Zone
  BY <1>1, <1>3, <1>4, <1>5, BecomeIs
<1>7. Kept
  BY <1>1, <1>3, <1>6 DEF Kept
<1> QED
  BY <1>3, <1>6, <1>7, KeptIs

LEMMA PartingKeeps ==
    ASSUME IInv, (\E p \in Peer : DisplayGoes(p)) \/ PeerGoes \/ LayoutGoes
    PROVE  IInv' /\ cap'.down = cap.down
<1>0. /\ Good(cap) /\ zone \in Zone /\ entered \in BOOLEAN /\ known \subseteq Peer
      /\ parting \in [peer : Peer \union {NoPeer}, at : 0 .. 2]
      /\ cap.layout \subseteq known /\ cap.up \subseteq known
      /\ parting.at # 0 => parting.peer \in known \ cap.up
  BY DEF IInv, TypeOK, RunLoopOK
<1>1. ASSUME NEW p \in Peer, DisplayGoes(p) PROVE IInv' /\ cap'.down = cap.down
  <2> DEFINE gone == IF cap.portal = p THEN SetPortal(cap, NoPeer) ELSE cap
             t == IF cap.shown = p THEN SetShown(gone, NoPeer) ELSE gone
  <2>1. /\ p \in known \ cap.up /\ Become(t, zone) /\ parting' = [peer |-> p, at |-> 1]
        /\ step' = "other" /\ UNCHANGED <<entered, known>>
    BY <1>1 DEF DisplayGoes
  <2>2. /\ Good(gone) /\ gone.layout = cap.layout /\ gone.up = cap.up
        /\ gone.down = cap.down
    BY <1>0, SetPortalGood
  <2> HIDE DEF gone
  <2>3. Good(t) /\ t.layout = cap.layout /\ t.up = cap.up /\ t.down = cap.down
    BY <2>2, SetShownGood
  <2> HIDE DEF t
  <2>4. cap' = t /\ zone' \in Zone
    BY <1>0, <2>1, BecomeIs
  <2>5. parting' \in [peer : Peer \union {NoPeer}, at : 0 .. 2] /\ parting'.at = 1 /\ parting'.peer = p
    BY <2>1
  <2>6. TypeOK'
    BY <1>0, <2>1, <2>3, <2>4, <2>5 DEF TypeOK, Good
  <2>7. RunLoopOK'
    BY <1>0, <2>1, <2>3, <2>4, <2>5 DEF RunLoopOK, NobodyParts
  <2> QED
    BY <2>3, <2>4, <2>6, <2>7 DEF IInv
<1>2. CASE PeerGoes
  <2> DEFINE t == PeerLost(cap, parting.peer)
  <2>1. /\ parting.at = 1 /\ Become(t, zone) /\ parting' = [parting EXCEPT !.at = 2]
        /\ step' = "other" /\ UNCHANGED <<entered, known>>
    BY <1>2 DEF PeerGoes
  <2>2. parting.peer \in Peer \ cap.up
    BY <1>0, <2>1
  <2>3. Good(t) /\ SameFixed(cap, t)
    BY <1>0, <2>2, LostGood
  <2> HIDE DEF t
  <2>4. cap' = t /\ zone' \in Zone
    BY <1>0, <2>1, BecomeIs
  <2>5. /\ parting' \in [peer : Peer \union {NoPeer}, at : 0 .. 2] /\ parting'.at = 2
        /\ parting'.peer = parting.peer
    BY <1>0, <2>1
  <2>6. TypeOK'
    BY <1>0, <2>1, <2>3, <2>4, <2>5 DEF TypeOK, Good
  <2>7. RunLoopOK'
    BY <1>0, <2>1, <2>3, <2>4, <2>5 DEF RunLoopOK, NobodyParts, SameFixed
  <2> QED
    BY <2>3, <2>4, <2>6, <2>7 DEF IInv, SameFixed
<1>3. CASE LayoutGoes
  <2> DEFINE peers == cap.layout \ {parting.peer}
             t == SetLayout(cap, peers, FALSE)
  <2>1. /\ parting.at = 2 /\ Become(t, zone) /\ parting' = NobodyParts
        /\ known' = known \ {parting.peer} /\ step' = "other" /\ UNCHANGED entered
    BY <1>3 DEF LayoutGoes
  <2>2. peers \in SUBSET Peer /\ DeskOK(cap)
    BY <1>0, GoodDesk
  <2> HIDE DEF peers
  <2>3. Good(t) /\ t.layout = peers /\ t.up = cap.up /\ t.down = cap.down
    BY <2>2, SetLayoutGood
  <2> HIDE DEF t
  <2>4. cap' = t /\ zone' \in Zone
    BY <1>0, <2>1, BecomeIs
  <2>5. /\ parting' \in [peer : Peer \union {NoPeer}, at : 0 .. 2] /\ parting'.at = 0
    BY <2>1 DEF NobodyParts
  <2>6. TypeOK'
    BY <1>0, <2>1, <2>3, <2>4, <2>5 DEF TypeOK, Good
  <2>7. RunLoopOK'
    BY <1>0, <2>1, <2>3, <2>4, <2>5 DEF RunLoopOK, peers
  <2> QED
    BY <2>3, <2>4, <2>6, <2>7 DEF IInv
<1> QED
  BY <1>1, <1>2, <1>3

LEMMA RunLoopKeeps ==
    ASSUME IInv, RunLoop
    PROVE  IInv' /\ cap'.down = cap.down
BY ConnectsKeeps, RelayoutKeeps, ChangesKeep, PartingKeeps DEF RunLoop

(* Only a press adds to what the user holds. *)
LEMMA StepKeeps ==
    ASSUME IInv, [Next]_vars
    PROVE  IInv' /\ (cap'.down \subseteq cap.down \/ \E i \in Input : UserPresses(i))
<1>1. ASSUME NEW i \in Input, UserPresses(i) PROVE IInv'
  BY <1>1, UserPressesIs, KeptIs DEF SameBut
<1>2. CASE User /\ ~\E i \in Input : UserPresses(i)
  BY <1>2, UserKeeps, KeptIs DEF SameBut
<1>3. CASE RunLoop
  BY <1>3, RunLoopKeeps
<1>4. CASE Peers
  BY <1>4, PeersKeep, KeptIs
<1>5. CASE UNCHANGED vars
  BY <1>5 DEF vars, IInv, TypeOK, RunLoopOK
<1> QED
  BY <1>1, <1>2, <1>3, <1>4, <1>5 DEF Next

LEMMA Starts == Init => IInv
<1> SUFFICES ASSUME Init PROVE IInv
  OBVIOUS
<1>1. PICK windows \in BOOLEAN : cap = NewCapture(windows)
  BY DEF Init
<1>2. Good(cap) /\ cap.layout = {} /\ cap.up = {}
  BY <1>1, NewCaptureGood DEF NewCapture
<1>3. TypeOK
  <2>1. NobodyParts \in [peer : Peer \union {NoPeer}, at : 0 .. 2]
    BY DEF NobodyParts
  <2>2. cap \in CaptureState
    BY <1>2 DEF Good
  <2> QED
    BY <2>1, <2>2 DEF Init, TypeOK, Zone
<1>4. RunLoopOK
  BY <1>2 DEF Init, RunLoopOK, NobodyParts
<1> QED
  BY <1>2, <1>3, <1>4 DEF IInv
-----------------------------------------------------------------------------
(***************************************************************************)
(* The theorems.                                                           *)
(***************************************************************************)
(* The invariant of the capture thread and of the run loop in front of it  *)
(* (Controller's mode, keys and buttons; the backends' apply and drain).   *)
THEOREM Invariance == Spec => []IInv
<1>1. IInv /\ [Next]_vars => IInv'
  BY StepKeeps
<1> QED
  BY Starts, <1>1, PTL DEF Spec

(* The capture thread's state, the cursor's place and the run loop's       *)
(* knowledge are always of their types (CaptureState, Zone).               *)
THEOREM Types == Spec => []TypeOK
<1>1. IInv => TypeOK
  BY DEF IInv
<1> QED
  BY Invariance, <1>1, PTL

(* Every way of entering or leaving a peer tells it (Controller's          *)
(* exit_to_local, peer_lost, peer_yield, set_portal, set_layout and the    *)
(* motion handlers): driven is where the pointer is.                       *)
THEOREM DrivenRight == Spec => []DrivenWherePointerIs
<1>1. IInv => DrivenWherePointerIs
  <2> SUFFICES ASSUME IInv, NEW p \in cap.up
               PROVE  p \in cap.driven <=> cap.peer = p /\ ~cap.idle
    BY DEF DrivenWherePointerIs
  <2>1. p \in Peer
    BY Fields DEF IInv, Good
  <2> QED
    BY <2>1 DEF IInv, Good, DrivenOK
<1> QED
  BY Invariance, <1>1, PTL

(* Keys and buttons are released where they were pressed, whatever moved   *)
(* the pointer since (Controller's key_routes and button_routes).          *)
THEOREM HeldRight == Spec => []HeldWhereItWentDown
<1>1. IInv => HeldWhereItWentDown
  <2> SUFFICES ASSUME IInv PROVE HeldWhereItWentDown
    OBVIOUS
  <2>1. cap \in CaptureState /\ KeysOK(cap) /\ DownOK(cap)
    BY DEF IInv, Good
  <2>2. /\ cap.up \subseteq Peer /\ cap.down \subseteq Input /\ cap.here \subseteq Input
        /\ \A p \in Peer : cap.held[p] \subseteq Input
    BY <2>1 DEF CaptureState
  <2>3. \A i \in Input : cap.routes[i] # "none" => i \in cap.down
    BY <2>1 DEF DownOK
  <2>4. ASSUME NEW p \in cap.up
        PROVE  cap.held[p] = {i \in cap.down : cap.routes[i] = p}
    <3>1. p \in Peer
      BY <2>2
    <3>2. \A i \in Input : i \in cap.held[p] <=> cap.routes[i] = p
      BY <2>1, <3>1 DEF KeysOK
    <3>3. \A i \in Input : cap.routes[i] = p => i \in cap.down
      BY <2>3, <3>1, Words
    <3>4. cap.held[p] \subseteq Input
      BY <2>2, <3>1
    <3> QED
      BY <2>2, <3>2, <3>3, <3>4
  <2>5. cap.here = {i \in cap.down : cap.routes[i] = "local"}
    <3>1. \A i \in Input : i \in cap.here <=> cap.routes[i] = "local"
      BY <2>1 DEF KeysOK
    <3>2. \A i \in Input : cap.routes[i] = "local" => i \in cap.down
      BY <2>3
    <3> QED
      BY <2>2, <3>1, <3>2
  <2> QED
    BY <2>4, <2>5 DEF HeldWhereItWentDown
<1> QED
  BY Invariance, <1>1, PTL

(* What is pressed on the picture of a peer's display goes there, also     *)
(* when the pointer has to be taken back first (reenter_portal in          *)
(* legato-windows/src/capture.rs).                                         *)
THEOREM PictureRight == Spec => PictureGetsInput
<1>1. IInv /\ [Next]_vars =>
        [ \A i \in Input, p \in Peer :
            /\ i \in cap'.down \ cap.down
            /\ ~cap.pin /\ zone \in OnPicture
            /\ cap.portal = p /\ p \in cap.layout \intersect cap.up
            => i \in cap'.held[p] ]_vars
  <2> SUFFICES ASSUME IInv, [Next]_vars, NEW i \in Input, NEW p \in Peer,
                      i \in cap'.down \ cap.down, ~cap.pin, zone \in OnPicture,
                      cap.portal = p, p \in cap.layout \intersect cap.up
               PROVE  i \in cap'.held[p]
    OBVIOUS
  <2>1. PICK j \in Input : UserPresses(j)
    BY StepKeeps
  <2>2. i = j
    BY <2>1, UserPressesIs
  <2> QED
    BY <2>1, <2>2, UserPressesIs
<1> QED
  BY Invariance, <1>1, PTL DEF Spec, PictureGetsInput

(* Only the mouse's motion is not "other": on this machine's screens, the   *)
(* pinned cursor or the picture.                                           *)
LEMMA MotionIs ==
    ASSUME Next, step' # "other"
    PROVE  \/ \E at, to, motion, beside :
                /\ to \in cap.layout \union {NoPeer}
                /\ motion \in Motion /\ beside \in BOOLEAN
                /\ UserMoves(at, to, motion, beside)
           \/ \E goal \in Goals, motion \in Motion : UserMovesPinned(goal, motion)
<1>1. CASE \E at \in Places(cap), motion \in Motion, beside \in BOOLEAN :
             \E to \in Targets(at) \union {NoPeer} : UserMoves(at, to, motion, beside)
  <2>1. PICK at \in Places(cap), motion \in Motion, beside \in BOOLEAN :
           \E to \in Targets(at) \union {NoPeer} : UserMoves(at, to, motion, beside)
    BY <1>1
  <2>2. PICK to \in Targets(at) \union {NoPeer} : UserMoves(at, to, motion, beside)
    BY <2>1
  <2>3. to \in cap.layout \union {NoPeer}
    BY DEF Targets
  <2> QED
    BY <2>2, <2>3
<1>2. CASE \E goal \in Goals, motion \in Motion : UserMovesPinned(goal, motion)
  BY <1>2
<1>3. ~RunLoop
  BY DEF RunLoop, Connects, DisplayGoes, Relayout, ViewerChanges, ShownChanges, Commanded,
         PeerGoes, LayoutGoes
<1>4. ~Peers
  BY DEF Peers, PeerTakesBack, PeerComesAcross, LinkDies, PeerReports, PeerMovesUs, Commanded
<1>5. /\ \A i \in Input : ~UserPresses(i) /\ ~UserReleases(i)
      /\ \A k \in Key : ~UserRepeats(k)
      /\ ~WindowsChange /\ ~DragEnter /\ ~FilesEntered
  BY DEF UserPresses, UserReleases, UserRepeats, WindowsChange, DragEnter, FilesEntered
<1> QED
  BY <1>1, <1>2, <1>3, <1>4, <1>5 DEF Next, User

(* With crossings blocked while a button is held (the code's default; see  *)
(* Controller's switch_blocked), a drag on a peer keeps the pointer there: *)
(* without it the mouse may leave the peer past an edge.                   *)
THEOREM DragStays == ASSUME BlockWhileHeld PROVE Spec => HeldKeepsPointer
<1>1. IInv /\ [Next]_vars =>
        [ \A p \in Peer :
            /\ \E b \in Button : cap.routes[b] = p
            /\ ~cap.carrying /\ step' # "other"
            => cap'.peer = cap.peer ]_vars
  <2> SUFFICES ASSUME IInv, Next, step' # "other", ~cap.carrying,
                      NEW p \in Peer, NEW b \in Button, cap.routes[b] = p
               PROVE  cap'.peer = cap.peer
    BY DEF vars
  <2>1. CASE \E at, to, motion, beside :
               /\ to \in cap.layout \union {NoPeer}
               /\ motion \in Motion /\ beside \in BOOLEAN
               /\ UserMoves(at, to, motion, beside)
    BY <2>1, UserMovesIs
  <2>2. CASE \E goal \in Goals, motion \in Motion : UserMovesPinned(goal, motion)
    BY <2>2, UserMovesPinnedIs
  <2> QED
    BY <2>1, <2>2, MotionIs
<1> QED
  BY Invariance, <1>1, PTL DEF Spec, HeldKeepsPointer

(* On macOS the motion a warp reports is never taken for the user's,       *)
(* unless an event from before the warp or a peer's motion got between the *)
(* warp and the next event (warped_to in legato-macos/src/capture.rs).     *)
THEOREM PushesCross == Spec => OnlyPushesCross
<1>1. IInv /\ [Next]_vars =>
        [ ~cap.windows /\ step' = "moved" /\ ~cap.mixed
          => \/ cap'.peer = cap.peer
             \/ cap'.on = "local" /\ cap.shown = cap.peer ]_vars
  <2> SUFFICES ASSUME IInv, Next, ~cap.windows, step' = "moved", ~cap.mixed
               PROVE  cap'.peer = cap.peer \/ (cap'.on = "local" /\ cap.shown = cap.peer)
    BY DEF vars
  <2>1. CASE \E at, to, motion, beside :
               /\ to \in cap.layout \union {NoPeer}
               /\ motion \in Motion /\ beside \in BOOLEAN
               /\ UserMoves(at, to, motion, beside)
    BY <2>1, UserMovesIs
  <2>2. CASE \E goal \in Goals, motion \in Motion : UserMovesPinned(goal, motion)
    BY <2>2, UserMovesPinnedIs
  <2> QED
    BY <2>1, <2>2, MotionIs
<1> QED
  BY Invariance, <1>1, PTL DEF Spec, OnlyPushesCross
=============================================================================
