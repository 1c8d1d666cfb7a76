----------------------------- MODULE Controller -----------------------------
(***************************************************************************)
(* The controlling side of a machine (legato-core/src/controller.rs): it   *)
(* decides when the pointer leaves this machine, tracks it while it is on  *)
(* a peer, and routes keys and buttons.                                    *)
(*                                                                         *)
(* A controller is a record; each operator is the effect of one event, the *)
(* actions the code pushes to out included.  The desk is a row: a machine  *)
(* has the positions 1 .. Width and Beyond says whose screen lies past its *)
(* left and right edges.  A motion event moves one position.  Times are    *)
(* parameters: expired says that the last push is too old to continue,     *)
(* recent that the last report was less than REPORT_EVERY ago.             *)
(*                                                                         *)
(* Left out: the portal and the shown display (no extra display is shown,  *)
(* portal and shown are None), dragged files (carrying is None), scrolling *)
(* units, and Caps Lock, which is never routed (see CapsLock).             *)
(***************************************************************************)
EXTENDS Wire, Sequences, FiniteSets

CONSTANTS
    Machine,
    NoMachine,      \* None, where a machine is expected
    Key, Button,
    Width,          \* positions across a machine's screens
    Beyond,         \* [Machine -> [Dir -> Machine \union {NoMachine}]]
    PushDistance,   \* how far to push past an edge to cross
    BlockWhileHeld, \* config: no crossing while a button is held
    Remap           \* [Machine -> [Key -> Key]], applied to keys sent there

Dir == {"left", "right"}

ASSUME ControllerAssumption ==
    /\ NoMachine \notin Machine
    /\ {"none", "local", "dropped"} \intersect Machine = {}
    /\ Width \in Nat \ {0}
    /\ Beyond \in [Machine -> [Dir -> Machine \union {NoMachine}]]
    /\ \A m \in Machine, d \in Dir : Beyond[m][d] # m
    /\ PushDistance \in Nat
    /\ BlockWhileHeld \in BOOLEAN
    /\ Remap \in [Machine -> [Key -> Key]]

Place == 1 .. Width

(* Where a key or button went: nowhere yet, here, to a peer, or to a peer   *)
(* this machine has left since, which released it already.                  *)
Route == {"none", "local", "dropped"} \union Machine

NoPush == [to |-> NoMachine, dir |-> "left", far |-> 0]
NoReport == [to |-> NoMachine, pos |-> 1]

(* What a controller tells a peer. *)
InputMsg ==
    [type : {"Enter"}, seq : SeqNo, pos : Place]
      \union [type : {"Leave"}]
      \union [type : {"Key"}, key : Key, down : BOOLEAN]
      \union [type : {"Button"}, button : Button, down : BOOLEAN, pos : Place]

(* The actions for the backend; Nothing between events. *)
Output ==
    [ sent      : [Machine -> Seq(InputMsg)],
      datagrams : SUBSET [to : Machine, type : {"Motion", "Pointer"},
                          seq : SeqNo, pos : Place],
      os        : {"keep", "capture", "release", "unpark"},
      warp      : Place ]

Nothing == [ sent |-> [p \in Machine |-> <<>>], datagrams |-> {},
             os |-> "keep", warp |-> 1 ]

ControllerWith(outs) ==
    [ me      : Machine,
      layout  : SUBSET Machine,                 \* peers on the desk
      peer    : Machine \union {NoMachine},     \* Remote's peer; None is Local
      cursor  : Place,                          \* the pointer on that peer
      home    : Place,                          \* return_to
      idle    : BOOLEAN,                        \* parked
      push    : [to : Machine \union {NoMachine}, dir : Dir, far : Nat],
      seq     : SeqNo,
      keys    : [Key -> Route],
      buttons : [Button -> Route],
      watcher : Machine \union {NoMachine},
      pointer : [Machine -> SeqNo \union {-1}], \* pointer_seq, -1 for None
      last    : Place,                          \* last_local
      paced   : BOOLEAN,                        \* last_report is Some
      waiting : [to : Machine \union {NoMachine}, pos : Place],
      out     : outs ]

ControllerState == ControllerWith({Nothing})

NewController(m, pos) ==
    [ me |-> m, layout |-> {}, peer |-> NoMachine, cursor |-> 1, home |-> 1,
      idle |-> FALSE, push |-> NoPush, seq |-> 0,
      keys |-> [k \in Key |-> "none"], buttons |-> [b \in Button |-> "none"],
      watcher |-> NoMachine, pointer |-> [p \in Machine |-> -1],
      last |-> pos, paced |-> FALSE, waiting |-> NoReport, out |-> Nothing ]

-----------------------------------------------------------------------------

(***************************************************************************)
(* Actions for the backend (out).  One handler sends a peer messages in    *)
(* order, adds datagrams, and holds or lets go of the OS pointer at most   *)
(* once.                                                                   *)
(***************************************************************************)
Send(c, to, msg) == [c EXCEPT !.out.sent[to] = Append(@, msg)]

Datagram(c, to, type, pos) ==
    LET s == NextSeq(c.seq)
    IN [c EXCEPT !.seq = s,
                 !.out.datagrams = @ \union
                    {[to |-> to, type |-> type, seq |-> s, pos |-> pos]}]

Capture(c) == [c EXCEPT !.out.os = "capture"]
Release(c, warp) == [c EXCEPT !.out.os = "release", !.out.warp = warp]
Unpark(c) == [c EXCEPT !.out.os = "unpark"]

-----------------------------------------------------------------------------

(***************************************************************************)
(* The desk.                                                               *)
(***************************************************************************)
Step(pos, dir) == IF dir = "left" THEN pos - 1 ELSE pos + 1

Clamp(pos) == IF pos < 1 THEN 1 ELSE IF pos > Width THEN Width ELSE pos

AtEdge(pos, dir) == pos = IF dir = "left" THEN 1 ELSE Width

(* Where the pointer comes in, moving dir off the machine before. *)
Entry(dir) == IF dir = "left" THEN Width ELSE 1

(* The machine on the desk past m's edge, None if there is none. *)
Neighbour(c, m, dir) ==
    LET n == Beyond[m][dir]
    IN IF n \in c.layout \union {c.me} THEN n ELSE NoMachine

-----------------------------------------------------------------------------

(***************************************************************************)
(* Helpers of the handlers.                                                *)
(***************************************************************************)
IsLocal(c) == c.peer = NoMachine

CurrentRoute(c) == IF IsLocal(c) THEN "local" ELSE c.peer

(* Mutant: only a button held on this machine blocks. *)
BlockedByLocal(c) ==
    BlockWhileHeld /\ \E b \in Button : c.buttons[b] = "local"

SwitchBlocked(c) ==
    BlockWhileHeld /\ \E b \in Button : c.buttons[b] # "none"

(* The peer has released, or lost, everything pressed there. *)
DropRoutes(c, p) ==
    LET dropped(routes) ==
          [x \in DOMAIN routes |-> IF routes[x] = p THEN "dropped" ELSE routes[x]]
    IN [c EXCEPT !.keys = dropped(@), !.buttons = dropped(@)]

(* accumulate_push: the push after one more step, and whether it crosses. *)
PushSoFar(c, to, dir, expired) ==
    1 + IF c.push.to = to /\ c.push.dir = dir /\ ~expired THEN c.push.far ELSE 0

Crosses(c, to, dir, expired) == PushSoFar(c, to, dir, expired) >= PushDistance

AccumulatePush(c, to, dir, expired) ==
    [c EXCEPT !.push =
        IF Crosses(c, to, dir, expired) THEN NoPush
        ELSE [to |-> to, dir |-> dir, far |-> PushSoFar(c, to, dir, expired)]]

ToLocal(c) ==
    [c EXCEPT !.peer = NoMachine, !.cursor = 1, !.home = 1, !.idle = FALSE]

EnterPeer(c, p, entry, home) ==
    LET s == NextSeq(c.seq)
    IN [Send(c, p, EnterMsg(s, entry))
          EXCEPT !.seq = s, !.peer = p, !.cursor = entry, !.home = home,
                 !.idle = FALSE, !.watcher = NoMachine]

LeavePeer(c, p) == DropRoutes(Send(c, p, LeaveMsg), p)

ExitToLocal(c, notify) ==
    IF IsLocal(c) THEN c
    ELSE Release([ToLocal(IF notify THEN LeavePeer(c, c.peer) ELSE c)
                    EXCEPT !.push = NoPush], c.home)

(* Mutant: a machine that takes the pointer back without telling the peer. *)
ResumeSilently(c) ==
    IF IsLocal(c) \/ ~c.idle \/ c.peer \notin c.layout THEN c
    ELSE [c EXCEPT !.idle = FALSE]

(* This machine's own input while parked takes the pointer back. *)
Resume(c) ==
    LET s == NextSeq(c.seq)
    IN IF IsLocal(c) \/ ~c.idle \/ c.peer \notin c.layout THEN c
       ELSE [Send(c, c.peer, EnterMsg(s, c.cursor))
               EXCEPT !.seq = s, !.idle = FALSE]

CameHome(c, p, pos) ==
    Datagram([c EXCEPT !.watcher = p, !.last = pos], p, "Pointer", pos)

-----------------------------------------------------------------------------

(***************************************************************************)
(* This machine's own input.                                               *)
(***************************************************************************)

(* The report to the machine this one took the pointer over from. *)
ReportMotion(c, pos, recent) ==
    IF c.watcher = NoMachine THEN [c EXCEPT !.waiting = NoReport]
    ELSE IF recent /\ c.paced
    THEN [c EXCEPT !.waiting = [to |-> c.watcher, pos |-> pos]]
    ELSE [Datagram(c, c.watcher, "Pointer", pos)
            EXCEPT !.paced = TRUE, !.waiting = NoReport]

(* The OS moved the pointer to pos; the user's motion went dir. *)
LocalMotion(c, pos, dir, expired, recent) ==
    LET d  == ReportMotion([c EXCEPT !.last = pos], pos, recent)
        to == IF AtEdge(pos, dir) THEN Neighbour(c, c.me, dir) ELSE NoMachine
    IN IF to = NoMachine THEN [d EXCEPT !.push = NoPush]
       ELSE IF ~Crosses(c, to, dir, expired) \/ SwitchBlocked(c)
       THEN AccumulatePush(d, to, dir, expired)
       ELSE Capture(EnterPeer(AccumulatePush(d, to, dir, expired), to, Entry(dir), pos))

(* The pointer leaves its peer for to: home, or on to another peer. *)
MoveOn(c, to, entry) ==
    LET d == LeavePeer(c, c.peer)
    IN IF to = c.me
       THEN CameHome(Release(ToLocal(d), entry), c.peer, entry)
       ELSE EnterPeer(d, to, entry, c.home)

CapturedMotion(c0, dir, expired) ==
    LET c      == Resume(c0)
        wanted == Step(c.cursor, dir)
        to     == Neighbour(c, c.peer, dir)
    IN IF IsLocal(c) THEN c
       ELSE IF wanted \in Place
       THEN Datagram([c EXCEPT !.push = NoPush, !.cursor = wanted],
                     c.peer, "Motion", wanted)
       ELSE IF to = NoMachine THEN [c EXCEPT !.push = NoPush]
       ELSE IF ~Crosses(c, to, dir, expired) \/ SwitchBlocked(c)
       THEN AccumulatePush(c, to, dir, expired)
       ELSE MoveOn(AccumulatePush(c, to, dir, expired), to, Entry(dir))

(* tick: a report held back to keep pace is due. *)
SendWaitingReport(c) ==
    IF c.waiting.to # NoMachine /\ c.watcher = c.waiting.to /\ IsLocal(c)
    THEN Datagram([c EXCEPT !.waiting = NoReport, !.paced = TRUE],
                  c.waiting.to, "Pointer", c.waiting.pos)
    ELSE [c EXCEPT !.waiting = NoReport]

SendKey(c, route, k, down) ==
    IF route \in Machine THEN Send(c, route, KeyMsg(Remap[route][k], down)) ELSE c

(* A key down that is not an auto-repeat takes the pointer back if parked. *)
PressKey(c0, k) ==
    LET c == IF c0.keys[k] = "none" THEN Resume(c0) ELSE c0
    IN IF c.keys[k] # "none" THEN c
       ELSE SendKey([c EXCEPT !.keys[k] = CurrentRoute(c)], CurrentRoute(c), k, TRUE)

ReleaseKey(c, k) ==
    SendKey([c EXCEPT !.keys[k] = "none"], c.keys[k], k, FALSE)

SendButton(c, route, b, down) ==
    IF route \in Machine
    THEN Send(c, route, ButtonMsg(b, down, IF c.peer = route THEN c.cursor ELSE 1))
    ELSE c

PressButton(c0, b) ==
    LET c == Resume(c0)
    IN SendButton([c EXCEPT !.buttons[b] = CurrentRoute(c)], CurrentRoute(c), b, TRUE)

ReleaseButton(c, b) ==
    SendButton([c EXCEPT !.buttons[b] = "none"],
               IF c.buttons[b] = "none" THEN CurrentRoute(c) ELSE c.buttons[b],
               b, FALSE)

(* Mutant: a release is passed on by where the pointer is. *)
PassesAtPointer(c, route) == CurrentRoute(c) = "local"

(* Whether the OS here sees a key or button event with this route. *)
Passes(c, route) == (IF route = "none" THEN CurrentRoute(c) ELSE route) = "local"

-----------------------------------------------------------------------------

(***************************************************************************)
(* What peers do.                                                          *)
(***************************************************************************)

PeerYield(c, p) ==
    DropRoutes(IF c.peer = p THEN [c EXCEPT !.idle = TRUE, !.push = NoPush] ELSE c, p)

PeerLost(c, p) ==
    [DropRoutes(IF c.peer = p THEN ExitToLocal(c, FALSE) ELSE c, p)
       EXCEPT !.watcher = IF @ = p THEN NoMachine ELSE @,
              !.pointer[p] = -1]

(* Mutant: an Enter that gives this machine its pointer back unseen. *)
EnteredSilently(c, p, seq) ==
    LET d == [c EXCEPT !.watcher = IF @ = p THEN NoMachine ELSE @]
    IN IF c.peer = p THEN ToLocal(d) ELSE d

(* Mutant: an Enter that does not give this machine its pointer back. *)
EnteredKeepsParked(c, p, seq) ==
    [c EXCEPT !.watcher = IF @ = p THEN NoMachine ELSE @]

PeerEntered(c, p, seq) ==
    LET d == [c EXCEPT !.watcher = IF @ = p THEN NoMachine ELSE @,
                       !.pointer[p] = IF @ = -1 \/ Newer(seq, @) THEN seq ELSE @]
    IN IF c.peer = p THEN Unpark([ToLocal(d) EXCEPT !.push = NoPush]) ELSE d

YieldedTo(c, p) == [c EXCEPT !.watcher = p]

(* A report of where the peer's own mouse has its pointer. *)
PeerPointer(c, p, seq, pos) ==
    LET d == [c EXCEPT !.pointer[p] = seq]
    IN IF c.pointer[p] # -1 /\ ~Newer(seq, c.pointer[p]) THEN c
       ELSE IF p \notin c.layout THEN d
       ELSE IF c.peer = p /\ c.idle THEN [d EXCEPT !.cursor = pos]
       ELSE IF IsLocal(c)
       THEN Capture([d EXCEPT !.push = NoPush, !.peer = p, !.cursor = pos,
                              !.home = c.last, !.idle = TRUE])
       ELSE d

(* A peer comes onto the desk, or goes. *)
SetLayout(c, peers) ==
    LET d == [c EXCEPT !.layout = peers, !.push = NoPush]
    IN IF c.peer \in Machine \ peers THEN DropRoutes(ExitToLocal(d, TRUE), c.peer)
       ELSE d
=============================================================================
