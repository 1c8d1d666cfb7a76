------------------------------ MODULE Handover ------------------------------
(***************************************************************************)
(* Connected machines that hand one pointer to each other: every machine   *)
(* runs a Controller on its capture thread, a Receiver on its injection    *)
(* thread, and the run loop between them and the network                   *)
(* (legato-engine/src/run.rs).                                             *)
(*                                                                         *)
(*   user --> capture thread --> control stream ----> run loop of the peer *)
(*                          \--> datagrams (lossy) --^        |            *)
(*   user --> capture thread --> injection thread <-----------+            *)
(*                   ^------------------------------- ---------+           *)
(*                                                                         *)
(* The run loop only forwards: what it hears goes to the capture thread's  *)
(* queue, the injection thread's, or both, and each thread drains its own  *)
(* queue at its own pace.  A user acts at any moment.                      *)
(*                                                                         *)
(* Left out: the key-repeat timer, stopping and starting (InjectLoop), a   *)
(* held key's repeated downs (the controller takes them for the one press) *)
(* and scrolling (like a press nobody holds), the peers' Placement and     *)
(* Screens messages, which only repeat SetLayout, and the exception that a *)
(* Windows machine, released, leaves its pointer where a peer just put it. *)
(***************************************************************************)
EXTENDS Controller

CONSTANTS
    Id,             \* [Machine -> its id]; the smaller of two dials
    RepeatKey, NoKey,
    Deliberate,     \* motion that counts as deliberate (ActivityFilter)
    MaxInputs,      \* bound: what the users do
    MaxDatagrams,   \* bound: datagrams in flight to a machine; more are lost
    MaxFaults       \* bound: connections that fail, machines that are killed

R == INSTANCE Receiver
       WITH Peer <- Machine, NoPeer <- NoMachine, Pos <- Place, Origin <- 1,
            MaxClicks <- 2

ASSUME HandoverAssumption ==
    /\ Id \in [Machine -> Nat]
    /\ \A a, b \in Machine : Id[a] = Id[b] => a = b
    /\ RepeatKey \subseteq Key
    /\ NoKey \notin Key
    /\ Key \intersect Button = {}
    /\ Deliberate \in Nat \ {0}
    /\ {MaxInputs, MaxDatagrams, MaxFaults} \subseteq Nat

VARIABLES
    ctl,        \* [Machine -> controller]
    pinned,     \* [Machine -> BOOLEAN] the OS pointer is held and hidden
    rcv,        \* [Machine -> receiver]
    held,       \* [Machine -> keys and buttons the user holds]
    seen,       \* [Machine -> those whose press this machine's OS saw]
    moved,      \* [Machine -> recent motion the ActivityFilter counted]
    up,         \* connected pairs {a, b}
    active,     \* [Machine -> peers its network task runs a session with]
    sessions,   \* [Machine -> peers in its run loop's session table]
    net,        \* [<<from, to>> -> what to's run loop has yet to hear from from]
    dgrams,     \* [Machine -> datagrams on their way there, [from, msg]]
    capq,       \* [Machine -> the capture thread's queue]
    injq,       \* [Machine -> the injection thread's queue]
    yielded,    \* [Machine -> peers yielded to, for the run loop to hear]
    inputs, faults

user == <<held, seen, moved, inputs>>
links == <<up, active, sessions, faults>>
vars == <<ctl, pinned, rcv, user, links, net, dgrams, capq, injq, yielded>>

Item == Key \union Button
Pair == {p \in Machine \X Machine : p[1] # p[2]}

-----------------------------------------------------------------------------

(***************************************************************************)
(* What the capture backend does with the actions of controller c of m:    *)
(* messages to the peers with a session, the OS pointer pinned and         *)
(* released.  What goes to a peer without one, or by one whose connection  *)
(* has ended or been replaced, is lost.                                    *)
(***************************************************************************)
NoneComing(m, p) ==
    \A i \in DOMAIN net[<<p, m>>] : net[<<p, m>>][i].type # "Connected"

Reaches(m, p) == p \in sessions[m] /\ {m, p} \in up /\ NoneComing(m, p)

DatagramsTo(out, m, p) ==
    { [from |-> m, type |-> d.type, seq |-> d.seq, pos |-> d.pos] :
        d \in {x \in out.datagrams : x.to = p} }

IsPinned(before, out) == IF out.os = "keep" THEN before ELSE out.os = "capture"

(* Pinned, the OS pointer waits in the middle of the screens; released, it  *)
(* is where the controller warps it; unparked, where the peer put it.       *)
PointerAfter(before, out) ==
    CASE out.os = "capture" -> (Width + 1) \div 2
      [] out.os = "release" -> out.warp
      [] OTHER              -> before

Perform(m, c) ==
    /\ ctl' = [ctl EXCEPT ![m] = [c EXCEPT !.out = Nothing]]
    /\ pinned' = [pinned EXCEPT ![m] = IsPinned(@, c.out)]
    /\ net' = [p \in Pair |-> IF p[1] = m /\ Reaches(m, p[2])
                              THEN net[p] \o c.out.sent[p[2]] ELSE net[p]]
    /\ dgrams' = [p \in Machine |->
                    LET more == dgrams[p] \union DatagramsTo(c.out, m, p)
                    IN IF Reaches(m, p) /\ Cardinality(more) <= MaxDatagrams
                       THEN more ELSE dgrams[p]]

(* The OS pointer of m is at pos, then where the controller warps it. *)
PerformAt(m, c, pos) ==
    /\ Perform(m, c)
    /\ rcv' = [rcv EXCEPT ![m].osPos = PointerAfter(pos, c.out)]

-----------------------------------------------------------------------------

(***************************************************************************)
(* The user of m acts.  Input the controller does not hold captive is      *)
(* noticed as this machine's own, before the controller handles it.        *)
(***************************************************************************)
Act == inputs < MaxInputs /\ inputs' = inputs + 1

(* Left out of the queue where handling it can only change nothing. *)
Idempotent(m) ==
    IF injq[m] = <<>> THEN ~rcv[m].entered
    ELSE injq[m][Len(injq[m])].type = "LocalActivity"

Notice(m, deliberate) ==
    injq' = IF deliberate /\ ~pinned[m] /\ ~Idempotent(m)
            THEN [injq EXCEPT ![m] = Append(@, [type |-> "LocalActivity"])]
            ELSE injq

(* Motion on this machine's screens; paused: the filter starts over. *)
UserMoves(m, dir, paused, expired, recent) ==
    LET far == 1 + IF paused THEN 0 ELSE moved[m]
        pos == Clamp(Step(rcv[m].osPos, dir))
    IN /\ Act
       /\ ~pinned[m]
       /\ Notice(m, far >= Deliberate)
       /\ moved' = [moved EXCEPT ![m] = IF far >= Deliberate THEN 0 ELSE far]
       /\ IF IsLocal(ctl[m])
          THEN PerformAt(m, LocalMotion(ctl[m], pos, dir, expired, recent), pos)
          ELSE PerformAt(m, ctl[m], rcv[m].osPos)
       /\ UNCHANGED <<held, seen, links, capq, yielded>>

(* Motion while the pointer is pinned: it moves the peer's. *)
UserMovesPinned(m, dir, expired) ==
    /\ Act
    /\ pinned[m]
    /\ PerformAt(m, CapturedMotion(ctl[m], dir, expired), rcv[m].osPos)
    /\ UNCHANGED <<held, seen, moved, links, capq, injq, yielded>>

UserPresses(m, i) ==
    LET c == IF i \in Key THEN PressKey(ctl[m], i) ELSE PressButton(ctl[m], i)
        route == IF i \in Key THEN c.keys[i] ELSE c.buttons[i]
    IN /\ Act
       /\ i \notin held[m]
       /\ held' = [held EXCEPT ![m] = @ \union {i}]
       /\ seen' = [seen EXCEPT ![m] = IF route = "local" THEN @ \union {i} ELSE @]
       /\ Notice(m, TRUE)
       /\ moved' = IF pinned[m] THEN moved ELSE [moved EXCEPT ![m] = 0]
       /\ PerformAt(m, c, rcv[m].osPos)
       /\ UNCHANGED <<links, capq, yielded>>

UserReleases(m, i) ==
    LET c == IF i \in Key THEN ReleaseKey(ctl[m], i) ELSE ReleaseButton(ctl[m], i)
        route == IF i \in Key THEN ctl[m].keys[i] ELSE ctl[m].buttons[i]
    IN /\ Act
       /\ i \in held[m]
       /\ held' = [held EXCEPT ![m] = @ \ {i}]
       /\ seen' = [seen EXCEPT ![m] = IF Passes(ctl[m], route) THEN @ \ {i} ELSE @]
       /\ Notice(m, TRUE)
       /\ moved' = IF pinned[m] THEN moved ELSE [moved EXCEPT ![m] = 0]
       /\ PerformAt(m, c, rcv[m].osPos)
       /\ UNCHANGED <<links, capq, yielded>>

(* A report held back is due. *)
ReportDue(m) ==
    /\ ctl[m].waiting # NoReport
    /\ Perform(m, SendWaitingReport(ctl[m]))
    /\ UNCHANGED <<rcv, user, links, capq, injq, yielded>>

-----------------------------------------------------------------------------

(***************************************************************************)
(* The run loop of m hears from p: queues for the threads, the session     *)
(* table, and the layout of the desk that follows from it.                 *)
(***************************************************************************)
Queue(q, m, events) == q' = [q EXCEPT ![m] = @ \o events]

Relayout(peers) == [type |-> "SetLayout", peers |-> peers]

From(p, msg) == [type |-> "Control", from |-> p, msg |-> msg]

Hears(p, m, type) ==
    /\ net[<<p, m>>] # <<>>
    /\ Head(net[<<p, m>>]).type = type
    /\ net' = [net EXCEPT ![<<p, m>>] = Tail(@)]
    /\ UNCHANGED <<ctl, pinned, rcv, user, up, active, faults, dgrams, yielded>>

OnConnected(m, p) ==
    /\ Hears(p, m, "Connected")
    /\ sessions' = [sessions EXCEPT ![m] = @ \union {p}]
    /\ Queue(capq, m, <<Relayout(sessions'[m])>>)
    /\ UNCHANGED injq

(* Mutant: the desk keeps a machine whose connection is gone. *)
DisconnectedKeepsDesk(m, p) ==
    /\ Hears(p, m, "Disconnected")
    /\ sessions' = [sessions EXCEPT ![m] = @ \ {p}]
    /\ Queue(capq, m, << [type |-> "PeerLost", peer |-> p] >>)
    /\ Queue(injq, m, << [type |-> "Disconnected", peer |-> p] >>)

(* Mutant: the capture thread is not told of the loss. *)
DisconnectedSilently(m, p) ==
    /\ Hears(p, m, "Disconnected")
    /\ sessions' = [sessions EXCEPT ![m] = @ \ {p}]
    /\ Queue(injq, m, << [type |-> "Disconnected", peer |-> p] >>)
    /\ UNCHANGED capq

(* Mutant: the injection thread is not told of the loss. *)
DisconnectedKeepsDriver(m, p) ==
    /\ Hears(p, m, "Disconnected")
    /\ sessions' = [sessions EXCEPT ![m] = @ \ {p}]
    /\ Queue(capq, m, << [type |-> "PeerLost", peer |-> p], Relayout(sessions'[m]) >>)
    /\ UNCHANGED injq

OnDisconnected(m, p) ==
    /\ Hears(p, m, "Disconnected")
    /\ sessions' = [sessions EXCEPT ![m] = @ \ {p}]
    /\ Queue(capq, m, << [type |-> "PeerLost", peer |-> p], Relayout(sessions'[m]) >>)
    /\ Queue(injq, m, << [type |-> "Disconnected", peer |-> p] >>)

OnEnter(m, p) ==
    /\ Hears(p, m, "Enter")
    /\ LET msg == Head(net[<<p, m>>])
       IN /\ Queue(capq, m, << [type |-> "PeerEntered", peer |-> p, seq |-> msg.seq] >>)
          /\ Queue(injq, m, << From(p, msg) >>)
    /\ UNCHANGED sessions

OnYield(m, p) ==
    /\ Hears(p, m, "Yield")
    /\ Queue(capq, m, << [type |-> "PeerYield", peer |-> p] >>)
    /\ UNCHANGED <<sessions, injq>>

OnInput(m, p) ==
    /\ \E type \in {"Leave", "Key", "Button"} : Hears(p, m, type)
    /\ Queue(injq, m, << From(p, Head(net[<<p, m>>])) >>)
    /\ UNCHANGED <<sessions, capq>>

OnDatagram(m, d) ==
    /\ d \in dgrams[m]
    /\ NoneComing(m, d.from)
    /\ dgrams' = [dgrams EXCEPT ![m] = @ \ {d}]
    /\ IF d.type = "Pointer"
       THEN Queue(capq, m, <<d>>) /\ UNCHANGED injq
       ELSE Queue(injq, m, <<d>>) /\ UNCHANGED capq
    /\ UNCHANGED <<ctl, pinned, rcv, user, links, net, yielded>>

(* The injection thread took m back from a peer. *)
OnYielded(m) ==
    /\ yielded[m] # <<>>
    /\ yielded' = [yielded EXCEPT ![m] = Tail(@)]
    /\ Queue(capq, m, << [type |-> "YieldedTo", peer |-> Head(yielded[m])] >>)
    /\ UNCHANGED <<ctl, pinned, rcv, user, links, net, dgrams, injq>>

-----------------------------------------------------------------------------

(* The capture thread of m handles the next event of its queue. *)
Handled(c, e) ==
    CASE e.type = "PeerEntered" -> PeerEntered(c, e.peer, e.seq)
      [] e.type = "PeerYield"   -> PeerYield(c, e.peer)
      [] e.type = "PeerLost"    -> PeerLost(c, e.peer)
      [] e.type = "YieldedTo"   -> YieldedTo(c, e.peer)
      [] e.type = "SetLayout"   -> SetLayout(c, e.peers)
      [] e.type = "Pointer"     -> PeerPointer(c, e.from, e.seq, e.pos)

Capturing(m) ==
    /\ capq[m] # <<>>
    /\ capq' = [capq EXCEPT ![m] = Tail(@)]
    /\ PerformAt(m, Handled(ctl[m], Head(capq[m])), rcv[m].osPos)
    /\ UNCHANGED <<user, links, injq, yielded>>

(***************************************************************************)
(* The injection thread of m handles the next entry of its queue.          *)
(***************************************************************************)
Injects(m, type) ==
    /\ injq[m] # <<>>
    /\ Head(injq[m]).type = type
    /\ injq' = [injq EXCEPT ![m] = Tail(@)]
    /\ UNCHANGED <<ctl, pinned, user, links, dgrams, capq>>

InjectControl(m) ==
    /\ Injects(m, "Control")
    /\ LET e == Head(injq[m])
       IN rcv' = [rcv EXCEPT ![m] = R!SelectControl(@, e.from, e.msg, FALSE)]
    /\ UNCHANGED <<net, yielded>>

InjectMotion(m) ==
    /\ Injects(m, "Motion")
    /\ LET e == Head(injq[m])
       IN rcv' = [rcv EXCEPT ![m] = R!SelectMotion(@, e.from, e.seq, e.pos)]
    /\ UNCHANGED <<net, yielded>>

InjectDisconnected(m) ==
    /\ Injects(m, "Disconnected")
    /\ rcv' = [rcv EXCEPT ![m] = R!SelectDisconnected(@, Head(injq[m]).peer)]
    /\ UNCHANGED <<net, yielded>>

(* Local input ends the visit; the driver hears Yield, and the run loop of  *)
(* this machine whom it yielded to.                                         *)
InjectLocalActivity(m) ==
    LET d == rcv[m].driver
        yields == rcv[m].entered /\ d \in sessions[m]
    IN /\ Injects(m, "LocalActivity")
       /\ rcv' = IF rcv[m].entered THEN [rcv EXCEPT ![m] = R!StopDriving(@)] ELSE rcv
       /\ net' = IF yields /\ Reaches(m, d)
                 THEN [net EXCEPT ![<<m, d>>] = Append(@, YieldMsg)] ELSE net
       /\ yielded' = IF yields THEN [yielded EXCEPT ![m] = Append(@, d)] ELSE yielded

-----------------------------------------------------------------------------

(***************************************************************************)
(* Connections.  What had arrived before one fails is still heard, as are  *)
(* the news of connections, which do not cross the network; the rest, and  *)
(* the datagrams on their way, are lost.                                   *)
(***************************************************************************)
Link == {{p[1], p[2]} : p \in Pair}

News == {"Connected", "Disconnected"}

Cuts(q) == {i \in 0 .. Len(q) : \A j \in (i + 1) .. Len(q) : q[j].type \notin News}

Dials(a, b) == Id[a] < Id[b]

Without(a, b) ==
    [dgrams EXCEPT ![a] = {d \in @ : d.from # b}, ![b] = {d \in @ : d.from # a}]

LinkFails(a, b) ==
    /\ faults < MaxFaults
    /\ {a, b} \in up
    /\ faults' = faults + 1
    /\ up' = up \ {{a, b}}
    /\ \E i \in Cuts(net[<<a, b>>]), j \in Cuts(net[<<b, a>>]) :
          net' = [net EXCEPT ![<<a, b>>] = SubSeq(@, 1, i),
                             ![<<b, a>>] = SubSeq(@, 1, j)]
    /\ dgrams' = Without(a, b)
    /\ UNCHANGED <<ctl, pinned, rcv, user, active, sessions, capq, injq, yielded>>

(* Each end notices by itself, if only by hearing nothing for five seconds. *)
EndNoticed(m, p) ==
    /\ p \in active[m] /\ {m, p} \notin up
    /\ active' = [active EXCEPT ![m] = @ \ {p}]
    /\ net' = [net EXCEPT ![<<p, m>>] = Append(@, [type |-> "Disconnected"])]
    /\ UNCHANGED <<ctl, pinned, rcv, user, up, sessions, faults,
                   dgrams, capq, injq, yielded>>

(***************************************************************************)
(* a, which has noticed, dials again.  b may not have: then the new        *)
(* session replaces the old one there, of whose end nobody is told.        *)
(***************************************************************************)
Reconnect(a, b) ==
    /\ Dials(a, b)
    /\ {a, b} \notin up /\ b \notin active[a]
    /\ up' = up \union {{a, b}}
    /\ active' = [active EXCEPT ![a] = @ \union {b}, ![b] = @ \union {a}]
    /\ LET started == << [type |-> "Connected"] >>
       IN net' = [net EXCEPT ![<<a, b>>] = @ \o started, ![<<b, a>>] = @ \o started]
    /\ UNCHANGED <<ctl, pinned, rcv, user, sessions, faults,
                   dgrams, capq, injq, yielded>>

(***************************************************************************)
(* m is killed and started again.  Its connections end, which it knows and *)
(* its peers have yet to notice; what it had not got out yet is lost.  Its *)
(* OS keeps its pointer and what was injected.                             *)
(***************************************************************************)
Restart(m) ==
    LET peers == {p \in Machine : {m, p} \in up}
        os == rcv[m]
        lengths == UNION {Cuts(net[<<m, p>>]) : p \in peers}
    IN /\ faults < MaxFaults
       /\ faults' = faults + 1
       /\ ctl' = [ctl EXCEPT ![m] = NewController(m, os.osPos)]
       /\ rcv' = [rcv EXCEPT ![m] = R!NewReceiver(os.osKeys, os.osButtons, os.osPos)]
       /\ pinned' = [pinned EXCEPT ![m] = FALSE]
       /\ moved' = [moved EXCEPT ![m] = 0]
       /\ up' = {l \in up : m \notin l}
       /\ active' = [active EXCEPT ![m] = {}]
       /\ sessions' = [sessions EXCEPT ![m] = {}]
       /\ capq' = [capq EXCEPT ![m] = <<>>]
       /\ injq' = [injq EXCEPT ![m] = <<>>]
       /\ yielded' = [yielded EXCEPT ![m] = <<>>]
       /\ \E kept \in [peers -> lengths] :
             /\ \A p \in peers : kept[p] \in Cuts(net[<<m, p>>])
             /\ net' = [p \in Pair |->
                   IF p[2] = m THEN <<>>
                   ELSE IF p[1] = m /\ p[2] \in peers
                   THEN SubSeq(net[p], 1, kept[p[2]])
                   ELSE net[p]]
       /\ dgrams' = [x \in Machine |->
                       IF x = m THEN {} ELSE {d \in dgrams[x] : d.from # m}]
       /\ UNCHANGED <<held, seen, inputs>>

(* Every queue is empty, and every end of a connection has been noticed. *)
Settled ==
    /\ \A p \in Pair : net[p] = <<>>
    /\ \A m \in Machine : \A p \in active[m] : {m, p} \in up
    /\ \A m \in Machine : capq[m] = <<>> /\ injq[m] = <<>> /\ yielded[m] = <<>>

(* The users are done and everything has been heard. *)
Rest == Settled /\ inputs = MaxInputs /\ UNCHANGED vars

-----------------------------------------------------------------------------

(* All machines connected and on each other's desk, nobody driving. *)
Init ==
    /\ ctl = [m \in Machine |-> [NewController(m, 1) EXCEPT !.layout = Machine \ {m}]]
    /\ pinned = [m \in Machine |-> FALSE]
    /\ rcv = [m \in Machine |-> R!NewReceiver({}, {}, 1)]
    /\ held = [m \in Machine |-> {}]
    /\ seen = [m \in Machine |-> {}]
    /\ moved = [m \in Machine |-> 0]
    /\ up = Link
    /\ active = [m \in Machine |-> Machine \ {m}]
    /\ sessions = [m \in Machine |-> Machine \ {m}]
    /\ net = [p \in Pair |-> <<>>]
    /\ dgrams = [m \in Machine |-> {}]
    /\ capq = [m \in Machine |-> <<>>]
    /\ injq = [m \in Machine |-> <<>>]
    /\ yielded = [m \in Machine |-> <<>>]
    /\ inputs = 0 /\ faults = 0

UserStep(m) ==
    \/ \E dir \in Dir, paused, expired, recent \in BOOLEAN :
          UserMoves(m, dir, paused, expired, recent)
    \/ \E dir \in Dir, expired \in BOOLEAN : UserMovesPinned(m, dir, expired)
    \/ \E i \in Item : UserPresses(m, i) \/ UserReleases(m, i)

Hearing(m) ==
    \E p \in Machine \ {m} :
        \/ OnConnected(m, p) \/ OnDisconnected(m, p)
        \/ OnEnter(m, p) \/ OnYield(m, p) \/ OnInput(m, p)

RunLoop(m) ==
    \/ Hearing(m)
    \/ \E d \in dgrams[m] : OnDatagram(m, d)
    \/ OnYielded(m)

Injecting(m) ==
    \/ InjectControl(m) \/ InjectMotion(m)
    \/ InjectDisconnected(m) \/ InjectLocalActivity(m)

Connecting(a, b) == LinkFails(a, b) \/ EndNoticed(a, b) \/ Reconnect(a, b)

Next ==
    \/ \E m \in Machine :
          UserStep(m) \/ ReportDue(m) \/ RunLoop(m) \/ Capturing(m) \/ Injecting(m)
    \/ \E p \in Pair : Connecting(p[1], p[2])
    \/ \E m \in Machine : Restart(m)
    \/ Rest

Spec == Init /\ [][Next]_vars

(***************************************************************************)
(* The threads of a machine run on: each drains its queue, the run loop    *)
(* hears what has arrived, and a connection that ended times out.  Users,  *)
(* datagrams and new connections owe nothing.                              *)
(***************************************************************************)
TimingOut(m) == \E p \in Machine \ {m} : EndNoticed(m, p)

Fairness ==
    \A m \in Machine :
        /\ WF_vars(Hearing(m)) /\ WF_vars(Capturing(m)) /\ WF_vars(Injecting(m))
        /\ WF_vars(TimingOut(m))

FairSpec == Spec /\ Fairness

-----------------------------------------------------------------------------

Message == InputMsg \union [type : {"Yield", "Connected", "Disconnected"}]

DatagramType(types) == [from : Machine, type : types, seq : SeqNo, pos : Place]

CaptureEvent ==
    [type : {"PeerEntered"}, peer : Machine, seq : SeqNo]
      \union [type : {"PeerYield", "PeerLost", "YieldedTo"}, peer : Machine]
      \union [type : {"SetLayout"}, peers : SUBSET Machine]
      \union DatagramType({"Pointer"})

InjectEntry ==
    [type : {"LocalActivity"}]
      \union [type : {"Control"}, from : Machine, msg : Message]
      \union [type : {"Disconnected"}, peer : Machine]
      \union DatagramType({"Motion"})

(* The variables keep their types: the pointer stays on the screens. *)
TypeOK ==
    /\ ctl \in [Machine -> ControllerState]
    /\ pinned \in [Machine -> BOOLEAN]
    /\ rcv \in [Machine -> R!ReceiverState]
    /\ held \in [Machine -> SUBSET Item]
    /\ seen \in [Machine -> SUBSET Item]
    /\ moved \in [Machine -> 0 .. Deliberate - 1]
    /\ up \subseteq Link
    /\ active \in [Machine -> SUBSET Machine]
    /\ sessions \in [Machine -> SUBSET Machine]
    /\ net \in [Pair -> Seq(Message)]
    /\ dgrams \in [Machine -> SUBSET DatagramType({"Pointer", "Motion"})]
    /\ capq \in [Machine -> Seq(CaptureEvent)]
    /\ injq \in [Machine -> Seq(InjectEntry)]
    /\ yielded \in [Machine -> Seq(Machine)]
    /\ inputs \in 0 .. MaxInputs
    /\ faults \in 0 .. MaxFaults

Driving(m, p) == ctl[m].peer = p /\ ~ctl[m].idle

DrivenBy(p, m) == rcv[p].entered /\ rcv[p].driver = m

(***************************************************************************)
(* The OS pointer is pinned and hidden exactly while the pointer is on a   *)
(* peer: every way home releases it, so it is never left hidden here.      *)
(***************************************************************************)
PinnedWhileAway == \A m \in Machine : pinned[m] = ~IsLocal(ctl[m])

(***************************************************************************)
(* A key or button whose press this machine's OS saw comes up there too,   *)
(* wherever the pointer has gone in between.                               *)
(***************************************************************************)
LocalReleasesSeen == \A m \in Machine : seen[m] \subseteq held[m]

(***************************************************************************)
(* Once everything sent has been heard, no two machines drive each other,  *)
(* even if both users crossed the edge at the same moment.                 *)
(***************************************************************************)
NoMutualDriving ==
    Settled => \A m, p \in Machine : ~(Driving(m, p) /\ Driving(p, m))

(***************************************************************************)
(* Once everything sent has been heard, a machine that drives a peer does  *)
(* have it: its input is not sent into the void.                           *)
(***************************************************************************)
DriverDrives ==
    Settled => \A m, p \in Machine : Driving(m, p) => DrivenBy(p, m)

(***************************************************************************)
(* While the user holds a button the user's own input takes the pointer    *)
(* to no other machine (block_switch_while_button_held), whatever peers    *)
(* did to the button's route meanwhile.                                    *)
(***************************************************************************)
HeldButtonKeepsPointer ==
    [][ \A m \in Machine :
          BlockWhileHeld /\ held[m] \intersect Button # {} /\ inputs' # inputs
            => ctl'[m].peer = ctl[m].peer ]_vars

(***************************************************************************)
(* Once everything has been heard, no machine drives, or is driven by, a   *)
(* machine it has no connection with.                                      *)
(***************************************************************************)
LostPeerLetsGo ==
    Settled => \A p \in Pair :
        {p[1], p[2]} \notin up => ctl[p[1]].peer # p[2] /\ ~DrivenBy(p[1], p[2])

(***************************************************************************)
(* Once everything has been heard, session table and desk agree with the   *)
(* connections on both sides, also after one replaced another.             *)
(***************************************************************************)
DeskFollowsConnections ==
    Settled => \A m \in Machine :
        /\ sessions[m] = {p \in Machine \ {m} : {m, p} \in up}
        /\ ctl[m].layout = sessions[m]

(***************************************************************************)
(* A pointer on a peer whose connection fails does not stay there: the     *)
(* loss reaches the capture thread behind whatever else is queued.         *)
(***************************************************************************)
PointerComesHome ==
    \A p \in Pair :
        ctl[p[1]].peer = p[2] /\ {p[1], p[2]} \notin up
          ~> ctl[p[1]].peer # p[2] \/ {p[1], p[2]} \in up

(***************************************************************************)
(* What the documents say and the code does not keep.                      *)
(*                                                                         *)
(* "No keys are stuck on either side": a key or button injected somewhere  *)
(* is still held by the user who pressed it.                               *)
(***************************************************************************)
NoKeysStuck ==
    Settled => \A m \in Machine :
        rcv[m].osKeys \union rcv[m].osButtons \subseteq
            IF rcv[m].driver \in Machine THEN held[rcv[m].driver] ELSE {}

(***************************************************************************)
(* "There's one pointer: one machine has it": some machine shows it.       *)
(***************************************************************************)
PointerIsSomewhere == Settled => \E m \in Machine : IsLocal(ctl[m])
=============================================================================
