------------------------------ MODULE Sessions ------------------------------
(***************************************************************************)
(* Sessions between two paired machines (legato-net/src/session.rs, and    *)
(* pairing and forgetting as far as they start and end sessions).          *)
(*                                                                         *)
(* The machine with the smaller id, Dialer, has a dial loop per paired     *)
(* peer; the other accepts.  Both exchange a hello with their screens and  *)
(* put the session in their hub; what happens on it then goes to the run   *)
(* loop as events.  A task per connection and end does that, and several   *)
(* tasks may be at it at once: the hub's lock is held only to enter or     *)
(* take out a session, and the run loop is told after it is let go.        *)
(*                                                                         *)
(* Times are left out: a loop sleeps for some while, an unanswered         *)
(* handshake counts as a broken connection.  Other messages than Screens,  *)
(* datagrams and bulk streams change nothing here.                         *)
(***************************************************************************)
EXTENDS Naturals, Sequences, FiniteSets

CONSTANTS
    Dialer, Acceptor,   \* the two machines
    None,               \* no connection, no screens
    Conns,              \* names for connections, used again once forgotten
    Loops,              \* names for dial loops, likewise
    Screens,            \* what a machine's displays may be
    MaxPairings,        \* bound: times each machine saves the pairing
    MaxUpdates,         \* bound: changes of displays
    MaxFailures         \* bound: stops, unpairings and broken connections

Machines == {Dialer, Acceptor}

ASSUME SessionsAssumption ==
    /\ Dialer # Acceptor
    /\ None \notin Conns \cup Screens
    /\ Screens # {}
    /\ {MaxPairings, MaxUpdates, MaxFailures} \subseteq Nat

VARIABLES
    paired,     \* [Machines -> BOOLEAN] the other is on its allow-list, and saved
    hub,        \* [Machines -> whether sharing runs, screens announced, active session]
    loop,       \* [Loops -> what a dial loop does, on which connection]
    end,        \* [Machines -> [Conns -> the task that handles the connection]]
    up,         \* connections neither closed nor broken
    wire,       \* [Machines -> [Conns -> screens on the control stream to it]]
    told,       \* [Machines -> the session its run loop was last told of]
    left        \* how often what is bounded may still happen

vars == <<paired, hub, loop, end, up, wire, told, left>>

Other(m) == IF m = Dialer THEN Acceptor ELSE Dialer

-----------------------------------------------------------------------------
(* The task of one end: "accepted" until it took its hello, "hello" until  *)
(* the other's came, "ready" to enter the hub, "added" there, "run" once   *)
(* the run loop knows, "removed" until it is told of the end.  heard: the  *)
(* run loop it was started for still listens.                              *)

Stages == {"free", "accepted", "hello", "ready", "added", "run", "removed"}

Task == [pc : Stages, announced : Screens \cup {None},
         remote : Screens \cup {None}, heard : BOOLEAN]

NoTask == [pc |-> "free", announced |-> None, remote |-> None, heard |-> FALSE]

Unused == {c \in Conns : \A m \in Machines :
              end[m][c] = NoTask /\ hub[m].active # c /\ told[m] # c}

NoLoop == [pc |-> "off", conn |-> None]

(* Mutant: a loop ends when its session does. *)
SleptForGood(f, c) ==
    [l \in Loops |-> IF f[l].conn = c /\ f[l].pc = "dial" THEN NoLoop ELSE f[l]]

(* A loop that has had its attempt sleeps before the next. *)
Slept(f, c) ==
    [l \in Loops |-> IF f[l].conn = c /\ f[l].pc = "dial"
                     THEN [pc |-> "sleep", conn |-> None] ELSE f[l]]

(* tokio::spawn(dial_loop(..)) on the machine with the smaller id. *)
Spawn(m) ==
    LET Free == {l \in Loops : loop[l] = NoLoop} IN
    IF m = Dialer
    THEN /\ Free # {}
         /\ loop' = [loop EXCEPT ![CHOOSE l \in Free : TRUE].pc = "check"]
    ELSE UNCHANGED loop

(* The task on m for c is over, and with it m's use of the connection. *)
Over(m, c) ==
    /\ end' = [end EXCEPT ![m][c] = NoTask]
    /\ loop' = IF m = Dialer THEN Slept(loop, c) ELSE loop
    /\ wire' = [wire EXCEPT ![m][c] = <<>>]

Spend(what) == left[what] > 0 /\ left' = [left EXCEPT ![what] = @ - 1]

-----------------------------------------------------------------------------

Init ==
    /\ paired = [m \in Machines |-> FALSE]
    /\ hub = [m \in Machines |-> [on |-> FALSE, screens |-> None, active |-> None]]
    /\ loop = [l \in Loops |-> NoLoop]
    /\ end = [m \in Machines |-> [c \in Conns |-> NoTask]]
    /\ up = {}
    /\ wire = [m \in Machines |-> [c \in Conns |-> <<>>]]
    /\ told = [m \in Machines |-> None]
    /\ left = [what \in Machines \cup {"update", "failure"} |->
                 CASE what = "update"  -> MaxUpdates
                   [] what = "failure" -> MaxFailures
                   [] OTHER            -> MaxPairings]

(* add_paired: the machine saves the other and dials it, if it shares.  The *)
(* saving and the dialling are one step here.                               *)
AddPaired(m) ==
    /\ Spend(m)
    /\ paired' = [paired EXCEPT ![m] = TRUE]
    /\ IF hub[m].on THEN Spawn(m) ELSE UNCHANGED loop
    /\ UNCHANGED <<hub, end, up, wire, told>>

(* Net::unpair: forgets the other and closes the session with it. *)
Unpair(m) ==
    /\ paired[m]
    /\ Spend("failure")
    /\ paired' = [paired EXCEPT ![m] = FALSE]
    /\ up' = up \ {hub[m].active}
    /\ UNCHANGED <<hub, loop, end, wire, told>>

(* session::start: sharing begins, with the displays there are now. *)
Start(m, s) ==
    /\ ~hub[m].on
    /\ hub' = [hub EXCEPT ![m] = [on |-> TRUE, screens |-> s, active |-> None]]
    /\ IF paired[m] THEN Spawn(m) ELSE UNCHANGED loop
    /\ UNCHANGED <<paired, end, up, wire, told, left>>

(* Connections that end with their task when the dial loops are aborted. *)
Aborted(m) == IF m = Dialer THEN {c \in Conns : end[m][c].pc # "free"} ELSE {}

Unheard(m) == [c \in Conns |-> IF c \in Aborted(m) THEN NoTask
                               ELSE [end[m][c] EXCEPT !.heard = FALSE]]

(* Mutant: the dial loops are not aborted with the hub. *)
StopLeavesDialers(m) ==
    /\ hub[m].on
    /\ Spend("failure")
    /\ hub' = [hub EXCEPT ![m] = [@ EXCEPT !.on = FALSE, !.active = None]]
    /\ up' = up \ {hub[m].active}
    /\ end' = [end EXCEPT ![m] = [c \in Conns |-> [@[c] EXCEPT !.heard = FALSE]]]
    /\ told' = [told EXCEPT ![m] = None]
    /\ UNCHANGED <<paired, loop, wire>>

(* stop_sessions, as the run loop ends: the session closes, dial loops are *)
(* aborted with what they do, and what other tasks tell is not heard.      *)
Stop(m) ==
    /\ hub[m].on
    /\ Spend("failure")
    /\ hub' = [hub EXCEPT ![m] = [@ EXCEPT !.on = FALSE, !.active = None]]
    /\ up' = up \ ({hub[m].active} \cup Aborted(m))
    /\ end' = [end EXCEPT ![m] = Unheard(m)]
    /\ loop' = IF m = Dialer THEN [l \in Loops |-> NoLoop] ELSE loop
    /\ told' = [told EXCEPT ![m] = None]
    /\ UNCHANGED <<paired, wire>>

(* Hub::update_screens: later hellos have them, an active session is told. *)
Update(m, s) ==
    /\ hub[m].on /\ s # hub[m].screens
    /\ Spend("update")
    /\ hub' = [hub EXCEPT ![m].screens = s]
    /\ wire' = IF hub[m].active = None THEN wire
               ELSE [wire EXCEPT ![Other(m)][hub[m].active] = Append(@, s)]
    /\ UNCHANGED <<paired, loop, end, up, told>>

Break(c) ==
    /\ c \in up
    /\ Spend("failure")
    /\ up' = up \ {c}
    /\ UNCHANGED <<paired, hub, loop, end, wire, told>>

-----------------------------------------------------------------------------
(* Dialling *)

Check(l) ==
    /\ loop[l].pc = "check" /\ ~paired[Dialer]
    /\ loop' = [loop EXCEPT ![l] = NoLoop]
    /\ UNCHANGED <<paired, hub, end, up, wire, told, left>>

(* The connection stands, neither side's hook refused it, and the dialer   *)
(* has sent its hello.                                                     *)
Connect(l) ==
    LET c == CHOOSE x \in Unused : TRUE IN
    /\ loop[l].pc = "check" /\ Unused # {}
    /\ paired[Dialer] /\ paired[Acceptor]
    /\ loop' = [loop EXCEPT ![l] = [pc |-> "dial", conn |-> c]]
    /\ up' = up \cup {c}
    /\ end' = [end EXCEPT
         ![Dialer][c]   = [NoTask EXCEPT !.pc = "hello", !.announced = hub[Dialer].screens],
         ![Acceptor][c] = [NoTask EXCEPT !.pc = "accepted"]]
    /\ wire' = [m \in Machines |-> [wire[m] EXCEPT ![c] =
                  IF m = Acceptor THEN <<hub[Dialer].screens>> ELSE <<>>]]
    /\ UNCHANGED <<paired, hub, told, left>>

(* Refused by the acceptor, which is not paired. *)
Refused(l) ==
    /\ loop[l].pc = "check" /\ paired[Dialer] /\ ~paired[Acceptor]
    /\ loop' = [loop EXCEPT ![l].pc = "sleep"]
    /\ UNCHANGED <<paired, hub, end, up, wire, told, left>>

Wake(l) ==
    /\ loop[l].pc = "sleep"
    /\ loop' = [loop EXCEPT ![l].pc = "check"]
    /\ UNCHANGED <<paired, hub, end, up, wire, told, left>>

-----------------------------------------------------------------------------
(* A connection's tasks *)

(* Handler::accept takes its hello, or closes while sharing is stopped. *)
Accept(c) ==
    /\ end[Acceptor][c].pc = "accepted"
    /\ IF hub[Acceptor].on
       THEN /\ end' = [end EXCEPT ![Acceptor][c].pc = "hello",
                                  ![Acceptor][c].announced = hub[Acceptor].screens]
            /\ UNCHANGED up
       ELSE /\ end' = [end EXCEPT ![Acceptor][c] = NoTask]
            /\ up' = up \ {c}
    /\ UNCHANGED <<paired, hub, loop, wire, told, left>>

(* read_hello; the acceptor answers with its own. *)
ReadHello(m, c) ==
    /\ end[m][c].pc = "hello" /\ wire[m][c] # <<>>
    /\ end' = [end EXCEPT ![m][c].pc = "ready", ![m][c].remote = Head(wire[m][c])]
    /\ wire' = [wire EXCEPT ![m][c] = Tail(@),
                            ![Other(m)][c] = IF m = Acceptor
                                             THEN Append(@, end[m][c].announced) ELSE @]
    /\ UNCHANGED <<paired, hub, loop, up, told, left>>

(* The connection is gone before the hello came. *)
NoHello(m, c) ==
    /\ end[m][c].pc = "hello" /\ c \notin up
    /\ Over(m, c)
    /\ UNCHANGED <<paired, hub, up, told, left>>

(* Mutant: displays changed during the handshake are not announced. *)
RegisterAsAnnounced(m, c) ==
    /\ end[m][c].pc = "ready" /\ hub[m].on
    /\ hub' = [hub EXCEPT ![m].active = c]
    /\ up' = up \ ({hub[m].active} \ {c})
    /\ end' = [end EXCEPT ![m][c].pc = "added", ![m][c].heard = TRUE]
    /\ UNCHANGED <<paired, loop, wire, told, left>>

(* run: the session enters the hub and replaces the one that was there.    *)
(* Displays that changed since the hello are announced again.              *)
Register(m, c) ==
    /\ end[m][c].pc = "ready" /\ hub[m].on
    /\ hub' = [hub EXCEPT ![m].active = c]
    /\ up' = up \ ({hub[m].active} \ {c})
    /\ wire' = [wire EXCEPT ![Other(m)][c] =
                  IF hub[m].screens = end[m][c].announced THEN @
                  ELSE Append(@, hub[m].screens)]
    /\ end' = [end EXCEPT ![m][c].pc = "added", ![m][c].heard = TRUE]
    /\ UNCHANGED <<paired, loop, told, left>>

(* Sharing stopped during the handshake. *)
TooLate(m, c) ==
    /\ end[m][c].pc = "ready" /\ ~hub[m].on
    /\ Over(m, c)
    /\ up' = up \ {c}
    /\ UNCHANGED <<paired, hub, told, left>>

(* SessionEvent::Connected, after the hub's lock is let go. *)
TellConnected(m, c) ==
    /\ end[m][c].pc = "added"
    /\ end' = [end EXCEPT ![m][c].pc = "run"]
    /\ told' = IF end[m][c].heard THEN [told EXCEPT ![m] = c] ELSE told
    /\ UNCHANGED <<paired, hub, loop, up, wire, left>>

(* A Control::Screens that the session's reader passes on. *)
Read(m, c) ==
    /\ end[m][c].pc = "run" /\ wire[m][c] # <<>>
    /\ end' = [end EXCEPT ![m][c].remote = Head(wire[m][c])]
    /\ wire' = [wire EXCEPT ![m][c] = Tail(@)]
    /\ UNCHANGED <<paired, hub, loop, up, told, left>>

(* Mutant: the end of a session is never told. *)
FinishQuietly(m, c) ==
    /\ end[m][c].pc = "run" /\ c \notin up
    /\ Over(m, c)
    /\ hub' = IF hub[m].active = c THEN [hub EXCEPT ![m].active = None] ELSE hub
    /\ UNCHANGED <<paired, up, told, left>>

(* The connection ended: only the active session leaves the hub and tells. *)
Finish(m, c) ==
    /\ end[m][c].pc = "run" /\ c \notin up
    /\ IF hub[m].active = c
       THEN /\ hub' = [hub EXCEPT ![m].active = None]
            /\ end' = [end EXCEPT ![m][c].pc = "removed"]
            /\ UNCHANGED <<loop, wire>>
       ELSE /\ Over(m, c)
            /\ UNCHANGED hub
    /\ UNCHANGED <<paired, up, told, left>>

(* SessionEvent::Disconnected: it names the peer, not the session. *)
TellDisconnected(m, c) ==
    /\ end[m][c].pc = "removed"
    /\ Over(m, c)
    /\ told' = IF end[m][c].heard THEN [told EXCEPT ![m] = None] ELSE told
    /\ UNCHANGED <<paired, hub, up, left>>

-----------------------------------------------------------------------------

LoopStep(l) == Check(l) \/ Refused(l) \/ Wake(l) \/ Connect(l)

TaskStep(m, c) ==
    \/ m = Acceptor /\ Accept(c)
    \/ ReadHello(m, c) \/ NoHello(m, c) \/ Register(m, c) \/ TooLate(m, c)
    \/ TellConnected(m, c) \/ Read(m, c) \/ Finish(m, c) \/ TellDisconnected(m, c)

UserStep(m) ==
    \/ AddPaired(m) \/ Unpair(m) \/ Stop(m)
    \/ \E s \in Screens : Start(m, s) \/ Update(m, s)

Next ==
    \/ \E l \in Loops : LoopStep(l)
    \/ \E m \in Machines, c \in Conns : TaskStep(m, c)
    \/ \E m \in Machines : UserStep(m)
    \/ \E c \in Conns : Break(c)

Spec == Init /\ [][Next]_vars

(* Loops and tasks run on; users and the network owe nothing. *)
FairSpec ==
    /\ Spec
    /\ \A l \in Loops : WF_vars(LoopStep(l))
    /\ \A m \in Machines, c \in Conns : WF_vars(TaskStep(m, c))

-----------------------------------------------------------------------------
(* Properties *)

HubType == [on : BOOLEAN, screens : Screens \cup {None}, active : Conns \cup {None}]

LoopType == [pc : {"off", "check", "dial", "sleep"}, conn : Conns \cup {None}]

(* Types; a machine that shares has screens to announce, one that does not *)
(* share has no session in its hub, and a dial loop has a connection while *)
(* it dials, and only then.                                                *)
TypeOK ==
    /\ paired \in [Machines -> BOOLEAN]
    /\ hub \in [Machines -> HubType]
    /\ \A m \in Machines : IF hub[m].on THEN hub[m].screens \in Screens
                                         ELSE hub[m].active = None
    /\ loop \in [Loops -> LoopType]
    /\ \A l \in Loops : loop[l].pc = "dial" <=> loop[l].conn # None
    /\ end \in [Machines -> [Conns -> Task]]
    /\ up \subseteq Conns
    /\ wire \in [Machines -> [Conns -> Seq(Screens)]]
    /\ told \in [Machines -> Conns \cup {None}]

Busy(m, c) == end[m][c].pc # "free"

(* session.rs, its first lines: "Exactly one connection per pair of        *)
(* machines".  The machine that dials is never at two at once, whatever it *)
(* accepts, stops, starts, or loses.                                       *)
OneConnection == Cardinality({c \in Conns : Busy(Dialer, c)}) <= 1

(* The hub's table is what runs: the session in it has a task that reads   *)
(* it, and a task whose session is not in it, replaced or from before      *)
(* sharing stopped, has lost its connection and will end.                  *)
TableIsWhatRuns ==
    \A m \in Machines :
      /\ hub[m].active # None => end[m][hub[m].active].pc \in {"added", "run"}
      /\ \A c \in Conns \ {hub[m].active} :
           end[m][c].pc \in {"added", "run", "removed"} => c \notin up

(* Displays that change at any moment of a handshake or session reach the  *)
(* other machine: once nothing is on its way over a session both have in   *)
(* their hubs, each knows the screens the other has.                       *)
ScreensArrive ==
    \A c \in Conns :
      (\A m \in Machines : hub[m].active = c) =>
        \A m \in Machines : wire[m][c] = <<>> =>
                               end[m][c].remote = hub[Other(m)].screens

(* What the run loop of the machine that dials was told is what its hub    *)
(* holds, whenever no task is between the hub and the telling.  (Not so    *)
(* where sessions are accepted: two tasks there may tell in either order.) *)
DialerToldRight ==
    (\A c \in Conns : end[Dialer][c].pc \notin {"added", "removed"}) =>
        told[Dialer] = hub[Dialer].active

(* Net::unpair: "Forgets a paired peer and drops any session with it."     *)
ForgottenIsDropped ==
    \A m \in Machines : ~paired[m] => hub[m].active \notin up

InTouch ==
    \E c \in up : \A m \in Machines : hub[m].active = c /\ end[m][c].pc = "run"

Willing == \A m \in Machines : paired[m] /\ hub[m].on

(* However often sessions broke, were replaced, refused or stopped before, *)
(* two paired machines that both share come to have one session, the same  *)
(* on both sides, and keep it.                                             *)
EventuallyInTouch == <>[]Willing => <>[]InTouch

=============================================================================
