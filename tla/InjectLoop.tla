----------------------------- MODULE InjectLoop -----------------------------
(***************************************************************************)
(* The injection thread of one machine (inject_loop in                     *)
(* legato-engine/src/run.rs): it owns the receiver and handles, one at a   *)
(* time, the messages and datagrams of every peer, this machine's own      *)
(* input, lost connections and the order to stop, and runs the key-repeat  *)
(* timer after each.                                                       *)
(*                                                                         *)
(* The messages come from any connected peer in any order: what one peer   *)
(* sends in which order is the business of Handover.  A connection that    *)
(* ends leaves the session table at once (sessions), but the thread hears  *)
(* of it later, behind what is already queued (lost).                      *)
(***************************************************************************)
EXTENDS Receiver

VARIABLES
    rcv,        \* the receiver (and what it injected)
    running,    \* the thread runs; sharing can be stopped and started again
    sessions,   \* peers with a connection
    lost,       \* peers whose Disconnected is queued and not yet handled
    visit,      \* history: flips at every Enter that took effect
    presses,    \* history: presses since that Enter, up to MaxClicks
    pressedBy   \* history: whose message pressed what is injected down

vars == <<rcv, running, sessions, lost, visit, presses, pressedBy>>

Item == Key \union Button

Injected(r) == r.osKeys \union r.osButtons

ASSUME ItemAssumption == Key \intersect Button = {}

-----------------------------------------------------------------------------

Init ==
    /\ rcv = NewReceiver({}, {}, Origin)
    /\ running = TRUE
    /\ sessions = {}
    /\ lost = {}
    /\ visit = 0
    /\ presses = 0
    /\ pressedBy = [i \in Item |-> NoPeer]

(* Every pass of the loop ends in tick, which injects a repeat if one is due. *)
Loop(r) == rcv' \in {r, Tick(r)}

Record(p, r) ==
    pressedBy' = [i \in Item |-> IF i \in Injected(r) \ Injected(rcv) THEN p
                                 ELSE IF i \in Injected(r) THEN pressedBy[i]
                                 ELSE NoPeer]

(* The senders whose messages may be in the queue. *)
Sender == sessions \union lost

OnEnter(p, seq, pos) ==
    /\ running
    /\ LET r == SelectControl(rcv, p, EnterMsg(seq, pos), FALSE)
       IN Loop(r) /\ Record(p, r)
    /\ visit' = 1 - visit
    /\ presses' = 0
    /\ UNCHANGED <<running, sessions, lost>>

OnLeave(p) ==
    /\ running
    /\ LET r == SelectControl(rcv, p, LeaveMsg, FALSE)
       IN Loop(r) /\ Record(p, r)
    /\ UNCHANGED <<running, sessions, lost, visit, presses>>

OnKey(p, k, down) ==
    /\ running
    /\ LET r == SelectControl(rcv, p, KeyMsg(k, down), FALSE)
       IN Loop(r) /\ Record(p, r)
    /\ UNCHANGED <<running, sessions, lost, visit, presses>>

OnButton(p, b, down, pos, again) ==
    /\ running
    /\ LET r == SelectControl(rcv, p, ButtonMsg(b, down, pos), again)
       IN /\ Loop(r) /\ Record(p, r)
          /\ presses' = IF b \in r.buttons \ rcv.buttons /\ presses < MaxClicks
                        THEN presses + 1 ELSE presses
    /\ UNCHANGED <<running, sessions, lost, visit>>

OnMotion(p, seq, pos) ==
    /\ running
    /\ LET r == SelectMotion(rcv, p, seq, pos)
       IN Loop(r) /\ Record(p, r)
    /\ UNCHANGED <<running, sessions, lost, visit, presses>>

(***************************************************************************)
(* This machine's own keyboard or mouse was used: the visit ends and the   *)
(* driver, if it still has a session, is sent Yield (see Handover).        *)
(***************************************************************************)
OnLocalActivity ==
    /\ running
    /\ rcv.entered
    /\ LET r == StopDriving(rcv) IN Loop(r) /\ Record(NoPeer, r)
    /\ UNCHANGED <<running, sessions, lost, visit, presses>>

OnDisconnected(p) ==
    /\ running
    /\ p \in lost
    /\ LET r == SelectDisconnected(rcv, p) IN Loop(r) /\ Record(NoPeer, r)
    /\ lost' = lost \ {p}
    /\ UNCHANGED <<running, sessions, visit, presses>>

(* recv_timeout ran out at the repeat's deadline. *)
OnTimeout ==
    /\ running
    /\ rcv.repeat # NoKey
    /\ rcv' = Tick(rcv)
    /\ UNCHANGED <<running, sessions, lost, visit, presses, pressedBy>>

(* Mutant: a thread that returns at Stop without releasing. *)
StopWithoutRelease ==
    /\ running
    /\ running' = FALSE
    /\ sessions' = {} /\ lost' = {}
    /\ UNCHANGED <<rcv, visit, presses, pressedBy>>

(* Sharing stops: the run loop and its sessions end with the thread. *)
OnStop ==
    /\ running
    /\ LET r == StopDriving(rcv) IN Loop(r) /\ Record(NoPeer, r)
    /\ running' = FALSE
    /\ sessions' = {} /\ lost' = {}
    /\ UNCHANGED <<visit, presses>>

(* Sharing starts again: a new thread with a new receiver, the same OS. *)
Start ==
    /\ ~running
    /\ running' = TRUE
    /\ rcv' = NewReceiver(rcv.osKeys, rcv.osButtons, rcv.osPos)
    /\ UNCHANGED <<sessions, lost, visit, presses, pressedBy>>

(* The run loop's Connected and Disconnected events. *)
Connect(p) ==
    /\ running
    /\ p \notin sessions
    /\ sessions' = sessions \union {p}
    /\ UNCHANGED <<rcv, running, lost, visit, presses, pressedBy>>

Drop(p) ==
    /\ running
    /\ p \in sessions \ lost
    /\ sessions' = sessions \ {p}
    /\ lost' = lost \union {p}
    /\ UNCHANGED <<rcv, running, visit, presses, pressedBy>>

Next ==
    \/ \E p \in Sender, s \in SeqNo, x \in Pos : OnEnter(p, s, x)
    \/ \E p \in Sender, s \in SeqNo, x \in Pos : OnMotion(p, s, x)
    \/ \E p \in Sender : OnLeave(p)
    \/ \E p \in Sender, k \in Key, d \in BOOLEAN : OnKey(p, k, d)
    \/ \E p \in Sender, b \in Button, d, again \in BOOLEAN, x \in Pos :
          OnButton(p, b, d, x, again)
    \/ \E p \in Peer : OnDisconnected(p) \/ Connect(p) \/ Drop(p)
    \/ OnLocalActivity \/ OnTimeout \/ OnStop \/ Start

Spec == Init /\ [][Next]_vars

-----------------------------------------------------------------------------

(* The variables keep their types. *)
TypeOK ==
    /\ rcv \in ReceiverState
    /\ running \in BOOLEAN
    /\ sessions \subseteq Peer
    /\ lost \subseteq Peer
    /\ visit \in {0, 1}
    /\ presses \in 0 .. MaxClicks
    /\ pressedBy \in [Item -> Peer \union {NoPeer}]

(***************************************************************************)
(* While nobody drives this machine, and after sharing stops, nothing      *)
(* injected is still down and no key repeats: release_all runs before      *)
(* every way a visit can end, and a late message of the old driver cannot  *)
(* press anything afterwards.                                              *)
(***************************************************************************)
NothingHeldUnlessDriven ==
    ~rcv.entered \/ ~running =>
        Injected(rcv) = {} /\ rcv.repeat = NoKey

(***************************************************************************)
(* What is injected down was pressed by the machine driving now: another   *)
(* peer's late messages press nothing, and taking over releases what the   *)
(* driver before pressed.                                                  *)
(***************************************************************************)
HeldForDriver ==
    \A i \in Injected(rcv) : rcv.entered /\ pressedBy[i] = rcv.driver

(* A key repeats only while it is injected down and not yet released. *)
RepeatIsHeld == rcv.repeat # NoKey => rcv.repeat \in rcv.keys \intersect rcv.osKeys

(* A peer whose connection is gone is not waited for as the driver. *)
DriverIsConnected ==
    running => rcv.driver \in sessions \union lost \union {NoPeer}

(***************************************************************************)
(* A click never counts presses made before the driver's latest Enter: the *)
(* count of a held button is at most the presses since.                    *)
(***************************************************************************)
ClicksWithinVisit ==
    \A b \in rcv.buttons : rcv.clicks[b] <= presses

(***************************************************************************)
(* Within a visit the pointer moves only for a Motion newer than every one *)
(* used since the visit's Enter, or for a click: reordered and late        *)
(* datagrams never move it back.                                           *)
(***************************************************************************)
MotionNeverGoesBack ==
    [][ visit' = visit /\ rcv'.osPos # rcv.osPos =>
          \/ Newer(rcv'.last, rcv.last)
          \/ rcv'.buttons # rcv.buttons ]_vars

(* The injection thread implements the promise of DrivenMachine. *)
Owner == IF rcv.entered THEN rcv.driver ELSE NoPeer

Promise == INSTANCE DrivenMachine
             WITH Driver <- Peer, Nobody <- NoPeer,
                  owner <- Owner, held <- Injected(rcv)

ImplementsDrivenMachine == Promise!Spec
=============================================================================
