------------------------------ MODULE CapsLock ------------------------------
(***************************************************************************)
(* Caps Lock, shared by connected machines (legato-core/src/locks.rs and   *)
(* the run loop around it, legato-engine/src/run.rs): one state, whichever *)
(* keyboard changes it.                                                    *)
(*                                                                         *)
(* Every machine reads its own Caps Lock now and then and tells its peers  *)
(* when it changed; every change carries a Lamport clock.  Machines are    *)
(* numbers: their endpoint ids, which decide ties.  On Windows setting     *)
(* Caps Lock is an injected key press: it toggles, and shows later.        *)
(***************************************************************************)
EXTENDS Integers, Sequences

CONSTANTS
    Machine,        \* endpoint ids
    Presses,        \* machines that set Caps Lock by a key press (Windows)
    SettleReads,    \* SETTLE_READS
    MaxPresses,     \* bound: presses of Caps Lock by users
    MaxDrops        \* bound: connections that end

ASSUME CapsLockAssumption ==
    /\ Machine \subseteq Nat
    /\ Presses \subseteq Machine
    /\ SettleReads \in Nat \ {0}
    /\ MaxPresses \in Nat /\ MaxDrops \in Nat

VARIABLES
    caps,       \* [Machine -> what the engine keeps: on, clock, settling]
    lock,       \* [Machine -> BOOLEAN] the machine's Caps Lock
    pressing,   \* [Machine -> Nat] injected presses that do not show yet
    up,         \* connected pairs, {a, b}
    net,        \* [<<from, to>> -> changes told and not yet heard]
    presses, drops

vars == <<caps, lock, pressing, up, net, presses, drops>>

Pair == {p \in Machine \X Machine : p[1] # p[2]}

-----------------------------------------------------------------------------

Change == [on : BOOLEAN, clock : Nat]

Announce(c) == [on |-> c.on, clock |-> c.clock]

(* Mutant: a peer's change still being set here is taken for a new one. *)
LocalEcho(c, on) ==
    IF on = c.on THEN c ELSE [c EXCEPT !.on = on, !.clock = @ + 1]

(* CapsLock::local: what this machine reads is on. *)
Local(c, on) ==
    IF on = c.on THEN [c EXCEPT !.settling = 0]
    ELSE IF c.settling > 0 THEN [c EXCEPT !.settling = @ - 1]
    ELSE [c EXCEPT !.on = on, !.clock = @ + 1]

Larger(x, y) == IF x > y THEN x ELSE y

(* Mutant: a tie changes nothing. *)
WinsNewerOnly(c, change, peerFirst) == change.clock > c.clock

(* A peer's change wins if it is newer, or as new and the peer comes first. *)
Wins(c, change, peerFirst) ==
    \/ change.clock > c.clock
    \/ change.clock = c.clock /\ peerFirst

(* Whether the peer's change is to be set here. *)
Adopts(c, change, peerFirst) == Wins(c, change, peerFirst) /\ change.on # c.on

(* CapsLock::remote *)
Remote(c, change, peerFirst) ==
    LET heard == [c EXCEPT !.clock = Larger(@, change.clock)]
    IN IF Adopts(c, change, peerFirst)
       THEN [heard EXCEPT !.on = change.on, !.settling = SettleReads]
       ELSE heard

-----------------------------------------------------------------------------

(* Nobody is connected; each Caps Lock is as it happens to be. *)
Init ==
    /\ lock \in [Machine -> BOOLEAN]
    /\ caps = [m \in Machine |-> [on |-> lock[m], clock |-> 0, settling |-> 0]]
    /\ pressing = [m \in Machine |-> 0]
    /\ up = {}
    /\ net = [p \in Pair |-> <<>>]
    /\ presses = 0 /\ drops = 0

(* The user presses Caps Lock. *)
Press(m) ==
    /\ presses < MaxPresses
    /\ presses' = presses + 1
    /\ lock' = [lock EXCEPT ![m] = ~@]
    /\ UNCHANGED <<caps, pressing, up, net, drops>>

(* The injected press takes effect. *)
Show(m) ==
    /\ pressing[m] > 0
    /\ pressing' = [pressing EXCEPT ![m] = @ - 1]
    /\ lock' = [lock EXCEPT ![m] = ~@]
    /\ UNCHANGED <<caps, up, net, presses, drops>>

(***************************************************************************)
(* caps_check ticks.  An injected press shows before the reads it is given *)
(* run out.                                                                *)
(***************************************************************************)
Check(m) ==
    LET c == Local(caps[m], lock[m])
    IN /\ pressing[m] > 0 => caps[m].settling > 0 \/ lock[m] = caps[m].on
       /\ caps' = [caps EXCEPT ![m] = c]
       /\ net' = [p \in Pair |->
                    IF p[1] = m /\ {m, p[2]} \in up /\ c.clock # caps[m].clock
                    THEN Append(net[p], Announce(c)) ELSE net[p]]
       /\ UNCHANGED <<lock, pressing, up, presses, drops>>

(* set_caps_lock *)
SetLock(m, on) ==
    IF m \in Presses
    THEN /\ pressing' = [pressing EXCEPT ![m] = IF lock[m] # on THEN @ + 1 ELSE @]
         /\ lock' = lock
    ELSE /\ lock' = [lock EXCEPT ![m] = on]
         /\ pressing' = pressing

Hear(m, p) ==
    /\ net[<<p, m>>] # <<>>
    /\ LET change == Head(net[<<p, m>>])
       IN /\ caps' = [caps EXCEPT ![m] = Remote(@, change, p < m)]
          /\ IF Adopts(caps[m], change, p < m) THEN SetLock(m, change.on)
             ELSE UNCHANGED <<lock, pressing>>
    /\ net' = [net EXCEPT ![<<p, m>>] = Tail(@)]
    /\ UNCHANGED <<up, presses, drops>>

(* Mutant: a connection that starts without telling the peer. *)
ConnectSilently(a, b) ==
    /\ {a, b} \notin up
    /\ up' = up \union {{a, b}}
    /\ UNCHANGED <<caps, lock, pressing, net, presses, drops>>

(* On connecting each tells the other the state it has. *)
Connect(a, b) ==
    /\ {a, b} \notin up
    /\ up' = up \union {{a, b}}
    /\ net' = [net EXCEPT ![<<a, b>>] = <<Announce(caps[a])>>,
                          ![<<b, a>>] = <<Announce(caps[b])>>]
    /\ UNCHANGED <<caps, lock, pressing, presses, drops>>

(* A connection ends, and what was on its way is lost. *)
Drop(a, b) ==
    /\ drops < MaxDrops
    /\ {a, b} \in up
    /\ drops' = drops + 1
    /\ up' = up \ {{a, b}}
    /\ net' = [net EXCEPT ![<<a, b>>] = <<>>, ![<<b, a>>] = <<>>]
    /\ UNCHANGED <<caps, lock, pressing, presses>>

Next ==
    \/ \E m \in Machine : Press(m) \/ Show(m) \/ Check(m)
    \/ \E p \in Pair : Hear(p[1], p[2]) \/ Connect(p[1], p[2]) \/ Drop(p[1], p[2])

(***************************************************************************)
(* The timer ticks, an injected press shows, the run loop hears what has   *)
(* come, and a machine on the network is dialled until it answers.  Users  *)
(* owe nothing.                                                            *)
(***************************************************************************)
Fairness ==
    /\ \A m \in Machine : WF_vars(Check(m)) /\ WF_vars(Show(m))
    /\ \A p \in Pair : WF_vars(Hear(p[1], p[2])) /\ WF_vars(Connect(p[1], p[2]))

Spec == Init /\ [][Next]_vars /\ Fairness

-----------------------------------------------------------------------------

TypeOK ==
    /\ caps \in [Machine -> [on : BOOLEAN, clock : Nat, settling : 0 .. SettleReads]]
    /\ lock \in [Machine -> BOOLEAN]
    /\ pressing \in [Machine -> Nat]
    /\ up \subseteq {{p[1], p[2]} : p \in Pair}
    /\ net \in [Pair -> Seq(Change)]
    /\ presses \in 0 .. MaxPresses
    /\ drops \in 0 .. MaxDrops

(***************************************************************************)
(* When nothing is under way any more and all machines are connected, they *)
(* have the same Caps Lock, whatever each started with and whichever       *)
(* changes crossed.  It holds for two machines, not for three: a machine   *)
(* settles a tie by its peer's id, and the peer may pass on a state that   *)
(* came from, or lost to, another.                                         *)
(***************************************************************************)
Quiet ==
    /\ \A p \in Pair : net[p] = <<>>
    /\ \A m \in Machine : pressing[m] = 0 /\ lock[m] = caps[m].on

Settled == Quiet /\ \A p \in Pair : {p[1], p[2]} \in up

AllLocks(on) == \A m \in Machine : lock[m] = on

Agreement == Settled => \E on \in BOOLEAN : AllLocks(on)

(***************************************************************************)
(* A press made when all is settled is one change, and the one all come    *)
(* to, even when it shows late on some and connections break meanwhile: a  *)
(* machine that reads its own Caps Lock before the peer's change shows     *)
(* there takes it neither for a change of its own nor for an undoing.      *)
(***************************************************************************)
PressIsOneChange ==
    \A on \in BOOLEAN, k \in 0 .. 2 * MaxPresses :
        []( /\ Settled /\ AllLocks(on) /\ presses = MaxPresses - 1
            /\ \A m \in Machine : caps[m].clock = k
            => []( /\ \A m \in Machine : caps[m].clock <= k + 1
                   /\ Settled /\ presses = MaxPresses => AllLocks(~on)))

(***************************************************************************)
(* Once users let it be, all machines come to the same Caps Lock and keep  *)
(* it: no two of them set each other's back and forth.                     *)
(***************************************************************************)
EventuallyAgree == <>[](\E on \in BOOLEAN : AllLocks(on))
=============================================================================
