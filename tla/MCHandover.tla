----------------------------- MODULE MCHandover -----------------------------
(***************************************************************************)
(* Handover with two machines side by side, a to the left of b.            *)
(***************************************************************************)
EXTENDS Handover, TLC

CONSTANTS a, b, kA, left

MCMachine == {a, b}
MCKey == {kA}
MCButton == {left}
MCBeyond ==
    [m \in MCMachine |-> [d \in {"left", "right"} |->
        IF m = a /\ d = "right" THEN b
        ELSE IF m = b /\ d = "left" THEN a ELSE NoMachine]]
MCId == [m \in MCMachine |-> IF m = a THEN 1 ELSE 2]
MCRemap == [m \in MCMachine |-> [k \in MCKey |-> k]]
NoRemap == [m \in MCMachine |-> [k \in {} |-> k]]

(***************************************************************************)
(* Parts of the behaviours, for the runs that look for one long behaviour: *)
(* the users only push across the edge between the machines, and only a's  *)
(* user presses anything.                                                  *)
(***************************************************************************)
PushAcross(m) == UserMoves(m, IF m = a THEN "right" ELSE "left", FALSE, FALSE, FALSE)

PushBack(m) == UserMovesPinned(m, IF m = a THEN "left" ELSE "right", FALSE)

TypeKeys == \E k \in Key : UserPresses(a, k) \/ UserReleases(a, k)

Machines == \E m \in Machine : RunLoop(m) \/ Capturing(m) \/ Injecting(m)

(* Both users cross; a's types. *)
TypeSpec ==
    Init /\ [][Machines \/ TypeKeys \/ \E m \in Machine : PushAcross(m)]_vars

(* Both users cross and come back. *)
BounceSpec ==
    Init /\ [][Machines \/ \E m \in Machine : PushAcross(m) \/ PushBack(m)]_vars

(* a's user crosses and types, and a is killed, started again and dials b. *)
KillSpec ==
    Init /\ [][ Machines \/ TypeKeys \/ PushAcross(a) \/ Restart(a)
               \/ EndNoticed(b, a) \/ Reconnect(a, b) ]_vars

(* b's user crosses; the connection breaks and comes back. *)
ReplaceSpec ==
    Init /\ [][Machines \/ PushAcross(b) \/ \E p \in Pair : Connecting(p[1], p[2])]_vars
=============================================================================
