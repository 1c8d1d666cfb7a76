--------------------------- MODULE DrivenMachine ---------------------------
(***************************************************************************)
(* What a machine promises while others drive it, as its OS sees it: input *)
(* is injected for one owner at a time, nothing stays pressed when the     *)
(* owner changes or gives the machine back, and nothing is pressed while   *)
(* nobody owns it.                                                         *)
(***************************************************************************)
CONSTANTS Driver, Nobody, Item     \* Item: the keys and buttons

VARIABLES owner, held

vars == <<owner, held>>

TypeOK == owner \in Driver \union {Nobody} /\ held \subseteq Item

Init == owner = Nobody /\ held = {}

TakeOver(p) == owner' = p /\ held' = {}

HandBack == owner' = Nobody /\ held' = {}

Press(i) == owner # Nobody /\ held' = held \union {i} /\ owner' = owner

Lift(i) == owner # Nobody /\ held' = held \ {i} /\ owner' = owner

Next ==
    \/ \E p \in Driver : TakeOver(p)
    \/ HandBack
    \/ \E i \in Item : Press(i) \/ Lift(i)

Spec == Init /\ [][Next]_vars
=============================================================================
