------------------------------- MODULE MCDesk -------------------------------
(* Two machines: one with a display that can be unplugged, one whose units   *)
(* are half as big and whose displays differ in height.                      *)
EXTENDS Desk

CONSTANTS a, b

OneDisplay == [perDesk |-> 1, displays |-> <<Box(0, 0, 4, 4)>>]
TwoDisplays == [perDesk |-> 1, displays |-> <<Box(0, 0, 4, 4), Box(4, 0, 8, 8)>>]
Uneven == [perDesk |-> 2, displays |-> <<Box(-8, 0, 8, 8), Box(0, 0, 16, 16)>>]

MCScreens == [m \in Machines |-> IF m = a THEN {OneDisplay, TwoDisplays} ELSE {Uneven}]
MCFirstScreens == [m \in Machines |-> IF m = a THEN TwoDisplays ELSE Uneven]
MCFirstPlaces ==
    [m \in Machines |-> [p \in Machines |->
        IF m = a /\ p = b THEN NextTo(2, "right", "start") ELSE NotArranged]]
MCWindows == {Box(1, 1, 2, 2), Box(2, -3, 9, 2)}
MCExtraSizes == {[w |-> 6, h |-> 4], [w |-> 40, h |-> 20]}
MCDrops == {Place(1, 1), Place(-20, 3)}
=============================================================================
