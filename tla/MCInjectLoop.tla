---------------------------- MODULE MCInjectLoop ----------------------------
(* InjectLoop with two peers and a repeating and a modifier key.            *)
EXTENDS InjectLoop, TLC

CONSTANTS p1, p2, kA, kShift, left

MCPeer == {p1, p2}
MCKey == {kA, kShift}
MCRepeatKey == {kA}
MCButton == {left}
MCPos == {0, 1}
=============================================================================
