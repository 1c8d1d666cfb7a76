------------------------------ MODULE MCPairing ------------------------------
(* Pairing for TLC: the two machines do the same, so they may change places. *)
EXTENDS Pairing, TLC

SymmetryOfMachines == Permutations(Machines)
=============================================================================
