----------------------------- MODULE MCCapsLock -----------------------------
(* CapsLock with endpoint ids 1, 2 and, for the tie between three, 3.       *)
EXTENDS CapsLock, TLC

Two == {1, 2}
Three == {1, 2, 3}
Windows == {2}
=============================================================================
