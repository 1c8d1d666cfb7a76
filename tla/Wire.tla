-------------------------------- MODULE Wire --------------------------------
(***************************************************************************)
(* What the input messages of two machines share: the sequence numbers     *)
(* that order Enter, Motion and Pointer, and the messages themselves.      *)
(*                                                                         *)
(* A controller numbers every Enter, every Motion datagram and every       *)
(* Pointer datagram from one u32 counter that wraps; a receiver keeps the  *)
(* newest it used.  SeqMod stands for 2^32.                                *)
(***************************************************************************)
EXTENDS Integers

CONSTANT SeqMod         \* the counter's modulus, 2^32 in the code

ASSUME SeqModAssumption == SeqMod \in Nat /\ SeqMod >= 4 /\ SeqMod % 2 = 0

SeqNo == 0 .. SeqMod - 1

NextSeq(s) == (s + 1) % SeqMod

(***************************************************************************)
(* (seq.wrapping_sub(last) as i32) > 0: a is ahead of b by less than half  *)
(* the counter's range.                                                    *)
(***************************************************************************)
Newer(a, b) == (a - b) % SeqMod \in 1 .. (SeqMod \div 2) - 1

EnterMsg(seq, pos) == [type |-> "Enter", seq |-> seq, pos |-> pos]
LeaveMsg == [type |-> "Leave"]
YieldMsg == [type |-> "Yield"]
KeyMsg(k, down) == [type |-> "Key", key |-> k, down |-> down]
ButtonMsg(b, down, pos) ==
    [type |-> "Button", button |-> b, down |-> down, pos |-> pos]
=============================================================================
