--------------------------- MODULE MCReceiptLane ---------------------------
(* Instances of ReceiptLane for TLC. *)
EXTENDS ReceiptLane, TLC

JustTwo == <<2>>
TwoAndNone == <<2, 0>>

Symmetry == Permutations(Proc)
=============================================================================
