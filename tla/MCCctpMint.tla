----------------------------- MODULE MCCctpMint -----------------------------
(* Instances of CctpMint for TLC. *)
EXTENDS CctpMint, TLC

CONSTANTS r1, r2, b1, b2

NoPlan == [r \in {} |-> b1]

OneBurn == r1 :> b1

Symmetry == Permutations(Callers) \cup Permutations(Pollers) \cup Permutations(Tx)
=============================================================================
