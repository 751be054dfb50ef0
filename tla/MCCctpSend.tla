---------------------------- MODULE MCCctpSend ----------------------------
(***************************************************************************)
(* Small instances of CctpSend.  Two transfers of the same amount are the  *)
(* hard case of burn adoption: the logs alone cannot tell them apart.      *)
(***************************************************************************)
EXTENDS CctpSend, TLC

CONSTANTS r1, r2

OneRecord == (r1 :> 1)

SameAmount == (r1 :> 1) @@ (r2 :> 1)

Symmetry == Permutations(Tx) \cup Permutations(Callers)
              \cup Permutations(Pollers) \cup Permutations(Records)
=============================================================================
