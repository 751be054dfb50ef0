----------------------------- MODULE MCSuiWrite -----------------------------
(***************************************************************************)
(* SuiWrite for TLC.  Tabs and attempts are interchangeable: no definition *)
(* and no property of SuiWrite tells one from another.                     *)
(***************************************************************************)
EXTENDS SuiWrite, TLC

Symmetry == Permutations(Tabs) \cup Permutations(Tx)
=============================================================================
