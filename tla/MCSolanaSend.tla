---------------------------- MODULE MCSolanaSend ----------------------------
(***************************************************************************)
(* SolanaSend for TLC: one EVM wallet, with two Solana wallets.             *)
(***************************************************************************)
EXTENDS SolanaSend, TLC

CONSTANTS e1, s1, s2

SharedEvm == {<<e1, s1>>, <<e1, s2>>}

Symmetry ==
  Permutations(Attempts) \cup Permutations(Runs) \cup Permutations(Checkers) \cup Permutations({s1, s2})
=============================================================================
