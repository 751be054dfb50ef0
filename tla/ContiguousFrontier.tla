------------------------- MODULE ContiguousFrontier -------------------------
(***************************************************************************)
(* What a checkpoint over numbered work promises, whatever computes it:    *)
(* every number up to "frontier" is sealed. A step may seal any numbers    *)
(* and move the frontier up over sealed ones; the frontier falls only when *)
(* the seal of a number under it is withdrawn, and then to just below it.  *)
(***************************************************************************)
EXTENDS Naturals

CONSTANT Number            \* 1 .. N, the numbers that can be sealed

VARIABLES sealed, frontier

Covers(s, f) == \A n \in Number : n <= f => n \in s

Init == sealed = {} /\ frontier = 0

Grow == /\ sealed \subseteq sealed'
        /\ sealed' \subseteq Number
        /\ frontier' \in Number \cup {0}
        /\ frontier <= frontier'
        /\ Covers(sealed', frontier')

Withdraw(n) == /\ sealed' = sealed \ {n}
               /\ IF n <= frontier THEN frontier' = n - 1
                  ELSE frontier' \in Number \cup {0} /\ frontier <= frontier'
               /\ Covers(sealed', frontier')

Next == Grow \/ \E n \in Number : Withdraw(n)

Spec == Init /\ [][Next]_<<sealed, frontier>>
=============================================================================
