--------------------------- MODULE OneOutstanding ---------------------------
(***************************************************************************)
(* What a journal of wallet requests promises: a request is made only      *)
(* while no earlier one can still take effect on the chain.  A request     *)
(* closes when it is refused, has been decided on the chain or can never   *)
(* reach it; a closed request never opens again.                           *)
(***************************************************************************)
CONSTANT Requests

VARIABLES
  made,  \* the requests ever made
  open   \* those that may still take effect

Init == made = {} /\ open = {}

Make(x) ==
  /\ open = {}
  /\ x \notin made
  /\ made' = made \cup {x}
  /\ open' = {x}

Close(x) ==
  /\ x \in open
  /\ open' = {}
  /\ UNCHANGED made

Next == \E x \in Requests : Make(x) \/ Close(x)

Spec == Init /\ [][Next]_<<made, open>>
=============================================================================
