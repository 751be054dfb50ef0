SPECIFICATION FairSpec
CONSTANTS
  r1 = r1
  r2 = r2
  b1 = b1
  b2 = b2
  Plans = {}
  Burns = {b1}
  BurnOf <- NoPlan
  Callers = {c1, c2}
  Pollers = {p1}
  Tx = {x1, x2}
  None = None
  BatchSize = 2
CHECK_DEADLOCK FALSE
INVARIANTS
  OneLiveMint
PROPERTIES
  ReceivedCompletes
