SPECIFICATION Spec
CONSTANTS
  r1 = r1
  r2 = r2
  b1 = b1
  b2 = b2
  Plans = {r1}
  Burns = {b1}
  BurnOf <- OneBurn
  Callers = {c1}
  Pollers = {p1}
  Tx = {x1, x2}
  None = None
  BatchSize = 2
SYMMETRY Symmetry
CHECK_DEADLOCK FALSE
INVARIANTS
  LiveMintIsMarked
  CompleteIsReceived
