SPECIFICATION Spec
CONSTANTS
  r1 = r1
  r2 = r2
  Records = {r1}
  Callers = {c1}
  Pollers = {p1}
  Tx = {x1, x2, x3}
  None = None
  Amount <- OneRecord
  InitialAllowance = 1
  BatchSize = 2
  MaxMoves = 0
  MaxElsewhere = 0
SYMMETRY Symmetry
CHECK_DEADLOCK FALSE
INVARIANTS
  NoSecondBurn
