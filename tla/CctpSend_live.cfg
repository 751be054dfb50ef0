SPECIFICATION FairSpec
CONSTANTS
  r1 = r1
  r2 = r2
  Records = {r1}
  Callers = {c1}
  Pollers = {p1}
  Tx = {x1, x2}
  None = None
  Amount <- OneRecord
  InitialAllowance = 0
  BatchSize = 2
  MaxMoves = 1
  MaxElsewhere = 1
CHECK_DEADLOCK FALSE
INVARIANTS
  SentHasLanded
PROPERTIES
  LandedBurnProceeds
  ApprovalSettles
