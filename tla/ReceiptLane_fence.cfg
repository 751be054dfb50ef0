SPECIFICATION Spec
CONSTANTS
  N = 1
  TxCount <- JustTwo
  Proc = {p1, p2}
  NoProc = NoProc
  MaxWork = 3
  HighWater = 2
  LowWater = 0
  Retain = 1
  ChainBatch = 1
  Tail = 1
  Page = 1
  Window = 1
  Span = 1
  MaxFaults = 1
SYMMETRY Symmetry
CHECK_DEADLOCK FALSE
INVARIANTS
  FrontierIsProven
  CertifiedIsDone
PROPERTIES
  LeaseIsExclusive
