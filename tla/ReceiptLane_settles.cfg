SPECIFICATION FairSpec
CONSTANTS
  N = 2
  TxCount <- TwoAndNone
  Proc = {p1}
  NoProc = NoProc
  MaxWork = 3
  HighWater = 2
  LowWater = 0
  Retain = 0
  ChainBatch = 1
  Tail = 1
  Page = 1
  Window = 1
  Span = 2
  MaxFaults = 2
CHECK_DEADLOCK FALSE
INVARIANTS
  WithinCapacity
  NothingForgotten
PROPERTIES
  IsAFrontier
  EveryBlockSettles
