SPECIFICATION FairSpec
CONSTANTS
  Rec = {r1, r2}
  Tab = {t1, t2}
  Tx = {x1, x2}
  None = None
  Keep = 1
  MaxFaults = 1
CHECK_DEADLOCK FALSE
INVARIANTS
  TypeOK
  LiveExecuteBlocks
  SettledIsTrue
PROPERTIES
  SettledIsFinal
  AsksOneAtATime
  DecidableSettles
