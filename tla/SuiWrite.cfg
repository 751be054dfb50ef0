SPECIFICATION Spec
CONSTANTS
  Tabs = {t1, t2}
  Tx = {x1, x2}
  None = None
SYMMETRY Symmetry
CHECK_DEADLOCK FALSE
INVARIANTS
  OpenIsJournaled
  SettledIsTrue
PROPERTIES
  AsksOneAtATime
