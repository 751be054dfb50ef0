SPECIFICATION Spec
CONSTANTS
  e1 = e1
  s1 = s1
  s2 = s2
  Attempts = {a1, a2}
  Runs = {u1, u2}
  Checkers = {c1}
  Pairs <- SharedEvm
  Sides = {"arc", "sol"}
  None = None
SYMMETRY Symmetry
CHECK_DEADLOCK FALSE
INVARIANTS
  LiveBlocks
  OneLiveBurn
  NotSentIsTrue
PROPERTIES
  SettledStays
