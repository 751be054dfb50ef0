SPECIFICATION Spec
CONSTANTS
  Sessions = {s1, s2, s3}
  Scopes = {k1, k2}
  Tx = {x1, x2}
  None = None
CHECK_DEADLOCK FALSE
INVARIANTS
  OpenIsRecorded
PROPERTIES
  RunningAttemptIsKept
  AsksOneAtATime
