SPECIFICATION Spec
CONSTANTS
  N = 2
  W = 2
  NetCap = 2
  RESENDLIMIT = 3
  Dup = FALSE
  Mangle = FALSE
  FinLike <- LastFinLike
  OpenOk <- Opens
  Unfilled <- AnyButAFin
INVARIANTS
  ExitAfterFinAck
CHECK_DEADLOCK FALSE
