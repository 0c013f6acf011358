SPECIFICATION FairSpec
CONSTANTS
  N = 3
  W = 2
  NetCap = 1
  RESENDLIMIT = 3
  Dup = FALSE
  Mangle = FALSE
  FinLike <- NoFinLike
  OpenOk <- Opens
  Unfilled <- AnyButAFin
INVARIANTS
  ExitAfterFinAck
PROPERTIES
  SenderExits
  DeliversTheFileFairly
