SPECIFICATION Spec
CONSTANTS
  N = 5
  W = 3
  NetCap = 2
  RESENDLIMIT = 3
  Dup = TRUE
  Mangle = TRUE
  FinLike <- NoFinLike
  OpenOk <- Either
  Unfilled <- AnyButAFin
INVARIANTS
  TypeOK
  WrittenInOrder
  NothingForgotten
  WindowsAgree
  FrontUnmarked
  ClosedMeansComplete
  NamedByThePath
  IInv
  LoopInv
PROPERTIES
  DeliversTheFile
  SlotReuseIsSafe
CHECK_DEADLOCK FALSE
