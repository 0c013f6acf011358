SPECIFICATION Spec
CONSTANTS
  Client = {1, 2, 3}
  Fd = {4, 5, 6}
  Requests <- SomeRequests
  Setups <- AllSetups
  BACKLOG = 5
  MaxLeaving = 1
  MaxCut = 1
INVARIANTS
  ListIsOpenSockets
  AnswerIsForItsRequest
  StayingIsAnswered
  Survives
PROPERTIES
  AskingIsAnswered
CHECK_DEADLOCK FALSE
