SPECIFICATION Spec
CONSTANTS
  W = 5
  Last = 11
INVARIANTS
  NoNodeLost
  CountIsLength
PROPERTIES
  Reassembles
CHECK_DEADLOCK FALSE
