SPECIFICATION Spec
CONSTANTS
  MAX_LEN = 4
  router_id = 2
  Costs = {1, 3}
  Infinity = 100
  Topologies <- Matrices
INVARIANTS
  DistancesAreShortest
  NextHopIsShortest
  DistancesAreTight
CHECK_DEADLOCK FALSE
