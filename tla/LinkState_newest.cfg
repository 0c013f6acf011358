SPECIFICATION Spec
CONSTANTS
  Router <- Three
  Link <- Triangle
  Costs = {1}
  Flaky <- NoLink
  Lossy = FALSE
  Aging = TRUE
  SeqNums = 2
  MaxPackets = 2
INVARIANTS
  NewestIsStored
CHECK_DEADLOCK FALSE
