SPECIFICATION Spec
CONSTANTS
  Router = {1, 2, 3}
  Link <- Chain
  Flaky <- Link12
  Delays = {1, 2}
  Delay <- AllShort
  Garbage = {0, 5}
  Infinity = 31
  Lossy = TRUE
  MaxChanges = 2
  Forget = 11
  Settle = 19
INVARIANTS
  TypeOK
  ForwardingIsNextHop
  NeighbourHasRoute
  DeadLinksAreLeft
  BestPathIsRecorded
