SPECIFICATION Spec
CONSTANTS
  Router = {1, 2, 3}
  Link <- Triangle
  Flaky <- Link13
  Delays = {1, 2}
  Delay <- Long23
  Garbage = {5}
  Infinity = 31
  Lossy = FALSE
  MaxChanges = 1
  Forget = 11
  Settle = 19
INVARIANTS
  BestPathIsRecorded
