SPECIFICATION FairSpec
CONSTANTS
  Router <- Three
  Link <- Chain
  Costs = {1, 2}
  Flaky <- OneLink
  Lossy = TRUE
  Aging = FALSE
  SeqNums = 2
  MaxPackets = 2
INVARIANTS
  FloodHasNoHole
  AnnouncedIsCurrent
  SentOnce
PROPERTIES
  FloodsEnd
CHECK_DEADLOCK FALSE
