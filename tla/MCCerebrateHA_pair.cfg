SPECIFICATION FairSpec
CONSTANTS
  Overlords = {1, 2}
  Peer <- Pair
  TokenRequired = FALSE
  MaxFailures = 3
  MaxCerebrateCrashes = 1
  MaxOverlordCrashes = 1
  MaxLosses = 1
INVARIANTS
  AtMostTwoBackups
  PeersPickOne
PROPERTIES
  PriorityTakesOver
  OverlordsJoin
