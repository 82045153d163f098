SPECIFICATION Spec
CONSTANTS
  Overlords = {1, 2}
  Peer <- Wired
  TokenRequired = FALSE
  MaxFailures = 3
  MaxCerebrateCrashes = 1
  MaxOverlordCrashes = 0
  MaxLosses = 0
INVARIANTS
  AtMostOnePromoted
