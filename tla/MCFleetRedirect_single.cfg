SPECIFICATION FairSpec
CONSTANTS
  w1 = w1
  w2 = w2
  o1 = o1
  o2 = o2
  o3 = o3
  Workers = {w1, w2}
  Overlords = {o1, o2, o3}
  HomeOf <- OneEach
  MaxFaults = 2
INVARIANTS
  HealthyKeepsWorkers
PROPERTIES
  NoOrphans
  ListCatchesUp
