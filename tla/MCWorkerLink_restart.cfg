SPECIFICATION FairSpec
CONSTANTS
  w1 = w1
  w2 = w2
  o1 = o1
  o2 = o2
  a1 = a1
  a2 = a2
  NoAddr = NoAddr
  Links <- FourLinks
  Workers = {w1, w2}
  Overlords = {o1}
  Addrs = {a1, a2}
  ListenOf <- Sharing
  HomeOf <- AllAtFirst
  TokenRequired = FALSE
  MaxFailures = 3
  MaxCrashes = 1
  MaxLosses = 1
  MaxRedirects = 0
INVARIANTS
  OnlyRedirectsBreakClient
  AcceptedStaysKnown
PROPERTIES
  Rejoins
  DeadIsNoticed
  RegistryOnlyAdmits
