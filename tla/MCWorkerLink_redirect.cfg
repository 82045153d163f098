SPECIFICATION FairSpec
CONSTANTS
  w1 = w1
  w2 = w2
  o1 = o1
  o2 = o2
  a1 = a1
  a2 = a2
  NoAddr = NoAddr
  Links <- FourLinks
  Workers = {w1}
  Overlords = {o1, o2}
  Addrs = {a1}
  ListenOf <- Single
  HomeOf <- AllAtFirst
  TokenRequired = FALSE
  MaxFailures = 1
  MaxCrashes = 0
  MaxLosses = 0
  MaxRedirects = 1
PROPERTIES
  Rejoins
