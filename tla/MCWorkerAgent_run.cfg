SPECIFICATION Spec
CONSTANTS
  File = {"rule"}
  Stream = {"s1", "s2"}
  OutCap = 2
  AlertCap = 1
  MaxCrashes = 2
  Loads <- MCLoads
CHECK_DEADLOCK FALSE
INVARIANTS
  EndedTakesOne
  DamageStaysLocal
PROPERTIES
  Converges
