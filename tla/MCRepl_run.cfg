SPECIFICATION Spec
CONSTANTS
  MaxTyped = 3
  MaxAlerts = 2
  MaxProgress = 1
  DiagLimit = 1
  ChanCap = 1
  AlertCap = 1
  MayPanic = TRUE
INVARIANTS
  OneAtATime
  SameConnection
PROPERTIES
  ServesInTurn
  QueueDrains
  HeldIsShown
  BusyEnds
CHECK_DEADLOCK FALSE
