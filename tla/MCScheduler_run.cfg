SPECIFICATION FairSpec
CONSTANTS
  c1 = c1
  c2 = c2
  Callers = {c1, c2}
  MaxStarts = 3
  MaxExecs = 3
  EventCap = 2
INVARIANTS
  OneLoop
  SafeAlone
  RunningFires
PROPERTIES
  StopReturns
  EventsArrive
CHECK_DEADLOCK FALSE
