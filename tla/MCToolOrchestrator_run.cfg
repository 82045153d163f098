SPECIFICATION ToolsFairSpec
CONSTANTS
  Rounds = 3
  Calls = {1, 2, 3, 4, 5, 6, 7, 8, 9}
  RoundOf <- RunRounds
  Keys = {"a", "b", "x", "y"}
  KeyOf <- RunKeys
  WriteKeys = {"x", "y"}
  MaxConcurrency = 2
INVARIANTS
  WritesAlone
  EveryCallAnswered
  StaleOnlyRepeats
PROPERTIES
  Returns
CHECK_DEADLOCK FALSE
