SPECIFICATION FairSpec
CONSTANTS
  Runs = 1
  TurnLimit <- Three
  MaxCalls = 1
  Speaks = {0, 1, 2}
  MaxOutputRecoveries = 1
  MaxParseRetries = 1
INVARIANTS
  ReportReaches
  RepeatsOnlyRecovered
PROPERTIES
  Ends
CHECK_DEADLOCK FALSE
