SPECIFICATION FairSpec
CONSTANTS
  Runs = 2
  TurnLimit <- ThreeThenTwo
  MaxCalls = 2
  Speaks = {}
  MaxOutputRecoveries = 0
  MaxParseRetries = 0
INVARIANTS
  RequestsPaired
  QuestionKept
CHECK_DEADLOCK FALSE
