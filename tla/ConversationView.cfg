SPECIFICATION FairSpec
CONSTANTS
  PageSize = 1
  Scenario <- MCScenario
  MaxTurns = 3
  MaxAsks = 2
  MaxWire = 2
  MaxFaults = 1
INVARIANTS DecidedAsShown
PROPERTIES CatchesUp RequestsAnswered
CHECK_DEADLOCK FALSE
