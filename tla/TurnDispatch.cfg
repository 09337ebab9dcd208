SPECIFICATION FairSpec
CONSTANTS
  Mission = {1, 2}
  Scenario <- MCScenario
  MaxTurns = 4
  MaxResumes = 1
  MaxFaults = 1
  MaxChan = 2
INVARIANTS AtMostOneStart ClearsAlone OneTurnAtATime ExactAttribution LiveTurnIsActive BoundedReplay UserStopIsTerminal
PROPERTIES QueueDrains ServesSerially
CHECK_DEADLOCK FALSE
