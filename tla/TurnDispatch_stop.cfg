SPECIFICATION Spec
CONSTANTS
  Mission = {1, 2}
  Scenario <- MCStopDuringRecovery
  MaxTurns = 3
  MaxResumes = 0
  MaxFaults = 1
  MaxChan = 2
INVARIANT UserStopIsTerminal
CHECK_DEADLOCK FALSE
