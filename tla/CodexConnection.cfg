SPECIFICATION ConnectionFairSpec
CONSTANTS
  Clients = 4
  Faults <- MCFaults
  MaxFaults = 3
  MaxCodes = 2
INVARIANTS CodeIsRefreshed
PROPERTIES Reconnects
CHECK_DEADLOCK FALSE
