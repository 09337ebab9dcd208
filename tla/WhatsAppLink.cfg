SPECIFICATION FairSpec
CONSTANTS
  Clients = 3
  Faults <- MCFaults
  MaxFaults = 5
INVARIANTS OneBrowser
PROPERTIES ComesBack
CHECK_DEADLOCK FALSE
