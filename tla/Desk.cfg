SPECIFICATION FairSpec
CONSTANTS
  Calls = 2
  Desktops = 3
  MaxFaults = 2
  Faults <- MCFaults
INVARIANTS ControlPauses
PROPERTIES PauseEnds DesktopReturns ProfileKept
CHECK_DEADLOCK FALSE
