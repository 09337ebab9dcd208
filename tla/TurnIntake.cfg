SPECIFICATION FairSpec
CONSTANTS
  Msg = {m1, m2, m3}
  MediaMsg = {m3}
  Web = {w1}
  Capacity = 3
  BatchLimit = 2
  Faults <- MCFaults
  MaxCrashes = 1
INVARIANTS OneTurnPerInput CapacityKept PromptComplete
PROPERTIES PositionNeverGrows MessagesSettle
CHECK_DEADLOCK FALSE
