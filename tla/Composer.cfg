SPECIFICATION Spec
CONSTANTS
  a = a
  b = b
  Text <- MCText
  Empty = Empty
  Null = Null
  MaxFiles = 2
  MaxKeys = 4
  MaxFaults = 2
  Faults <- MCFaults
INVARIANTS OneTurnPerDraft FilesReachCodex
PROPERTIES NothingLost
SYMMETRY Symmetry
CHECK_DEADLOCK FALSE
