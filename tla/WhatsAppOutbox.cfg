SPECIFICATION FairSpec
CONSTANTS
  Rows = 2
  BodyOf <- MCBodyOf
  Faults <- MCFaults
  MaxSends = 3
  MaxCrashes = 1
INVARIANTS AtLeastOnce EchoIsNotInput
PROPERTIES RetriesUntilSettled
CHECK_DEADLOCK FALSE
