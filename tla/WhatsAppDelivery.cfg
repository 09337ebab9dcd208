SPECIFICATION Spec
CONSTANTS
  Turn <- MCTurn
  Ours <- MCOurs
  Chunks = 2
  Files = 2
  Scenario <- MCScenario
  MaxAsks = 2
  MaxEnds = 2
  MaxCommands = 2
INVARIANTS ResultTold NoFalseResult ApprovalAnnounced CommandsAnswered
CHECK_DEADLOCK FALSE
