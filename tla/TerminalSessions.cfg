SPECIFICATION TerminalSpec
CONSTANTS
  tab1 = tab1
  tab2 = tab2
  Page <- MCPage
  MaxSessions = 3
  MaxTokens = 4
  MaxRequests = 2
  MaxLosses = 1
INVARIANTS RecordsTrue ConnectedIsTrue
SYMMETRY Symmetry
CHECK_DEADLOCK FALSE
