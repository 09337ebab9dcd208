SPECIFICATION FairSpec
CONSTANTS
  Timer = {t1}
  Schedule <- MCSchedule
  Late = 2
  Places = 1
  Horizon = 5
  MaxManual = 1
  MaxEdits = 2
  MaxStops = 1
  MaxDown = 1
INVARIANTS NoBackfill NoOverlap
PROPERTIES EveryOccurrenceSettled
CHECK_DEADLOCK FALSE
