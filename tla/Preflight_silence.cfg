SPECIFICATION Spec
CONSTANTS
  Duration = 4
  Grace = 1
  MissingLimit = 2
  MaxGap = 1
  RatePeriod = 2
  DriftWarning = 0
  StepFailure = 2
  Positions <- MCPositions
  MaxOdd = 2
INVARIANTS TopicStaysAlive
CHECK_DEADLOCK FALSE
