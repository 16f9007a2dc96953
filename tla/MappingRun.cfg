SPECIFICATION Spec
CONSTANTS
  MaxInterrupts = 2
INVARIANTS
  TypeOK
  PromotedComplete
  SummaryTruthful
  CleanStart
  NothingLeft
PROPERTY
  Terminates
\* The runner and its processes end.
CHECK_DEADLOCK FALSE
