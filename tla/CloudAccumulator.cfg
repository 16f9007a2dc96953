SPECIFICATION FairSpec
CONSTANTS
  Stamps = {1, 2, 3, 4, 5}
  Capacity = 2
  FrameLimit = 2
  CacheTime = 2
  MaxReceived = 5
CHECK_DEADLOCK FALSE
INVARIANTS
  TypeOK
  AccountingConserved
  BalancedIsTrue
  JoinsLatest
  WaitsAccounted
PROPERTIES
  OutputAdvances
  BatchesDisjoint
  QueueDrains
