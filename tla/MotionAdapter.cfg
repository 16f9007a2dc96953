SPECIFICATION FairSpec
CONSTANTS
  Twists <- MCTwists
  NonFinite = NonFinite
  MaxForward = 12
  MaxReverse = 8
  MaxLateral = 6
  MaxYaw = 8
  LinearAcceleration = 1
  YawAcceleration = 1
  Timeout = 5
  FirstElapsed = 20
  WatchdogPeriod = 1
  WatchdogLag = 1
  QueueDepth = 1
  MaxAge = 20
INVARIANTS
  TypeOK
  StopDeadline
PROPERTIES
  SmoothMoves
  ImplementsSafeMotion
  SilenceStops
