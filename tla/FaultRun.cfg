SPECIFICATION FairSpec
CONSTANTS
  Matrices <- MCMatrices
  NoSample = NoSample
  FixtureTick = 4
  StartupTicks = 1
  Baseline = 800
  FaultOffset = 8
  RecoveryDelay = 32
  LossDelay = 56
  Deadline = 80
  MaxGap = 40
  MaxTranslation = 1
  RecoverySamples = 2
  CheckPeriod = 8
  CheckLag = 4
  MaxLosses = 1
INVARIANTS TypeOK PassedIsTrue GoodRunsPass
PROPERTY MatrixReports
CHECK_DEADLOCK FALSE
