CONSTANTS
  Stamps = {0, 1, 3, 6, 7, 13}
  Poses <- MCPoses
  NoSample = NoSample
  MaxGap = 5
  MaxTranslation = 1
  MaxYaw = 1
  Turn = 8
  RecoverySamples = 2
  CheckPeriod = 1
  CheckLag = 1

SPECIFICATION Spec
INVARIANT LossRestartsRecovery
