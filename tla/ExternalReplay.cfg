SPECIFICATION Spec
CONSTANTS
  Sources <- MCSources
  MaxAttempts = 2
  ExpectedClouds = 2
  ExpectedOdometry = 4
  Second = 2
  ShortSeconds = 2
  MinimumClouds = 1
  MinimumOdometry = 2
  MaxFaults = 3
INVARIANTS
  TypeOK
  AcceptedTruthful
PROPERTIES
  PromotesWhole
  AcquisitionRecovers
