SPECIFICATION Spec
CONSTANTS
  Horizon = 2
  Tracks <- MCTracks
  HalfStep = 1
  Poses <- MCPoses
  Timeout = 1
  Tolerance = 1
  TranslationLimit = 2
  YawLimit = 1
  MinimumSamples = 2
  Stall = 1
  MaxPublished = 3
  MaxQueued = 2
  MaxOdd = 1
INVARIANTS TypeOK PassedIsSmooth PassedWasWatched
CHECK_DEADLOCK FALSE
