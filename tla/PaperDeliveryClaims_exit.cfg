SPECIFICATION Spec
CONSTANTS
  Minutes = 2
  ReviewedGaps = {}
  QueueSize = 1
  ResumeNeedsPrimary = FALSE
  MaxCrashes = 0
  MaxSaveFailures = 0
  MaxEngineFailures = 1
  MaxCorruptions = 0
  MaxStops = 0
INVARIANT
  ExitCheckpointIsWhole
CHECK_DEADLOCK FALSE
