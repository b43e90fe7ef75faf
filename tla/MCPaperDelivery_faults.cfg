SPECIFICATION Spec
CONSTANTS
  Minutes = 5
  ReviewedGaps = {4}
  QueueSize = 1
  ResumeNeedsPrimary = TRUE
  MaxCrashes = 1
  MaxSaveFailures = 1
  MaxEngineFailures = 1
  MaxCorruptions = 1
  MaxStops = 1
INVARIANTS
  CommitsArePrefix
PROPERTIES
  AcknowledgedNeverReprocessed
CHECK_DEADLOCK FALSE
