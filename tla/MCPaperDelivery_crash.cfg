SPECIFICATION FairSpec
CONSTANTS
  Minutes = 2
  ReviewedGaps = {}
  QueueSize = 1
  ResumeNeedsPrimary = FALSE
  MaxCrashes = 2
  MaxSaveFailures = 1
  MaxEngineFailures = 0
  MaxCorruptions = 0
  MaxStops = 1
INVARIANTS
  TypeOK
  AcksCovered
  ExactlyOnce
  StreamContiguous
PROPERTIES
  FrontierNeverRegresses
  ImplementsExactlyOnce
  EveryMinuteCommits
CHECK_DEADLOCK FALSE
