SPECIFICATION Spec
CONSTANTS
  Minutes = 2
  Cutoff = 0
  ClassifiedGaps = {}
  MinuteTicks = 1
  MinimumAge = 1
  Spacing = 1
  MaxTime = 3
  MaxPolls = 3
  MaxRevisions = 1
  MaxOmissions = 1
  MaxCrashes = 1
INVARIANTS
  TypeOK
  FinalizedIsStable
  JournalTakesEveryOffer
  RestartLosesNothing
PROPERTIES
  ImplementsStream
CHECK_DEADLOCK FALSE
