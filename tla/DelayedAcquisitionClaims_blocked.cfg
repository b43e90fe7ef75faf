SPECIFICATION Spec
CONSTANTS
  Minutes = 3
  Cutoff = 1
  ClassifiedGaps = {}
  MinuteTicks = 1
  MinimumAge = 1
  Spacing = 1
  MaxTime = 3
  MaxPolls = 3
  MaxRevisions = 0
  MaxOmissions = 0
  MaxCrashes = 1
INVARIANTS
  GateIsSufficient
CHECK_DEADLOCK FALSE
