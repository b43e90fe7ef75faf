SPECIFICATION FairSpec
CONSTANTS
  Minutes = 4
  Closed <- MCClosed
  Reach = 2
  Pace = 2
  MaxDelay = 2
  MaxOutages = 2
  MaxTroubles = 1
  MaxRestarts = 1
INVARIANTS
  TypeOK
  BackfillLeavesNoHole
PROPERTIES
  OutageEnds
  DeliveryResumes
  LostLinkIsNoticed
CHECK_DEADLOCK FALSE
