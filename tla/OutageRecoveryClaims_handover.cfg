SPECIFICATION LongOutages
CONSTANTS
  Minutes = 4
  Closed <- MCClosed
  Reach = 2
  Pace = 2
  MaxDelay = 2
  MaxOutages = 2
  MaxTroubles = 1
  MaxRestarts = 1
INVARIANT DiscoveryTakesOver
CHECK_DEADLOCK FALSE
