SPECIFICATION FairSpec
CONSTANTS
  Order <- MCTwo
  Adaptive = "ORB"
  Modes = {"simulated", "external"}
  RiskChoices = {1, 3}
  Outcomes <- MCOutcomes
  RiskPerTrade = 2
  SingleContractCap = 3
  MaxContracts = 2
  MaxOpenRisk = 4
  MaxConcurrent = 2
  MaxDailyTrades = 2
  MaxDailyLoss = 2
INVARIANTS
  TypeOK
  BooksAgree
  ExposureWithinLimits
  RiskCoversExposure
  PendingEntryIsAuthorized
PROPERTIES
  EntryBarIsNotManaged
  OrdersSettle
CHECK_DEADLOCK FALSE
