SPECIFICATION Spec
CONSTANTS
  Order <- MCTwo
  Adaptive = "ORB"
  Modes = {"simulated"}
  RiskChoices = {1}
  Outcomes = {1}
  RiskPerTrade = 2
  SingleContractCap = 3
  MaxContracts = 2
  MaxOpenRisk = 4
  MaxConcurrent = 2
  MaxDailyTrades = 1
  MaxDailyLoss = 2
INVARIANT DailyTradesWithinLimit
CHECK_DEADLOCK FALSE
