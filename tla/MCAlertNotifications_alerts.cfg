SPECIFICATION FairSpec
CONSTANTS
  c1 = c1
  a2 = a2
  none = none
  Alerts <- MCAlerts
  Conditions <- MCConditions
  NoAlert = none
  AlertOf <- MCAlertOf
  MaxIncidents = 2
  MaxLevel = 1
  MaxReadings = 2
  MaxEvents = 3
  MaxChanges = 2
  MaxAnswers = 1
INVARIANTS
  TypeOK
  IncidentsJournalled
  NothingSkipped
  NewsStartsWithAlert
  RepeatsAreExplained
PROPERTIES
  IncidentsReachOperator
CHECK_DEADLOCK FALSE
