SPECIFICATION Spec
CONSTANTS
  c1 = c1
  a2 = a2
  none = none
  Alerts <- MCAlerts
  Conditions <- MCConditions
  NoAlert = none
  AlertOf <- MCAlertOf
  MaxIncidents = 2
  MaxLevel = 1
  MaxReadings = 1
  MaxEvents = 0
  MaxChanges = 0
  MaxAnswers = 0
INVARIANTS
  AdvancesAfterJournalling
CHECK_DEADLOCK FALSE
