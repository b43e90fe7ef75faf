SPECIFICATION Spec
CONSTANTS
  Supervisors = {s1, s2}
  Workers = {w1, w2, w3}
  None = none
  MaxAttempts = 2
  Cooldown = 2
  Window = 4
  MaxTime = 5
SYMMETRY MCSymmetry
INVARIANTS
  TypeOK
  OneOutstandingLaunch
  OneSupervisedWorker
  LaunchesAreOnRecord
  LaunchesWithinBudget
  VerifiedOwnedTheRun
CHECK_DEADLOCK FALSE
