SPECIFICATION Spec
CONSTANTS
  Task <- MCTask
  Plans <- MCPlans
  Targets <- MCTargets
  MaxRetries = 1
  MaxWorkers = 2
PROPERTY VerdictIsOwn
CHECK_DEADLOCK FALSE
