SPECIFICATION Spec
CONSTANTS
  Task <- MCTask
  Plans <- MCPlans
  Targets <- MCTargets
  MaxRetries = 1
  MaxWorkers = 2
INVARIANTS
  TypeOK
  BuiltOnCompleted
  DisjointWriters
  AttemptsMatchRetries
  MergedOnce
  WaveLeavesNothingRunning
PROPERTIES
  ComesToRest
  Implements
CHECK_DEADLOCK FALSE
