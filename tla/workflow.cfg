SPECIFICATION Spec
CONSTANTS
  Rounds = 2
  Task <- MCTask
  Plans <- MCPlans
  Targets <- MCTargets
  Remedies <- MCRemedies
  MaxRetries = 0
  MaxIterations = 2
  DefaultMax = 2
  IterationCap = 3
  MaxResumes = 0
INVARIANTS
  FlowTypeOK
  DependenciesComplete
  IterationsBounded
PROPERTIES
  RemedyUnblocks
  GraphEnds
CHECK_DEADLOCK FALSE
