SPECIFICATION Spec
CONSTANTS
  Rounds = 1
  Task <- MCTask
  Plans <- MCPlans
  Targets <- MCTargets
  Remedies <- MCRemedies
  MaxRetries = 1
  MaxIterations = 1
  DefaultMax = 2
  IterationCap = 2
  MaxResumes = 1
PROPERTY OnlyReviewVerifies
CHECK_DEADLOCK FALSE
