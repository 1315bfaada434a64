SPECIFICATION Spec
CONSTANTS
  Threshold = 3
  MaxTrials = 1
  MaxRetries = 2
  Dispatched = {d1}
  Direct = {a1}
  Checker = {h1}
INVARIANTS
  TypeOK
  BreakerConsistent
  TrialsAccounted
PROPERTY
  Recovers
