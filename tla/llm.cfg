SPECIFICATION Spec
CONSTANTS
  Caller = {c1, c2}
  Endpoints = 2
  Models = 2
  MaxRetries = 2
  Slots = 1
  PerMinute = 2
  Size = 1
  MaxCalls = 3
INVARIANTS
  TypeOK
  CoolsAfterFailures
PROPERTIES
  FailsLast
  CallsReturn
CHECK_DEADLOCK FALSE
