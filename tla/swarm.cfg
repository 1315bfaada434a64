SPECIFICATION Spec
CONSTANTS
  Agent = {a, b, c}
  Thread = {t, u, v}
  MaxCalls = 4
INVARIANTS
  TypeOK
  KilledStaysDead
  TokensCounted
SYMMETRY SwarmSymmetry
CHECK_DEADLOCK FALSE
