SPECIFICATION MCSpec
CONSTANTS
  Agent = {a, b}
  File = {f, g}
  Directory = {{f}}
  Text = {x, y}
  Op = {o}
  MaxCalls = 2
  There = f
INVARIANTS
  TypeOK
  JournalAgrees
  AppliedOnce
  LocksReleased
PROPERTIES
  NoBlindEdit
SYMMETRY EditsSymmetry
CHECK_DEADLOCK FALSE
