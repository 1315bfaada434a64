SPECIFICATION Spec
CONSTANTS
  File <- MCFile
  Listed <- MCListed
  Text = {x, y}
  Tx = {t}
  MaxIteration = 1
  MaxSession = 2
  MaxEvents = 3
INVARIANTS
  TypeOK
  RollbackExact
  IterationUndone
SYMMETRY CheckpointsSymmetry
CHECK_DEADLOCK FALSE
