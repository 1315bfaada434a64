SPECIFICATION Spec
CONSTANTS
  Worker = {w1, w2, w3}
  Direct = {w1}
  Rerun = {w1}
  Region = {r1, r2}
  Original = original
  File <- MCFile
  Existing <- MCExisting
SYMMETRY MCSymmetry
INVARIANTS
  NoLostEdit
PROPERTY
  OverlapSeen
CHECK_DEADLOCK FALSE
