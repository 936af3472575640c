SPECIFICATION Spec
CONSTANTS
  Ids = {i1, i2}
  Tasks = {t1, t2}
  Keys = {k1, k2}
  Bodies = {b1}
  NoRow = none
  BatchMax = 2
  MaxEvents = 2
SYMMETRY InboxSymmetry
INVARIANTS AppliedAsSeen
PROPERTIES DecidedOnce
CHECK_DEADLOCK FALSE
