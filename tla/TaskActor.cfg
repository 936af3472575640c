SPECIFICATION Spec
CONSTANTS
  Items = {i1, i2}
  QueueLimit = 2
  MaxSegs = 2
  MaxRev = 2
  MaxCrashes = 1
  MaxFaults = 1
  MaxAppends = 1
SYMMETRY ItemSymmetry
INVARIANTS TypeOK OneForegroundSegment
PROPERTIES QueueItemsFinal
CHECK_DEADLOCK FALSE
