SPECIFICATION Spec
CONSTANTS
  Kids = {k1, k2}
  MaxFaults = 1
  MaxCrashes = 0
SYMMETRY KidSymmetry
INVARIANTS StopHeeded DetachedSpared UnrecordedKeepsLease SuccessDurable
CHECK_DEADLOCK FALSE
