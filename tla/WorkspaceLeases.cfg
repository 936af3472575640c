SPECIFICATION Spec
CONSTANTS
  Leases = {l1, l2}
  Roots = {r1}
  Threads = {t1, t2}
  Modes = {"current", "managed"}
  Expiries = {TRUE, FALSE}
  MaxCrashes = 1
  NoLease = NoLease
SYMMETRY SymmetryAll
INVARIANTS
  TypeOK
  WriterExclusion
  DispatchFenced
  WriteIsolation
PROPERTIES
  ShownWorkKept
CHECK_DEADLOCK FALSE
