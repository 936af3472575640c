SPECIFICATION FairSpec
CONSTANTS
  Leases = {l1, l2, l3}
  Roots = {r1}
  Threads = {t1}
  Modes = {"current"}
  Expiries = {TRUE}
  MaxCrashes = 1
  NoLease = NoLease
INVARIANTS
  NoStrandedWaiter
PROPERTIES
  FifoGrants
  
CHECK_DEADLOCK FALSE
