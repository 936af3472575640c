SPECIFICATION Spec
CONSTANTS
  Kids = {k1}
  MaxFaults = 0
  MaxCrashes = 0
INVARIANTS StopNeverFailsActor
CHECK_DEADLOCK FALSE
