SPECIFICATION FairSpec
CONSTANTS
  Items = {i1, i2}
  QueueLimit = 1
  MaxSegs = 2
  MaxRev = 1
  MaxCrashes = 1
  MaxFaults = 2
  MaxAppends = 0
INVARIANTS ExecutedOnce PromotionOwned CompletedRan NoStrandedRun StopDelivered
PROPERTIES YieldEnds HandlersRefuse
CHECK_DEADLOCK FALSE
