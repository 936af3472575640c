SPECIFICATION FairBehaviour
CONSTANTS
  Tick = tick
  Clients = {c1}
  Slots = {t1, t2}
  None = none
  Interval = 1
  MaxDelay = 0
  MaxEdits = 2
  MaxFaults = 1
INVARIANTS ClosedAfterEnd OverlapExplained
PROPERTIES CatchUpOnce GoesOnRunning
CHECK_DEADLOCK FALSE
