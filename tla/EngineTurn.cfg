SPECIFICATION FairSpec
CONSTANTS
  MaxIterations = 3
  MaxToolCalls = 4
  ConcurrencyLimit = 2
  MaxBatch = 3
INVARIANTS RequestsPaired StopStartsNoMore OutcomeAccounts
PROPERTIES StopEnds KeepsContract
CHECK_DEADLOCK FALSE
