SPECIFICATION FairSpec
CONSTANTS
  Kids = {k1}
  MaxFaults = 1
  MaxCrashes = 1
PROPERTIES TerminalFinal CancelledStops EndedReleases
CHECK_DEADLOCK FALSE
