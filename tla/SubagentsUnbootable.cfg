SPECIFICATION FairSpec
CONSTANTS
  Kids = {k1}
  MaxFaults = 0
  MaxCrashes = 1
PROPERTIES Reboots
CHECK_DEADLOCK FALSE
