CONSTANTS
  RecoveryEnabled = TRUE
  Retries = 3
  Budget = 0
  Direction = "any"
  MaxUnplugs = 0
  MaxFaults = 0
SPECIFICATION FairSpec
INVARIANT ShutsDownCleanly
CHECK_DEADLOCK FALSE
