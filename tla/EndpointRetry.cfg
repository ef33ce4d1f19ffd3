CONSTANTS
  RecoveryEnabled = TRUE
  MaxStalls = 2
  MaxErrors = 3
  MaxMismatches = 1
  MaxRecoveries = 2
SPECIFICATION FairRetry
INVARIANTS AwaitsOpenSockets RetriesExact ErrorsBounded
PROPERTIES ErrorMeansAllFailed CallsEnd CancelEnds
CHECK_DEADLOCK FALSE
