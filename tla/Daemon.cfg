CONSTANTS
  MaxCount = 2
SPECIFICATION FairDaemon
INVARIANTS ExitCleansUp HonestExit ExitReportsCounters
PROPERTIES ShutdownCompletes
CHECK_DEADLOCK FALSE
