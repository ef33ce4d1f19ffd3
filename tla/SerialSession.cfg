CONSTANTS
  RecoveryEnabled = TRUE
  Retries = 3
  Budget = 2
  Direction = "rx"
  MaxUnplugs = 1
  MaxFaults = 1
SPECIFICATION FairSpec
INVARIANTS SessionsCostLosses OneExchangeTask EndedSessionsDetached BudgetSpentBeforeReplacement
PROPERTIES CancelReturns SessionResumes TasksEnd DropsForceReplacement ImplementsTransport
CHECK_DEADLOCK FALSE
