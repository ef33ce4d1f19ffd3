CONSTANTS
  RecoveryEnabled = FALSE
  Retries = 2
  Devices = {esp1, esp2}
  MaxPlugs = 2
  MaxFaults = 2
SPECIFICATION FairSpec
INVARIANTS SeenHasInterface
PROPERTIES RouteFollowsDevice RouteUsedUnlessLost CancelReturns ImplementsTransport
CHECK_DEADLOCK FALSE
