CONSTANTS
  RecoveryEnabled = FALSE
  Retries = 3
  Devices = {esp}
  MaxPlugs = 2
  MaxFaults = 0
SPECIFICATION FairSpec
PROPERTY ExchangeFollowsRoute
CHECK_DEADLOCK FALSE
