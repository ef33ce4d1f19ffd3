CONSTANTS
  RecoveryEnabled = TRUE
  Frames = {}
  Backlog = 1
  IdMod = 4
  UpCap = 2
  DownCap = 1
  MaxTap = 2
  MaxRadio = 0
  MaxSessions = 2
  MaxFaults = 0
  Prompt = FALSE
SPECIFICATION Spec
INVARIANTS TypeOK TxOnceInOrder TxInv AckInv ResponseOnItsWay
CHECK_DEADLOCK FALSE
