CONSTANTS
  RecoveryEnabled = TRUE
  Frames = {}
  Backlog = 1
  IdMod = 3
  UpCap = 2
  DownCap = 2
  MaxTap = 0
  MaxRadio = 2
  MaxSessions = 2
  MaxFaults = 1
  Prompt = FALSE
SPECIFICATION Spec
INVARIANTS RxLossPerSession LossInv
CHECK_DEADLOCK FALSE
