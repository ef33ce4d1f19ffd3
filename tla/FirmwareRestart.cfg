CONSTANTS
  RecoveryEnabled = TRUE
  Frames = {}
  Backlog = 1
  IdMod = 3
  UpCap = 1
  DownCap = 1
  MaxTap = 2
  MaxRadio = 2
  MaxSessions = 1
  MaxFaults = 0
  Prompt = FALSE
  MaxRestarts = 1
  MaxFrames = 3
SPECIFICATION RSpec
INVARIANTS RestartRepeatsOne AckedIsOnAirUntilWrap RxOnceInOrder
CHECK_DEADLOCK FALSE
