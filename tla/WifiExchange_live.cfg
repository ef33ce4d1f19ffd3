CONSTANTS
  RecoveryEnabled = FALSE
  Frames = {}
  Backlog = 2
  IdMod = 4
  UpCap = 2
  DownCap = 2
  MaxTap = 2
  MaxRadio = 1
  MaxSessions = 1
  MaxFaults = 1
  Prompt = TRUE
SPECIFICATION FairSpec
PROPERTIES FramesGetThrough
