SPECIFICATION BuildSpec
CONSTANTS
  ExitCodes <- MCExitCodes
  MaxBoots = 2
  Configs <- CommandBuild
  MaxBusy = 4
PROPERTY
  ForcedAfterTimeout
CHECK_DEADLOCK FALSE
