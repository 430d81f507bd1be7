SPECIFICATION BuildSpec
CONSTANTS
  ExitCodes <- MCExitCodes
  MaxBoots = 2
  Configs <- StopBuild
  MaxBusy = 4
PROPERTY
  StopKillsTheVM
CHECK_DEADLOCK FALSE
