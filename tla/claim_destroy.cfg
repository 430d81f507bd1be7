SPECIFICATION BuildSpec
CONSTANTS
  ExitCodes <- MCExitCodes
  MaxBoots = 2
  Configs <- WaitBuild
  MaxBusy = 4
PROPERTY
  CleanupStopsTheVM
CHECK_DEADLOCK FALSE
