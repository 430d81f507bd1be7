SPECIFICATION BuildSpec
CONSTANTS
  ExitCodes <- MCExitCodes
  MaxBoots = 2
  Configs <- StopBuild
  MaxBusy = 4
INVARIANT
  DownBeforeSnapshot
CHECK_DEADLOCK FALSE
