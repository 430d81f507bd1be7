SPECIFICATION BuildSpec
CONSTANTS
  ExitCodes <- MCExitCodes
  MaxBoots = 2
  Configs <- WaitBuild
  MaxBusy = 4
INVARIANT
  ArtifactOfCleanExit
CHECK_DEADLOCK FALSE
