SPECIFICATION BuildFairSpec
CONSTANTS
  ExitCodes <- MCExitCodes
  MaxBoots = 2
  Configs <- SomeConfigs
  MaxBusy = 4
INVARIANTS
  BuildTypeOK
  ArtifactIsComplete
  KeysPresent
  VMHasItsResources
  NothingLeaksSilently
  FailedBuildLeavesNoOutput
PROPERTIES
  ImageOfStoppedVM
  BuildEnds
CHECK_DEADLOCK FALSE
