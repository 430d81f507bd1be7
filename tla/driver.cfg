SPECIFICATION FairSpec
CONSTANTS
  ExitCodes <- MCExitCodes
  MaxBoots = 3
INVARIANTS
  TypeOK
  ShutdownIsFinal
  StartErrorMeansNoVM
  ChannelsNeverBlock
  NoStaleHandle
  InstallMediaOnce
PROPERTIES
  ImplementsLifecycle
  StartAlwaysReturns
  MonitorFinishes
CHECK_DEADLOCK FALSE
