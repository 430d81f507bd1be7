SPECIFICATION HostFairSpec
CONSTANTS
  b1 = b1
  b2 = b2
  b3 = b3
  x = x
  y = y
  Builds <- Three
  NoBuild = NoBuild
  Names = {x, y}
  Ports = {5900}
  Outsiders = {5900}
  Conf <- SharedAndOwn
  Serial = TRUE
INVARIANTS
  HostTypeOK
  VMUsesItsOwn
  PortHeld
PROPERTIES
  ImplementsOwnership
  OutputIsSafe
  BuildsEnd
CHECK_DEADLOCK FALSE
