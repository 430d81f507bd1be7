SPECIFICATION AddressSpec
CONSTANTS
  a1 = a1
  a2 = a2
  Macs <- TwoMachines
  Ours <- Guest
  Addrs = {a1, a2}
  NoAddr = NoAddr
  Loopback = Loopback
  Hosts = {NoAddr, a2}
  Stale = TRUE
  Deadline = 3
INVARIANTS
  AddressTypeOK
  MacIsRecognized
  ConnectsToItsGuest
  FoundInTime
PROPERTIES
  ImplementsStep
  AddressStepEnds
CHECK_DEADLOCK FALSE
