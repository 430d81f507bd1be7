SPECIFICATION ConfigSpec
CONSTANT
  Templates <- MCTemplates
INVARIANTS
  ConfigTypeOK
  AcceptedPortRanges
  AcceptedIsSettled
  CPUsFitTopology
CHECK_DEADLOCK FALSE
