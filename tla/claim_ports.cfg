SPECIFICATION ConfigSpec
CONSTANT
  Templates <- OnePortTemplates
INVARIANT
  PortsAsMessagesSay
CHECK_DEADLOCK FALSE
