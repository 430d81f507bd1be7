SPECIFICATION BootSpec
CONSTANTS
  Keys <- FewKeys
  Broken = {"wrong"}
  Templates <- SomeTemplates
  MaxBoots = 3
INVARIANTS
  BootTypeOK
  ReceivedInOrder
  ReceivedInOneBoot
  ContinuesWhenSent
PROPERTIES
  ImplementsStep
  BootStepEnds
CHECK_DEADLOCK FALSE
