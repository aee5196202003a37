SPECIFICATION BridgeSpec
CONSTANTS
  Containers <- MCContainers
  Kinds <- MCKinds
  MayThrow = TRUE
  MaxCalls = 4
INVARIANTS
  AnswersMatchCalls
  EndOfLifeReported
PROPERTIES
  DeregisterEnds
CHECK_DEADLOCK FALSE
