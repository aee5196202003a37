SPECIFICATION FairSpec
CONSTANTS
  Group = {"jserrors", "soft_navigations", "session"}
  Feature = {"jserrors", "soft_navigations"}
  AutoStart = {"jserrors"}
  Priority <- MCPriority
  CascadeTo <- BothCascadeTo
  None = None
  MayFail = {"soft_navigations"}
  MaxEvents = 3
INVARIANTS HandledInOrder ListenersMissNothing
PROPERTIES ReplayWaitsForAll EventuallyHandled
CHECK_DEADLOCK FALSE
