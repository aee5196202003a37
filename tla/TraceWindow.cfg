SPECIFICATION Spec
CONSTANTS
  Pages <- PageSet
  Flags <- FlagSet
  PveInputs = {}
  MaxBodies = 1
  OtherTabs = {}
  TraceInputs = {"error"}
  MaxStored = 3
  MaxNodes = 3
PROPERTY ErrorWindowKept
CHECK_DEADLOCK FALSE
