SPECIFICATION Spec
CONSTANTS
  Pages <- PageSet
  Flags <- FlagSet
  PveInputs = {"consent", "withdraw", "hide"}
  MaxBodies = 1
  OtherTabs <- TabStates
  TraceInputs = {"error", "reset"}
  MaxStored = 1
  MaxNodes = 2
INVARIANTS OneSessionPerPayload
PROPERTIES EndStands RumIsDecided
CHECK_DEADLOCK FALSE
