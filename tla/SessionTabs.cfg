SPECIFICATION Spec
CONSTANTS
  Tab = {a, b}
  ExpiresMs = 1
  InactiveMs = 1
  None = None
  Reopens = FALSE
  LoadVisible = {TRUE}
  Inputs = {"mode", "reset"}
  MayClear = FALSE
  Punctual = FALSE
  MaxTime = 3
  MaxSessions = 3
  MaxQueue = 2
INVARIANTS OneExpiryPerSession ModeBelongsToSession TabsConverge
SYMMETRY Tabs
CHECK_DEADLOCK FALSE
