SPECIFICATION Spec
CONSTANTS
  Preloads = {TRUE, FALSE}
  StoredModes = {"unset","full","error"}
  Sampled = {"off", "full", "error"}
  Entitlements = {TRUE, FALSE}
  Inputs = {"record", "pause", "error", "hide", "reset", "tabs", "fail"}
  Outcomes = {"accepted","retry","lost"}
  Large = {3}
  Huge = {6}
  MaxNodes = 6
  MaxQueue = 4
  MaxWaiting = 2
  MaxInFlight = 1
INVARIANTS Playable ReportedWithReason ModesAgree
PROPERTIES AbortStands PauseStands KeptUntilSent
CHECK_DEADLOCK FALSE
