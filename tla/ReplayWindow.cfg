SPECIFICATION Spec
CONSTANTS
  Preloads = {FALSE}
  StoredModes = {"unset"}
  Sampled = {"error"}
  Entitlements = {TRUE, FALSE}
  Inputs = {"error"}
  Outcomes = {"accepted", "retry", "rejected", "lost"}
  Large = {}
  Huge = {}
  MaxNodes = 6
  MaxQueue = 3
  MaxWaiting = 2
  MaxInFlight = 2
PROPERTY FullModeKeeps
CHECK_DEADLOCK FALSE
