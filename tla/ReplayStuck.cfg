SPECIFICATION Spec
CONSTANTS
  Preloads = {FALSE}
  StoredModes = {"unset"}
  Sampled = {"off", "full", "error"}
  Entitlements = {TRUE, FALSE}
  Inputs = {}
  Outcomes = {"accepted", "retry", "rejected", "lost"}
  Large = {3}
  Huge = {5}
  MaxNodes = 5
  MaxQueue = 3
  MaxWaiting = 2
  MaxInFlight = 2
INVARIANT RetryCanEnd
CHECK_DEADLOCK FALSE
