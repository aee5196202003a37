SPECIFICATION FairSpec
CONSTANTS
  Tab = {a}
  ExpiresMs = 3
  InactiveMs = 2
  None = None
  Reopens = TRUE
  LoadVisible = {TRUE, FALSE}
  Inputs = {"mode", "consent", "attribute", "reset", "hide"}
  MayClear = TRUE
  Punctual = FALSE
  MaxTime = 8
  MaxSessions = 4
  MaxQueue = 0
PROPERTIES TimersEndOnlyWhenDue ConsentStands OldSessionsEnd
CHECK_DEADLOCK FALSE
