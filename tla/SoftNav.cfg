SPECIFICATION Spec
CONSTANTS
  a1 = a1
  e1 = e1
  e2 = e2
  Requests <- MCRequests
  Errors <- MCErrors
  Visits <- MCVisits
  MergeWindow = 0
  MaxIxns = 3
  MaxQueued = 2
  MaxTime = 3
INVARIANTS
  TimersAreOfTheCurrent
  ObservedWhileOpen
  StackIsNotLost
  OpenIsTimed

  
CHECK_DEADLOCK FALSE
