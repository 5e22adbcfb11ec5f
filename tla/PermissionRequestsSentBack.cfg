SPECIFICATION Spec
CONSTANTS
  Requests <- MCRequests
  Kinds <- MCKinds
  MaxRequeue = 1
  MaxRechecks = 1
  MaxEvents = 2
CHECK_DEADLOCK FALSE
INVARIANT SentBackIsHeard
