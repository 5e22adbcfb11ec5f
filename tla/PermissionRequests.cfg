SPECIFICATION FairSpec
CONSTANTS
  Requests <- MCRequests
  Kinds <- MCKinds
  MaxRequeue = 1
  MaxRechecks = 1
  MaxEvents = 2
INVARIANT RunsOnce
PROPERTIES LaunchedAsReviewed InTurn DecisionIsFinal ReviewsEnd
CHECK_DEADLOCK FALSE
