SPECIFICATION Spec
CONSTANTS
  s1 = s1
  MaxRuns = 2
  Sessions <- OneSession
  MaxQueued = 2
  MaxChain = 1
  MaxFaults = 1
  MaxCrashes = 1
  MaxUpdates = 0
  Plans = TRUE
INVARIANTS OneTurnPerSession GivenOnce AcceptedIsSaved
PROPERTY CancelledNeverStarts
CHECK_DEADLOCK FALSE
