SPECIFICATION Spec
CONSTANTS
  s1 = s1
  MaxRuns = 2
  Sessions <- OneSession
  MaxQueued = 2
  MaxChain = 1
  MaxFaults = 1
  MaxCrashes = 0
  MaxUpdates = 0
  Plans = FALSE
INVARIANTS NothingResent
CHECK_DEADLOCK FALSE
