SPECIFICATION FairSpec
CONSTANTS
  s1 = s1
  MaxRuns = 1
  Sessions <- OneSession
  MaxQueued = 2
  MaxChain = 2
  MaxFaults = 1
  MaxCrashes = 1
  MaxUpdates = 1
  Plans = TRUE
PROPERTIES HandoverKeepsQueue AcceptedEnds
CHECK_DEADLOCK FALSE
