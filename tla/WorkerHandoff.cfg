SPECIFICATION FairSpec
CONSTANTS
  MaxWorkers = 3
  MaxFaults = 1
  MaxSends = 2
  MaxWebs = 2
INVARIANTS OneQueue NothingLeftBehind SentAgainRunsOnce
PROPERTIES AdoptsSuccessor HandoverIsFollowed
CHECK_DEADLOCK FALSE
