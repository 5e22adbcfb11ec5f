SPECIFICATION FairSpec
CONSTANTS
  p = p
  Pages <- MCOnePage
  NoPage = NoPage
  NoCall = 0
  MaxIds = 2
  MaxCalls = 3
  Capacity = 1
  Retention = 1
  Skew = 1
  Ahead = 1
  MaxTime = 4
  MaxFaults = 2
INVARIANT GivenUpNeverRan
PROPERTIES OnceSpec CallsAreAnswered
CHECK_DEADLOCK FALSE
