SPECIFICATION FairSpec
CONSTANTS
  Policies <- MCPolicies
  Period = 2
  Window = 2
  MaxNow = 4
  MaxConcurrent = 1
  PerHour = 2
  MaxWaiting = 1
  MaxManual = 1
  MaxToggles = 2
  MaxFaults = 1
  MaxStops = 1
INVARIANTS RefusedNeverRuns AskedOnce OnceIsOnce
PROPERTIES OffIsFinal AcceptedSettles
CHECK_DEADLOCK FALSE
