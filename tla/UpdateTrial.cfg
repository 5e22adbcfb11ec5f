SPECIFICATION FairSpec
CONSTANTS
  MaxVersions = 3
  MaxHelpers = 3
  MaxTrialFaults = 2
INVARIANTS TrialIsHeld BackIsPossible
PROPERTIES OnlyKeptTakesOver InterruptedIsSettled
CHECK_DEADLOCK FALSE
