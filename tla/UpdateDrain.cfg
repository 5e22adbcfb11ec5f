SPECIFICATION Spec
CONSTANTS
  MaxWraps = 2
  MaxUpdates = 2
  MaxFaults = 1
INVARIANTS CarriedOnOnce AskedOnce OwnerStopIsFinal InterruptedIsCarried
CHECK_DEADLOCK FALSE
