SPECIFICATION Spec
CONSTANTS
  p1 = p1
  p2 = p2
  p3 = p3
  n1 = n1
  n2 = n2
  n3 = n3
  Nobody = Nobody
  Procs <- ThreeProcs
  Pids <- ThreePids
  Strict <- OneStrict
  MaxAttempts = 2
INVARIANT ExhaustedMeansContended
PROPERTY LeaseSpec
CHECK_DEADLOCK FALSE
