SPECIFICATION Spec
CONSTANTS
  c1 = c1
  c2 = c2
  c3 = c3
  Callers = {c1, c2, c3}
  FailureThreshold = 2
  ResetThreshold = 2
  HalfOpenMaxCalls = 1
  MaxAttempts = 2
  FailureBound = 3
  CountBound = 3
SYMMETRY CallerSymmetry
INVARIANT ProbeLimit
