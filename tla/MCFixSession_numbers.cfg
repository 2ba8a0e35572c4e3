SPECIFICATION Spec
CONSTANTS
  MaxSockets = 1
  MaxAttempts = 1
  MaxSends = 3
INVARIANT NumbersUnique
CHECK_DEADLOCK FALSE
