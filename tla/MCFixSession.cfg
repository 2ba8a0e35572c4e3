SPECIFICATION FairSpec
CONSTANTS
  MaxSockets = 3
  MaxAttempts = 2
  MaxSends = 2
INVARIANTS
  TypeOK
  SessionIsServed
PROPERTIES
  NumbersAscend
  StopEndsAll
  LossIsNoticed
CHECK_DEADLOCK FALSE
