SPECIFICATION FairSpec
CONSTANTS
  MaxSockets = 3
  MaxReconnect = 2
  ConnectErrors = {"ConnectionError", "other"}
  Free = Free
INVARIANTS
  TypeOK
  SocketsAreKnown
PROPERTIES
  RemoveEndsDisconnected
  CallsReturnOrSelfWait
  LossResolves
CHECK_DEADLOCK FALSE
