SPECIFICATION FairSpec
CONSTANTS
  MaxSockets = 3
  MaxReconnect = 2
  ConnectErrors = {"ConnectionError", "other"}
  Free = Free
PROPERTY CallsReturn
CHECK_DEADLOCK FALSE
