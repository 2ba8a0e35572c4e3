SPECIFICATION FairSpec
CONSTANTS
  o1 = o1
  o2 = o2
  o3 = o3
  Orders = {o1, o2, o3}
  MarketOrders = {o1}
  BrokerKinds = {"none", "simulated", "network"}
  StartModes = {"PAPER", "LIVE", "STANDBY", "WARMUP"}
  MaxPending = 1
  MaxDaily = 1
  None = None
INVARIANTS
  TypeOK
  PaperBooksAgree
  AcceptedIsTracked
  OverrunIsBounded
PROPERTIES
  TerminalSticks
  PaperOrdersResolve
CHECK_DEADLOCK FALSE
CONSTRAINT ThirdAfterOverlap
