CONSTANTS
  o1 = o1
  o2 = o2
  Tasks = {t1, t2}
  Orders = {o1, o2}
  MarketOrders = {o1}
  BuyOrders = {o1}
  Held = o1
  RetryAttempts = 2
  MaxPolls = 2
  MaxSubmits = 1
  MaxLogins = 2
  MaxCalls = 2
  MaxFaults = 1
  LimitOrders = {o2}
  Halves <- MCHalves
  OandaCalls = 2
  OandaFaults = 2
  MaxLoops = 2
  CryptoCalls = 3
  Width = 2
  MaxTime = 5
  PageLimit = 2
  Coins = 4
  Names = {b1, b2, b3}
  Contexts = {c1}
  MinSplit = 2
  MaxParts = 2
  SplitEqual = {TRUE, FALSE}
  FixedName = b2
  MaxQuantity = 2
  MaxChanges = 2
SPECIFICATION BrokersSpec
INVARIANTS
  BrokersTypeOK
  RetriesAreBounded
  ReportsAreTrue
  FeedIsServed
  PartsCoverOrder
PROPERTIES
  CheckIsComplete
  AdaptersReturn
CHECK_DEADLOCK FALSE
