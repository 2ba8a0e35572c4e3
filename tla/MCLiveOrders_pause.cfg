SPECIFICATION Spec
CONSTANTS
  o1 = o1
  o2 = o2
  o3 = o3
  Orders = {o1, o2}
  MarketOrders = {o1}
  BrokerKinds = {"simulated", "network"}
  StartModes = {"LIVE"}
  MaxPending = 2
  MaxDaily = 2
  None = None
PROPERTY PauseTakesNoOrders
CHECK_DEADLOCK FALSE
