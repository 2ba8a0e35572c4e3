CONSTANTS
  s1 = s1
  s2 = s2
  i1 = i1
  i2 = i2
  i3 = i3
  i4 = i4
  k1 = k1
  k2 = k2
  k3 = k3
  n1 = n1
  n2 = n2
  d1 = d1
  d2 = d2
  Producers = {p1, p2}
  Data = {q1, q2, q3}
  MaxQueues = {2, 5}
  High = 80
  Low = 30
  Policies = {"newest", "oldest"}
  SeenMax = 2
  TrimAbove = 1
  MaxPuts = 5
  Symbols = {s1, s2}
  Items = {i1, i2, i3, i4}
  SymbolOf <- MCSymbolOf
  KeyOf <- MCKeyOf
  HashOf <- MCHashOf
  TimeOf <- MCTimeOf
  CacheSize = 2
  CachePolicies = {"LRU", "FIFO", "TTL", "COUNT"}
  Dedup = {TRUE, FALSE}
  WindowTicks = 3
  MaxOps = 5
  Tasks = {t1, t2}
  MaxStarts = 2
  Names = {n1, n2}
  Intervals = {0, 1, 2}
  ClockTime = 2
  Listeners = {x1}
  MaxHandlers = 4
  Requires <- MCRequires
  Mismatched = {}
  MaxObjects = 2
  FillSizes = {1, 2}
  FillPrices = {12, 24}
  BrokerPositions <- MCBrokerPositions
  PriceTolerance = 1
  CriticalDiff = 50
  SyncPolicies = {"auto", "critical", "off"}
  MaxOrders = 3
  OrderSizes = {2, 4}
  MarketPrices = {50, 150}
  Cash = 3000
  Metrics = {m1}
  Values = {0, 1, 2}
  Warning = 1
  CriticalLevel = 2
  AlertCooldown = 2
  Window = 1
  MaxAlerts = 1
  Times = {1, 2, 3, 4, 5}
  Period = 2
  MaxTicks = 4
  CacheKeys = {k1, k2, k3}
  Ttl = 1
  MaxTime = 3
  Capacity = 2
  MaxData = 4
  MaxStreams = 3
  Orders = {o1}
  SameId = {o1}
  MaxAttempts = 2
  MaxFaults = 2
  Categories = {c1, c2}
  Series = {d1, d2}
  SeriesHash <- MCSeriesHash
  Length = 2
  Warmups = {0, 1}
  MaxListed = 2
  First = 2
  Last = 3
  MaxBars = 3
SPECIFICATION PlatformSpec
INVARIANTS
  PlatformTypeOK
  BackpressureAgrees
  AccountsBalance
  StoredDataIsExact
  EngineIsServed
  LiveStateIsTrue
PROPERTIES
  IsLossyChannel
  WaitsEnd
CHECK_DEADLOCK FALSE
