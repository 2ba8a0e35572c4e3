CONSTANTS
  d1 = d1
  d2 = d2
  Names = {sma, ema}
  Categories = {c1, c2}
  Data = {d1, d2}
  HashOf <- MCHashOf
  Length = 3
  Warmups = {0, 1}
  CacheMax = 2
  MaxListed = 2
SPECIFICATION IndicatorsSpec
INVARIANT WarmupIsExact
CHECK_DEADLOCK FALSE
