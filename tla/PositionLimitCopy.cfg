CONSTANTS
  Mint = {m1, m2}
  BuyTask = {b1, b2}
  SellTask = {}
  Monitor = {k1, k2}
  None = None
  Entry = "copy"
  CounterLimit = 1
  FullCycle = 1
  MaxLots = 2
  ProcessEndsWithStream = FALSE
SPECIFICATION Spec
SYMMETRY Interchangeable
INVARIANT TrackingWithinLimit
