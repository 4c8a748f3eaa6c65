CONSTANTS
  Mint = {m1}
  BuyTask = {b1, b2}
  SellTask = {s1}
  Monitor = {k1, k2}
  None = None
  Entry = "copy"
  CounterLimit = 1
  FullCycle = 1
  MaxLots = 2
  ProcessEndsWithStream = FALSE
SPECIFICATION Spec
SYMMETRY Interchangeable
INVARIANTS
  OnlyUnverifiedBuysEscape
  OneMonitorPerToken
PROPERTIES
  RebuyOnlyThroughHoles
  SweeperDropsNothingHeld
  ImplementsPortfolio
