CONSTANTS
  Mint = {m1, m2}
  BuyTask = {b1}
  SellTask = {s1}
  Monitor = {k1}
  None = None
  Entry = "sniper"
  CounterLimit = 1
  FullCycle = 1
  MaxLots = 1
  ProcessEndsWithStream = TRUE
SPECIFICATION Spec
SYMMETRY Interchangeable
INVARIANTS
  PositionInv
  TrackedIsMonitoredAndListed
PROPERTIES
  StopLeavesNoPosition
  ImplementsPortfolio
CHECK_DEADLOCK FALSE
