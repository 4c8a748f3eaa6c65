CONSTANTS
  Mint = {m1}
  Handler = {h1}
  PriceTask = {k1}
  None = None
  CounterLimit = 1
  HostHoldsConfig = TRUE
SPECIFICATION FairSpec
PROPERTY OldFocusAlwaysRemoved
CHECK_DEADLOCK FALSE
