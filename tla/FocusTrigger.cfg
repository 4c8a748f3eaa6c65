CONSTANTS
  Mint = {m1}
  Handler = {h1, h2}
  PriceTask = {k1, k2, k3}
  None = None
  CounterLimit = 1
  HostHoldsConfig = FALSE
SPECIFICATION FairSpec
INVARIANTS
  FocusedIsWatched
  RegisteredIsRunning
  OneTaskPerToken
PROPERTY OldFocusRemoved
CHECK_DEADLOCK FALSE
