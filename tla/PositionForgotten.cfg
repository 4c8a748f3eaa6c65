CONSTANTS
  Mint = {m1}
  BuyTask = {b1}
  SellTask = {s1, s2}
  Monitor = {k1}
  None = None
  Entry = "sniper"
  CounterLimit = 1
  FullCycle = 2
  MaxLots = 1
  ProcessEndsWithStream = FALSE
SPECIFICATION FairSpec
PROPERTY SoldTokenForgotten
