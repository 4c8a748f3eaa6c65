CONSTANTS
  Handler = {h1, h2}
  Workers = 2
  Price = {14, 20, 24}
  Amount = {0, 1}
  Liquidity = {0, 1, 4}
  WhaleTiers = {10, 30, 50}
  TakeProfit = 25
  StopLoss = 30
  Retracement = 15
  MinLiquidity = 2
  MaxDrop = 50
SYMMETRY MCSymmetry
SPECIFICATION Spec
INVARIANTS
  TypeOK
  EntryWithinRange
  LossHeldOnlyIfMoved
  StuckOnlyIfOvertaken
PROPERTY RangeLeftIsSold
CHECK_DEADLOCK FALSE
