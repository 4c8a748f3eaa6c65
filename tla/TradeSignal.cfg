CONSTANTS
  LAMPORTS = 1000
  U64MAX = 8191
  WSOL = WSOL
  DefaultMint = DefaultMint
  Token = Token
  Other = Other
  OtherAt = {3}
  Kind = {"pumpswap", "reverse", "migration", "pumpfun", "launchpad", "meteora"}
  Curve <- MCCurve
  Depth = {1, 2}
  Balances <- MCBalances
  StopLoss = 30
  HistoryCap = 3
  MaxSlot = 2
SPECIFICATION Spec
INVARIANTS
  TypeOK
  PriceFollowsPool
  LossIsReal
  LossIsMeasured
  SideIsRight
