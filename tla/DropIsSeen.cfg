CONSTANTS
  LAMPORTS = 1000
  U64MAX = 8191
  WSOL = WSOL
  DefaultMint = DefaultMint
  Token = Token
  Other = Other
  OtherAt = {3}
  Kind = {"pumpfun"}
  Curve <- MCCurve
  Depth = {1, 2}
  Balances <- MCBalances
  StopLoss = 30
  HistoryCap = 3
  MaxSlot = 3
SPECIFICATION Spec
INVARIANT DropIsSeen
