CONSTANTS
  Builder = {b1, b2}
  Ttl = 1
  RpcTicks = 1
  Lamports = 1
  Reserves <- MCReserves
  MaxTokens = 2
SYMMETRY MCSymmetry
SPECIFICATION Spec
INVARIANT EnsuresMustSell
