CONSTANTS
  MaxRetries = 3
  MaxPolls = 5
  Amount = 4
  MaxForks = 2
SPECIFICATION FairSpec
INVARIANTS
  OneSaleStands
  SoldMeansExecuted
  RetryInv
PROPERTIES
  StepsRunOut
  ImplementsSaleOrder
  Terminates
