CONSTANTS
  w1 = w1
  w2 = w2
  Workers = {w1, w2}
  Txs <- MCTxs
  MaxGas = 2
  MaxPrice = 2
  MaxTotalFee = 2
  MaxWindow = 2
  MinValidity = 1
  GasBuffer = 1
  PerDay = 1
  DayLength = 2
  PerPayer = 1
  MaxTransactions = 2
  RollingFee = 3
  Rolling = 4
  MaxTries = 3
  MaxTime = 4
SPECIFICATION Spec
SYMMETRY WorkerSymmetry
\* The clock ends at MaxTime.
CHECK_DEADLOCK FALSE
INVARIANTS
  SignsWithinPolicy
  SponsoredWithinDay
  TopUpsCapped
