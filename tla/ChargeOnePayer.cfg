CONSTANTS
  t1 = t1
  t2 = t2
  t3 = t3
  a1 = a1
  a2 = a2
  a3 = a3
  Txs <- ThreeTxs
  Attempts = {a1, a2, a3}
  Fee <- UnitFees
  ValidBefore <- Validity
  Expires <- OneExpiry
  PayerOf <- AllOne
  ChallengeOf <- OneOrTwo
  Grace = 1
  Lease = 1
  MinValidity = 1
  ChainLag = 1
  MaxReservations = 2
  MaxTotalFee = 2
  MaxTime = 4
  Overlap = FALSE
  StoreErrors = TRUE
SPECIFICATION RetrySpec
SYMMETRY AttemptSymmetry
\* The clock ends at MaxTime and every attempt ends.
CHECK_DEADLOCK FALSE
INVARIANTS
  OnePendingPerPayer
  OnePaymentPerChallenge
PROPERTIES
  RefusalsAreSafe
