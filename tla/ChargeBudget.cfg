CONSTANTS
  t1 = t1
  t2 = t2
  t3 = t3
  a1 = a1
  a2 = a2
  a3 = a3
  Txs <- TwoTxs
  Attempts = {a1, a2, a3}
  Fee <- UnequalFees
  ValidBefore <- Validity
  Expires <- Validity
  PayerOf <- EachOwn
  ChallengeOf <- EachOwn
  Grace = 1
  Lease = 1
  MinValidity = 1
  ChainLag = 1
  MaxReservations = 2
  MaxTotalFee = 2
  MaxTime = 4
  Overlap = TRUE
  StoreErrors = FALSE
SPECIFICATION RetrySpec
SYMMETRY AttemptSymmetry
\* The clock ends at MaxTime and every attempt ends.
CHECK_DEADLOCK FALSE
INVARIANTS
  PaidOnce
  ExposureCapped
