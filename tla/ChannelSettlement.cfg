CONSTANTS
  Openers = {o1}
  Toppers = {t1}
  Readers = {}
  Settlers = {s1, s2}
  Closers = {}
  Supervisors = {v1}
  o1 = o1
  t1 = t1
  s1 = s1
  s2 = s2
  v1 = v1
  OpenDeposit = 1
  MaxDeposit = 2
  MaxAmount = 2
  MaxTime = 4
  MaxStall = 1
  ChainLag = 1
  Grace = 2
  Validity = 1
  Skew = 1
  MaxRetained = 1
  PayerRequests = TRUE
SPECIFICATION Spec
SYMMETRY WorkerSymmetry
\* The clock ends at MaxTime.
CHECK_DEADLOCK FALSE
INVARIANTS
  SettlementFloor
  OneEffectiveSettlement
  VoucherBacked
  RequestRemembered
PROPERTIES
  RecordMonotonic
