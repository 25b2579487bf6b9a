CONSTANTS
  Openers = {o1}
  Toppers = {}
  Readers = {r1}
  Settlers = {s1}
  Closers = {c1, c2}
  Supervisors = {}
  o1 = o1
  r1 = r1
  s1 = s1
  c1 = c1
  c2 = c2
  OpenDeposit = 1
  MaxDeposit = 2
  MaxAmount = 1
  MaxTime = 4
  MaxStall = 1
  ChainLag = 1
  Grace = 2
  Validity = 1
  Skew = 1
  MaxRetained = 1
  PayerRequests = TRUE
SPECIFICATION Spec
SYMMETRY WorkerSymmetry
\* The clock ends at MaxTime.
CHECK_DEADLOCK FALSE
INVARIANTS
  CloseCapturesSpend
  SettledWasPaid
