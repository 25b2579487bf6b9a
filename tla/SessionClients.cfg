CONSTANTS
  r1 = r1
  r2 = r2
  r3 = r3
  m1 = m1
  m2 = m2
  t1 = t1
  Requests = {r1, r2, r3}
  ManagerCalls = {m1, m2, t1}
  TopUps = {t1}
  ManualAmount = 1
  ManagerLimit = 2
  Price = 1
  MaxDeposit = 3
  Suggested = 2
  TopUpAmount = 0
  MaxChannels = 2
  MaxFaults = 1
  MaxRetries = 2
SPECIFICATION Clients
SYMMETRY RequestSymmetry
\* Every request and call ends.
CHECK_DEADLOCK FALSE
INVARIANTS
  TransportOneLiveChannel
  TransportDepositBacked
  ManagerKeepsStore
  ChargedOnceByEither
  OneUnknownTopUp
PROPERTIES
  TransportVouchersIncrease
