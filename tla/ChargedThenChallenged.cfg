CONSTANTS
  r1 = r1
  m1 = m1
  t1 = t1
  Requests = {r1}
  ManagerCalls = {m1, t1}
  TopUps = {t1}
  ManualAmount = 1
  ManagerLimit = 2
  Price = 1
  MaxDeposit = 3
  Suggested = 2
  TopUpAmount = 0
  MaxChannels = 2
  MaxFaults = 1
  MaxRetries = 2
SPECIFICATION Clients
CHECK_DEADLOCK FALSE
INVARIANT ChargedStaysServed
