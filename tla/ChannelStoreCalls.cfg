CONSTANTS
  charge1 = charge1
  charge2 = charge2
  credit1 = credit1
  credit2 = credit2
  voucher = voucher
  open1 = open1
  open2 = open2
  close = close
  p1 = p1
  p2 = p2
  Keys = {Channel, p1, p2}
  Processes = {p1, p2}
  Channel = Channel
  Calls = {charge1, charge2, credit1, credit2, voucher, close, open1, open2}
  Senders = {open1, open2}
  Batches <- Retries
  HomeOf <- Homes
  Absent = Absent
  NoRecord = Absent
  Forever = Forever
  NoKey = NoKey
  Change <- KeyedChange
  OperationOf <- Operations
  FirstRecords <- Found
  Backends <- Stores
  Capacity = 2
  Retention = 1
  MaxMarkers = 2
  MaxTime = 1
  MaxFaults = 1
SPECIFICATION FairStoreSpec
\* Every call ends.
CHECK_DEADLOCK FALSE
INVARIANTS
  AppliedOncePerKey
  AnswersAreTrue
PROPERTIES
  UpdatesAreAtomic
  EveryCallEnds
