CONSTANTS
  Servers = {s1}
  Supervisors = {v1}
  Nobody = Nobody
  MaxSpend = 2
  Amount = 2
  Interval = 2
  LeaseTime = 2
  Validity = 1
  Skew = 1
  MaxFaults = 2
SPECIFICATION Spec
INVARIANTS
  NoSpendForgotten
  OneMayCapture
PROPERTIES
  DueIsCollected
