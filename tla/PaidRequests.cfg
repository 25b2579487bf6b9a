CONSTANTS
  Attempts = {w1, w2, w3}
  Payments = {p1, p2, p3}
  c1 = c1
  c2 = c2
  Challenges = {c1, c2}
  Callers = {k1, k2}
  MaxRetries = 2
  Window = 1
  Rails = {"pull", "hosted", "proof", "evm", "stripe"}
  Envelopes = {e1}
  Expires <- StaggeredExpiry
  MinValidity = 1
  Grace = 1
  ProofGrace = 1
  CacheGrace = 1
  CacheLimit = 1
  MaxLag = 1
  ChainLag = 1
  MaxTime = 4
  StripeLimits = FALSE
SPECIFICATION Spec
SYMMETRY Interchangeable
\* Calls, attempts, payments and the clock are bounded.
CHECK_DEADLOCK FALSE
INVARIANTS
  PaidOncePerCall
  SomeoneKnows
