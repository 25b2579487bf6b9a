CONSTANTS
  Attempts = {w1, w2, w3}
  Payments = {p1, p2}
  p1 = p1
  p2 = p2
  c1 = c1
  c2 = c2
  Challenges = {c1, c2}
  Rails = {"pull", "hosted", "proof", "evm", "cache", "stripe"}
  Envelopes = {e1, e2}
  Expires <- StaggeredExpiry
  MinValidity = 1
  Grace = 1
  ProofGrace = 1
  CacheGrace = 1
  CacheLimit = 1
  MaxLag = 1
  ChainLag = 1
  MaxTime = 5
  StripeLimits = FALSE
SPECIFICATION Spec
SYMMETRY Interchangeable
\* Attempts and the clock are bounded.
CHECK_DEADLOCK FALSE
INVARIANTS
  PaymentUsedOnce
  ReceiptMeansPaid
PROPERTIES
  NoSecondPaymentInvited
