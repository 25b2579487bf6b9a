CONSTANTS
  Configs <- MCConfigs
  Routes = {"r1", "r2", "r3"}
  Resource <- MCResource
  Bodies = {"b1", "b2"}
  Prices = {1, 2}
  Lifetime = 1
  MaxTime = 1
  Charges <- MCCharges
  MaxSplits = 2
  Options <- MCOptions
  Fallbacks = {"t1", "t2"}
  GasLimits = {1, 3}
  GasPrices = {1, 2, 3}
  PayerCaps <- MCPayerCaps
  SponsorCaps <- MCSponsorCaps
  Slippage = 1
  MaxBalance = 4
  MaxTransfers = 4
  MaxClock = 2
  Transfers <- MCTransfers
  Expires = 4
  Window = 4
  MinValidity = 3
  MaxWindow = 6
SPECIFICATION PaymentSpec
\* The clock is bounded; a transaction is signed or not, or composed up to a bound.
CHECK_DEADLOCK FALSE
INVARIANTS
  OneStorePerPayment
  SettledAsSigned
  IssuedIsPayable
  NoSharedTransfers
  PaymentsRecognised
  SignedIsAccepted
  FeeCovered
