---------------------------- MODULE SponsorPolicy ----------------------------
(* What a fee payer signs at most (_fee_payer.py, fee_payer_policy.py).       *)
EXTENDS Integers

CONSTANTS MaxGas, MaxPrice, MaxTotalFee,  \* the policy of the chain
          MaxWindow,    \* max_validity_window_seconds
          MinValidity,  \* MIN_REMAINING_VALIDITY_SECONDS
          GasBuffer     \* SPONSORED_SIMULATION_GAS_BUFFER

ASSUME PolicyAssumption ==
  /\ MaxGas \in Nat /\ MaxPrice \in Nat /\ MaxTotalFee \in Nat
  /\ MaxWindow \in Nat /\ MinValidity \in Nat /\ GasBuffer \in Nat

Lesser(m, n) == IF m <= n THEN m ELSE n
Greater(m, n) == IF m >= n THEN m ELSE n

TimeLeft(tx, at) == at < tx.valid /\ tx.valid >= at + MinValidity

WithinPolicy(gas, price) == gas <= MaxGas /\ gas * price <= MaxTotalFee

\* Mutant: only gas and price are capped, each for itself.
AcceptsEachCap(tx, at) ==
  /\ TimeLeft(tx, at) /\ tx.valid <= at + MaxWindow
  /\ tx.gas <= MaxGas /\ tx.price <= MaxPrice

\* An envelope that the fee payer co-signs.
EnvelopeAccepted(tx, at) ==
  /\ TimeLeft(tx, at) /\ tx.valid <= at + MaxWindow
  /\ tx.price <= MaxPrice /\ WithinPolicy(tx.gas, tx.price)

\* A sponsored simulation needs more gas than the transaction: the fee payer
\* signs a copy with a buffer, clamped to what its policy allows.
Padded(gas) == Lesser(gas + GasBuffer, MaxGas)
Affordable(gas, price) == IF price > 0 THEN Lesser(gas, MaxTotalFee \div price) ELSE gas
SimulationGas(gas, price) == Greater(Affordable(Padded(gas), price), gas)
=============================================================================
