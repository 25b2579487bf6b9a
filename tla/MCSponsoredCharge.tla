--------------------------- MODULE MCSponsoredCharge ---------------------------
(* Instances of SponsoredCharge: two transactions of two payers, or three of one *)
(* payer, of which two answer one challenge.                                    *)
EXTENDS SponsoredCharge, TLC

CONSTANTS t1, t2, t3

TwoTxs == {t1, t2}
ThreeTxs == {t1, t2, t3}

UnitFees == [t \in Txs |-> 1]
UnequalFees == [t \in Txs |-> IF t = t1 THEN 1 ELSE 2]

\* t2 outlives t1.
Validity == [t \in Txs |-> IF t = t1 THEN 3 ELSE 4]

OneExpiry == [t \in Txs |-> 3]

EachOwn == [t \in Txs |-> t]
AllOne == [t \in Txs |-> t1]
OneOrTwo == [t \in Txs |-> IF t = t3 THEN t3 ELSE t1]

\* A bound: t1 is presented and retried; one attempt presents another transaction.
RetryInit == Init /\ Cardinality({w \in Attempts : att[w].tx = t1}) = Cardinality(Attempts) - 1
RetrySpec == RetryInit /\ [][Next]_vars

AttemptSymmetry == Permutations(Attempts)
=============================================================================
