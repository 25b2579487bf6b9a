--------------------------- MODULE KeyedAccounting ----------------------------
(* The callbacks of session/server/_store.py that charge and credit a channel: *)
(* a charge or credit under an idempotency key leaves a marker in the record,  *)
(* and a retry that finds the marker returns its outcome instead of applying   *)
(* again.  Each callback makes a change of the record it is run on.            *)
EXTENDS Integers, FiniteSets

CONSTANTS NoRecord,      \* no record is stored
          NoKey,         \* the charge has no idempotency key
          Retention,     \* how long a marker is kept
          MaxMarkers     \* live credit markers a record may hold

ASSUME AccountingAssumption == Retention \in Nat \ {0} /\ MaxMarkers \in Nat \ {0}

\* closing stands for finalized or close_requested_at # 0; a marker keeps the kind,
\* key and amount of a keyed update, its outcome and when it may be forgotten.
ChargedRecord(highest, spent, settled) ==
  [highest |-> highest, spent |-> spent, settled |-> settled, closing |-> FALSE,
   markers |-> {}]

-----------------------------------------------------------------------------
(* Changes.                                                                    *)

Noop(result) == [noop |-> TRUE, value |-> NoRecord, result |-> result]
Set(value, result) == [noop |-> FALSE, value |-> value, result |-> result]

\* Mutant: expiry is taken before the last moment.
LiveMarkersEarly(r, now) == {m \in r.markers : m.until > now + 1}

\* The markers that still bind a call begun at `now`; others are dropped by
\* the next change.
LiveMarkers(r, now) == {m \in r.markers : m.until > now}

Recorded(r, kind, key, now) ==
  {m \in LiveMarkers(r, now) : m.kind = kind /\ m.key = key}

WithMarker(r, m, now) == [r EXCEPT !.markers = LiveMarkers(r, now) \cup {m}]

-----------------------------------------------------------------------------
(* Charges.                                                                    *)

CanCharge(r, amount) == ~r.closing /\ r.highest - r.spent >= amount

Charged(r, amount) == [r EXCEPT !.spent = @ + amount]

PlanCharge(r, amount) ==
  IF r = NoRecord THEN Noop("notFound")
  ELSE IF CanCharge(r, amount) THEN Set(Charged(r, amount), "charged")
  ELSE Noop("refused")

\* A refused charge records nothing, so that it can be tried again.
PlanKeyedCharge(r, amount, key, now) ==
  IF r = NoRecord THEN Noop("notFound")
  ELSE IF Recorded(r, "charge", key, now) # {}
  THEN Noop(IF \A m \in Recorded(r, "charge", key, now) : m.amount = amount
            THEN "chargedBefore" ELSE "conflict")
  ELSE IF CanCharge(r, amount)
  THEN Set(WithMarker(Charged(r, amount),
                      [kind |-> "charge", key |-> key, amount |-> amount,
                       outcome |-> "charged", until |-> now + Retention], now),
           "charged")
  ELSE Noop("refused")

\* A voucher is accepted and its request charged in one update, or accepted only.
PlanVoucher(r, amount) ==
  IF r = NoRecord THEN Noop("notFound")
  ELSE LET accepted == [r EXCEPT !.highest = @ + amount] IN
       IF CanCharge(accepted, amount) THEN Set(Charged(accepted, amount), "charged")
       ELSE Set(accepted, "accepted")

-----------------------------------------------------------------------------
(* Credits.                                                                    *)

\* What happens to a credit now: applied, or why it is declined.
CreditOutcome(r, amount) ==
  IF r.closing THEN "closing"
  ELSE IF amount > r.spent THEN "exceedsSpent"
  ELSE IF r.spent - amount < r.settled THEN "belowSettled"
  ELSE "credited"

CreditMarkers(r, now) == {m \in LiveMarkers(r, now) : m.kind = "credit"}

\* The first outcome of a credit is final, also when it was declined.
PlanCredit(r, amount, key, now) ==
  IF r = NoRecord THEN Noop("notFound")
  ELSE IF Recorded(r, "credit", key, now) # {}
  THEN LET m == CHOOSE m \in Recorded(r, "credit", key, now) : TRUE IN
       Noop(IF m.amount # amount THEN "conflict"
            ELSE IF m.outcome = "credited" THEN "creditedBefore" ELSE "declinedBefore")
  ELSE IF Cardinality(CreditMarkers(r, now)) >= MaxMarkers THEN Noop("capacity")
  ELSE LET outcome == CreditOutcome(r, amount)
           next == IF outcome = "credited" THEN [r EXCEPT !.spent = @ - amount] ELSE r
           marker == [kind |-> "credit", key |-> key, amount |-> amount,
                      outcome |-> outcome, until |-> now + Retention]
       IN Set(WithMarker(next, marker, now),
              IF outcome = "credited" THEN "credited" ELSE "declined")

\* An open stores the record with its first voucher, or raises the one there.
PlanOpen(r, amount) ==
  IF r = NoRecord THEN Set(ChargedRecord(amount, 0, 0), "opened")
  ELSE IF r.closing THEN Noop("closing")
  ELSE Set([r EXCEPT !.highest = IF amount > @ THEN amount ELSE @], "opened")

\* A close reserves what was spent; no charge or credit follows.
PlanClose(r) ==
  IF r = NoRecord THEN Noop("notFound")
  ELSE IF r.closing THEN Noop("closing")
  ELSE Set([r EXCEPT !.closing = TRUE], "closing")
===============================================================================
