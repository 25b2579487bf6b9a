----------------------------- MODULE KeyedChannel -----------------------------
(* ChannelStore with the callbacks of KeyedAccounting: the charges, credits,   *)
(* vouchers and closes that the requests of one channel make, with their       *)
(* retries under the same key (deduct_from_channel and credit_channel of       *)
(* session/server/_store.py).                                                  *)
EXTENDS ChannelStore, KeyedAccounting

CONSTANTS OperationOf  \* what each call does: [kind, key, amount]

\* Credits have a key, charges may have one, and the other updates have none.
Operation(o) ==
  /\ o.kind \in {"charge", "credit", "voucher", "open", "close"} /\ o.amount \in Nat
  /\ o.kind = "credit" => o.key # NoKey
  /\ o.key # NoKey => o.kind \in {"charge", "credit"}

KeyedRecord ==
  [highest : Int, spent : Int, settled : Int, closing : BOOLEAN,
   markers : SUBSET [kind : {"charge", "credit"}, key : {OperationOf[c].key : c \in Calls},
                     amount : Nat, until : Int,
                     outcome : {"charged", "credited", "closing", "exceedsSpent", "belowSettled"}]]

\* The calls find no record, or one without markers of keys of theirs.
ASSUME KeyedAssumption ==
  /\ \A c \in Calls : Operation(OperationOf[c])
  /\ NoRecord = Absent /\ NoRecord \notin KeyedRecord /\ Forever \notin Nat
  /\ \A r \in FirstRecords : r # NoRecord => r \in KeyedRecord /\ r.markers = {}

KeyedChange(c, now, r) ==
  LET operation == OperationOf[c] IN
  CASE operation.kind = "charge" /\ operation.key = NoKey -> PlanCharge(r, operation.amount)
    [] operation.kind = "charge" /\ operation.key # NoKey ->
         PlanKeyedCharge(r, operation.amount, operation.key, now)
    [] operation.kind = "credit" -> PlanCredit(r, operation.amount, operation.key, now)
    [] operation.kind = "voucher" -> PlanVoucher(r, operation.amount)
    [] operation.kind = "open" -> PlanOpen(r, operation.amount)
    [] operation.kind = "close" -> PlanClose(r)

Applied(c) == took[c] # Forever

SameKey(c, d) ==
  /\ OperationOf[c].key # NoKey
  /\ OperationOf[c].key = OperationOf[d].key /\ OperationOf[c].kind = OperationOf[d].kind

-----------------------------------------------------------------------------
(* Properties.                                                                 *)

\* A charge or credit that is retried under its key, because its outcome got
\* lost or its process stopped, moves the spend once: another call of the key
\* can apply only after the marker of the first has expired.
AppliedOncePerKey ==
  \A c, d \in Calls : c # d /\ SameKey(c, d) /\ Applied(c) /\ Applied(d) =>
    \/ took[d] >= began[c] + Retention
    \/ took[c] >= began[d] + Retention

\* What a caller is told is what the stored record went through, however often
\* its callback ran: a charge that is reported took effect, one that is refused
\* did not, and one reported as a replay is that of another call of its key.
AnswersAreTrue ==
  \A c \in Calls : pc[c] = "done" =>
    /\ answer[c] \in {"charged", "accepted", "opened", "credited", "declined"} => Applied(c)
    /\ answer[c] \in {"refused", "conflict", "capacity", "notFound"} => ~Applied(c)
    /\ answer[c] \in {"chargedBefore", "creditedBefore", "declinedBefore"} =>
         \E d \in Calls \ {c} : SameKey(c, d) /\ Applied(d)

\* Every call ends: a swap is lost only to one that took effect, and a lock is
\* released by whoever ends.
EveryCallEnds == <>(\A c \in Calls : pc[c] \in Ended)
===============================================================================
