-------------------------- MODULE ScheduledSettlement -------------------------
(* Settlements that the server schedules (session/server/_schedule.py, and      *)
(* settle and maybe_settle_scheduled of _settlement.py): after a charge, or in  *)
(* a run of the close supervisor, a worker that finds its channel due claims a  *)
(* lease in the record, renews it while it settles, and releases it or marks    *)
(* the settlement complete.  Other workers skip a channel that is claimed.      *)
(*                                                                              *)
(* Times are kept as what is left of them, so that a clock need not be bounded. *)
EXTENDS Integers, FiniteSets

CONSTANTS Servers,      \* workers that charge requests
          Supervisors,  \* workers that run supervise_closes again and again
          Nobody,
          MaxSpend,     \* bound: what the payer signs vouchers for
          Amount,       \* schedule: settle after this much additional spend
          Interval,     \* schedule: settle after this long
          LeaseTime,    \* lease_ms
          Validity,     \* valid_before of a settlement, from its preparation
          Skew,         \* PENDING_CLOSE_CLOCK_SKEW_SECONDS
          MaxFaults     \* bound: failures

Workers == Servers \cup Supervisors

ASSUME ScheduleAssumption ==
  /\ Nobody \notin Workers /\ Servers \cap Supervisors = {}
  /\ IsFiniteSet(Workers)
  /\ {MaxSpend, Amount, Interval, LeaseTime, Validity} \subseteq Nat \ {0}
  /\ Skew \in Nat /\ MaxFaults \in Nat

VARIABLES record,   \* the stored record of the channel
          lease,    \* its scheduled_settlement_lease
          pending,  \* its pending_settlement
          pc,       \* where each worker is
          mine,     \* the settlement each worker reserved: amount and time left
          claims,   \* the number of each worker's last claim, the owner of its lease
          txs,      \* settlements that may still land
          paid,     \* settled on chain
          faults

vars == <<record, lease, pending, pc, mine, claims, txs, paid, faults>>

NoLease == [owner |-> <<Nobody, 0>>, left |-> 0]
NoPending == [amount |-> 0, left |-> 0]

Init ==
  /\ record = [spent |-> 0, settled |-> 0, boundary |-> 0, age |-> 0, closing |-> FALSE]
  /\ lease = NoLease
  /\ pending = NoPending
  /\ pc = [w \in Workers |-> "idle"]
  /\ mine = [w \in Workers |-> NoPending]
  /\ claims = [w \in Workers |-> 0]
  /\ txs = {}
  /\ paid = 0
  /\ faults = 0

GoTo(w, step) == pc' = [pc EXCEPT ![w] = step]

Fails == faults < MaxFaults /\ faults' = faults + 1

Owner(w) == <<w, claims[w]>>

-----------------------------------------------------------------------------
(* resolve_settlement_progress and is_settlement_due.  Each charge comes with   *)
(* its voucher, so that the largest settleable voucher is the spend.            *)

Settleable(r) == r.spent > r.settled

\* From which spend counts: what the last recorded settlement covered, and what
\* settled on chain as long as there is none (last_settlement_spent is None: 0).
CountsFrom(r) == IF r.boundary = 0 THEN r.settled ELSE r.boundary

Progress(r) == r.spent - CountsFrom(r)

\* A close request makes what is outstanding due at once.
IsDue(r) ==
  /\ Settleable(r)
  /\ \/ r.closing
     \/ Progress(r) >= Amount
     \/ r.age >= Interval

-----------------------------------------------------------------------------
(* What makes a worker look.                                                    *)

\* A request is charged to its voucher, then served.
Charge(w) ==
  /\ w \in Servers /\ pc[w] = "idle"
  /\ ~record.closing /\ record.spent < MaxSpend
  /\ record' = [record EXCEPT !.spent = @ + 1]
  /\ GoTo(w, IF IsDue(record') THEN "claim" ELSE "idle")
  /\ UNCHANGED <<lease, pending, mine, claims, txs, paid, faults>>

\* The close request is found on chain and recorded: by a handler, which settles what
\* is due, or by the supervisor, which closes the channel (SessionChannel).
FindRequest(w) ==
  /\ pc[w] = "idle" /\ ~record.closing
  /\ record' = [record EXCEPT !.closing = TRUE, !.settled = paid]
  /\ GoTo(w, IF w \in Servers /\ IsDue(record') THEN "claim" ELSE "idle")
  /\ UNCHANGED <<lease, pending, mine, claims, txs, paid, faults>>

\* The payer cancelled it, or a close of the server expired.
FindCancelled(w) ==
  /\ pc[w] = "idle" /\ record.closing
  /\ record' = [record EXCEPT !.closing = FALSE]
  /\ UNCHANGED <<lease, pending, pc, mine, claims, txs, paid, faults>>

\* A run of the supervisor finds the channel due.  One with a close request it
\* does not settle, but closes.
Supervise(w) ==
  /\ w \in Supervisors /\ pc[w] = "idle"
  /\ ~record.closing /\ IsDue(record)
  /\ GoTo(w, "claim")
  /\ UNCHANGED <<record, lease, pending, mine, claims, txs, paid, faults>>

\* A background read of the escrow is merged into the record.
MergeRead ==
  /\ record.settled < paid
  /\ record' = [record EXCEPT !.settled = paid]
  /\ UNCHANGED <<lease, pending, pc, mine, claims, txs, paid, faults>>

-----------------------------------------------------------------------------
(* The lease.                                                                   *)

\* Mutant: a lease is waited for until its owner releases it.
IsFreeWhenReleased == lease = NoLease

IsFree == lease.left = 0

\* claim_scheduled_settlement: due still, and no unexpired lease.
Claim(w) ==
  /\ pc[w] = "claim"
  /\ IF IsDue(record) /\ IsFree
     THEN /\ claims' = [claims EXCEPT ![w] = 1 - @]
          /\ lease' = [owner |-> <<w, 1 - claims[w]>>, left |-> LeaseTime]
          /\ GoTo(w, "choose")
     ELSE GoTo(w, "idle") /\ UNCHANGED <<claims, lease>>
  /\ UNCHANGED <<record, pending, mine, txs, paid, faults>>

\* Renewing, releasing and completing leave another owner's lease alone.
Holds(w) == lease.owner = Owner(w)

\* renew_scheduled_settlement, in a task beside the settlement; a renewal that
\* fails or is late is one that is not made.
Renew(w) ==
  /\ pc[w] \in {"choose", "send", "wait", "captured", "reverted", "record"}
  /\ Holds(w) /\ lease.left < LeaseTime
  /\ lease' = [lease EXCEPT !.left = LeaseTime]
  /\ UNCHANGED <<record, pending, pc, mine, claims, txs, paid, faults>>

\* release_scheduled_settlement; a failure is suppressed.
Release(w) ==
  /\ pc[w] = "release"
  /\ \/ lease' = (IF Holds(w) THEN NoLease ELSE lease) /\ UNCHANGED faults
     \/ Fails /\ UNCHANGED lease
  /\ GoTo(w, "idle")
  /\ UNCHANGED <<record, pending, mine, claims, txs, paid>>

\* mark_settlement_complete, or a release when the store refuses it.
Complete(w) ==
  /\ pc[w] = "complete"
  /\ \/ /\ lease' = IF Holds(w) THEN NoLease ELSE lease
        /\ record' = IF Holds(w) THEN [record EXCEPT !.age = 0] ELSE record
        /\ GoTo(w, "idle")
        /\ UNCHANGED faults
     \/ Fails /\ GoTo(w, "release") /\ UNCHANGED <<lease, record>>
  /\ UNCHANGED <<pending, mine, claims, txs, paid>>

-----------------------------------------------------------------------------
(* settle.                                                                      *)

\* settle.choose: the voucher is reserved unless a settlement is in flight.
Choose(w) ==
  /\ pc[w] = "choose"
  /\ IF Settleable(record) /\ pending.left = 0
     THEN /\ pending' = [amount |-> record.spent, left |-> Validity + Skew]
          /\ mine' = [mine EXCEPT ![w] = [amount |-> record.spent, left |-> Validity]]
          /\ GoTo(w, "send")
     ELSE GoTo(w, "release") /\ UNCHANGED <<pending, mine>>
  /\ UNCHANGED <<record, lease, claims, txs, paid, faults>>

\* The reservation is the worker's own: same amount, same expiry.
IsMine(w) ==
  pending.amount = mine[w].amount /\ mine[w].left > 0 /\ pending.left = mine[w].left + Skew

\* Mutant: any failure takes the reservation back.
TakesBackAlways(w, known) == IsMine(w)

\* Only a settlement known not to land gives its reservation back.
TakesBack(w, known) == known /\ IsMine(w)

\* settle raises; maybe_settle_scheduled releases the lease.
Abandon(w, known) ==
  /\ pending' = IF TakesBack(w, known) THEN NoPending ELSE pending
  /\ mine' = [mine EXCEPT ![w] = NoPending]
  /\ GoTo(w, "release")

Sent(w) == [by |-> w, amount |-> mine[w].amount, left |-> mine[w].left]

\* The node refuses the settlement, takes it, or does not say.
Send(w) ==
  /\ pc[w] = "send"
  /\ \/ /\ mine[w].left = 0 \/ mine[w].amount <= paid
        /\ Abandon(w, TRUE) /\ UNCHANGED <<txs, faults>>
     \/ /\ Fails /\ Abandon(w, TRUE) /\ UNCHANGED txs
     \/ /\ mine[w].left > 0
        /\ txs' = txs \cup {Sent(w)}
        /\ GoTo(w, "wait") /\ UNCHANGED <<pending, mine, faults>>
     \/ /\ mine[w].left > 0 /\ Fails
        /\ \E sent \in {{}, {Sent(w)}} : txs' = txs \cup sent
        /\ Abandon(w, FALSE)
  /\ UNCHANGED <<record, lease, claims, paid>>

\* The receipt, for its sender if that still waits: the settlement is known by its
\* amount and expiry.
Outcome(t, step) ==
  pc' = IF pc[t.by] = "wait" /\ Sent(t.by) = t THEN [pc EXCEPT ![t.by] = step] ELSE pc

\* The escrow captures a voucher above what settled; any other reverts, and a
\* failure may make this one revert too.
Land(t) ==
  /\ txs' = txs \ {t}
  /\ \/ t.amount > paid /\ paid' = t.amount /\ Outcome(t, "captured") /\ UNCHANGED faults
     \/ t.amount <= paid /\ Outcome(t, "reverted") /\ UNCHANGED <<paid, faults>>
     \/ t.amount > paid /\ Fails /\ Outcome(t, "reverted") /\ UNCHANGED paid
  /\ UNCHANGED <<record, lease, pending, mine, claims>>

\* The receipt is confirmed and read back, or says that the settlement reverted, so
\* that it can no longer land; or it is not found in time, or not read.
Confirm(w) ==
  /\ \/ pc[w] = "captured" /\ GoTo(w, "record") /\ UNCHANGED <<pending, mine, faults>>
     \/ pc[w] = "reverted" /\ Abandon(w, TRUE) /\ UNCHANGED faults
     \/ pc[w] = "wait" /\ mine[w].left = 0 /\ Abandon(w, FALSE) /\ UNCHANGED faults
     \/ pc[w] \in {"wait", "captured", "reverted"} /\ Fails /\ Abandon(w, FALSE)
  /\ UNCHANGED <<record, lease, claims, txs, paid>>

\* Mutant: the charges made since the voucher was chosen count as settled.
BoundaryOfSpend(w) == record.spent

\* Charges made after the voucher was chosen are not covered by this settlement.
Boundary(w) == IF record.boundary > mine[w].amount THEN record.boundary ELSE mine[w].amount

SettledBy(w) ==
  IF record.settled > mine[w].amount THEN record.settled ELSE mine[w].amount

\* settle.record, or a checkpoint error: confirmed, but not recorded.
RecordSettled(w) ==
  /\ pc[w] = "record"
  /\ \/ /\ record' = [record EXCEPT !.settled = SettledBy(w), !.boundary = Boundary(w),
                                    !.age = 0]
        /\ pending' = IF pending.amount > SettledBy(w) THEN pending ELSE NoPending
        /\ GoTo(w, "complete")
        /\ UNCHANGED faults
     \/ Fails /\ GoTo(w, "release") /\ UNCHANGED <<record, pending>>
  /\ mine' = [mine EXCEPT ![w] = NoPending]
  /\ UNCHANGED <<lease, claims, txs, paid>>

-----------------------------------------------------------------------------
(* Failures and time.                                                           *)

\* A worker stops or its request is cancelled: neither lease nor reservation is
\* released.
Stop(w) ==
  /\ pc[w] # "idle" /\ Fails
  /\ GoTo(w, "idle")
  /\ mine' = [mine EXCEPT ![w] = NoPending]
  /\ UNCHANGED <<record, lease, pending, claims, txs, paid>>

Less(n) == IF n > 0 THEN n - 1 ELSE 0

Expired == {t \in txs : t.left <= 1}

\* A worker that sends its settlement only when the validity is over.
Stalled == {w \in Workers : pc[w] = "send" /\ mine[w].left = 1}

\* Time passes for leases, reservations and transactions.  A transaction that
\* never lands is a failure of the node, and a worker that takes all of the
\* validity, 25 seconds, to send is a failure too.
Tick ==
  /\ faults' = faults + Cardinality(Expired) + Cardinality(Stalled)
  /\ faults' <= MaxFaults
  /\ txs' = {[t EXCEPT !.left = @ - 1] : t \in txs \ Expired}
  /\ lease' = [lease EXCEPT !.left = Less(@)]
  /\ pending' = [pending EXCEPT !.left = Less(@)]
  /\ mine' = [w \in Workers |-> [mine[w] EXCEPT !.left = Less(@)]]
  /\ record' = [record EXCEPT !.age = IF @ < Interval THEN @ + 1 ELSE @]
  /\ UNCHANGED <<pc, claims, paid>>

-----------------------------------------------------------------------------

Advance(w) ==
  \/ Claim(w) \/ Choose(w) \/ Send(w) \/ Confirm(w) \/ RecordSettled(w)
  \/ Complete(w) \/ Release(w)

Next ==
  \/ \E w \in Workers : Advance(w) \/ Renew(w) \/ Stop(w)
                        \/ Charge(w) \/ FindRequest(w) \/ FindCancelled(w) \/ Supervise(w)
  \/ MergeRead
  \/ \E t \in txs : Land(t)
  \/ Tick

\* A worker goes on, time passes, the chain takes what it can, and the supervisor
\* keeps running: what is due it claims, or it finds a close request.
Spec ==
  /\ Init /\ [][Next]_vars
  /\ \A w \in Workers : WF_vars(Advance(w))
  /\ \A w \in Supervisors : WF_vars(IsDue(record) /\ (Supervise(w) \/ FindRequest(w)))
  /\ WF_vars(\E t \in txs : Land(t))
  /\ WF_vars(Tick)

-----------------------------------------------------------------------------
(* Properties.                                                                  *)

Settlement == [amount : 0..MaxSpend, left : 0..Validity + Skew]
Transaction == [by : Workers, amount : 0..MaxSpend, left : 0..Validity + Skew]

TypeOK ==
  /\ record.settled <= paid /\ paid <= record.spent /\ record.spent \in 0..MaxSpend
  /\ record.age \in 0..Interval /\ record.closing \in BOOLEAN
  /\ lease.left \in 0..LeaseTime /\ pending \in Settlement
  /\ pc \in [Workers -> {"idle", "claim", "choose", "send", "wait", "captured", "reverted",
                         "record", "complete", "release"}]
  /\ mine \in [Workers -> Settlement] /\ txs \subseteq Transaction
  /\ claims \in [Workers -> 0..1] /\ faults \in 0..MaxFaults

\* The boundary from which further spend counts never passes what the escrow
\* paid: spend that no settlement captured always counts towards the next one.
NoSpendForgotten == CountsFrom(record) <= paid

\* The lease alone does not keep settlements apart, since a worker may outlive
\* it: with the reservation, at most one of them can still move the escrow.
OneMayCapture == Cardinality({t \in txs : t.amount > paid}) <= 1

\* What is due is collected: workers may stop anywhere, leases and reservations
\* outlive them, transactions get lost or revert, and yet the escrow pays it, unless
\* a close request is found: then the supervisor closes the channel instead.
DueIsCollected ==
  \A a \in 1..MaxSpend :
    (IsDue(record) /\ ~record.closing /\ record.spent >= a) ~> (paid >= a \/ record.closing)
===============================================================================
