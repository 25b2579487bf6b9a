---------------------------- MODULE ChannelRecord ----------------------------
(***************************************************************************)
(* The stored record of one payment channel and the pure functions that    *)
(* the session server applies to it inside one atomic store update         *)
(* (session/server/_store.py and the update callbacks of _settlement.py,   *)
(* _verification.py and _close_supervisor.py).                             *)
(*                                                                         *)
(* A voucher is its cumulative amount: signatures are checked before any   *)
(* of these functions run.  Zero stands for an absent timestamp or amount, *)
(* as in the code, where the clock never reads 0.                          *)
(***************************************************************************)
EXTENDS Integers, FiniteSets

CONSTANTS Validity,     \* PENDING_CLOSE_VALIDITY_SECONDS
          Skew,         \* PENDING_CLOSE_CLOCK_SKEW_SECONDS
          MaxRetained   \* MAX_RETAINED_VOUCHERS

ASSUME RecordAssumption == /\ Validity \in Nat \ {0}
                           /\ Skew \in Nat
                           /\ MaxRetained \in Nat \ {0}

Pending == [amount : Nat, until : Nat]

Record ==
  [opened : BOOLEAN, deposit : Nat, settled : Nat, highest : Nat,
   retained : SUBSET Nat, spent : Nat, closeReq : Nat, closeUntil : Nat,
   finalized : BOOLEAN, pending : Pending]

\* What a chain read tells the server (OnChainChannelState).
View == [deposit : Nat, settled : Nat, closeReq : Nat]

NoPending == [amount |-> 0, until |-> 0]

NoRecord ==
  [opened |-> FALSE, deposit |-> 0, settled |-> 0, highest |-> 0,
   retained |-> {}, spent |-> 0, closeReq |-> 0, closeUntil |-> 0,
   finalized |-> FALSE, pending |-> NoPending]

StoredView(r) ==
  [deposit |-> r.deposit, settled |-> r.settled, closeReq |-> r.closeReq]

KeepGreater(a, b) == IF a > b THEN a ELSE b

\* Mutant: the last chain read overwrites the record.
MergeLatest(r, c) ==
  [r EXCEPT !.deposit = c.deposit, !.settled = c.settled, !.closeReq = c.closeReq]

MergeOnChain(r, c) ==
  [r EXCEPT !.deposit  = KeepGreater(@, c.deposit),
            !.settled  = KeepGreater(@, c.settled),
            !.closeReq = KeepGreater(@, c.closeReq)]

-----------------------------------------------------------------------------
(* Vouchers.                                                               *)

Vouchers(r) == r.retained \cup {r.highest}

\* The distance between the neighbours of v in kept, settled and the new
\* highest voucher being the outer neighbours.
Gap(kept, v, settled, highest) ==
  LET below == {u \in kept \cup {settled} : u < v}
      above == {u \in kept \cup {highest} : u > v}
  IN (CHOOSE u \in above : \A x \in above : u <= x)
       - (CHOOSE u \in below : \A x \in below : u >= x)

\* The lowest of the vouchers whose neighbours are closest.
Narrowest(kept, settled, highest) ==
  LET gap(v) == Gap(kept, v, settled, highest)
  IN CHOOSE v \in kept : \A u \in kept :
       gap(v) < gap(u) \/ (gap(v) = gap(u) /\ v <= u)

\* At most one voucher joins the retained ones in an update, so the loop of
\* the code drops at most one.
RetainVouchers(r, highest, settled) ==
  LET kept == {v \in Vouchers(r) : settled < v /\ v < highest}
  IN IF Cardinality(kept) > MaxRetained
     THEN kept \ {Narrowest(kept, settled, highest)}
     ELSE kept

Settleable(r) == {v \in Vouchers(r) : r.settled < v /\ v <= r.spent}

LargestSettleable(r) == {v \in Settleable(r) : \A u \in Settleable(r) : u <= v}

RaiseHighest(r, before, v) ==
  IF v <= before.highest
  THEN r
  ELSE [r EXCEPT !.highest = v,
                 !.retained = RetainVouchers(before, v, r.settled)]

OpenRecord(r, c, v) ==
  [RaiseHighest(MergeOnChain(r, c), r, v) EXCEPT
     !.opened = TRUE, !.spent = KeepGreater(r.spent, c.settled)]

CanAccept(r) == r.opened /\ ~r.finalized /\ r.closeReq = 0

AcceptVoucher(r, c, v) == RaiseHighest(MergeOnChain(r, c), r, v)

\* Mutant: the deposit is not compared.
FitsAnyDeposit(c, highest, v) ==
  c.deposit # 0 /\ c.closeReq = 0 /\ v >= highest /\ v > c.settled

\* The checks a voucher passes against a channel state, signature aside.
\* highest is that of the channel record the handler holds.
VoucherFits(c, highest, v) ==
  /\ c.deposit # 0 /\ c.closeReq = 0
  /\ v <= c.deposit
  /\ v >= highest
  /\ v > c.settled

-----------------------------------------------------------------------------
(* Charges and credits.                                                    *)

CanDeduct(r, a) ==
  r.opened /\ ~r.finalized /\ r.closeReq = 0 /\ r.highest - r.spent >= a

Deduct(r, a) == [r EXCEPT !.spent = @ + a]

\* A charge made with a voucher's acceptance is skipped when not covered.
DeductIfCovered(r, a) == IF CanDeduct(r, a) THEN Deduct(r, a) ELSE r

\* Mutant: only the recorded settlement counts.
FloorWithoutReservation(r, t) == r.settled

CreditFloor(r, t) ==
  KeepGreater(r.settled, IF r.pending.until > t THEN r.pending.amount ELSE 0)

CanCredit(r, a, t) ==
  /\ r.opened /\ ~r.finalized /\ r.closeReq = 0
  /\ a <= r.spent
  /\ r.spent - a >= CreditFloor(r, t)

Credit(r, a) == [r EXCEPT !.spent = @ - a]

-----------------------------------------------------------------------------
(* Settlements: the reservation that guards one in-flight transaction.     *)

\* valid_before of a transaction prepared at time t.
ValidBefore(t) == t + Validity

\* Mutant: the reservation ends with the transaction's validity.
UntilWithoutSkew(until) == until

\* The time until which credits must leave room for the transaction.
PendingUntil(until) == until + Skew

SettlementInFlight(r, t) == r.pending.until > t

Reservation(amount, until) == [amount |-> amount, until |-> PendingUntil(until)]

ClaimSettlement(r, amount, until) ==
  [r EXCEPT !.pending = Reservation(amount, until)]

ReleaseSettlement(r, amount, until) ==
  IF r.pending = Reservation(amount, until)
  THEN [r EXCEPT !.pending = NoPending]
  ELSE r

RecordSettled(r, amount) ==
  LET settled == KeepGreater(r.settled, amount)
  IN [r EXCEPT !.settled  = settled,
               !.pending  = IF @.amount > settled THEN @ ELSE NoPending,
               !.retained = {v \in @ : v > settled}]

-----------------------------------------------------------------------------
(* Closing.                                                                *)

CloseCapture(spent, c) == KeepGreater(spent, c.settled)

CanCapture(spent, c, voucher) ==
  /\ voucher >= spent
  /\ CloseCapture(spent, c) <= voucher
  /\ CloseCapture(spent, c) <= c.deposit

\* Mutant: the clocks are taken to agree, and the bound is off by one.
ReconcileEarly(r, t, c) ==
  IF ~r.finalized /\ c.closeReq = 0 /\ c.deposit # 0 /\ t >= r.closeReq + Validity
  THEN [r EXCEPT !.closeReq = 0, !.closeUntil = 0]
  ELSE r

\* Mutant: whatever the read saw without a request clears the marker.
ReconcileAnyAge(r, t, c) ==
  IF ~r.finalized /\ c.closeReq = 0 /\ c.deposit # 0
  THEN [r EXCEPT !.closeReq = 0, !.closeUntil = 0]
  ELSE r

\* Clears the marker of a close that expired without closing the channel.
ReconcileExpired(r, t, c) ==
  IF /\ ~r.finalized /\ r.closeReq # 0
     /\ c.closeReq = 0 /\ c.deposit # 0
     /\ t > KeepGreater(r.closeReq + Validity, r.closeUntil) + Skew
  THEN [r EXCEPT !.closeReq = 0, !.closeUntil = 0]
  ELSE r

CanMarkClosing(r, c, voucher) ==
  ~r.finalized /\ r.closeReq = 0 /\ CanCapture(r.spent, c, voucher)

MarkClosing(r, t) == [r EXCEPT !.closeReq = t]

ClearMarker(r, t) == IF r.closeReq = t THEN [r EXCEPT !.closeReq = 0] ELSE r

\* Mutant: the voucher is recorded as settled, not what the close paid.
FinalizeAtVoucher(r, capture, voucher) ==
  [r EXCEPT !.finalized = TRUE, !.closeReq = 0, !.deposit = 0,
            !.settled = KeepGreater(@, voucher), !.highest = KeepGreater(@, voucher)]

FinalizeClosed(r, capture, voucher) ==
  [r EXCEPT !.finalized = TRUE, !.closeReq = 0, !.deposit = 0,
            !.settled = KeepGreater(@, capture),
            !.highest = KeepGreater(@, voucher)]

FinalizeFromEvent(r, paid) ==
  IF r.finalized THEN r
  ELSE [r EXCEPT !.finalized = TRUE, !.closeReq = 0, !.closeUntil = 0,
                 !.deposit = 0, !.settled = KeepGreater(@, paid)]

\* A close request seen on chain by a voucher handler.
RecordPendingClose(r, c) ==
  [r EXCEPT !.settled  = KeepGreater(@, c.settled),
            !.closeReq = KeepGreater(@, c.closeReq)]

\* An open channel seen by a read that a voucher did not wait for.
RecordOpenRead(r, c) ==
  IF r.finalized \/ r.closeReq # 0 THEN r ELSE MergeOnChain(r, c)

\* A close request seen by the supervisor.
MergeRequest(r, c) == IF r.finalized THEN r ELSE MergeOnChain(r, c)

\* At most one supervised close may be in flight, and only for the spend
\* its capture was computed from.
CanReserveClose(r, spent, t) ==
  /\ ~r.finalized /\ r.closeReq # 0 /\ r.spent = spent
  /\ r.closeUntil = 0 \/ t > r.closeUntil + Skew

ReserveClose(r, until) == [r EXCEPT !.closeUntil = until]

ReleaseClose(r, until) ==
  IF r.closeUntil = until THEN [r EXCEPT !.closeUntil = 0] ELSE r
=============================================================================
