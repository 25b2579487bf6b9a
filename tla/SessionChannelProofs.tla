------------------------ MODULE SessionChannelProofs ------------------------
(***************************************************************************)
(* Theorems about SessionChannel, for every set of workers and every bound *)
(* and clock lag within the assumptions.  First what every update of the   *)
(* stored channel record preserves: its type, and what no concurrent or    *)
(* late update may take back.  Then what the record says about the escrow, *)
(* and what the end of a channel pays.                                     *)
(*                                                                         *)
(* The provers handle an EXCEPT of one field, so a record that changes in  *)
(* several fields is proved to be one step after another.                  *)
(***************************************************************************)
EXTENDS SessionChannel, TLAPS

\* The record s follows r and takes nothing back.
Extends(r, s) ==
  /\ s.highest >= r.highest
  /\ s.settled >= r.settled
  /\ r.finalized => s.finalized
  /\ ~s.finalized => s.deposit >= r.deposit

\* The update from r to s leaves the reservation of a settlement in place,
\* and the spend at least as large.
KeepsReserve(r, s) == s.spent >= r.spent /\ s.pending = r.pending

-----------------------------------------------------------------------------
(* One field at a time.                                                    *)

\* Replacing a number of the record.
LEMMA SetNumber ==
  ASSUME NEW r \in Record, NEW n \in Nat
  PROVE  /\ [r EXCEPT !.deposit = n] \in Record
         /\ [r EXCEPT !.settled = n] \in Record
         /\ [r EXCEPT !.highest = n] \in Record
         /\ [r EXCEPT !.spent = n] \in Record
         /\ [r EXCEPT !.closeReq = n] \in Record
         /\ [r EXCEPT !.closeUntil = n] \in Record
  BY SMT DEF Record

\* Replacing a flag.
LEMMA SetFlag ==
  ASSUME NEW r \in Record, NEW b \in BOOLEAN
  PROVE  /\ [r EXCEPT !.opened = b] \in Record
         /\ [r EXCEPT !.finalized = b] \in Record
  BY SMT DEF Record

\* Replacing the retained vouchers.
LEMMA SetRetained ==
  ASSUME NEW r \in Record, NEW s \in SUBSET Nat
  PROVE  [r EXCEPT !.retained = s] \in Record
  BY SMT DEF Record

\* Replacing the reservation.
LEMMA SetPending ==
  ASSUME NEW r \in Record, NEW p \in Pending
  PROVE  [r EXCEPT !.pending = p] \in Record
  BY SMT DEF Record

\* The types of the fields.
LEMMA RecordFields ==
  ASSUME NEW r \in Record
  PROVE  /\ r.deposit \in Nat /\ r.settled \in Nat /\ r.highest \in Nat
         /\ r.spent \in Nat /\ r.closeReq \in Nat /\ r.closeUntil \in Nat
         /\ r.opened \in BOOLEAN /\ r.finalized \in BOOLEAN
         /\ r.retained \in SUBSET Nat
         /\ r.pending \in Pending /\ r.pending.amount \in Nat /\ r.pending.until \in Nat
  BY SMT DEF Record, Pending

\* What a chain read is made of.
LEMMA ViewFields ==
  ASSUME NEW c \in View
  PROVE  c.deposit \in Nat /\ c.settled \in Nat /\ c.closeReq \in Nat
  BY SMT DEF View

\* The greater of two numbers (keep_greater).
LEMMA KeepGreaterNat ==
  ASSUME NEW a \in Nat, NEW b \in Nat
  PROVE  KeepGreater(a, b) \in Nat /\ KeepGreater(a, b) >= a /\ KeepGreater(a, b) >= b
  BY SMT DEF KeepGreater

\* An unchanged record takes nothing back.
LEMMA ExtendsItself ==
  ASSUME NEW r \in Record
  PROVE  Extends(r, r) /\ KeepsReserve(r, r)
  BY RecordFields, SMT DEF Extends, KeepsReserve

\* Neither do two such updates in a row.
LEMMA ExtendsTwice ==
  ASSUME NEW r \in Record, NEW s \in Record, NEW t \in Record
  PROVE  /\ Extends(r, s) /\ Extends(s, t) => Extends(r, t)
         /\ KeepsReserve(r, s) /\ KeepsReserve(s, t) => KeepsReserve(r, t)
<1>1. ASSUME Extends(r, s), Extends(s, t) PROVE Extends(r, t)
  BY <1>1, RecordFields, SMT DEF Extends
<1>2. ASSUME KeepsReserve(r, s), KeepsReserve(s, t) PROVE KeepsReserve(r, t)
  BY <1>2, RecordFields, SMT DEF KeepsReserve
<1> QED BY <1>1, <1>2

\* The stored state seen as a chain read.
LEMMA StoredViewType ==
  ASSUME NEW r \in Record
  PROVE  StoredView(r) \in View
  BY RecordFields, SMT DEF StoredView, View

-----------------------------------------------------------------------------
(* Chain reads and vouchers.                                               *)

\* Merging a chain read (merge_active_on_chain_state).
LEMMA MergeSound ==
  ASSUME NEW r \in Record, NEW c \in View
  PROVE  LET s == MergeOnChain(r, c)
         IN /\ s \in Record /\ Extends(r, s) /\ KeepsReserve(r, s)
            /\ s.highest = r.highest /\ s.spent = r.spent /\ s.finalized = r.finalized
<1> DEFINE d == KeepGreater(r.deposit, c.deposit)
           n == KeepGreater(r.settled, c.settled)
           q == KeepGreater(r.closeReq, c.closeReq)
           s == MergeOnChain(r, c)
<1>1. d \in Nat /\ n \in Nat /\ q \in Nat /\ d >= r.deposit /\ n >= r.settled
  BY KeepGreaterNat, RecordFields, ViewFields
<1>2. s \in Record
  <2>1. s = [[[r EXCEPT !.deposit = d] EXCEPT !.settled = n] EXCEPT !.closeReq = q]
    BY DEF MergeOnChain
  <2>2. [r EXCEPT !.deposit = d] \in Record
    BY <1>1, SetNumber
  <2>3. [[r EXCEPT !.deposit = d] EXCEPT !.settled = n] \in Record
    BY <1>1, <2>2, SetNumber
  <2> QED BY <1>1, <2>1, <2>3, SetNumber
<1>3. /\ s.deposit = d /\ s.settled = n
      /\ s.highest = r.highest /\ s.spent = r.spent
      /\ s.pending = r.pending /\ s.finalized = r.finalized
  BY SMT DEF MergeOnChain, Record
<1> HIDE DEF d, n, q, s
<1>4. Extends(r, s) /\ KeepsReserve(r, s)
  BY <1>1, <1>3, RecordFields, SMT DEF Extends, KeepsReserve
<1> QED BY <1>2, <1>3, <1>4 DEF s

\* Retaining vouchers only drops vouchers (retain_vouchers).
LEMMA RetainSubset ==
  ASSUME NEW r \in Record, NEW h \in Nat, NEW s \in Nat
  PROVE  RetainVouchers(r, h, s) \in SUBSET Nat
<1>1. Vouchers(r) \in SUBSET Nat
  BY RecordFields DEF Vouchers
<1>2. RetainVouchers(r, h, s) \subseteq Vouchers(r)
  BY Zenon DEF RetainVouchers
<1> QED BY <1>1, <1>2

\* A greater voucher replaces the highest one.
LEMMA RaiseSound ==
  ASSUME NEW r \in Record, NEW b \in Record, NEW v \in Nat, b.highest = r.highest
  PROVE  LET s == RaiseHighest(r, b, v)
         IN /\ s \in Record /\ Extends(r, s) /\ KeepsReserve(r, s)
            /\ s.spent = r.spent /\ s.finalized = r.finalized
            /\ s.highest = KeepGreater(r.highest, v)
<1> DEFINE k == RetainVouchers(b, v, r.settled)
           s == RaiseHighest(r, b, v)
<1>1. CASE v <= b.highest
  <2>1. s = r /\ KeepGreater(r.highest, v) = r.highest
    BY <1>1, RecordFields, SMT DEF RaiseHighest, KeepGreater
  <2> QED BY <2>1, ExtendsItself
<1>2. CASE ~(v <= b.highest)
  <2>1. k \in SUBSET Nat
    BY RetainSubset, RecordFields
  <2> HIDE DEF k
  <2>2. s = [[r EXCEPT !.highest = v] EXCEPT !.retained = k]
    BY <1>2 DEF RaiseHighest, k
  <2>3. s \in Record
    <3>1. [r EXCEPT !.highest = v] \in Record
      BY SetNumber
    <3> QED BY <2>1, <2>2, <3>1, SetRetained
  <2>4. /\ s.highest = v /\ s.deposit = r.deposit /\ s.settled = r.settled
        /\ s.spent = r.spent /\ s.pending = r.pending /\ s.finalized = r.finalized
    BY <2>2, SMT DEF Record
  <2> HIDE DEF s
  <2>5. v >= r.highest /\ KeepGreater(r.highest, v) = v
    BY <1>2, RecordFields, SMT DEF KeepGreater
  <2>6. Extends(r, s) /\ KeepsReserve(r, s)
    BY <2>4, <2>5, RecordFields, SMT DEF Extends, KeepsReserve
  <2> QED BY <2>3, <2>4, <2>5, <2>6 DEF s
<1> QED BY <1>1, <1>2

\* Opening a channel, for the first time or again (open_channel_state).
LEMMA OpenSound ==
  ASSUME NEW r \in Record, NEW c \in View, NEW v \in Nat
  PROVE  LET s == OpenRecord(r, c, v)
         IN s \in Record /\ Extends(r, s) /\ KeepsReserve(r, s)
<1> DEFINE m == MergeOnChain(r, c)
           h == RaiseHighest(m, r, v)
           n == KeepGreater(r.spent, c.settled)
           s == OpenRecord(r, c, v)
<1>1. m \in Record /\ Extends(r, m) /\ KeepsReserve(r, m) /\ m.highest = r.highest
  BY MergeSound
<1> HIDE DEF m
<1>2. h \in Record /\ Extends(m, h) /\ KeepsReserve(m, h)
  BY <1>1, RaiseSound
<1>3. Extends(r, h) /\ KeepsReserve(r, h)
  BY <1>1, <1>2, ExtendsTwice
<1>4. n \in Nat /\ n >= r.spent
  BY KeepGreaterNat, RecordFields, ViewFields
<1>5. s = [[h EXCEPT !.opened = TRUE] EXCEPT !.spent = n]
  BY DEF OpenRecord, m
<1> HIDE DEF h, n, s
<1>6. [h EXCEPT !.opened = TRUE] \in Record
  BY <1>2, SetFlag
<1>7. s \in Record
  BY <1>4, <1>5, <1>6, SetNumber
<1>8. /\ s.spent = n /\ s.highest = h.highest /\ s.settled = h.settled
      /\ s.pending = h.pending /\ s.finalized = h.finalized /\ s.deposit = h.deposit
  BY <1>2, <1>5, SMT DEF Record
<1>9. Extends(r, s) /\ KeepsReserve(r, s)
  BY <1>3, <1>4, <1>8, Zenon DEF Extends, KeepsReserve
<1> QED BY <1>7, <1>9 DEF s

\* A voucher's acceptance (accept_voucher_state_update).
LEMMA AcceptSound ==
  ASSUME NEW r \in Record, NEW c \in View, NEW v \in Nat
  PROVE  LET s == AcceptVoucher(r, c, v)
         IN /\ s \in Record /\ Extends(r, s) /\ KeepsReserve(r, s)
            /\ s.spent = r.spent /\ s.finalized = r.finalized
            /\ s.highest = KeepGreater(r.highest, v)
<1> DEFINE m == MergeOnChain(r, c)
           s == RaiseHighest(m, r, v)
<1>1. /\ m \in Record /\ Extends(r, m) /\ KeepsReserve(r, m)
      /\ m.highest = r.highest /\ m.spent = r.spent /\ m.finalized = r.finalized
  BY MergeSound
<1>2. AcceptVoucher(r, c, v) = s
  BY DEF AcceptVoucher
<1> HIDE DEF m
<1>3. /\ s \in Record /\ Extends(m, s) /\ KeepsReserve(m, s)
      /\ s.spent = m.spent /\ s.finalized = m.finalized
      /\ s.highest = KeepGreater(m.highest, v)
  BY <1>1, RaiseSound
<1> HIDE DEF s
<1>4. Extends(r, s) /\ KeepsReserve(r, s)
  BY <1>1, <1>3, ExtendsTwice
<1> QED BY <1>1, <1>2, <1>3, <1>4

-----------------------------------------------------------------------------
(* Charges and credits.                                                    *)

\* A charge adds to the spend and to nothing else (deduct_from_channel).
LEMMA DeductSound ==
  ASSUME NEW r \in Record, NEW a \in Nat
  PROVE  LET s == Deduct(r, a)
         IN /\ s \in Record /\ Extends(r, s) /\ KeepsReserve(r, s)
            /\ s.spent = r.spent + a /\ s.highest = r.highest
            /\ s.finalized = r.finalized
<1> DEFINE s == Deduct(r, a)
<1>1. r.spent + a \in Nat /\ r.spent + a >= r.spent
  BY RecordFields, SMT
<1>2. s = [r EXCEPT !.spent = r.spent + a]
  BY DEF Deduct
<1> HIDE DEF s
<1>3. s \in Record
  BY <1>1, <1>2, SetNumber
<1>4. /\ s.spent = r.spent + a /\ s.highest = r.highest /\ s.settled = r.settled
      /\ s.pending = r.pending /\ s.finalized = r.finalized /\ s.deposit = r.deposit
  BY <1>2, SMT DEF Record
<1>5. Extends(r, s) /\ KeepsReserve(r, s)
  BY <1>1, <1>4, RecordFields, SMT DEF Extends, KeepsReserve
<1> QED BY <1>3, <1>4, <1>5 DEF s

\* A charge made with a voucher's acceptance (plan_voucher_acceptance).
LEMMA DeductIfCoveredSound ==
  ASSUME NEW r \in Record, NEW a \in Nat
  PROVE  LET s == DeductIfCovered(r, a)
         IN s \in Record /\ Extends(r, s) /\ KeepsReserve(r, s)
  BY DeductSound, ExtendsItself, Zenon DEF DeductIfCovered

\* A voucher's acceptance together with the request's charge.
LEMMA AcceptAndDeductSound ==
  ASSUME NEW r \in Record, NEW c \in View, NEW v \in Nat, NEW a \in Nat
  PROVE  LET s == DeductIfCovered(AcceptVoucher(r, c, v), a)
         IN s \in Record /\ Extends(r, s) /\ KeepsReserve(r, s)
<1> DEFINE m == AcceptVoucher(r, c, v)
           s == DeductIfCovered(m, a)
<1>1. m \in Record /\ Extends(r, m) /\ KeepsReserve(r, m)
  BY AcceptSound
<1> HIDE DEF m
<1>2. s \in Record /\ Extends(m, s) /\ KeepsReserve(m, s)
  BY <1>1, DeductIfCoveredSound
<1> HIDE DEF s
<1>3. Extends(r, s) /\ KeepsReserve(r, s)
  BY <1>1, <1>2, ExtendsTwice
<1> QED BY <1>2, <1>3 DEF s, m

\* A credit takes from the spend what it grants, down to the floor that the
\* recorded and the reserved settlement set (credit_channel).
LEMMA CreditSound ==
  ASSUME NEW r \in Record, NEW a \in Nat, NEW t \in Nat, CanCredit(r, a, t)
  PROVE  LET s == Credit(r, a)
         IN /\ s \in Record /\ Extends(r, s) /\ s.pending = r.pending
            /\ s.settled = r.settled /\ s.settled <= s.spent
            /\ r.pending.until > t => r.pending.amount <= s.spent
<1> DEFINE s == Credit(r, a)
           n == r.spent - a
<1>1. n \in Nat
  BY RecordFields, SMT DEF CanCredit
<1>2. r.settled <= n /\ (r.pending.until > t => r.pending.amount <= n)
  BY RecordFields, SMT DEF CanCredit, CreditFloor, KeepGreater
<1>3. s = [r EXCEPT !.spent = n]
  BY DEF Credit
<1> HIDE DEF s, n
<1>4. s \in Record
  BY <1>1, <1>3, SetNumber
<1>5. /\ s.spent = n /\ s.highest = r.highest /\ s.settled = r.settled
      /\ s.pending = r.pending /\ s.finalized = r.finalized /\ s.deposit = r.deposit
  BY <1>3, SMT DEF Record
<1>6. Extends(r, s)
  BY <1>5, RecordFields, SMT DEF Extends
<1> QED BY <1>2, <1>4, <1>5, <1>6 DEF s

-----------------------------------------------------------------------------
(* Settlements.                                                            *)

\* A reservation is a pair of numbers.
LEMMA ReservationType ==
  ASSUME NEW a \in Nat, NEW u \in Nat
  PROVE  /\ Reservation(a, u) \in Pending
         /\ Reservation(a, u).amount = a
         /\ Reservation(a, u).until = u + Skew
  BY RecordAssumption, SMT DEF Reservation, PendingUntil, Pending

\* The settleable vouchers are above what is settled and within the spend
\* (resolve_settleable_voucher).
LEMMA SettleableBounds ==
  ASSUME NEW r \in Record, NEW v \in LargestSettleable(r)
  PROVE  v \in Nat /\ r.settled < v /\ v <= r.spent
<1>1. v \in Vouchers(r) /\ r.settled < v /\ v <= r.spent
  BY Zenon DEF LargestSettleable, Settleable
<1>2. Vouchers(r) \in SUBSET Nat
  BY RecordFields DEF Vouchers
<1> QED BY <1>1, <1>2

\* Claiming writes the reservation and nothing else (choose in settle).
LEMMA ClaimSound ==
  ASSUME NEW r \in Record, NEW a \in Nat, NEW u \in Nat
  PROVE  LET s == ClaimSettlement(r, a, u)
         IN /\ s \in Record /\ Extends(r, s)
            /\ s.pending = Reservation(a, u)
            /\ s.spent = r.spent /\ s.settled = r.settled
<1> DEFINE s == ClaimSettlement(r, a, u)
<1>1. s \in Record
  BY ReservationType, SetPending DEF ClaimSettlement
<1>2. /\ s.pending = Reservation(a, u) /\ s.spent = r.spent /\ s.settled = r.settled
      /\ s.highest = r.highest /\ s.finalized = r.finalized /\ s.deposit = r.deposit
  BY SMT DEF ClaimSettlement, Record
<1> HIDE DEF s
<1>3. Extends(r, s)
  BY <1>2, RecordFields, SMT DEF Extends
<1> QED BY <1>1, <1>2, <1>3 DEF s

\* Releasing drops that reservation only, and nothing else (release in settle).
LEMMA ReleaseSound ==
  ASSUME NEW r \in Record, NEW a \in Nat, NEW u \in Nat
  PROVE  LET s == ReleaseSettlement(r, a, u)
         IN /\ s \in Record /\ Extends(r, s)
            /\ r.pending # Reservation(a, u) => s.pending = r.pending
            /\ s.spent = r.spent /\ s.settled = r.settled
<1> DEFINE s == ReleaseSettlement(r, a, u)
<1>1. CASE r.pending = Reservation(a, u)
  <2>1. NoPending \in Pending
    BY SMT DEF NoPending, Pending
  <2>2. s = [r EXCEPT !.pending = NoPending]
    BY <1>1 DEF ReleaseSettlement
  <2> HIDE DEF s
  <2>3. s \in Record
    BY <2>1, <2>2, SetPending
  <2>4. /\ s.spent = r.spent /\ s.settled = r.settled
        /\ s.highest = r.highest /\ s.finalized = r.finalized /\ s.deposit = r.deposit
    BY <2>2, SMT DEF Record
  <2>5. Extends(r, s)
    BY <2>4, RecordFields, SMT DEF Extends
  <2> QED BY <1>1, <2>3, <2>4, <2>5 DEF s
<1>2. CASE r.pending # Reservation(a, u)
  <2>1. s = r
    BY <1>2 DEF ReleaseSettlement
  <2> QED BY <2>1, ExtendsItself
<1> QED BY <1>1, <1>2

\* Recording a mined settlement drops a reservation it covers, and only such
\* a one (record in settle).
LEMMA RecordSettledSound ==
  ASSUME NEW r \in Record, NEW a \in Nat
  PROVE  LET s == RecordSettled(r, a)
         IN /\ s \in Record /\ Extends(r, s)
            /\ s.spent = r.spent /\ s.settled = KeepGreater(r.settled, a)
            /\ r.pending.amount > s.settled => s.pending = r.pending
<1> DEFINE n == KeepGreater(r.settled, a)
           p == IF r.pending.amount > n THEN r.pending ELSE NoPending
           k == {v \in r.retained : v > n}
           s == RecordSettled(r, a)
<1>1. n \in Nat /\ n >= r.settled
  BY KeepGreaterNat, RecordFields
<1>2. p \in Pending /\ (r.pending.amount > n => p = r.pending)
  <2>1. NoPending \in Pending
    BY SMT DEF NoPending, Pending
  <2> QED BY <2>1, RecordFields
<1>3. k \in SUBSET Nat
  BY RecordFields
<1>4. s = [[[r EXCEPT !.settled = n] EXCEPT !.pending = p] EXCEPT !.retained = k]
  BY DEF RecordSettled
<1> HIDE DEF n, p, k, s
<1>5. [r EXCEPT !.settled = n] \in Record
  BY <1>1, SetNumber
<1>6. [[r EXCEPT !.settled = n] EXCEPT !.pending = p] \in Record
  BY <1>2, <1>5, SetPending
<1>7. s \in Record
  BY <1>3, <1>4, <1>6, SetRetained
<1>8. /\ s.settled = n /\ s.pending = p /\ s.spent = r.spent
      /\ s.highest = r.highest /\ s.finalized = r.finalized /\ s.deposit = r.deposit
  BY <1>4, SMT DEF Record
<1>9. Extends(r, s)
  BY <1>1, <1>8, RecordFields, SMT DEF Extends
<1> QED BY <1>2, <1>7, <1>8, <1>9 DEF s, n

-----------------------------------------------------------------------------
(* Closing.                                                                *)

\* The markers of a close: none of these updates takes anything back
\* (mark_pending_close, reconcile_expired_pending_close, and the callbacks
\* of _handle_close and _close_at_spend).
LEMMA MarkerSound ==
  ASSUME NEW r \in Record, NEW n \in Nat
  PROVE  LET s == [r EXCEPT !.closeReq = n]
             t == [r EXCEPT !.closeUntil = n]
         IN /\ s \in Record /\ Extends(r, s) /\ KeepsReserve(r, s)
            /\ s.spent = r.spent /\ s.highest = r.highest /\ s.finalized = r.finalized
            /\ t \in Record /\ Extends(r, t) /\ KeepsReserve(r, t)
<1> DEFINE s == [r EXCEPT !.closeReq = n]
           t == [r EXCEPT !.closeUntil = n]
<1>1. s \in Record /\ t \in Record
  BY SetNumber
<1>2. /\ s.spent = r.spent /\ s.settled = r.settled /\ s.highest = r.highest
      /\ s.pending = r.pending /\ s.finalized = r.finalized /\ s.deposit = r.deposit
  BY SMT DEF Record
<1>3. /\ t.spent = r.spent /\ t.settled = r.settled /\ t.highest = r.highest
      /\ t.pending = r.pending /\ t.finalized = r.finalized /\ t.deposit = r.deposit
  BY SMT DEF Record
<1> HIDE DEF s, t
<1>4. Extends(r, s) /\ KeepsReserve(r, s)
  BY <1>2, RecordFields, SMT DEF Extends, KeepsReserve
<1>5. Extends(r, t) /\ KeepsReserve(r, t)
  BY <1>3, RecordFields, SMT DEF Extends, KeepsReserve
<1> QED BY <1>1, <1>2, <1>4, <1>5 DEF s, t

\* Clearing the marker of an expired close (reconcile_expired_pending_close).
LEMMA ReconcileSound ==
  ASSUME NEW r \in Record, NEW t, NEW c
  PROVE  LET s == ReconcileExpired(r, t, c)
         IN /\ s \in Record /\ Extends(r, s) /\ KeepsReserve(r, s)
            /\ s.spent = r.spent /\ s.highest = r.highest /\ s.finalized = r.finalized
<1> DEFINE s == ReconcileExpired(r, t, c)
           m == [r EXCEPT !.closeReq = 0]
<1>1. CASE s = r
  BY <1>1, ExtendsItself
<1>2. CASE s # r
  <2>1. s = [m EXCEPT !.closeUntil = 0]
    BY <1>2 DEF ReconcileExpired
  <2> HIDE DEF s
  <2>2. /\ m \in Record /\ Extends(r, m) /\ KeepsReserve(r, m)
        /\ m.spent = r.spent /\ m.highest = r.highest /\ m.finalized = r.finalized
    BY MarkerSound
  <2> HIDE DEF m
  <2>3. s \in Record /\ Extends(m, s) /\ KeepsReserve(m, s)
    BY <2>1, <2>2, MarkerSound
  <2>4. s.spent = m.spent /\ s.highest = m.highest /\ s.finalized = m.finalized
    BY <2>1, <2>2, SMT DEF Record
  <2>5. Extends(r, s) /\ KeepsReserve(r, s)
    BY <2>2, <2>3, ExtendsTwice
  <2> QED BY <2>2, <2>3, <2>4, <2>5 DEF s
<1> QED BY <1>1, <1>2

\* Marking a channel as closing, and taking the mark back.
LEMMA MarkAndClearSound ==
  ASSUME NEW r \in Record, NEW n \in Nat
  PROVE  /\ MarkClosing(r, n) \in Record
         /\ Extends(r, MarkClosing(r, n)) /\ KeepsReserve(r, MarkClosing(r, n))
         /\ ClearMarker(r, n) \in Record
         /\ Extends(r, ClearMarker(r, n)) /\ KeepsReserve(r, ClearMarker(r, n))
<1>1. CASE r.closeReq = n
  BY <1>1, MarkerSound DEF MarkClosing, ClearMarker
<1>2. CASE r.closeReq # n
  BY <1>2, MarkerSound, ExtendsItself DEF MarkClosing, ClearMarker
<1> QED BY <1>1, <1>2

\* Reserving a supervised close, and releasing it.
LEMMA ReserveAndReleaseSound ==
  ASSUME NEW r \in Record, NEW n \in Nat
  PROVE  /\ ReserveClose(r, n) \in Record
         /\ Extends(r, ReserveClose(r, n)) /\ KeepsReserve(r, ReserveClose(r, n))
         /\ ReleaseClose(r, n) \in Record
         /\ Extends(r, ReleaseClose(r, n)) /\ KeepsReserve(r, ReleaseClose(r, n))
<1>1. CASE r.closeUntil = n
  BY <1>1, MarkerSound DEF ReserveClose, ReleaseClose
<1>2. CASE r.closeUntil # n
  BY <1>2, MarkerSound, ExtendsItself DEF ReserveClose, ReleaseClose
<1> QED BY <1>1, <1>2

\* Finalizing a closed channel (finalize_closed_channel_state).
LEMMA FinalizeClosedSound ==
  ASSUME NEW r \in Record, NEW a \in Nat, NEW v \in Nat
  PROVE  LET s == FinalizeClosed(r, a, v)
         IN s \in Record /\ Extends(r, s) /\ KeepsReserve(r, s)
<1> DEFINE n == KeepGreater(r.settled, a)
           h == KeepGreater(r.highest, v)
           f == [r EXCEPT !.finalized = TRUE]
           q == [f EXCEPT !.closeReq = 0]
           d == [q EXCEPT !.deposit = 0]
           m == [d EXCEPT !.settled = n]
           s == FinalizeClosed(r, a, v)
<1>1. n \in Nat /\ h \in Nat /\ n >= r.settled /\ h >= r.highest
  BY KeepGreaterNat, RecordFields
<1>2. s = [m EXCEPT !.highest = h]
  BY DEF FinalizeClosed
<1>3. /\ s.settled = n /\ s.highest = h /\ s.finalized
      /\ s.spent = r.spent /\ s.pending = r.pending
  BY SMT DEF FinalizeClosed, Record
<1> HIDE DEF n, h, s
<1>4. f \in Record
  BY SetFlag
<1> HIDE DEF f
<1>5. q \in Record
  BY <1>4, SetNumber
<1> HIDE DEF q
<1>6. d \in Record
  BY <1>5, SetNumber
<1> HIDE DEF d
<1>7. m \in Record
  BY <1>1, <1>6, SetNumber
<1> HIDE DEF m
<1>8. s \in Record
  BY <1>1, <1>2, <1>7, SetNumber
<1>9. Extends(r, s) /\ KeepsReserve(r, s)
  BY <1>1, <1>3, RecordFields, SMT DEF Extends, KeepsReserve
<1> QED BY <1>8, <1>9 DEF s

\* Finalizing a channel whose deposit left the escrow (_supervise_channel).
LEMMA FinalizeFromEventSound ==
  ASSUME NEW r \in Record, NEW a \in Nat
  PROVE  LET s == FinalizeFromEvent(r, a)
         IN s \in Record /\ Extends(r, s) /\ KeepsReserve(r, s)
<1> DEFINE n == KeepGreater(r.settled, a)
           f == [r EXCEPT !.finalized = TRUE]
           q == [f EXCEPT !.closeReq = 0]
           u == [q EXCEPT !.closeUntil = 0]
           d == [u EXCEPT !.deposit = 0]
           s == FinalizeFromEvent(r, a)
<1>1. CASE r.finalized
  <2>1. s = r
    BY <1>1 DEF FinalizeFromEvent
  <2> QED BY <2>1, ExtendsItself
<1>2. CASE ~r.finalized
  <2>1. n \in Nat /\ n >= r.settled
    BY KeepGreaterNat, RecordFields
  <2>2. s = [d EXCEPT !.settled = n]
    BY <1>2 DEF FinalizeFromEvent
  <2> HIDE DEF n, s
  <2>3. /\ s.settled = n /\ s.highest = r.highest /\ s.finalized
        /\ s.spent = r.spent /\ s.pending = r.pending
    BY <2>2, SMT DEF Record
  <2>4. f \in Record
    BY SetFlag
  <2> HIDE DEF f
  <2>5. q \in Record
    BY <2>4, SetNumber
  <2> HIDE DEF q
  <2>6. u \in Record
    BY <2>5, SetNumber
  <2> HIDE DEF u
  <2>7. d \in Record
    BY <2>6, SetNumber
  <2> HIDE DEF d
  <2>8. s \in Record
    BY <2>1, <2>2, <2>7, SetNumber
  <2>9. Extends(r, s) /\ KeepsReserve(r, s)
    BY <2>1, <2>3, RecordFields, SMT DEF Extends, KeepsReserve
  <2> QED BY <2>8, <2>9 DEF s
<1> QED BY <1>1, <1>2

\* A close request that a voucher handler saw (_record_pending_close).
LEMMA RecordPendingCloseSound ==
  ASSUME NEW r \in Record, NEW c \in View
  PROVE  LET s == RecordPendingClose(r, c)
         IN s \in Record /\ Extends(r, s) /\ KeepsReserve(r, s)
<1> DEFINE n == KeepGreater(r.settled, c.settled)
           q == KeepGreater(r.closeReq, c.closeReq)
           m == [r EXCEPT !.settled = n]
           s == RecordPendingClose(r, c)
<1>1. n \in Nat /\ q \in Nat /\ n >= r.settled
  BY KeepGreaterNat, RecordFields, ViewFields
<1>2. s = [m EXCEPT !.closeReq = q]
  BY DEF RecordPendingClose
<1>3. /\ s.settled = n /\ s.highest = r.highest /\ s.finalized = r.finalized
      /\ s.spent = r.spent /\ s.pending = r.pending /\ s.deposit = r.deposit
  BY SMT DEF RecordPendingClose, Record
<1> HIDE DEF n, q, s
<1>4. m \in Record
  BY <1>1, SetNumber
<1> HIDE DEF m
<1>5. s \in Record
  BY <1>1, <1>2, <1>4, SetNumber
<1>6. Extends(r, s) /\ KeepsReserve(r, s)
  BY <1>1, <1>3, RecordFields, SMT DEF Extends, KeepsReserve
<1> QED BY <1>5, <1>6 DEF s

\* A read that a voucher did not wait for, and a request the supervisor saw.
LEMMA LateReadSound ==
  ASSUME NEW r \in Record, NEW c \in View
  PROVE  /\ RecordOpenRead(r, c) \in Record
         /\ Extends(r, RecordOpenRead(r, c)) /\ KeepsReserve(r, RecordOpenRead(r, c))
         /\ MergeRequest(r, c) \in Record
         /\ Extends(r, MergeRequest(r, c)) /\ KeepsReserve(r, MergeRequest(r, c))
  BY MergeSound, ExtendsItself, Zenon DEF RecordOpenRead, MergeRequest

-----------------------------------------------------------------------------
(* Steps of the channel.                                                   *)

\* A step that neither settles nor lets time pass: it keeps the types, takes
\* nothing back from the record, and leaves reservation and spend in place.
Quiet ==
  /\ TypeOK'
  /\ Extends(rec, rec') /\ KeepsReserve(rec, rec')
  /\ UNCHANGED <<now, settles, settler>>

-----------------------------------------------------------------------------
(* Types of the escrow and of what is read from it.                        *)

\* The fields of the escrow.
LEMMA EscrowFields ==
  ASSUME NEW e \in EscrowState
  PROVE  /\ e.deposit \in Nat /\ e.settled \in Nat /\ e.closeReq \in Nat
         /\ e.paid \in Nat /\ e.closed \in BOOLEAN /\ e.byPayee \in BOOLEAN
  BY SMT DEF EscrowState

\* A chain read has the type of a view, as has one that was never made.
LEMMA EscrowViewType ==
  ASSUME NEW e \in EscrowState
  PROVE  EscrowView(e) \in View /\ NoView \in View
  BY EscrowFields, SMT DEF EscrowView, NoView, View

\* Replacing a flag of the escrow.
LEMMA SetEscrowFlag ==
  ASSUME NEW e \in EscrowState, NEW b \in BOOLEAN
  PROVE  /\ [e EXCEPT !.closed = b] \in EscrowState
         /\ [e EXCEPT !.byPayee = b] \in EscrowState
  BY SMT DEF EscrowState

\* Every accepted call leaves the escrow well typed.
LEMMA EscrowCallsTyped ==
  ASSUME NEW e \in EscrowState, NEW n \in Nat
  PROVE  /\ OpenedEscrow(n) \in EscrowState
         /\ Settled(e, n) \in EscrowState
         /\ ClosedByPayee(e, n) \in EscrowState
         /\ CloseRequested(e, n) \in EscrowState
         /\ ToppedUp(e, n) \in EscrowState
         /\ Withdrawn(e) \in EscrowState
<1>1. OpenedEscrow(n) \in EscrowState
  BY SMT DEF OpenedEscrow, EscrowState
<1>2. Settled(e, n) \in EscrowState
  BY SMT DEF Settled, EscrowState
<1>3. ClosedByPayee(e, n) \in EscrowState
  <2> DEFINE c == [e EXCEPT !.closed = TRUE]
             p == [c EXCEPT !.byPayee = TRUE]
  <2>1. ClosedByPayee(e, n) = [p EXCEPT !.paid = n]
    BY DEF ClosedByPayee
  <2>2. c \in EscrowState
    BY SetEscrowFlag
  <2> HIDE DEF c
  <2>3. p \in EscrowState
    BY <2>2, SetEscrowFlag
  <2> HIDE DEF p
  <2>4. [p EXCEPT !.paid = n] \in EscrowState
    BY <2>3, SMT DEF EscrowState
  <2> QED BY <2>1, <2>4
<1>4. CloseRequested(e, n) \in EscrowState
  BY SMT DEF CloseRequested, EscrowState
<1>5. ToppedUp(e, n) \in EscrowState
  <2> DEFINE d == [e EXCEPT !.deposit = e.deposit + n]
  <2>1. ToppedUp(e, n) = [d EXCEPT !.closeReq = 0]
    BY DEF ToppedUp
  <2>2. d \in EscrowState
    BY EscrowFields, SMT DEF EscrowState
  <2> HIDE DEF d
  <2>3. [d EXCEPT !.closeReq = 0] \in EscrowState
    BY <2>2, SMT DEF EscrowState
  <2> QED BY <2>1, <2>3
<1>6. Withdrawn(e) \in EscrowState
  <2> DEFINE c == [e EXCEPT !.closed = TRUE]
  <2>1. Withdrawn(e) = [c EXCEPT !.paid = e.settled]
    BY DEF Withdrawn
  <2>2. c \in EscrowState
    BY SetEscrowFlag
  <2> HIDE DEF c
  <2>3. [c EXCEPT !.paid = e.settled] \in EscrowState
    BY <2>2, EscrowFields, SMT DEF EscrowState
  <2> QED BY <2>1, <2>3
<1> QED BY <1>1, <1>2, <1>3, <1>4, <1>5, <1>6

\* The initial state is well typed.
LEMMA InitTyped == Init => TypeOK
<1> SUFFICES ASSUME Init PROVE TypeOK
  OBVIOUS
<1>1. rec \in Record
  BY SMT DEF Init, NoRecord, NoPending, Record, Pending
<1>2. esc \in EscrowState
  BY ChannelAssumption, SMT DEF Init, OpenedEscrow, EscrowState
<1>3. NoView \in View
  BY SMT DEF NoView, View
<1>4. topper \in [Toppers -> TopperState]
  BY <1>3, SMT DEF Init, IdleTopper, TopperState
<1>5. reader \in [Readers -> ReaderState]
  BY <1>3, SMT DEF Init, IdleReader, ReaderState
<1>6. settler \in [Settlers -> SettlerState]
  BY SMT DEF Init, IdleSettler, SettlerState
<1>7. closer \in [Closers -> CloserState]
  BY <1>3, SMT DEF Init, IdleCloser, CloserState
<1>8. supervisor \in [Supervisors -> SupervisorState]
  BY <1>3, SMT DEF Init, IdleSupervisor, SupervisorState
<1>9. opener \in [Openers -> {"mined", "idle"}]
  BY DEF Init
<1>10. now \in Nat /\ noted \in Nat /\ settles \in SUBSET SettleTx /\ closes \in SUBSET CloseTx
  BY SMT DEF Init
<1> QED BY <1>1, <1>2, <1>4, <1>5, <1>6, <1>7, <1>8, <1>9, <1>10 DEF TypeOK

-----------------------------------------------------------------------------
(* Open, top-up and voucher credentials.                                   *)

\* What the open and top-up handlers do.
LEMMA OpenAndTopUpQuiet ==
  ASSUME TypeOK
  PROVE  /\ \A w \in Openers, v \in 0..MaxAmount : RecordOpen(w, v) => Quiet
         /\ \A w \in Toppers, a \in Amounts : TopUpMined(w, a) => Quiet
         /\ \A w \in Toppers : RecordTopUp(w) \/ AbandonTopUp(w) => Quiet
<1> USE DEF TypeOK
<1>1. NoView \in View /\ IdleTopper \in TopperState
  BY SMT DEF NoView, View, IdleTopper, TopperState
<1>2. ASSUME NEW w \in Openers, NEW v \in 0..MaxAmount, RecordOpen(w, v) PROVE Quiet
  <2>1. EscrowView(OpenedEscrow(OpenDeposit)) \in View
    BY EscrowCallsTyped, EscrowViewType, ChannelAssumption
  <2>2. rec' \in Record /\ Extends(rec, rec') /\ KeepsReserve(rec, rec')
    <3>1. v \in Nat
      BY ChannelAssumption, SMT
    <3> QED BY <1>2, <2>1, <3>1, OpenSound DEF RecordOpen
  <2>3. opener' \in [Openers -> {"mined", "idle"}]
    BY <1>2 DEF RecordOpen
  <2> QED BY <1>2, <2>2, <2>3, Zenon DEF Quiet, RecordOpen, chainVars
<1>3. ASSUME NEW w \in Toppers, NEW a \in Amounts, TopUpMined(w, a) PROVE Quiet
  <2>1. a \in Nat
    BY ChannelAssumption, SMT DEF Amounts
  <2>2. esc' \in EscrowState
    BY <1>3, <2>1, EscrowCallsTyped DEF TopUpMined
  <2>3. topper' \in [Toppers -> TopperState]
    <3>1. [pc |-> "mined", seen |-> EscrowView(esc')] \in TopperState
      BY <2>2, EscrowViewType, SMT DEF TopperState
    <3> QED BY <1>3, <3>1 DEF TopUpMined
  <2>4. Extends(rec, rec') /\ KeepsReserve(rec, rec') /\ noted' \in Nat
    BY <1>3, ExtendsItself DEF TopUpMined
  <2> QED BY <1>3, <2>2, <2>3, <2>4, Zenon DEF Quiet, TopUpMined
<1>4. ASSUME NEW w \in Toppers, RecordTopUp(w) PROVE Quiet
  <2>1. topper[w].seen \in View
    BY SMT DEF TopperState
  <2>2. rec' \in Record /\ Extends(rec, rec') /\ KeepsReserve(rec, rec')
    BY <1>4, <2>1, MergeSound DEF RecordTopUp
  <2>3. topper' \in [Toppers -> TopperState]
    BY <1>1, <1>4 DEF RecordTopUp
  <2> QED BY <1>4, <2>2, <2>3, Zenon DEF Quiet, RecordTopUp, chainVars
<1>5. ASSUME NEW w \in Toppers, AbandonTopUp(w) PROVE Quiet
  <2>1. topper' \in [Toppers -> TopperState]
    BY <1>1, <1>5 DEF AbandonTopUp
  <2>2. Extends(rec, rec') /\ KeepsReserve(rec, rec')
    BY <1>5, ExtendsItself DEF AbandonTopUp
  <2> QED BY <1>5, <2>1, <2>2, Zenon DEF Quiet, AbandonTopUp, chainVars
<1> QED BY <1>2, <1>3, <1>4, <1>5

\* The fields of a voucher handler.
LEMMA ReaderFields ==
  ASSUME TypeOK, NEW w \in Readers
  PROVE  /\ reader[w] \in ReaderState
         /\ reader[w].seen \in View /\ reader[w].voucher \in Nat
         /\ reader[w].highest \in Nat /\ reader[w].at \in Nat
  BY SMT DEF TypeOK, ReaderState

\* What the voucher handlers do.
LEMMA VoucherQuiet ==
  ASSUME TypeOK, NEW w \in Readers,
         \/ \E v \in Amounts : ReadVoucher(w, v)
         \/ \E a \in 0..MaxAmount : AcceptRead(w, a)
         \/ ReconcileVoucher(w) \/ ReadInBackground(w) \/ RecordRequest(w) \/ RecordOpenState(w)
         \/ AbandonVoucher(w)
  PROVE  Quiet
<1> USE DEF TypeOK
<1>1. IdleReader \in ReaderState
  BY SMT DEF NoView, View, IdleReader, ReaderState
<1>3. EscrowView(esc) \in View /\ StoredView(rec) \in View
  BY EscrowViewType, StoredViewType
<1>4. ASSUME NEW v \in Amounts, ReadVoucher(w, v) PROVE Quiet
  <2>1. PICK seen \in {EscrowView(esc)} \cup
                 (IF rec.closeReq = 0 /\ v <= rec.deposit THEN {StoredView(rec)} ELSE {}) :
          reader' = [reader EXCEPT ![w] =
            [pc |-> IF rec.closeReq # 0 THEN "read" ELSE "checked",
             voucher |-> v, highest |-> rec.highest, at |-> now, seen |-> seen]]
    BY <1>4, Zenon DEF ReadVoucher
  <2>2. seen \in View
    BY <1>3
  <2>3. [pc |-> IF rec.closeReq # 0 THEN "read" ELSE "checked",
         voucher |-> v, highest |-> rec.highest, at |-> now, seen |-> seen] \in ReaderState
    <3>1. v \in Nat
      BY ChannelAssumption, SMT DEF Amounts
    <3> QED BY <2>2, <3>1, RecordFields, SMT DEF ReaderState
  <2>4. reader' \in [Readers -> ReaderState]
    BY <2>1, <2>3
  <2>5. Extends(rec, rec') /\ KeepsReserve(rec, rec')
    BY <1>4, ExtendsItself DEF ReadVoucher
  <2> QED BY <1>4, <2>4, <2>5, Zenon DEF Quiet, ReadVoucher, chainVars
<1>5. CASE ReconcileVoucher(w)
  <2>1. rec' \in Record /\ Extends(rec, rec') /\ KeepsReserve(rec, rec')
    BY <1>5, ReconcileSound DEF ReconcileVoucher
  <2>2. reader' \in [Readers -> ReaderState]
    <3> DEFINE p == [reader[w] EXCEPT !.pc = "checked"]
               q == [p EXCEPT !.highest = rec'.highest]
    <3>1. p \in ReaderState
      BY ReaderFields, SMT DEF ReaderState
    <3>2. rec'.highest \in Nat
      BY <2>1, RecordFields
    <3>3. reader' = [reader EXCEPT ![w] = q]
      BY <1>5 DEF ReconcileVoucher
    <3> HIDE DEF p
    <3>4. q \in ReaderState
      BY <3>1, <3>2, SMT DEF ReaderState
    <3> QED BY <3>3, <3>4
  <2> QED BY <1>5, <2>1, <2>2, Zenon DEF Quiet, ReconcileVoucher, chainVars
<1>6. ASSUME NEW a \in 0..MaxAmount, AcceptRead(w, a) PROVE Quiet
  <2>1. rec' \in Record /\ Extends(rec, rec') /\ KeepsReserve(rec, rec')
    <3>1. a \in Nat
      BY ChannelAssumption, SMT
    <3> QED BY <1>6, <3>1, ReaderFields, AcceptAndDeductSound DEF AcceptRead
  <2>2. reader' \in [Readers -> ReaderState]
    BY <1>1, <1>6 DEF AcceptRead
  <2> QED BY <1>6, <2>1, <2>2, Zenon DEF Quiet, AcceptRead, chainVars
<1>7. CASE ReadInBackground(w)
  <2>1. reader' \in [Readers -> ReaderState]
    <3> DEFINE p == [IdleReader EXCEPT !.pc = "background"]
               q == [p EXCEPT !.seen = EscrowView(esc)]
    <3>1. p \in ReaderState
      BY <1>1, SMT DEF ReaderState
    <3>2. reader' = [reader EXCEPT ![w] = q]
      BY <1>7 DEF ReadInBackground
    <3> HIDE DEF p
    <3>3. q \in ReaderState
      BY <1>3, <3>1, SMT DEF ReaderState
    <3> QED BY <3>2, <3>3
  <2>2. Extends(rec, rec') /\ KeepsReserve(rec, rec')
    BY <1>7, ExtendsItself DEF ReadInBackground
  <2> QED BY <1>7, <2>1, <2>2, Zenon DEF Quiet, ReadInBackground, chainVars
<1>8. CASE RecordRequest(w)
  <2>1. rec' \in Record /\ Extends(rec, rec') /\ KeepsReserve(rec, rec')
    BY <1>8, ReaderFields, RecordPendingCloseSound DEF RecordRequest
  <2>2. reader' \in [Readers -> ReaderState]
    BY <1>1, <1>8 DEF RecordRequest
  <2>3. noted' \in Nat
    BY <1>8, ReaderFields, ViewFields DEF RecordRequest
  <2> QED BY <1>8, <2>1, <2>2, <2>3, Zenon DEF Quiet, RecordRequest, chainVars
<1>9. CASE RecordOpenState(w)
  <2>1. rec' \in Record /\ Extends(rec, rec') /\ KeepsReserve(rec, rec')
    BY <1>9, ReaderFields, LateReadSound DEF RecordOpenState
  <2>2. reader' \in [Readers -> ReaderState]
    BY <1>1, <1>9 DEF RecordOpenState
  <2> QED BY <1>9, <2>1, <2>2, Zenon DEF Quiet, RecordOpenState, chainVars
<1>10. CASE AbandonVoucher(w)
  <2>1. reader' \in [Readers -> ReaderState]
    BY <1>1, <1>10 DEF AbandonVoucher
  <2>2. Extends(rec, rec') /\ KeepsReserve(rec, rec')
    BY <1>10, ExtendsItself DEF AbandonVoucher
  <2> QED BY <1>10, <2>1, <2>2, Zenon DEF Quiet, AbandonVoucher, chainVars
<1> QED BY <1>4, <1>5, <1>6, <1>7, <1>8, <1>9, <1>10

\* A voucher accepted against stored state, and a charge.
LEMMA AcceptAndChargeQuiet ==
  ASSUME TypeOK
  PROVE  /\ \A v \in Amounts, a \in 0..MaxAmount : AcceptStored(v, a) => Quiet
         /\ \A a \in Amounts : ChargeChannel(a) => Quiet
<1> USE DEF TypeOK
<1>1. ASSUME NEW v \in Amounts, NEW a \in 0..MaxAmount, AcceptStored(v, a) PROVE Quiet
  <2>1. v \in Nat /\ a \in Nat
    BY ChannelAssumption, SMT DEF Amounts
  <2>2. rec' \in Record /\ Extends(rec, rec') /\ KeepsReserve(rec, rec')
    BY <1>1, <2>1, StoredViewType, AcceptAndDeductSound DEF AcceptStored
  <2> QED BY <1>1, <2>2, Zenon DEF Quiet, AcceptStored, chainVars, workers
<1>2. ASSUME NEW a \in Amounts, ChargeChannel(a) PROVE Quiet
  <2>1. a \in Nat
    BY ChannelAssumption, SMT DEF Amounts
  <2>2. rec' \in Record /\ Extends(rec, rec') /\ KeepsReserve(rec, rec')
    BY <1>2, <2>1, DeductSound DEF ChargeChannel
  <2> QED BY <1>2, <2>2, Zenon DEF Quiet, ChargeChannel, chainVars, workers
<1> QED BY <1>1, <1>2

-----------------------------------------------------------------------------
(* Closing.                                                                *)

\* The fields of a close handler.
LEMMA CloserFields ==
  ASSUME TypeOK, NEW w \in Closers
  PROVE  /\ closer[w] \in CloserState
         /\ closer[w].seen \in View /\ closer[w].voucher \in Nat
         /\ closer[w].capture \in Nat /\ closer[w].at \in Nat
  BY SMT DEF TypeOK, CloserState

\* Moving a close handler on.
LEMMA CloserMoves ==
  ASSUME NEW c \in CloserState, NEW n \in Nat,
         NEW pc \in {"idle", "checked", "marked", "sent", "mined", "reverted"}
  PROVE  /\ [c EXCEPT !.pc = pc] \in CloserState
         /\ [c EXCEPT !.capture = n] \in CloserState
         /\ IdleCloser \in CloserState
  BY SMT DEF CloserState, IdleCloser, NoView, View

\* What the handlers of close credentials do.
LEMMA CloseQuiet ==
  ASSUME TypeOK, NEW w \in Closers,
         \/ \E v \in 0..MaxAmount : CheckClose(w, v)
         \/ MarkClose(w) \/ SendClose(w) \/ ClearClose(w)
         \/ FinishClose(w) \/ AbandonClose(w)
  PROVE  Quiet
<1> USE DEF TypeOK
<1>1. IdleCloser \in CloserState
  BY SMT DEF NoView, View, IdleCloser, CloserState
<1>2. ASSUME NEW v \in 0..MaxAmount, CheckClose(w, v) PROVE Quiet
  <2>1. v \in Nat
    BY ChannelAssumption, SMT
  <2>2. [pc |-> "checked", voucher |-> v, capture |-> 0, at |-> now,
         seen |-> EscrowView(esc)] \in CloserState
    BY <2>1, EscrowViewType, SMT DEF CloserState
  <2>3. closer' \in [Closers -> CloserState]
    BY <1>2, <2>2 DEF CheckClose
  <2>4. Extends(rec, rec') /\ KeepsReserve(rec, rec')
    BY <1>2, ExtendsItself DEF CheckClose
  <2> QED BY <1>2, <2>3, <2>4, Zenon DEF Quiet, CheckClose, chainVars
<1>3. CASE MarkClose(w)
  <2> DEFINE current == ReconcileExpired(rec, closer[w].at, closer[w].seen)
             n == CloseCapture(current.spent, closer[w].seen)
             p == [closer[w] EXCEPT !.pc = "marked"]
             q == [p EXCEPT !.capture = n]
  <2>1. current \in Record /\ Extends(rec, current) /\ KeepsReserve(rec, current)
    BY ReconcileSound
  <2>2. n \in Nat
    BY <2>1, CloserFields, RecordFields, ViewFields, KeepGreaterNat DEF CloseCapture
  <2>3. \/ rec' = MarkClosing(current, closer[w].at) /\ closer' = [closer EXCEPT ![w] = q]
        \/ rec' = rec /\ closer' = [closer EXCEPT ![w] = IdleCloser]
    BY <1>3 DEF MarkClose
  <2> HIDE DEF current, n
  <2>4. rec' \in Record /\ Extends(rec, rec') /\ KeepsReserve(rec, rec')
    <3> DEFINE m == MarkClosing(current, closer[w].at)
    <3>1. m \in Record /\ Extends(current, m) /\ KeepsReserve(current, m)
      BY <2>1, CloserFields, MarkAndClearSound
    <3> HIDE DEF m
    <3>2. Extends(rec, m) /\ KeepsReserve(rec, m)
      BY <2>1, <3>1, ExtendsTwice
    <3> QED BY <2>3, <3>1, <3>2, ExtendsItself DEF m
  <2>5. q \in CloserState
    <3>1. p \in CloserState
      BY CloserFields, CloserMoves
    <3> HIDE DEF p
    <3> QED BY <2>2, <3>1, CloserMoves
  <2>6. closer' \in [Closers -> CloserState]
    BY <1>1, <2>3, <2>5
  <2> QED BY <1>3, <2>4, <2>6, Zenon DEF Quiet, MarkClose, chainVars
<1>4. CASE SendClose(w)
  <2>1. closes' \in SUBSET CloseTx
    <3>1. CloserTx(w) \in CloseTx
      BY CloserFields, RecordAssumption, SMT DEF CloserTx, CloseTx, ValidBefore
    <3>2. closes' \subseteq closes \cup {CloserTx(w)}
      BY <1>4 DEF SendClose, Broadcast
    <3> QED BY <3>1, <3>2
  <2>2. closer' \in [Closers -> CloserState]
    <3>1. [closer[w] EXCEPT !.pc = "sent"] \in CloserState
      BY CloserFields, CloserMoves
    <3> QED BY <1>4, <3>1 DEF SendClose
  <2>3. Extends(rec, rec') /\ KeepsReserve(rec, rec')
    BY <1>4, ExtendsItself DEF SendClose
  <2> QED BY <1>4, <2>1, <2>2, <2>3, Zenon DEF Quiet, SendClose
<1>5. CASE ClearClose(w)
  <2>1. rec' \in Record /\ Extends(rec, rec') /\ KeepsReserve(rec, rec')
    BY <1>5, CloserFields, MarkAndClearSound DEF ClearClose
  <2>2. closer' \in [Closers -> CloserState]
    BY <1>1, <1>5 DEF ClearClose
  <2> QED BY <1>5, <2>1, <2>2, Zenon DEF Quiet, ClearClose, chainVars
<1>6. CASE FinishClose(w)
  <2>1. rec' \in Record /\ Extends(rec, rec') /\ KeepsReserve(rec, rec')
    BY <1>6, CloserFields, FinalizeClosedSound DEF FinishClose
  <2>2. closer' \in [Closers -> CloserState]
    BY <1>1, <1>6 DEF FinishClose
  <2> QED BY <1>6, <2>1, <2>2, Zenon DEF Quiet, FinishClose, chainVars
<1>7. CASE AbandonClose(w)
  <2>1. closer' \in [Closers -> CloserState]
    BY <1>1, <1>7 DEF AbandonClose
  <2>2. Extends(rec, rec') /\ KeepsReserve(rec, rec')
    BY <1>7, ExtendsItself DEF AbandonClose
  <2> QED BY <1>7, <2>1, <2>2, Zenon DEF Quiet, AbandonClose, chainVars
<1> QED BY <1>2, <1>3, <1>4, <1>5, <1>6, <1>7

\* The fields of a close supervisor.
LEMMA SupervisorFields ==
  ASSUME TypeOK, NEW w \in Supervisors
  PROVE  /\ supervisor[w] \in SupervisorState
         /\ supervisor[w].seen \in View /\ supervisor[w].voucher \in Nat
         /\ supervisor[w].capture \in Nat /\ supervisor[w].spent \in Nat
         /\ supervisor[w].until \in Nat
  BY SMT DEF TypeOK, SupervisorState

\* Moving a supervisor on.
LEMMA SupervisorMoves ==
  ASSUME NEW s \in SupervisorState, NEW n \in Nat,
         NEW pc \in {"idle", "read", "merged", "reserved", "sent", "mined", "reverted"}
  PROVE  /\ [s EXCEPT !.pc = pc] \in SupervisorState
         /\ [s EXCEPT !.voucher = n] \in SupervisorState
         /\ [s EXCEPT !.capture = n] \in SupervisorState
         /\ [s EXCEPT !.spent = n] \in SupervisorState
         /\ [s EXCEPT !.until = n] \in SupervisorState
  BY SMT DEF SupervisorState

\* What a read hands to a supervisor.
LEMMA SupervisorReads ==
  ASSUME NEW s \in SupervisorState, NEW t \in Int, NEW c \in View, NEW b \in BOOLEAN
  PROVE  /\ [s EXCEPT !.at = t] \in SupervisorState
         /\ [s EXCEPT !.seen = c] \in SupervisorState
         /\ [s EXCEPT !.closing = b] \in SupervisorState
  BY SMT DEF SupervisorState

\* What the close supervisors do.
LEMMA SuperviseQuiet ==
  ASSUME TypeOK, NEW w \in Supervisors,
         \/ ReadSupervised(w) \/ FinalizeGone(w) \/ ReconcileSupervised(w)
         \/ MergeSupervised(w) \/ ReserveSupervised(w) \/ SendSupervised(w)
         \/ ReleaseSupervised(w) \/ FinishSupervised(w) \/ AbandonSupervised(w)
  PROVE  Quiet
<1> USE DEF TypeOK
<1>1. IdleSupervisor \in SupervisorState
  BY SMT DEF NoView, View, IdleSupervisor, SupervisorState
<1>2. esc.paid \in Nat
  BY EscrowFields
<1>3. CASE ReadSupervised(w)
  <2> DEFINE b == rec.closeReq # 0
             p == [IdleSupervisor EXCEPT !.pc = "read"]
             t == [p EXCEPT !.at = ChainNow]
             c == [t EXCEPT !.seen = EscrowView(esc)]
             q == [c EXCEPT !.closing = b]
  <2>1. supervisor' = [supervisor EXCEPT ![w] = q]
    BY <1>3 DEF ReadSupervised
  <2>2. b \in BOOLEAN /\ ChainNow \in Int /\ EscrowView(esc) \in View
    BY EscrowViewType, ChannelAssumption, SMT DEF ChainNow
  <2> HIDE DEF b
  <2>3. p \in SupervisorState
    BY <1>1, SupervisorMoves
  <2> HIDE DEF p
  <2>4. t \in SupervisorState
    BY <2>2, <2>3, SupervisorReads
  <2> HIDE DEF t
  <2>5. c \in SupervisorState
    BY <2>2, <2>4, SupervisorReads
  <2> HIDE DEF c
  <2>6. q \in SupervisorState
    BY <2>2, <2>5, SupervisorReads
  <2>7. supervisor' \in [Supervisors -> SupervisorState]
    BY <2>1, <2>6
  <2>8. Extends(rec, rec') /\ KeepsReserve(rec, rec')
    BY <1>3, ExtendsItself DEF ReadSupervised
  <2> QED BY <1>3, <2>7, <2>8, Zenon DEF Quiet, ReadSupervised, chainVars
<1>4. CASE FinalizeGone(w)
  <2>1. rec' \in Record /\ Extends(rec, rec') /\ KeepsReserve(rec, rec')
    BY <1>2, <1>4, FinalizeFromEventSound DEF FinalizeGone
  <2>2. supervisor' \in [Supervisors -> SupervisorState]
    BY <1>1, <1>4 DEF FinalizeGone
  <2> QED BY <1>4, <2>1, <2>2, Zenon DEF Quiet, FinalizeGone, chainVars
<1>5. CASE ReconcileSupervised(w)
  <2>1. rec' \in Record /\ Extends(rec, rec') /\ KeepsReserve(rec, rec')
    BY <1>5, ReconcileSound DEF ReconcileSupervised
  <2>2. supervisor' \in [Supervisors -> SupervisorState]
    BY <1>1, <1>5 DEF ReconcileSupervised
  <2> QED BY <1>5, <2>1, <2>2, Zenon DEF Quiet, ReconcileSupervised, chainVars
<1>6. CASE MergeSupervised(w)
  <2> DEFINE n == CloseCapture(rec'.spent, supervisor[w].seen)
             p == [supervisor[w] EXCEPT !.pc = "merged"]
             v == [p EXCEPT !.voucher = rec'.highest]
             c == [v EXCEPT !.capture = n]
             q == [c EXCEPT !.spent = rec'.spent]
  <2>1. rec' \in Record /\ Extends(rec, rec') /\ KeepsReserve(rec, rec')
    BY <1>6, SupervisorFields, LateReadSound DEF MergeSupervised
  <2>2. n \in Nat /\ rec'.highest \in Nat /\ rec'.spent \in Nat
    BY <2>1, SupervisorFields, RecordFields, ViewFields, KeepGreaterNat DEF CloseCapture
  <2>3. \/ supervisor' = [supervisor EXCEPT ![w] = q]
        \/ supervisor' = [supervisor EXCEPT ![w] = IdleSupervisor]
    BY <1>6 DEF MergeSupervised
  <2>4. noted' \in Nat
    BY <1>6, SupervisorFields, ViewFields DEF MergeSupervised
  <2> HIDE DEF n
  <2>5. p \in SupervisorState
    BY SupervisorFields, SupervisorMoves
  <2> HIDE DEF p
  <2>6. v \in SupervisorState
    BY <2>2, <2>5, SupervisorMoves
  <2> HIDE DEF v
  <2>7. c \in SupervisorState
    BY <2>2, <2>6, SupervisorMoves
  <2> HIDE DEF c
  <2>8. q \in SupervisorState
    BY <2>2, <2>7, SupervisorMoves
  <2>9. supervisor' \in [Supervisors -> SupervisorState]
    BY <1>1, <2>3, <2>8
  <2> QED BY <1>6, <2>1, <2>4, <2>9, Zenon DEF Quiet, MergeSupervised, chainVars
<1>7. CASE ReserveSupervised(w)
  <2> PICK t \in Recent :
        \/ /\ rec' = ReserveClose(rec, ValidBefore(t))
           /\ supervisor' = [supervisor EXCEPT ![w] =
                [[supervisor[w] EXCEPT !.pc = "reserved"] EXCEPT !.until = ValidBefore(t)]]
        \/ rec' = rec /\ supervisor' = [supervisor EXCEPT ![w] = IdleSupervisor]
    BY <1>7 DEF ReserveSupervised
  <2> DEFINE p == [supervisor[w] EXCEPT !.pc = "reserved"]
             q == [p EXCEPT !.until = ValidBefore(t)]
  <2>1. ValidBefore(t) \in Nat
    BY RecordAssumption, SMT DEF Recent, ValidBefore
  <2>2. rec' \in Record /\ Extends(rec, rec') /\ KeepsReserve(rec, rec')
    BY <2>1, ExtendsItself, ReserveAndReleaseSound
  <2>3. p \in SupervisorState
    BY SupervisorFields, SupervisorMoves
  <2>4. q \in SupervisorState
    <3> HIDE DEF p
    <3> QED BY <2>1, <2>3, SupervisorMoves
  <2>5. supervisor' \in [Supervisors -> SupervisorState]
    BY <1>1, <2>4
  <2> QED BY <1>7, <2>2, <2>5, Zenon DEF Quiet, ReserveSupervised, chainVars
<1>8. CASE SendSupervised(w)
  <2>1. closes' \in SUBSET CloseTx
    <3>1. SupervisorTx(w) \in CloseTx
      BY SupervisorFields, SMT DEF SupervisorTx, CloseTx
    <3>2. closes' \subseteq closes \cup {SupervisorTx(w)}
      BY <1>8 DEF SendSupervised, Broadcast
    <3> QED BY <3>1, <3>2
  <2>2. supervisor' \in [Supervisors -> SupervisorState]
    <3>1. [supervisor[w] EXCEPT !.pc = "sent"] \in SupervisorState
      BY SupervisorFields, SupervisorMoves
    <3> QED BY <1>8, <3>1 DEF SendSupervised
  <2>3. Extends(rec, rec') /\ KeepsReserve(rec, rec')
    BY <1>8, ExtendsItself DEF SendSupervised
  <2> QED BY <1>8, <2>1, <2>2, <2>3, Zenon DEF Quiet, SendSupervised
<1>9. CASE ReleaseSupervised(w)
  <2>1. rec' \in Record /\ Extends(rec, rec') /\ KeepsReserve(rec, rec')
    BY <1>9, SupervisorFields, ReserveAndReleaseSound DEF ReleaseSupervised
  <2>2. supervisor' \in [Supervisors -> SupervisorState]
    BY <1>1, <1>9 DEF ReleaseSupervised
  <2> QED BY <1>9, <2>1, <2>2, Zenon DEF Quiet, ReleaseSupervised, chainVars
<1>10. CASE FinishSupervised(w)
  <2>1. rec' \in Record /\ Extends(rec, rec') /\ KeepsReserve(rec, rec')
    BY <1>2, <1>10, SupervisorFields, FinalizeClosedSound DEF FinishSupervised
  <2>2. supervisor' \in [Supervisors -> SupervisorState]
    BY <1>1, <1>10 DEF FinishSupervised
  <2> QED BY <1>10, <2>1, <2>2, Zenon DEF Quiet, FinishSupervised, chainVars
<1>11. CASE AbandonSupervised(w)
  <2>1. supervisor' \in [Supervisors -> SupervisorState]
    BY <1>1, <1>11 DEF AbandonSupervised
  <2>2. Extends(rec, rec') /\ KeepsReserve(rec, rec')
    BY <1>11, ExtendsItself DEF AbandonSupervised
  <2> QED BY <1>11, <2>1, <2>2, Zenon DEF Quiet, AbandonSupervised, chainVars
<1> QED BY <1>3, <1>4, <1>5, <1>6, <1>7, <1>8, <1>9, <1>10, <1>11

-----------------------------------------------------------------------------
(* Settlement, the chain, the payer and time: types.                       *)

\* The fields of a settlement worker.
LEMMA SettlerFields ==
  ASSUME TypeOK, NEW w \in Settlers
  PROVE  /\ settler[w] \in SettlerState
         /\ settler[w].amount \in Nat /\ settler[w].until \in Nat
  BY SMT DEF TypeOK, SettlerState

\* Moving a settlement worker on.
LEMMA SettlerMoves ==
  ASSUME NEW s \in SettlerState,
         NEW pc \in {"idle", "claimed", "sent", "mined", "reverted"}
  PROVE  /\ [s EXCEPT !.pc = pc] \in SettlerState
         /\ IdleSettler \in SettlerState
  BY SMT DEF SettlerState, IdleSettler

SettleStep(w) ==
  \/ ClaimSettle(w) \/ SendSettle(w) \/ ReleaseSettle(w)
  \/ RecordSettle(w) \/ AbandonSettle(w)

\* What the settlement workers and the credits do to types and record.
LEMMA SettleTyped ==
  ASSUME TypeOK
  PROVE  /\ \A a \in Amounts : CreditChannel(a) => TypeOK' /\ Extends(rec, rec')
         /\ \A w \in Settlers : SettleStep(w) => TypeOK' /\ Extends(rec, rec')
<1> USE DEF TypeOK
<1>1. IdleSettler \in SettlerState
  BY SMT DEF IdleSettler, SettlerState
<1>2. ASSUME NEW a \in Amounts, CreditChannel(a) PROVE TypeOK' /\ Extends(rec, rec')
  <2>1. PICK t \in Recent : CanCredit(rec, a, t)
    BY <1>2 DEF CreditChannel
  <2>2. a \in Nat /\ t \in Nat
    BY ChannelAssumption, SMT DEF Amounts, Recent
  <2>3. rec' \in Record /\ Extends(rec, rec')
    BY <1>2, <2>1, <2>2, CreditSound DEF CreditChannel
  <2> QED BY <1>2, <2>3, Zenon DEF CreditChannel, chainVars, workers
<1>3. ASSUME NEW w \in Settlers, ClaimSettle(w) PROVE TypeOK' /\ Extends(rec, rec')
  <2>1. PICK v \in LargestSettleable(rec), t \in Recent :
          /\ rec' = ClaimSettlement(rec, v, ValidBefore(t))
          /\ settler' = [settler EXCEPT ![w] =
               [pc |-> "claimed", amount |-> v, until |-> ValidBefore(t)]]
    BY <1>3 DEF ClaimSettle
  <2>2. v \in Nat /\ ValidBefore(t) \in Nat
    BY SettleableBounds, RecordAssumption, SMT DEF Recent, ValidBefore
  <2>3. rec' \in Record /\ Extends(rec, rec')
    BY <2>1, <2>2, ClaimSound
  <2>4. settler' \in [Settlers -> SettlerState]
    <3>1. [pc |-> "claimed", amount |-> v, until |-> ValidBefore(t)] \in SettlerState
      BY <2>2, SMT DEF SettlerState
    <3> QED BY <2>1, <3>1
  <2> QED BY <1>3, <2>3, <2>4, Zenon DEF ClaimSettle, chainVars
<1>4. ASSUME NEW w \in Settlers, SendSettle(w) PROVE TypeOK' /\ Extends(rec, rec')
  <2>1. settles' \in SUBSET SettleTx
    <3>1. SettlerTx(w) \in SettleTx
      BY SettlerFields, SMT DEF SettlerTx, SettleTx
    <3>2. settles' \subseteq settles \cup {SettlerTx(w)}
      BY <1>4 DEF SendSettle, Broadcast
    <3> QED BY <3>1, <3>2
  <2>2. settler' \in [Settlers -> SettlerState]
    <3>1. [settler[w] EXCEPT !.pc = "sent"] \in SettlerState
      BY SettlerFields, SettlerMoves
    <3> QED BY <1>4, <3>1 DEF SendSettle
  <2>3. Extends(rec, rec')
    BY <1>4, ExtendsItself DEF SendSettle
  <2> QED BY <1>4, <2>1, <2>2, <2>3, Zenon DEF SendSettle
<1>5. ASSUME NEW w \in Settlers, ReleaseSettle(w) PROVE TypeOK' /\ Extends(rec, rec')
  <2>1. rec' \in Record /\ Extends(rec, rec')
    BY <1>5, SettlerFields, ReleaseSound DEF ReleaseSettle
  <2>2. settler' \in [Settlers -> SettlerState]
    BY <1>1, <1>5 DEF ReleaseSettle
  <2> QED BY <1>5, <2>1, <2>2, Zenon DEF ReleaseSettle, chainVars
<1>6. ASSUME NEW w \in Settlers, RecordSettle(w) PROVE TypeOK' /\ Extends(rec, rec')
  <2>1. rec' \in Record /\ Extends(rec, rec')
    BY <1>6, SettlerFields, RecordSettledSound DEF RecordSettle
  <2>2. settler' \in [Settlers -> SettlerState]
    BY <1>1, <1>6 DEF RecordSettle
  <2> QED BY <1>6, <2>1, <2>2, Zenon DEF RecordSettle, chainVars
<1>7. ASSUME NEW w \in Settlers, AbandonSettle(w) PROVE TypeOK' /\ Extends(rec, rec')
  <2>1. settler' \in [Settlers -> SettlerState]
    BY <1>1, <1>7 DEF AbandonSettle
  <2>2. Extends(rec, rec')
    BY <1>7, ExtendsItself DEF AbandonSettle
  <2> QED BY <1>7, <2>1, <2>2, Zenon DEF AbandonSettle, chainVars
<1> QED BY <1>2, <1>3, <1>4, <1>5, <1>6, <1>7, Zenon DEF SettleStep

\* What the outcome of a settle transaction does to the workers.
LEMMA SettleOutcomeTyped ==
  ASSUME TypeOK, NEW tx \in settles, NEW pc \in {"mined", "reverted"},
         SettleOutcome(tx, pc)
  PROVE  settler' \in [Settlers -> SettlerState]
<1> USE DEF TypeOK
<1>1. tx.by \in Settlers
  BY SMT DEF SettleTx
<1>2. [settler[tx.by] EXCEPT !.pc = pc] \in SettlerState
  BY <1>1, SettlerFields, SettlerMoves
<1>3. \/ settler' = settler
      \/ settler' = [settler EXCEPT ![tx.by] = [settler[tx.by] EXCEPT !.pc = pc]]
  BY DEF SettleOutcome
<1> QED BY <1>2, <1>3

\* What the outcome of a close transaction does to the workers.
LEMMA CloseOutcomeTyped ==
  ASSUME TypeOK, NEW tx \in closes, NEW pc \in {"mined", "reverted"},
         CloseOutcome(tx, pc)
  PROVE  /\ closer' \in [Closers -> CloserState]
         /\ supervisor' \in [Supervisors -> SupervisorState]
<1> USE DEF TypeOK
<1>1. tx.by \in Closers \cup Supervisors
  BY SMT DEF CloseTx
<1>2. CASE tx.by \in Closers
  <2>1. [closer[tx.by] EXCEPT !.pc = pc] \in CloserState
    BY <1>2, CloserFields, CloserMoves
  <2>2. /\ \/ closer' = closer
           \/ closer' = [closer EXCEPT ![tx.by] = [closer[tx.by] EXCEPT !.pc = pc]]
        /\ supervisor' = supervisor
    BY <1>2 DEF CloseOutcome
  <2> QED BY <2>1, <2>2
<1>3. CASE tx.by \notin Closers
  <2>1. [supervisor[tx.by] EXCEPT !.pc = pc] \in SupervisorState
    BY <1>1, <1>3, SupervisorFields, SupervisorMoves
  <2>2. /\ closer' = closer
        /\ \/ supervisor' = supervisor
           \/ supervisor' = [supervisor EXCEPT ![tx.by] = [supervisor[tx.by] EXCEPT !.pc = pc]]
    BY <1>3 DEF CloseOutcome
  <2> QED BY <2>1, <2>2
<1> QED BY <1>2, <1>3

\* Closes that land or revert, and what the payer does, are quiet.
LEMMA ChainQuiet ==
  ASSUME TypeOK
  PROVE  /\ \A tx \in closes : CloseLands(tx) \/ CloseReverts(tx) => Quiet
         /\ RequestClose \/ Withdraw => Quiet
<1> USE DEF TypeOK
<1>1. ASSUME NEW tx \in closes, CloseLands(tx) PROVE Quiet
  <2>1. tx.capture \in Nat
    BY SMT DEF CloseTx
  <2>2. esc' \in EscrowState
    BY <1>1, <2>1, EscrowCallsTyped DEF CloseLands
  <2>3. closer' \in [Closers -> CloserState] /\ supervisor' \in [Supervisors -> SupervisorState]
    BY <1>1, CloseOutcomeTyped DEF CloseLands
  <2>4. Extends(rec, rec') /\ KeepsReserve(rec, rec') /\ closes' \in SUBSET CloseTx
    BY <1>1, ExtendsItself DEF CloseLands
  <2> QED BY <1>1, <2>2, <2>3, <2>4, Zenon DEF Quiet, CloseLands
<1>2. ASSUME NEW tx \in closes, CloseReverts(tx) PROVE Quiet
  <2>1. closer' \in [Closers -> CloserState] /\ supervisor' \in [Supervisors -> SupervisorState]
    BY <1>2, CloseOutcomeTyped DEF CloseReverts
  <2>2. Extends(rec, rec') /\ KeepsReserve(rec, rec') /\ closes' \in SUBSET CloseTx
    BY <1>2, ExtendsItself DEF CloseReverts
  <2> QED BY <1>2, <2>1, <2>2, Zenon DEF Quiet, CloseReverts
<1>3. ASSUME RequestClose PROVE Quiet
  <2>1. ChainNow \in Nat
    BY <1>3, ChannelAssumption, SMT DEF RequestClose, ChainNow
  <2>2. esc' \in EscrowState
    BY <1>3, <2>1, EscrowCallsTyped DEF RequestClose
  <2>3. Extends(rec, rec') /\ KeepsReserve(rec, rec')
    BY <1>3, ExtendsItself DEF RequestClose
  <2> QED BY <1>3, <2>2, <2>3, Zenon DEF Quiet, RequestClose, workers
<1>4. ASSUME Withdraw PROVE Quiet
  <2>1. esc' \in EscrowState
    BY <1>4, EscrowCallsTyped DEF Withdraw
  <2>2. Extends(rec, rec') /\ KeepsReserve(rec, rec')
    BY <1>4, ExtendsItself DEF Withdraw
  <2> QED BY <1>4, <2>1, <2>2, Zenon DEF Quiet, Withdraw, workers
<1> QED BY <1>1, <1>2, <1>3, <1>4

\* Settlements that land or revert, and the clock, leave the record alone.
LEMMA SettleOutcomesAndTickTyped ==
  ASSUME TypeOK
  PROVE  /\ \A tx \in settles : SettleLands(tx) \/ SettleReverts(tx)
              => TypeOK' /\ rec' = rec
         /\ Tick => TypeOK' /\ rec' = rec
<1> USE DEF TypeOK
<1>1. ASSUME NEW tx \in settles, SettleLands(tx) PROVE TypeOK' /\ rec' = rec
  <2>1. tx.amount \in Nat
    BY SMT DEF SettleTx
  <2>2. esc' \in EscrowState
    BY <1>1, <2>1, EscrowCallsTyped DEF SettleLands
  <2>3. settler' \in [Settlers -> SettlerState]
    BY <1>1, SettleOutcomeTyped DEF SettleLands
  <2>4. settles' \in SUBSET SettleTx
    BY <1>1 DEF SettleLands
  <2> QED BY <1>1, <2>2, <2>3, <2>4, Zenon DEF SettleLands
<1>2. ASSUME NEW tx \in settles, SettleReverts(tx) PROVE TypeOK' /\ rec' = rec
  <2>1. settler' \in [Settlers -> SettlerState]
    BY <1>2, SettleOutcomeTyped DEF SettleReverts
  <2>2. settles' \in SUBSET SettleTx
    BY <1>2 DEF SettleReverts
  <2> QED BY <1>2, <2>1, <2>2, Zenon DEF SettleReverts
<1>3. ASSUME Tick PROVE TypeOK' /\ rec' = rec
  <2>1. now' \in Nat
    BY <1>3, SMT DEF Tick
  <2>2. settles' \in SUBSET SettleTx /\ closes' \in SUBSET CloseTx
    BY <1>3 DEF Tick
  <2> QED BY <1>3, <2>1, <2>2, Zenon DEF Tick, workers
<1> QED BY <1>1, <1>2, <1>3

-----------------------------------------------------------------------------
(* The kinds of steps, and what follows from them.                         *)

\* Every step is quiet, or one of settlement, credit or time.
LEMMA StepKinds ==
  ASSUME TypeOK, Next
  PROVE  \/ Quiet
         \/ \E a \in Amounts : CreditChannel(a)
         \/ \E w \in Settlers : SettleStep(w)
         \/ \E tx \in settles : SettleLands(tx) \/ SettleReverts(tx)
         \/ Tick
<1>1. CASE CredentialNext
  <2>1. ASSUME NEW w \in Readers,
               \/ \E v \in Amounts : ReadVoucher(w, v)
               \/ ReconcileVoucher(w)
               \/ \E a \in 0..MaxAmount : AcceptRead(w, a)
               \/ ReadInBackground(w) \/ RecordRequest(w) \/ RecordOpenState(w)
               \/ AbandonVoucher(w)
        PROVE  Quiet
    BY <2>1, VoucherQuiet
  <2> QED BY <1>1, <2>1, OpenAndTopUpQuiet, AcceptAndChargeQuiet, Zenon DEF CredentialNext
<1>2. CASE SettleNext
  BY <1>2, AcceptAndChargeQuiet, Zenon DEF SettleNext, SettleStep
<1>3. CASE CloseNext
  <2>1. ASSUME NEW w \in Closers,
               \/ \E v \in 0..MaxAmount : CheckClose(w, v)
               \/ MarkClose(w) \/ SendClose(w) \/ ClearClose(w)
               \/ FinishClose(w) \/ AbandonClose(w)
        PROVE  Quiet
    BY <2>1, CloseQuiet
  <2>2. ASSUME NEW w \in Supervisors,
               \/ ReadSupervised(w) \/ FinalizeGone(w) \/ ReconcileSupervised(w)
               \/ MergeSupervised(w) \/ ReserveSupervised(w) \/ SendSupervised(w)
               \/ ReleaseSupervised(w) \/ FinishSupervised(w) \/ AbandonSupervised(w)
        PROVE  Quiet
    BY <2>2, SuperviseQuiet
  <2> QED BY <1>3, <2>1, <2>2, Zenon DEF CloseNext
<1>4. CASE ChainNext
  BY <1>4, ChainQuiet, Zenon DEF ChainNext
<1> QED BY <1>1, <1>2, <1>3, <1>4 DEF Next

\* Every step keeps the types, and takes nothing back from the record.
LEMMA StepTyped ==
  ASSUME TypeOK, [Next]_vars
  PROVE  TypeOK' /\ Extends(rec, rec')
<1>1. CASE Next
  <2>1. rec \in Record
    BY DEF TypeOK
  <2>2. CASE Quiet
    BY <2>2 DEF Quiet
  <2>3. CASE \E a \in Amounts : CreditChannel(a)
    BY <2>3, SettleTyped
  <2>4. CASE \E w \in Settlers : SettleStep(w)
    BY <2>4, SettleTyped
  <2>5. CASE \/ Tick
             \/ \E tx \in settles : SettleLands(tx) \/ SettleReverts(tx)
    BY <2>1, <2>5, SettleOutcomesAndTickTyped, ExtendsItself
  <2> QED BY <1>1, <2>2, <2>3, <2>4, <2>5, StepKinds
<1>2. CASE UNCHANGED vars
  <2>1. TypeOK'
    BY <1>2, Zenon DEF TypeOK, vars
  <2>2. Extends(rec, rec')
    BY <1>2, ExtendsItself DEF TypeOK, vars
  <2> QED BY <2>1, <2>2
<1> QED BY <1>1, <1>2

\* The types hold throughout, for any workers, bounds and clock lag.
THEOREM TypeCorrect == Spec => []TypeOK
<1>1. TypeOK /\ [Next]_vars => TypeOK'
  BY StepTyped
<1> QED BY InitTyped, <1>1, PTL DEF Spec

\* No update of the record, in whatever order the handlers of several
\* processes make them and however old the chain state they carry, takes
\* back a voucher, a settlement, a deposit of an open channel or the end of
\* a channel (merge_active_on_chain_state and the update callbacks).
THEOREM RecordNeverRegresses == Spec => RecordMonotonic
<1>1. ASSUME TypeOK, [Next]_vars
      PROVE  [/\ rec'.highest >= rec.highest
              /\ rec'.settled >= rec.settled
              /\ rec.finalized => rec'.finalized
              /\ ~rec'.finalized => rec'.deposit >= rec.deposit]_rec
  BY <1>1, StepTyped DEF Extends
<1> QED BY TypeCorrect, <1>1, PTL DEF Spec, RecordMonotonic

-----------------------------------------------------------------------------
(* No credit undercuts a settlement in flight.                             *)

\* Two reservations are equal only for the same voucher and deadline.
LEMMA ReservationInjective ==
  ASSUME NEW a \in Nat, NEW u \in Nat, NEW b \in Nat, NEW v \in Nat,
         Reservation(a, u) = Reservation(b, v)
  PROVE  a = b /\ u = v
<1>1. a = b /\ u + Skew = v + Skew
  BY ReservationType
<1> QED BY <1>1, RecordAssumption, SMT

\* While a transaction may land, its reservation keeps credits above it.
LEMMA OutstandingBlocks ==
  ASSUME TypeOK, NEW a \in Nat, NEW u \in Nat, Outstanding(u),
         rec.pending = Reservation(a, u), NEW t \in Nat, t <= now
  PROVE  rec.pending.until > t /\ rec.pending.amount = a
<1>1. rec.pending.until = u + Skew /\ rec.pending.amount = a
  <2>1. Reservation(a, u).until = u + Skew /\ Reservation(a, u).amount = a
    BY ReservationType
  <2> QED BY <2>1
<1>2. now < u + Skew
  BY RecordAssumption, ChannelAssumption, SMT DEF TypeOK, Outstanding, ChainNow
<1> QED BY <1>1, <1>2, RecordAssumption, SMT DEF TypeOK

\* The transactions in flight, and those who may release a reservation.
LEMMA SettleFields ==
  ASSUME TypeOK
  PROVE  /\ \A tx \in settles : tx.by \in Settlers /\ tx.amount \in Nat /\ tx.until \in Nat
         /\ \A w \in Releasers : w \in Settlers /\ settler[w].amount \in Nat
                                                 /\ settler[w].until \in Nat
<1>1. \A tx \in settles : tx.by \in Settlers /\ tx.amount \in Nat /\ tx.until \in Nat
  BY SMT DEF TypeOK, SettleTx
<1> QED BY <1>1, SettlerFields DEF Releasers

\* The invariant survives a step after which there are no new transactions
\* and no new releasers, and what a reservation covered is still covered.
LEMMA SettleInvSurvives ==
  ASSUME TypeOK, TypeOK', SettleInv,
         settles' \subseteq settles, \A tx \in settles' : MayLand(tx)',
         Releasers' \subseteq Releasers, \A w \in Releasers' : settler'[w] = settler[w],
         rec'.settled >= rec.settled,
         \A u \in Nat : Outstanding(u)' => Outstanding(u),
         \A a \in Nat, u \in Nat : Holds(a, u) => Holds(a, u)'
  PROVE  SettleInv'
<1>1. rec.settled \in Nat /\ rec'.settled \in Nat
  BY RecordFields DEF TypeOK
<1>2. \A a \in Nat : a > rec'.settled => a > rec.settled
  BY <1>1, SMT
<1>3. \A tx \in settles' : MayLand(tx)' /\ Holds(tx.amount, tx.until)'
  BY SettleFields, Zenon DEF SettleInv
<1>4. \A w \in Releasers' : Holds(settler[w].amount, settler[w].until)'
  BY SettleFields, Zenon DEF SettleInv
<1>5. \A tx \in settles', w \in Releasers' :
        tx.amount > rec'.settled
          => ~(settler'[w].amount = tx.amount /\ settler'[w].until = tx.until)
  BY <1>2, SettleFields, Zenon DEF SettleInv
<1>6. \A v, w \in Releasers' :
        v # w /\ settler'[v].amount > rec'.settled /\ Outstanding(settler[v].until)'
          => ~(settler'[w].amount = settler'[v].amount /\ settler'[w].until = settler'[v].until)
  BY <1>2, SettleFields, Zenon DEF SettleInv
<1>7. \A t, u \in settles' :
        t.amount > rec'.settled /\ u.amount > rec'.settled => t.by = u.by
  BY <1>2, SettleFields, Zenon DEF SettleInv
<1> QED BY <1>3, <1>4, <1>5, <1>6, <1>7, Zenon DEF SettleInv

\* It survives a step that raises the spend and the recorded settlement.
LEMMA QuietSettleInv ==
  ASSUME TypeOK, SettleInv, Quiet
  PROVE  SettleInv'
<1>1. /\ rec.settled \in Nat /\ rec'.settled \in Nat /\ rec.spent \in Nat
      /\ rec'.spent \in Nat /\ rec'.settled >= rec.settled /\ rec'.spent >= rec.spent
      /\ rec'.pending = rec.pending
  BY RecordFields DEF TypeOK, Quiet, Extends, KeepsReserve
<1>2. ChainNow' = ChainNow
  BY DEF Quiet, ChainNow
<1>3. \A a \in Nat, u \in Nat : Holds(a, u) => Holds(a, u)'
  BY <1>1, <1>2, SMT DEF Holds, Outstanding
<1>4. \A tx \in settles' : MayLand(tx)'
  BY <1>2 DEF SettleInv, Quiet, MayLand
<1>5. Releasers' = Releasers /\ settler' = settler /\ settles' = settles
  BY DEF Releasers, Quiet
<1>6. \A u \in Nat : Outstanding(u)' => Outstanding(u)
  BY <1>2 DEF Outstanding
<1>7. TypeOK'
  BY DEF Quiet
<1> QED BY <1>1, <1>3, <1>4, <1>5, <1>6, <1>7, SettleInvSurvives

\* A credit respects the floor of a reservation that has not expired, and a
\* transaction that may still land has one (_credit_decline_reason).
LEMMA CreditSettleInv ==
  ASSUME TypeOK, SettleInv, NEW a \in Amounts, CreditChannel(a)
  PROVE  SettleInv'
<1>1. PICK t \in Recent : CanCredit(rec, a, t)
  BY DEF CreditChannel
<1>2. a \in Nat /\ t \in Nat /\ t <= now
  BY ChannelAssumption, SMT DEF Amounts, Recent, TypeOK
<1>3. /\ rec'.pending = rec.pending /\ rec'.settled = rec.settled
      /\ rec'.settled <= rec'.spent
      /\ rec.pending.until > t => rec.pending.amount <= rec'.spent
  BY <1>1, <1>2, CreditSound DEF TypeOK, CreditChannel
<1>4. TypeOK' /\ rec.settled \in Nat /\ rec'.settled \in Nat /\ rec'.spent \in Nat
  BY SettleTyped, RecordFields DEF TypeOK
<1>5. UNCHANGED <<now, settles, settler>>
  BY DEF CreditChannel, chainVars, workers
<1>6. ChainNow' = ChainNow /\ Releasers' = Releasers
  BY <1>5 DEF ChainNow, Releasers
<1>7. ASSUME NEW b \in Nat, NEW u \in Nat, Holds(b, u), Outstanding(u)
      PROVE  /\ b <= rec'.spent
             /\ b <= rec'.settled \/ rec'.pending = Reservation(b, u)
  <2>1. CASE b <= rec.settled
    BY <1>3, <1>4, <2>1, SMT
  <2>2. CASE rec.pending = Reservation(b, u)
    BY <1>2, <1>3, <1>7, <2>2, OutstandingBlocks
  <2> QED BY <1>7, <2>1, <2>2 DEF Holds
<1>8. \A u \in Nat : Outstanding(u)' => Outstanding(u)
  BY <1>6 DEF Outstanding
<1>9. \A b \in Nat, u \in Nat : Holds(b, u) => Holds(b, u)'
  BY <1>7, <1>8 DEF Holds
<1>10. \A tx \in settles' : MayLand(tx)'
  BY <1>5, <1>6 DEF SettleInv, MayLand
<1>11. rec'.settled >= rec.settled
  BY <1>3, <1>4, SMT
<1> QED BY <1>4, <1>5, <1>6, <1>8, <1>9, <1>10, <1>11, SettleInvSurvives

\* A recorded settlement drops only a reservation that it covers (record).
LEMMA RecordSettleInv ==
  ASSUME TypeOK, SettleInv, NEW w \in Settlers, RecordSettle(w)
  PROVE  SettleInv'
<1>1. /\ rec'.spent = rec.spent /\ rec'.settled >= rec.settled
      /\ rec.pending.amount > rec'.settled => rec'.pending = rec.pending
  <2>1. settler[w].amount \in Nat /\ rec \in Record
    BY SettlerFields DEF TypeOK
  <2> QED BY <2>1, RecordSettledSound DEF RecordSettle, Extends
<1>2. TypeOK' /\ rec.settled \in Nat /\ rec'.settled \in Nat /\ rec.spent \in Nat
  BY SettleTyped, RecordFields DEF TypeOK, SettleStep
<1>3. UNCHANGED <<now, settles>> /\ ChainNow' = ChainNow
  BY DEF RecordSettle, chainVars, ChainNow
<1>4. /\ Releasers' \subseteq Releasers
      /\ \A v \in Releasers' : settler'[v] = settler[v]
  BY DEF TypeOK, Releasers, RecordSettle, IdleSettler
<1>5. ASSUME NEW b \in Nat, NEW u \in Nat, Holds(b, u), Outstanding(u)
      PROVE  /\ b <= rec'.spent
             /\ b <= rec'.settled \/ rec'.pending = Reservation(b, u)
  <2>1. b <= rec'.spent
    BY <1>1, <1>5 DEF Holds
  <2>2. CASE b <= rec.settled
    BY <1>1, <1>2, <2>1, <2>2, SMT
  <2>3. CASE rec.pending = Reservation(b, u) /\ b > rec'.settled
    <3>1. rec.pending.amount = b
      BY <2>3, ReservationType
    <3> QED BY <1>1, <2>1, <2>3, <3>1
  <2>4. CASE b <= rec'.settled
    BY <2>1, <2>4
  <2>5. b <= rec'.settled \/ b > rec'.settled
    BY <1>2, SMT
  <2> QED BY <1>5, <2>2, <2>3, <2>4, <2>5 DEF Holds
<1>6. \A u \in Nat : Outstanding(u)' => Outstanding(u)
  BY <1>3 DEF Outstanding
<1>7. \A b \in Nat, u \in Nat : Holds(b, u) => Holds(b, u)'
  BY <1>5, <1>6 DEF Holds
<1>8. \A tx \in settles' : MayLand(tx)'
  BY <1>3 DEF SettleInv, MayLand
<1> QED BY <1>1, <1>2, <1>3, <1>4, <1>6, <1>7, <1>8, SettleInvSurvives

\* A worker that gives up leaves its reservation; a settlement that lands
\* leaves it too; and time only takes transactions away.
LEMMA OtherSettleInv ==
  ASSUME TypeOK, SettleInv
  PROVE  /\ \A w \in Settlers : AbandonSettle(w) => SettleInv'
         /\ \A tx \in settles : SettleLands(tx) => SettleInv'
         /\ Tick => SettleInv'
<1>1. rec.settled \in Nat /\ now \in Nat
  BY RecordFields DEF TypeOK
<1>2. rec' = rec /\ ChainNow' = ChainNow
        => /\ \A b \in Nat, u \in Nat : Holds(b, u) => Holds(b, u)'
           /\ \A u \in Nat : Outstanding(u)' => Outstanding(u)
           /\ \A tx \in settles : MayLand(tx)'
           /\ rec'.settled >= rec.settled
  BY <1>1, SMT DEF Holds, Outstanding, SettleInv, MayLand
<1>3. ASSUME NEW w \in Settlers, AbandonSettle(w) PROVE SettleInv'
  <2>1. TypeOK'
    BY <1>3, SettleTyped DEF SettleStep
  <2>2. rec' = rec /\ settles' = settles /\ ChainNow' = ChainNow
    BY <1>3 DEF AbandonSettle, chainVars, ChainNow
  <2>3. /\ Releasers' \subseteq Releasers
        /\ \A v \in Releasers' : settler'[v] = settler[v]
    BY <1>3 DEF TypeOK, Releasers, AbandonSettle, IdleSettler
  <2> QED BY <1>2, <2>1, <2>2, <2>3, SettleInvSurvives
<1>4. ASSUME NEW tx \in settles, SettleLands(tx) PROVE SettleInv'
  <2>1. TypeOK'
    BY <1>4, SettleOutcomesAndTickTyped
  <2>2. rec' = rec /\ settles' \subseteq settles /\ ChainNow' = ChainNow
    BY <1>4 DEF SettleLands, ChainNow
  <2>3. /\ Releasers' \subseteq Releasers
        /\ \A v \in Releasers' : settler'[v] = settler[v]
    <3>1. \/ settler' = settler
          \/ settler' = [settler EXCEPT ![tx.by] = [settler[tx.by] EXCEPT !.pc = "mined"]]
      BY <1>4 DEF SettleLands, SettleOutcome
    <3>2. tx.by \in Settlers => [settler[tx.by] EXCEPT !.pc = "mined"].pc = "mined"
      BY SMT DEF TypeOK, SettlerState
    <3> QED BY <3>1, <3>2, SettleFields DEF TypeOK, Releasers
  <2> QED BY <1>2, <2>1, <2>2, <2>3, SettleInvSurvives
<1>5. ASSUME Tick PROVE SettleInv'
  <2>1. TypeOK' /\ rec' = rec /\ settler' = settler
    BY <1>5, SettleOutcomesAndTickTyped DEF Tick, workers
  <2>2. ChainNow' > ChainNow
    BY <1>1, <1>5, ChannelAssumption, SMT DEF Tick, ChainNow
  <2>3. \A u \in Nat : Outstanding(u)' => Outstanding(u)
    BY <1>1, <1>5, ChannelAssumption, SMT DEF Tick, Outstanding, ChainNow
  <2>4. \A b \in Nat, u \in Nat : Holds(b, u) => Holds(b, u)'
    BY <2>1, <2>3 DEF Holds
  <2>5. settles' \subseteq settles /\ \A tx \in settles' : MayLand(tx)'
    BY <1>5, Zenon DEF Tick, MayLand
  <2>6. Releasers' = Releasers /\ rec'.settled >= rec.settled
    BY <1>1, <2>1, SMT DEF Releasers
  <2> QED BY <2>1, <2>3, <2>4, <2>5, <2>6, SettleInvSurvives
<1> QED BY <1>3, <1>4, <1>5

\* A claim waits until no reservation is in flight, so that every transaction
\* that may still land is already covered by the recorded settlement (choose).
LEMMA ClaimSettleInv ==
  ASSUME TypeOK, SettleInv, NEW w \in Settlers, ClaimSettle(w)
  PROVE  SettleInv'
<1>1. PICK n \in LargestSettleable(rec), t \in Recent :
        /\ rec' = ClaimSettlement(rec, n, ValidBefore(t))
        /\ settler' = [settler EXCEPT ![w] =
             [pc |-> "claimed", amount |-> n, until |-> ValidBefore(t)]]
  BY DEF ClaimSettle
<1> DEFINE until == ValidBefore(t)
<1>2. n \in Nat /\ n <= rec.spent /\ until \in Nat
  BY SettleableBounds, RecordAssumption, SMT DEF Recent, ValidBefore, TypeOK
<1>3. /\ rec'.pending = Reservation(n, until)
      /\ rec'.spent = rec.spent /\ rec'.settled = rec.settled
  BY <1>1, <1>2, ClaimSound DEF TypeOK
<1>4. UNCHANGED <<now, settles>> /\ ChainNow' = ChainNow
  BY DEF ClaimSettle, chainVars, ChainNow
<1>5. /\ settler'[w].amount = n /\ settler'[w].until = until
      /\ Releasers' \subseteq Releasers \cup {w}
      /\ \A v \in Releasers' \ {w} : settler'[v] = settler[v]
  BY <1>1 DEF TypeOK, Releasers
<1>6. w \notin Releasers
  BY DEF ClaimSettle, Releasers
<1> HIDE DEF until
<1>7. ASSUME NEW a \in Nat, NEW u \in Nat, Holds(a, u), Outstanding(u)
      PROVE  a <= rec.settled /\ a <= rec.spent
  <2>1. ~(rec.pending.until > now)
    BY DEF ClaimSettle, SettlementInFlight
  <2>2. rec.pending # Reservation(a, u)
    <3>1. now \in Nat /\ now <= now
      BY SMT DEF TypeOK
    <3> QED BY <1>7, <2>1, <3>1, OutstandingBlocks
  <2> QED BY <1>7, <2>2 DEF Holds
<1>8. \A u : Outstanding(u)' <=> Outstanding(u)
  BY <1>4 DEF Outstanding
<1>9. \A tx \in settles : Outstanding(tx.until) /\ tx.amount <= rec.settled /\ tx.amount <= rec.spent
  BY <1>7, SettleFields DEF SettleInv, MayLand, Outstanding
<1>10. \A v \in Releasers : Outstanding(settler[v].until)
          => settler[v].amount <= rec.settled /\ settler[v].amount <= rec.spent
  BY <1>7, SettleFields DEF SettleInv
<1>11. \A a, b \in Nat : a <= b => ~(a > b)
  BY SMT
<1>12. rec.settled \in Nat
  BY RecordFields DEF TypeOK
<1>13. \A tx \in settles' : MayLand(tx)' /\ Holds(tx.amount, tx.until)'
  BY <1>3, <1>4, <1>8, <1>9 DEF SettleInv, MayLand, Holds
<1>14. \A v \in Releasers' : Holds(settler[v].amount, settler[v].until)'
  BY <1>2, <1>3, <1>5, <1>8, <1>10 DEF Holds
<1>15. \A tx \in settles' : ~(tx.amount > rec'.settled)
  BY <1>3, <1>4, <1>9, <1>11, <1>12, SettleFields
<1>16. \A v \in Releasers' \ {w} : ~(settler'[v].amount > rec'.settled /\ Outstanding(settler[v].until)')
  BY <1>3, <1>5, <1>8, <1>10, <1>11, <1>12, SettleFields
<1>17. \A v, x \in Releasers' :
        v # x /\ settler'[v].amount > rec'.settled /\ Outstanding(settler[v].until)'
          => ~(settler'[x].amount = settler'[v].amount /\ settler'[x].until = settler'[v].until)
  BY <1>16, Zenon
<1> QED BY <1>13, <1>14, <1>15, <1>17, Zenon DEF SettleInv

\* The transaction that is sent takes over the reservation of its worker, and
\* nobody else holds the same one.
LEMMA SendSettleInv ==
  ASSUME TypeOK, SettleInv, NEW w \in Settlers, SendSettle(w)
  PROVE  SettleInv'
<1> DEFINE tx == SettlerTx(w)
<1>1. /\ w \in Releasers /\ tx.amount = settler[w].amount /\ tx.until = settler[w].until
      /\ tx.by = w
  BY DEF SendSettle, Releasers, SettlerTx
<1>2. rec' = rec /\ ChainNow' = ChainNow
  BY DEF SendSettle, ChainNow
<1>3. /\ Releasers' \subseteq Releasers \ {w}
      /\ \A v \in Releasers' : settler'[v] = settler[v]
  <2>1. [settler[w] EXCEPT !.pc = "sent"].pc = "sent"
    BY SMT DEF TypeOK, SettlerState
  <2>2. settler' = [settler EXCEPT ![w] = [settler[w] EXCEPT !.pc = "sent"]]
    BY DEF SendSettle
  <2> QED BY <2>1, <2>2 DEF TypeOK, Releasers
<1>4. settles' \subseteq settles \cup {tx} /\ (tx \in settles' => tx \in settles \/ MayLand(tx))
  BY DEF SendSettle, Broadcast
<1>5. /\ tx.amount \in Nat /\ tx.until \in Nat /\ rec.settled \in Nat
      /\ Holds(tx.amount, tx.until)
  BY <1>1, SettleFields, RecordFields DEF TypeOK, SettleInv
<1> HIDE DEF tx
<1>6. \A u : MayLand(u)' <=> MayLand(u)
  BY <1>2 DEF MayLand
<1>7. \A a, u : Holds(a, u)' <=> Holds(a, u)
  BY <1>2 DEF Holds, Outstanding
<1>8. \A u : Outstanding(u)' <=> Outstanding(u)
  BY <1>2 DEF Outstanding
<1>9. \A x \in settles' : MayLand(x)' /\ Holds(x.amount, x.until)'
  BY <1>4, <1>5, <1>6, <1>7, Zenon DEF SettleInv
<1>10. \A v \in Releasers' : Holds(settler[v].amount, settler[v].until)'
  BY <1>2, <1>3 DEF SettleInv, Holds, Outstanding
<1>11. \A x \in settles', v \in Releasers' :
         x.amount > rec'.settled
           => ~(settler'[v].amount = x.amount /\ settler'[v].until = x.until)
  <2> SUFFICES ASSUME NEW x \in settles', NEW v \in Releasers', x.amount > rec.settled
               PROVE  ~(settler[v].amount = x.amount /\ settler[v].until = x.until)
    BY <1>2, <1>3
  <2>1. CASE x \in settles
    BY <1>3, <2>1, Zenon DEF SettleInv
  <2>2. CASE x = tx /\ MayLand(tx)
    <3>1. Outstanding(settler[w].until)
      BY <1>1, <2>2 DEF MayLand, Outstanding
    <3>2. w # v /\ v \in Releasers /\ settler[w].amount > rec.settled
      BY <1>1, <1>3, <2>2
    <3>3. ~(settler[v].amount = settler[w].amount /\ settler[v].until = settler[w].until)
      BY <1>1, <3>1, <3>2 DEF SettleInv
    <3> QED BY <1>1, <2>2, <3>3
  <2> QED BY <1>4, <2>1, <2>2
<1>12. \A v, x \in Releasers' :
        v # x /\ settler'[v].amount > rec'.settled /\ Outstanding(settler[v].until)'
          => ~(settler'[x].amount = settler'[v].amount /\ settler'[x].until = settler'[v].until)
  <2> SUFFICES ASSUME NEW v \in Releasers', NEW x \in Releasers', v # x,
                      settler[v].amount > rec.settled, Outstanding(settler[v].until)
               PROVE  ~(settler[x].amount = settler[v].amount /\ settler[x].until = settler[v].until)
    BY <1>2, <1>3, <1>8
  <2> QED BY <1>3, Zenon DEF SettleInv
<1>13. ASSUME NEW x \in settles, x.amount > rec.settled, tx.amount > rec.settled, MayLand(tx)
       PROVE  FALSE
  <2>1. x.amount \in Nat /\ x.until \in Nat /\ Outstanding(x.until) /\ Outstanding(tx.until)
    BY <1>13, SettleFields DEF SettleInv, MayLand, Outstanding
  <2>2. ~(x.amount <= rec.settled) /\ ~(tx.amount <= rec.settled)
    BY <1>5, <1>13, <2>1, SMT
  <2>3. rec.pending = Reservation(x.amount, x.until) /\ rec.pending = Reservation(tx.amount, tx.until)
    BY <1>5, <2>1, <2>2 DEF SettleInv, Holds
  <2>4. x.amount = tx.amount /\ x.until = tx.until
    <3>1. Reservation(x.amount, x.until) = Reservation(tx.amount, tx.until)
      BY <2>3
    <3> QED BY <1>5, <2>1, <3>1, ReservationInjective
  <2> QED BY <1>1, <1>13, <2>4, Zenon DEF SettleInv
<1>14. \A t, u \in settles' : t.amount > rec'.settled /\ u.amount > rec'.settled => t.by = u.by
  BY <1>2, <1>4, <1>13, Zenon DEF SettleInv
<1> QED BY <1>9, <1>10, <1>11, <1>12, <1>14, Zenon DEF SettleInv

\* A release drops the reservation of its own worker, which no transaction
\* that may still land and no other worker shares (release).
LEMMA ReleaseSettleInv ==
  ASSUME TypeOK, SettleInv, NEW w \in Settlers, ReleaseSettle(w)
  PROVE  SettleInv'
<1>1. w \in Releasers /\ settler[w].amount \in Nat /\ settler[w].until \in Nat
  BY SettlerFields DEF ReleaseSettle, Releasers
<1>2. /\ rec'.spent = rec.spent /\ rec'.settled = rec.settled
      /\ rec.pending # Reservation(settler[w].amount, settler[w].until)
           => rec'.pending = rec.pending
  BY <1>1, ReleaseSound DEF TypeOK, ReleaseSettle
<1>3. UNCHANGED <<now, settles>> /\ ChainNow' = ChainNow
  BY DEF ReleaseSettle, chainVars, ChainNow
<1>4. /\ Releasers' \subseteq Releasers \ {w}
      /\ \A v \in Releasers' : settler'[v] = settler[v]
  BY DEF TypeOK, Releasers, ReleaseSettle, IdleSettler
<1>5. rec.settled \in Nat
  BY RecordFields DEF TypeOK
\* A holder other than w keeps what it holds.
<1>6. ASSUME NEW a \in Nat, NEW u \in Nat, Holds(a, u), Outstanding(u),
             a > rec.settled => ~(settler[w].amount = a /\ settler[w].until = u)
      PROVE  /\ a <= rec'.spent
             /\ a <= rec'.settled \/ rec'.pending = Reservation(a, u)
  <2>1. CASE a <= rec.settled
    BY <1>2, <1>6, <2>1 DEF Holds
  <2>2. CASE a > rec.settled
    <3>1. rec.pending = Reservation(a, u) /\ a <= rec.spent
      <4>1. ~(a <= rec.settled)
        BY <1>5, <2>2, SMT
      <4> QED BY <1>6, <4>1 DEF Holds
    <3>2. rec.pending # Reservation(settler[w].amount, settler[w].until)
      <4> SUFFICES ASSUME Reservation(a, u) = Reservation(settler[w].amount, settler[w].until)
                   PROVE  FALSE
        BY <3>1
      <4>1. a = settler[w].amount /\ u = settler[w].until
        BY <1>1, ReservationInjective
      <4> QED BY <1>6, <2>2, <4>1
    <3> QED BY <1>2, <3>1, <3>2
  <2>3. a <= rec.settled \/ a > rec.settled
    BY <1>5, SMT
  <2> QED BY <2>1, <2>2, <2>3
<1>7. \A u : Outstanding(u)' <=> Outstanding(u)
  BY <1>3 DEF Outstanding
<1>8. ASSUME NEW tx \in settles' PROVE MayLand(tx)' /\ Holds(tx.amount, tx.until)'
  <2>1. /\ tx \in settles /\ tx.amount \in Nat /\ tx.until \in Nat
        /\ MayLand(tx) /\ Holds(tx.amount, tx.until) /\ Outstanding(tx.until)
    BY <1>3, SettleFields DEF SettleInv, MayLand, Outstanding
  <2>2. tx.amount > rec.settled
          => ~(settler[w].amount = tx.amount /\ settler[w].until = tx.until)
    BY <1>1, <2>1 DEF SettleInv
  <2> QED BY <1>3, <1>6, <2>1, <2>2 DEF MayLand, Holds
<1>9. ASSUME NEW v \in Releasers' PROVE Holds(settler[v].amount, settler[v].until)'
  <2>1. /\ v \in Releasers /\ v # w /\ settler'[v] = settler[v]
        /\ settler[v].amount \in Nat /\ settler[v].until \in Nat
        /\ Holds(settler[v].amount, settler[v].until)
    BY <1>4, SettleFields DEF SettleInv
  <2>2. ASSUME Outstanding(settler[v].until)
        PROVE  settler[v].amount > rec.settled
                 => ~(settler[w].amount = settler[v].amount /\ settler[w].until = settler[v].until)
    BY <1>1, <2>1, <2>2 DEF SettleInv
  <2>3. ASSUME Outstanding(settler[v].until)
        PROVE  /\ settler[v].amount <= rec'.spent
               /\ \/ settler[v].amount <= rec'.settled
                  \/ rec'.pending = Reservation(settler[v].amount, settler[v].until)
    BY <1>6, <2>1, <2>2, <2>3
  <2> QED BY <1>3, <2>1, <2>3 DEF Holds, Outstanding
<1>10. \A tx \in settles', v \in Releasers' :
         tx.amount > rec'.settled
           => ~(settler'[v].amount = tx.amount /\ settler'[v].until = tx.until)
  <2> SUFFICES ASSUME NEW tx \in settles, NEW v \in Releasers \ {w}, tx.amount > rec.settled
               PROVE  ~(settler[v].amount = tx.amount /\ settler[v].until = tx.until)
    BY <1>2, <1>3, <1>4
  <2> QED BY DEF SettleInv
<1>11. \A v, x \in Releasers' :
        v # x /\ settler'[v].amount > rec'.settled /\ Outstanding(settler[v].until)'
          => ~(settler'[x].amount = settler'[v].amount /\ settler'[x].until = settler'[v].until)
  <2> SUFFICES ASSUME NEW v \in Releasers', NEW x \in Releasers', v # x,
                      settler[v].amount > rec.settled, Outstanding(settler[v].until)
               PROVE  ~(settler[x].amount = settler[v].amount /\ settler[x].until = settler[v].until)
    BY <1>2, <1>4, <1>7
  <2> QED BY <1>4, Zenon DEF SettleInv
<1>12. \A t, u \in settles' : t.amount > rec'.settled /\ u.amount > rec'.settled => t.by = u.by
  BY <1>2, <1>3, Zenon DEF SettleInv
<1> QED BY <1>8, <1>9, <1>10, <1>11, <1>12, Zenon DEF SettleInv

\* A transaction is its fields.
LEMMA SettleTxEqual ==
  ASSUME NEW t \in SettleTx, NEW u \in SettleTx,
         t.by = u.by, t.amount = u.amount, t.until = u.until
  PROVE  t = u
<1>1. t = [by |-> t.by, amount |-> t.amount, until |-> t.until]
  BY DEF SettleTx
<1>2. u = [by |-> u.by, amount |-> u.amount, until |-> u.until]
  BY DEF SettleTx
<1> QED BY <1>1, <1>2

\* A worker that learns of the revert takes the reservation back from its
\* transaction, the only one that owned it.
LEMMA RevertSettleInv ==
  ASSUME TypeOK, SettleInv, NEW tx \in settles, SettleReverts(tx)
  PROVE  SettleInv'
<1> DEFINE w == tx.by
<1>1. /\ w \in Settlers /\ tx.amount \in Nat /\ tx.until \in Nat
      /\ MayLand(tx) /\ Holds(tx.amount, tx.until) /\ tx \in SettleTx
  BY SettleFields DEF SettleInv, TypeOK
<1>2. rec' = rec /\ ChainNow' = ChainNow /\ settles' = settles \ {tx}
  BY DEF SettleReverts, ChainNow
<1>3. \/ settler' = settler
      \/ /\ settler' = [settler EXCEPT ![w] = [settler[w] EXCEPT !.pc = "reverted"]]
         /\ settler[w].amount = tx.amount /\ settler[w].until = tx.until
         /\ settler[w].pc = "sent"
  BY DEF SettleReverts, SettleOutcome, SettlerTx
<1>4. /\ [settler[w] EXCEPT !.pc = "reverted"].amount = settler[w].amount
      /\ [settler[w] EXCEPT !.pc = "reverted"].until = settler[w].until
  BY <1>1, SettlerFields, SMT DEF SettlerState
<1>5. /\ \A v \in Releasers' : settler'[v].amount = settler[v].amount
                              /\ settler'[v].until = settler[v].until
      /\ \A v \in Releasers' : \/ v \in Releasers
                               \/ /\ v = w /\ settler[w].amount = tx.amount
                                  /\ settler[w].until = tx.until
  BY <1>1, <1>3, <1>4 DEF TypeOK, Releasers
<1> HIDE DEF w
<1>6. ASSUME NEW a, NEW u PROVE (Outstanding(u)' <=> Outstanding(u)) /\ (Holds(a, u)' <=> Holds(a, u))
  BY <1>2 DEF Outstanding, Holds
<1>7. \A x \in settles' : MayLand(x)' /\ Holds(x.amount, x.until)'
  BY <1>2 DEF SettleInv, MayLand, Holds, Outstanding
<1>8. ASSUME NEW v \in Releasers' PROVE Holds(settler[v].amount, settler[v].until)'
  <2>1. Holds(settler[v].amount, settler[v].until)
    BY <1>1, <1>5 DEF SettleInv
  <2> QED BY <1>2, <1>5, <2>1 DEF Holds, Outstanding
<1>9. ASSUME NEW x \in settles', NEW v \in Releasers', x.amount > rec.settled,
             settler[v].amount = x.amount, settler[v].until = x.until
      PROVE  FALSE
  <2>1. x \in settles /\ x # tx
    BY <1>2
  <2>2. CASE v \in Releasers
    BY <1>9, <2>1, <2>2 DEF SettleInv
  <2>3. CASE settler[v].amount = tx.amount /\ settler[v].until = tx.until
    <3>1. x.by = tx.by
      BY <1>9, <2>1, <2>3 DEF SettleInv
    <3>2. x \in SettleTx
      BY <2>1 DEF TypeOK
    <3>3. x = tx
      BY <1>1, <1>9, <2>3, <3>1, <3>2, SettleTxEqual
    <3> QED BY <2>1, <3>3
  <2> QED BY <1>5, <2>2, <2>3
<1>10. ASSUME NEW v \in Releasers', NEW x \in Releasers', v # x,
              settler[v].amount > rec.settled, Outstanding(settler[v].until),
              settler[x].amount = settler[v].amount, settler[x].until = settler[v].until
       PROVE  FALSE
  <2>1. CASE v \in Releasers /\ x \in Releasers
    BY <1>10, <2>1 DEF SettleInv
  <2>2. CASE v \notin Releasers
    <3>1. /\ x \in Releasers /\ settler[v].amount = tx.amount /\ settler[v].until = tx.until
      BY <1>5, <1>10, <2>2
    <3> QED BY <1>10, <3>1 DEF SettleInv
  <2>3. CASE x \notin Releasers
    <3>1. /\ v \in Releasers /\ settler[x].amount = tx.amount /\ settler[x].until = tx.until
      BY <1>5, <1>10, <2>3
    <3> QED BY <1>10, <3>1 DEF SettleInv
  <2> QED BY <2>1, <2>2, <2>3
<1>11. \A x \in settles', v \in Releasers' :
         x.amount > rec'.settled
           => ~(settler'[v].amount = x.amount /\ settler'[v].until = x.until)
  BY <1>2, <1>5, <1>9
<1>12. \A v, x \in Releasers' :
        v # x /\ settler'[v].amount > rec'.settled /\ Outstanding(settler[v].until)'
          => ~(settler'[x].amount = settler'[v].amount /\ settler'[x].until = settler'[v].until)
  BY <1>2, <1>5, <1>10 DEF Outstanding
<1>13. \A t, u \in settles' : t.amount > rec'.settled /\ u.amount > rec'.settled => t.by = u.by
  BY <1>2 DEF SettleInv
<1> QED BY <1>7, <1>8, <1>11, <1>12, <1>13, Zenon DEF SettleInv

\* The invariant is inductive.
LEMMA StepSettleInv ==
  ASSUME TypeOK, SettleInv, [Next]_vars
  PROVE  SettleInv'
<1>1. CASE Next
  <2>1. CASE Quiet
    BY <2>1, QuietSettleInv
  <2>2. CASE \E a \in Amounts : CreditChannel(a)
    BY <2>2, CreditSettleInv
  <2>3. ASSUME NEW w \in Settlers, SettleStep(w) PROVE SettleInv'
    BY <2>3, ClaimSettleInv, SendSettleInv, ReleaseSettleInv, RecordSettleInv,
       OtherSettleInv DEF SettleStep
  <2>4. CASE \/ Tick
             \/ \E tx \in settles : SettleLands(tx) \/ SettleReverts(tx)
    BY <2>4, OtherSettleInv, RevertSettleInv
  <2> QED BY <1>1, <2>1, <2>2, <2>3, <2>4, StepKinds
<1>2. CASE UNCHANGED vars
  BY <1>2 DEF vars, SettleInv, MayLand, Holds, Outstanding, Releasers, ChainNow
<1> QED BY <1>1, <1>2

\* Nothing is in flight at first.
LEMMA InitSettleInv == Init => SettleInv
  BY DEF Init, SettleInv, Releasers, IdleSettler

\* For any number of settlement workers, whatever fails and however late it
\* fails, no credit takes the spend below a settlement that can still land.
THEOREM CreditsStayAboveSettlements == Spec => []SettlementFloor
<1>1. TypeOK /\ SettleInv /\ [Next]_vars => SettleInv'
  BY StepSettleInv
<1>2. SettleInv => SettlementFloor
  BY DEF SettleInv, SettlementFloor, Holds, Outstanding, MayLand
<1> QED BY TypeCorrect, InitSettleInv, <1>1, <1>2, PTL DEF Spec

-----------------------------------------------------------------------------
(***************************************************************************)
(* The record and the escrow.  A close by credential captures the spend,   *)
(* for any number of credentials at once, where no supervisor runs         *)
(* (supervision is a job that the operator of a server starts); and a      *)
(* payer's close request is remembered, for any number of voucher handlers *)
(* and supervisors, where no close credential is presented.  Together the  *)
(* two kinds of close share a marker, and neither holds.                   *)
(***************************************************************************)

(* The fields that an update writes.                                        *)

\* A merged chain read.
LEMMA MergeFields ==
  ASSUME NEW r \in Record, NEW c \in View
  PROVE  LET s == MergeOnChain(r, c)
         IN /\ s.deposit = KeepGreater(r.deposit, c.deposit)
            /\ s.settled = KeepGreater(r.settled, c.settled)
            /\ s.closeReq = KeepGreater(r.closeReq, c.closeReq)
            /\ s.highest = r.highest /\ s.spent = r.spent /\ s.closeUntil = r.closeUntil
            /\ s.finalized = r.finalized /\ s.opened = r.opened
  BY SMT DEF MergeOnChain, Record

\* A greater voucher.
LEMMA RaiseFields ==
  ASSUME NEW r \in Record, NEW b \in Record, NEW v \in Nat, b.highest = r.highest
  PROVE  LET s == RaiseHighest(r, b, v)
         IN /\ s.highest = KeepGreater(r.highest, v)
            /\ s.deposit = r.deposit /\ s.settled = r.settled /\ s.spent = r.spent
            /\ s.closeReq = r.closeReq /\ s.closeUntil = r.closeUntil
            /\ s.finalized = r.finalized /\ s.opened = r.opened
  BY SMT DEF RaiseHighest, Record, KeepGreater

\* A credit.
LEMMA CreditFields ==
  ASSUME NEW r \in Record, NEW a
  PROVE  LET s == Credit(r, a)
         IN /\ s.spent = r.spent - a
            /\ s.highest = r.highest /\ s.deposit = r.deposit /\ s.settled = r.settled
            /\ s.closeReq = r.closeReq /\ s.closeUntil = r.closeUntil
            /\ s.finalized = r.finalized /\ s.opened = r.opened
  BY SMT DEF Credit, Record

\* A charge.
LEMMA DeductFields ==
  ASSUME NEW r \in Record, NEW a
  PROVE  LET s == Deduct(r, a)
         IN /\ s.spent = r.spent + a
            /\ s.highest = r.highest /\ s.deposit = r.deposit /\ s.settled = r.settled
            /\ s.closeReq = r.closeReq /\ s.closeUntil = r.closeUntil
            /\ s.finalized = r.finalized /\ s.opened = r.opened
  BY SMT DEF Deduct, Record

\* Claiming and releasing a settlement touch the reservation only.
LEMMA ClaimFields ==
  ASSUME NEW r \in Record, NEW a, NEW u, NEW s \in {ClaimSettlement(r, a, u), ReleaseSettlement(r, a, u)}
  PROVE  /\ s.spent = r.spent
         /\ s.highest = r.highest /\ s.deposit = r.deposit /\ s.settled = r.settled
         /\ s.closeReq = r.closeReq /\ s.closeUntil = r.closeUntil
         /\ s.finalized = r.finalized /\ s.opened = r.opened
  BY SMT DEF ClaimSettlement, ReleaseSettlement, Record

\* A recorded settlement.
LEMMA SettledFields ==
  ASSUME NEW r \in Record, NEW a
  PROVE  LET s == RecordSettled(r, a)
         IN /\ s.settled = KeepGreater(r.settled, a)
            /\ s.spent = r.spent /\ s.highest = r.highest /\ s.deposit = r.deposit
            /\ s.closeReq = r.closeReq /\ s.closeUntil = r.closeUntil
            /\ s.finalized = r.finalized /\ s.opened = r.opened
<1> DEFINE n == KeepGreater(r.settled, a)
           p == IF r.pending.amount > n THEN r.pending ELSE NoPending
           k == {v \in r.retained : v > n}
           s == RecordSettled(r, a)
<1>1. s = [r EXCEPT !.settled = n, !.pending = p, !.retained = k]
  BY DEF RecordSettled
<1> HIDE DEF n, p, k, s
<1>2. /\ s.settled = n /\ s.spent = r.spent /\ s.highest = r.highest
      /\ s.deposit = r.deposit /\ s.closeReq = r.closeReq /\ s.closeUntil = r.closeUntil
      /\ s.finalized = r.finalized /\ s.opened = r.opened
  BY <1>1, SMT DEF Record
<1> QED BY <1>2 DEF n, s

\* The markers of closes.
LEMMA MarkerFields ==
  ASSUME NEW r \in Record, NEW n, NEW t, NEW c,
         NEW s \in {MarkClosing(r, n), ClearMarker(r, n), ReconcileExpired(r, t, c),
                    ReserveClose(r, n), ReleaseClose(r, n)}
  PROVE  /\ s.spent = r.spent
         /\ s.highest = r.highest /\ s.deposit = r.deposit /\ s.settled = r.settled
         /\ s.finalized = r.finalized /\ s.opened = r.opened
<1> DEFINE cleared == [r EXCEPT !.closeReq = 0, !.closeUntil = 0]
<1>1. s \in {r, [r EXCEPT !.closeReq = n], [r EXCEPT !.closeReq = 0],
             cleared, [r EXCEPT !.closeUntil = n], [r EXCEPT !.closeUntil = 0]}
  BY Zenon DEF MarkClosing, ClearMarker, ReconcileExpired, ReserveClose, ReleaseClose
<1>2. CASE s = r
  BY <1>2
<1>3. CASE s = [r EXCEPT !.closeReq = n] \/ s = [r EXCEPT !.closeReq = 0]
  BY <1>3, SMT DEF Record
<1>4. CASE s = cleared
  BY <1>4, SMT DEF Record
<1>5. CASE s = [r EXCEPT !.closeUntil = n] \/ s = [r EXCEPT !.closeUntil = 0]
  BY <1>5, SMT DEF Record
<1> QED BY <1>1, <1>2, <1>3, <1>4, <1>5

\* The end of a channel.
LEMMA FinalFields ==
  ASSUME NEW r \in Record, NEW a, NEW v
  PROVE  LET s == FinalizeClosed(r, a, v)
         IN /\ s.finalized /\ s.deposit = 0
            /\ s.settled = KeepGreater(r.settled, a) /\ s.highest = KeepGreater(r.highest, v)
            /\ s.spent = r.spent /\ s.opened = r.opened
  BY SMT DEF FinalizeClosed, Record

\* The end of a channel that was closed behind the server's back.
LEMMA EventFields ==
  ASSUME NEW r \in Record, NEW a, ~r.finalized
  PROVE  LET s == FinalizeFromEvent(r, a)
         IN /\ s.finalized /\ s.deposit = 0
            /\ s.settled = KeepGreater(r.settled, a) /\ s.highest = r.highest
            /\ s.spent = r.spent /\ s.opened = r.opened
  BY SMT DEF FinalizeFromEvent, Record

\* A recorded close request.
LEMMA RequestFields ==
  ASSUME NEW r \in Record, NEW c \in View
  PROVE  LET s == RecordPendingClose(r, c)
         IN /\ s.settled = KeepGreater(r.settled, c.settled)
            /\ s.closeReq = KeepGreater(r.closeReq, c.closeReq)
            /\ s.deposit = r.deposit /\ s.highest = r.highest /\ s.spent = r.spent
            /\ s.closeUntil = r.closeUntil
            /\ s.finalized = r.finalized /\ s.opened = r.opened
  BY SMT DEF RecordPendingClose, Record

-----------------------------------------------------------------------------
(* A record that the escrow backs.                                          *)

\* What the escrow paid to the payee.
PaidOf(e) == IF e.closed THEN e.paid ELSE e.settled

\* A read of the escrow, of whatever age, or what a record took over from one.
Behind(c, e) == c.deposit <= e.deposit /\ c.settled <= PaidOf(e)

Backed(r, e) ==
  /\ Behind(r, e)
  /\ r.spent <= r.highest
  /\ r.finalized => e.closed
  /\ ~r.finalized => r.highest <= e.deposit

\* What was paid is a number.
LEMMA PaidType ==
  ASSUME NEW e \in EscrowState
  PROVE  PaidOf(e) \in Nat
  BY EscrowFields DEF PaidOf

\* A merged read leaves a record backed.
LEMMA MergeBacked ==
  ASSUME NEW r \in Record, NEW c \in View, NEW e \in EscrowState, Backed(r, e), Behind(c, e)
  PROVE  Backed(MergeOnChain(r, c), e)
<1> DEFINE s == MergeOnChain(r, c)
<1>1. /\ s.deposit = KeepGreater(r.deposit, c.deposit)
      /\ s.settled = KeepGreater(r.settled, c.settled)
      /\ s.highest = r.highest /\ s.spent = r.spent /\ s.finalized = r.finalized
  BY MergeFields
<1> HIDE DEF s
<1>2. Backed(s, e)
  BY <1>1, RecordFields, ViewFields, EscrowFields, PaidType DEF Backed, Behind, KeepGreater
<1> QED BY <1>2 DEF s

\* A voucher within the deposit leaves a record backed.
LEMMA RaiseBacked ==
  ASSUME NEW r \in Record, NEW b \in Record, NEW v \in Nat, b.highest = r.highest,
         NEW e \in EscrowState, Backed(r, e), v <= e.deposit
  PROVE  Backed(RaiseHighest(r, b, v), e)
<1> DEFINE s == RaiseHighest(r, b, v)
<1>1. /\ s.highest = KeepGreater(r.highest, v) /\ s.deposit = r.deposit
      /\ s.settled = r.settled /\ s.spent = r.spent /\ s.finalized = r.finalized
  BY RaiseFields
<1> HIDE DEF s
<1>2. Backed(s, e)
  BY <1>1, RecordFields, EscrowFields, PaidType DEF Backed, Behind, KeepGreater
<1> QED BY <1>2 DEF s

\* So does an accepted voucher, and the charge that comes with it.
LEMMA AcceptBacked ==
  ASSUME NEW r \in Record, NEW c \in View, NEW v \in Nat, NEW a \in Nat,
         NEW e \in EscrowState, Backed(r, e), Behind(c, e), v <= e.deposit
  PROVE  Backed(DeductIfCovered(AcceptVoucher(r, c, v), a), e)
<1> DEFINE m == MergeOnChain(r, c)
           s == AcceptVoucher(r, c, v)
<1>1. m \in Record /\ m.highest = r.highest /\ Backed(m, e)
  BY MergeSound, MergeBacked
<1>2. s \in Record /\ Backed(s, e)
  BY <1>1, AcceptSound, RaiseBacked DEF AcceptVoucher
<1> HIDE DEF s
<1>3. CASE CanDeduct(s, a)
  <2>1. DeductIfCovered(s, a) = Deduct(s, a)
    BY <1>3 DEF DeductIfCovered
  <2> DEFINE d == Deduct(s, a)
  <2>2. /\ d.spent = s.spent + a /\ d.highest = s.highest /\ d.deposit = s.deposit
        /\ d.settled = s.settled /\ d.finalized = s.finalized
    BY <1>2, DeductFields
  <2> HIDE DEF d
  <2>3. Backed(d, e)
    BY <1>2, <1>3, <2>2, RecordFields DEF Backed, Behind, CanDeduct
  <2> QED BY <2>1, <2>3 DEF d, s
<1>4. CASE ~CanDeduct(s, a)
  BY <1>2, <1>4 DEF DeductIfCovered, s
<1> QED BY <1>3, <1>4

\* A record that differs in nothing that backing speaks of but a smaller spend.
LEMMA SameBacked ==
  ASSUME NEW r \in Record, NEW s, NEW e \in EscrowState, Backed(r, e),
         s.spent <= r.spent, s.spent \in Int, s.highest = r.highest, s.deposit = r.deposit,
         s.settled = r.settled, s.finalized = r.finalized
  PROVE  Backed(s, e)
  BY RecordFields DEF Backed, Behind

\* A settlement that the escrow paid leaves a record backed.
LEMMA SettledBacked ==
  ASSUME NEW r \in Record, NEW a \in Nat, NEW e \in EscrowState, Backed(r, e), a <= PaidOf(e)
  PROVE  Backed(RecordSettled(r, a), e)
<1> DEFINE s == RecordSettled(r, a)
<1>1. /\ s.settled = KeepGreater(r.settled, a) /\ s.highest = r.highest
      /\ s.deposit = r.deposit /\ s.spent = r.spent /\ s.finalized = r.finalized
  BY SettledFields
<1> HIDE DEF s
<1>2. Backed(s, e)
  BY <1>1, RecordFields DEF Backed, Behind, KeepGreater
<1> QED BY <1>2 DEF s

\* So does the end of a channel that the escrow closed.
LEMMA FinalBacked ==
  ASSUME NEW r \in Record, NEW a \in Nat, NEW v \in Nat, NEW e \in EscrowState, Backed(r, e),
         e.closed, a <= PaidOf(e)
  PROVE  Backed(FinalizeClosed(r, a, v), e) /\ Backed(FinalizeFromEvent(r, a), e)
<1> DEFINE s == FinalizeClosed(r, a, v)
           t == FinalizeFromEvent(r, a)
<1>1. /\ s.finalized /\ s.deposit = 0 /\ s.settled = KeepGreater(r.settled, a)
      /\ s.highest = KeepGreater(r.highest, v) /\ s.spent = r.spent
  BY FinalFields
<1>2. \/ t = r
      \/ /\ t.finalized /\ t.deposit = 0 /\ t.settled = KeepGreater(r.settled, a)
         /\ t.highest = r.highest /\ t.spent = r.spent
  <2>1. CASE r.finalized
    BY <2>1 DEF FinalizeFromEvent
  <2>2. CASE ~r.finalized
    BY <2>2, EventFields
  <2> QED BY <2>1, <2>2
<1> HIDE DEF s, t
<1>3. Backed(s, e)
  BY <1>1, RecordFields, EscrowFields DEF Backed, Behind, KeepGreater
<1>4. Backed(t, e)
  BY <1>2, RecordFields, EscrowFields DEF Backed, Behind, KeepGreater
<1> QED BY <1>3, <1>4 DEF s, t

\* A recorded close request leaves a record backed.
LEMMA RequestBacked ==
  ASSUME NEW r \in Record, NEW c \in View, NEW e \in EscrowState, Backed(r, e), Behind(c, e)
  PROVE  Backed(RecordPendingClose(r, c), e)
<1> DEFINE s == RecordPendingClose(r, c)
<1>1. /\ s.settled = KeepGreater(r.settled, c.settled) /\ s.deposit = r.deposit
      /\ s.highest = r.highest /\ s.spent = r.spent /\ s.finalized = r.finalized
  BY RequestFields
<1> HIDE DEF s
<1>2. Backed(s, e)
  BY <1>1, RecordFields, ViewFields DEF Backed, Behind, KeepGreater
<1> QED BY <1>2 DEF s

\* An open records the state at its receipt: nothing is settled yet.
LEMMA OpenBacked ==
  ASSUME NEW r \in Record, NEW c \in View, NEW v \in Nat, NEW e \in EscrowState, Backed(r, e),
         Behind(c, e), c.settled = 0, v <= e.deposit
  PROVE  Backed(OpenRecord(r, c, v), e)
<1> DEFINE m == MergeOnChain(r, c)
           h == RaiseHighest(m, r, v)
           s == OpenRecord(r, c, v)
<1>1. m \in Record /\ m.highest = r.highest /\ m.spent = r.spent /\ Backed(m, e)
  BY MergeSound, MergeBacked
<1> HIDE DEF m
<1>2. h \in Record /\ h.spent = r.spent /\ Backed(h, e)
  BY <1>1, RaiseSound, RaiseBacked
<1> HIDE DEF h
<1>3. s = [h EXCEPT !.opened = TRUE, !.spent = KeepGreater(r.spent, 0)]
  BY DEF OpenRecord, m, h
<1> HIDE DEF s
<1>4. KeepGreater(r.spent, 0) = r.spent
  BY RecordFields DEF KeepGreater
<1>5. /\ s.spent = h.spent /\ s.highest = h.highest /\ s.deposit = h.deposit
      /\ s.settled = h.settled /\ s.finalized = h.finalized
  BY <1>2, <1>3, <1>4, SMT DEF Record
<1>6. h.spent \in Int /\ h.spent <= h.spent
  BY <1>2, RecordFields
<1>7. Backed(s, e)
  BY <1>2, <1>5, <1>6, SameBacked
<1> QED BY <1>7 DEF s

-----------------------------------------------------------------------------
(* The invariant: what workers hold of the escrow is old, never wrong.      *)

ReaderFits(x, e) == Behind(x.seen, e)

SettlerFits(x, e) == x.pc = "mined" => x.amount <= PaidOf(e)

CloserFits(x, e) ==
  /\ Behind(x.seen, e)
  /\ x.pc = "mined" => e.closed /\ e.paid = x.capture

SupervisorFits(x, e) ==
  /\ Behind(x.seen, e)
  /\ x.pc = "mined" => e.closed
  /\ x.pc = "read" /\ x.seen.deposit = 0 => e.closed

WorkersFit(e) ==
  /\ \A w \in Toppers : ReaderFits(topper[w], e)
  /\ \A w \in Readers : ReaderFits(reader[w], e)
  /\ \A w \in Settlers : SettlerFits(settler[w], e)
  /\ \A w \in Closers : CloserFits(closer[w], e)
  /\ \A w \in Supervisors : SupervisorFits(supervisor[w], e)

PaidInv == OpenDeposit <= esc.deposit /\ Backed(rec, esc) /\ WorkersFit(esc)

\* Deposits and payments only grow, and a closed escrow pays no more.
Grows(e, f) ==
  /\ e.deposit <= f.deposit /\ PaidOf(e) <= PaidOf(f)
  /\ e.closed => f.closed /\ f.paid = e.paid

\* What every accepted call does to the escrow.
LEMMA CallsGrow ==
  ASSUME NEW e \in EscrowState, NEW n \in Nat, NEW v \in Nat, ~e.closed
  PROVE  /\ Grows(e, ToppedUp(e, n)) /\ Grows(e, CloseRequested(e, n)) /\ Grows(e, Withdrawn(e))
         /\ CanSettle(e, n) => Grows(e, Settled(e, n)) /\ PaidOf(Settled(e, n)) = n
         /\ CanClose(e, n, v) => /\ Grows(e, ClosedByPayee(e, n))
                                 /\ ClosedByPayee(e, n).closed /\ ClosedByPayee(e, n).paid = n
<1>1. Grows(e, ToppedUp(e, n)) /\ Grows(e, CloseRequested(e, n))
  BY EscrowFields, SMT DEF Grows, PaidOf, ToppedUp, CloseRequested, EscrowState
<1>2. Grows(e, Withdrawn(e))
  BY EscrowFields, SMT DEF Grows, PaidOf, Withdrawn, EscrowState
<1>3. CanSettle(e, n) => Grows(e, Settled(e, n)) /\ PaidOf(Settled(e, n)) = n
  BY EscrowFields, SMT DEF Grows, PaidOf, CanSettle, Settled, EscrowState
<1>4. CanClose(e, n, v) => /\ Grows(e, ClosedByPayee(e, n))
                           /\ ClosedByPayee(e, n).closed /\ ClosedByPayee(e, n).paid = n
  BY EscrowFields, SMT DEF Grows, PaidOf, CanClose, ClosedByPayee, EscrowState
<1> QED BY <1>1, <1>2, <1>3, <1>4

\* What was true of an escrow stays true as it grows.
LEMMA GrowsKeeps ==
  ASSUME TypeOK, NEW f \in EscrowState, Grows(esc, f)
  PROVE  /\ \A c \in View : Behind(c, esc) => Behind(c, f)
         /\ Backed(rec, esc) => Backed(rec, f)
         /\ WorkersFit(esc) => WorkersFit(f)
<1>1. rec \in Record /\ esc \in EscrowState
  BY DEF TypeOK
<1>2. \A c \in View : Behind(c, esc) => Behind(c, f)
  BY <1>1, ViewFields, EscrowFields, PaidType DEF Behind, Grows
<1>3. Backed(rec, esc) => Backed(rec, f)
  BY <1>1, RecordFields, EscrowFields, PaidType DEF Backed, Behind, Grows
<1>4. ASSUME WorkersFit(esc) PROVE WorkersFit(f)
  <2>1. \A w \in Toppers : topper[w].seen \in View
    BY SMT DEF TypeOK, TopperState
  <2>2. \A w \in Settlers : SettlerFits(settler[w], f)
    BY <1>1, <1>4, SettlerFields, EscrowFields, PaidType DEF WorkersFit, SettlerFits, Grows
  <2>3. \A w \in Closers : CloserFits(closer[w], f)
    BY <1>2, <1>4, CloserFields DEF WorkersFit, CloserFits, Grows
  <2>4. \A w \in Supervisors : SupervisorFits(supervisor[w], f)
    BY <1>2, <1>4, SupervisorFields DEF WorkersFit, SupervisorFits, Grows
  <2> QED BY <1>2, <1>4, <2>1, <2>2, <2>3, <2>4, ReaderFields DEF WorkersFit, ReaderFits
<1> QED BY <1>2, <1>3, <1>4

\* A fresh read, stored state and a worker that starts over all fit.
LEMMA FreshFits ==
  ASSUME NEW e \in EscrowState, OpenDeposit <= e.deposit
  PROVE  /\ Behind(EscrowView(e), e) /\ Behind(NoView, e)
         /\ Behind(EscrowView(OpenedEscrow(OpenDeposit)), e)
         /\ EscrowView(e).deposit = 0 => e.closed
         /\ \A r \in Record : Backed(r, e) => Behind(StoredView(r), e)
<1>1. e.deposit \in Nat /\ e.settled \in Nat /\ PaidOf(e) \in Nat /\ e.closed \in BOOLEAN
  BY EscrowFields, PaidType
<1>2. Behind(EscrowView(e), e) /\ Behind(NoView, e)
  BY <1>1, SMT DEF EscrowView, Behind, NoView, PaidOf
<1>3. Behind(EscrowView(OpenedEscrow(OpenDeposit)), e)
  BY <1>1, ChannelAssumption, SMT DEF EscrowView, OpenedEscrow, Behind
<1>4. EscrowView(e).deposit = 0 => e.closed
  BY <1>1, ChannelAssumption, SMT DEF EscrowView
<1>5. \A r \in Record : Backed(r, e) => Behind(StoredView(r), e)
  BY SMT DEF Backed, Behind, StoredView
<1> QED BY <1>2, <1>3, <1>4, <1>5

\* Idle workers fit any escrow.
LEMMA IdleFits ==
  ASSUME NEW e \in EscrowState, OpenDeposit <= e.deposit
  PROVE  /\ ReaderFits(IdleTopper, e) /\ ReaderFits(IdleReader, e)
         /\ SettlerFits(IdleSettler, e) /\ CloserFits(IdleCloser, e)
         /\ SupervisorFits(IdleSupervisor, e)
  BY FreshFits DEF ReaderFits, SettlerFits, CloserFits, SupervisorFits, IdleTopper, IdleReader,
                   IdleSettler, IdleCloser, IdleSupervisor

-----------------------------------------------------------------------------
(* Every step keeps the invariant.                                          *)

\* At most one worker moves, to a state that fits, and the escrow stays.
LEMMA OneMoves ==
  ASSUME TypeOK, PaidInv, esc' = esc, Backed(rec', esc), NEW x,
         \/ UNCHANGED <<topper, reader, settler, closer, supervisor>>
         \/ /\ \E w \in Toppers : ReaderFits(x, esc) /\ topper' = [topper EXCEPT ![w] = x]
            /\ UNCHANGED <<reader, settler, closer, supervisor>>
         \/ /\ \E w \in Readers : ReaderFits(x, esc) /\ reader' = [reader EXCEPT ![w] = x]
            /\ UNCHANGED <<topper, settler, closer, supervisor>>
         \/ /\ \E w \in Settlers : SettlerFits(x, esc) /\ settler' = [settler EXCEPT ![w] = x]
            /\ UNCHANGED <<topper, reader, closer, supervisor>>
         \/ /\ \E w \in Closers : CloserFits(x, esc) /\ closer' = [closer EXCEPT ![w] = x]
            /\ UNCHANGED <<topper, reader, settler, supervisor>>
         \/ /\ \E w \in Supervisors :
                 SupervisorFits(x, esc) /\ supervisor' = [supervisor EXCEPT ![w] = x]
            /\ UNCHANGED <<topper, reader, settler, closer>>
  PROVE  PaidInv'
<1>1. OpenDeposit <= esc'.deposit /\ Backed(rec', esc')
  BY DEF PaidInv
<1>2. \A w \in Toppers : ReaderFits(topper'[w], esc)
  BY DEF PaidInv, WorkersFit, TypeOK
<1>3. \A w \in Readers : ReaderFits(reader'[w], esc)
  BY DEF PaidInv, WorkersFit, TypeOK
<1>4. \A w \in Settlers : SettlerFits(settler'[w], esc)
  BY DEF PaidInv, WorkersFit, TypeOK
<1>5. \A w \in Closers : CloserFits(closer'[w], esc)
  BY DEF PaidInv, WorkersFit, TypeOK
<1>6. \A w \in Supervisors : SupervisorFits(supervisor'[w], esc)
  BY DEF PaidInv, WorkersFit, TypeOK
<1> QED BY <1>1, <1>2, <1>3, <1>4, <1>5, <1>6, Zenon DEF PaidInv, WorkersFit

\* Nothing that was read is ahead of the escrow.
LEMMA SeenBehind ==
  ASSUME TypeOK, PaidInv
  PROVE  /\ rec \in Record /\ esc \in EscrowState /\ OpenDeposit <= esc.deposit
         /\ Backed(rec, esc)
         /\ StoredView(rec) \in View /\ Behind(StoredView(rec), esc)
         /\ EscrowView(esc) \in View /\ Behind(EscrowView(esc), esc)
         /\ \A w \in Toppers : topper[w].seen \in View /\ Behind(topper[w].seen, esc)
         /\ \A w \in Readers : Behind(reader[w].seen, esc)
         /\ \A w \in Closers : Behind(closer[w].seen, esc)
         /\ \A w \in Supervisors : Behind(supervisor[w].seen, esc)
<1>1. /\ rec \in Record /\ esc \in EscrowState /\ OpenDeposit <= esc.deposit
      /\ Backed(rec, esc)
  BY DEF TypeOK, PaidInv
<1>2. /\ StoredView(rec) \in View /\ Behind(StoredView(rec), esc)
      /\ EscrowView(esc) \in View /\ Behind(EscrowView(esc), esc)
  BY <1>1, FreshFits, StoredViewType, EscrowViewType
<1>3. \A w \in Toppers : topper[w].seen \in View
  BY SMT DEF TypeOK, TopperState
<1>4. /\ \A w \in Toppers : Behind(topper[w].seen, esc)
      /\ \A w \in Readers : Behind(reader[w].seen, esc)
      /\ \A w \in Closers : Behind(closer[w].seen, esc)
      /\ \A w \in Supervisors : Behind(supervisor[w].seen, esc)
  BY Zenon DEF PaidInv, WorkersFit, ReaderFits, CloserFits, SupervisorFits
<1> QED BY <1>1, <1>2, <1>3, <1>4, Zenon

\* A voucher that fits a state that is not ahead fits the escrow's deposit.
LEMMA FitsBehind ==
  ASSUME NEW c \in View, NEW e \in EscrowState, Behind(c, e), NEW h \in Nat, NEW v \in Nat,
         VoucherFits(c, h, v)
  PROVE  v <= e.deposit
  BY ViewFields, EscrowFields DEF VoucherFits, Behind

\* Opens and top-ups.
LEMMA OpenAndTopUpPaid ==
  ASSUME TypeOK, PaidInv
  PROVE  /\ \A w \in Openers, v \in 0..MaxAmount : RecordOpen(w, v) => PaidInv'
         /\ \A w \in Toppers, a \in Amounts : TopUpMined(w, a) => PaidInv'
         /\ \A w \in Toppers : RecordTopUp(w) \/ AbandonTopUp(w) => PaidInv'
<1>1. ASSUME NEW w \in Openers, NEW v \in 0..MaxAmount, RecordOpen(w, v) PROVE PaidInv'
  <2> DEFINE c == EscrowView(OpenedEscrow(OpenDeposit))
  <2>1. c \in View /\ c.settled = 0 /\ Behind(c, esc)
    <3>1. OpenedEscrow(OpenDeposit) \in EscrowState
      BY SeenBehind, EscrowCallsTyped, ChannelAssumption
    <3>2. c.settled = 0
      BY SMT DEF EscrowView, OpenedEscrow
    <3> QED BY <3>1, <3>2, EscrowViewType, SeenBehind, FreshFits
  <2>2. v \in Nat /\ v <= esc.deposit
    BY <1>1, SeenBehind, EscrowFields, ChannelAssumption, SMT DEF RecordOpen
  <2> HIDE DEF c
  <2>3. Backed(OpenRecord(rec, c, v), esc)
    BY <2>1, <2>2, SeenBehind, OpenBacked
  <2>4. Backed(rec', esc)
    BY <1>1, <2>3 DEF RecordOpen, c
  <2> QED BY <1>1, <2>4, OneMoves, Zenon DEF RecordOpen, chainVars
<1>2. ASSUME NEW w \in Toppers, NEW a \in Amounts, TopUpMined(w, a) PROVE PaidInv'
  <2>1. a \in Nat /\ esc' = ToppedUp(esc, a) /\ ~esc.closed
    BY <1>2, ChannelAssumption, SMT DEF TopUpMined, Amounts
  <2>2. esc' \in EscrowState /\ Grows(esc, esc')
    BY <2>1, SeenBehind, EscrowCallsTyped, CallsGrow
  <2>3. OpenDeposit <= esc'.deposit
    BY <2>2, SeenBehind, EscrowFields, ChannelAssumption, SMT DEF Grows
  <2>4. Backed(rec', esc') /\ WorkersFit(esc')
    BY <1>2, <2>2, SeenBehind, GrowsKeeps, Zenon DEF PaidInv, TopUpMined
  <2>5. Behind(EscrowView(esc'), esc')
    BY <2>2, <2>3, FreshFits
  <2>6. \A x \in Toppers : ReaderFits(topper'[x], esc')
    BY <1>2, <2>4, <2>5 DEF WorkersFit, ReaderFits, TopUpMined, TypeOK
  <2> QED BY <1>2, <2>3, <2>4, <2>6, Zenon DEF PaidInv, WorkersFit, TopUpMined
<1>3. ASSUME NEW w \in Toppers, RecordTopUp(w) PROVE PaidInv'
  <2>1. Backed(rec', esc)
    BY <1>3, SeenBehind, MergeBacked DEF RecordTopUp
  <2>2. ReaderFits(IdleTopper, esc)
    BY SeenBehind, IdleFits
  <2> QED BY <1>3, <2>1, <2>2, OneMoves, Zenon DEF RecordTopUp, chainVars
<1>4. ASSUME NEW w \in Toppers, AbandonTopUp(w) PROVE PaidInv'
  <2>1. Backed(rec', esc)
    BY <1>4, SeenBehind DEF AbandonTopUp
  <2>2. ReaderFits(IdleTopper, esc)
    BY SeenBehind, IdleFits
  <2> QED BY <1>4, <2>1, <2>2, OneMoves, Zenon DEF AbandonTopUp, chainVars
<1> QED BY <1>1, <1>2, <1>3, <1>4

\* Voucher handlers.
LEMMA VoucherPaid ==
  ASSUME TypeOK, PaidInv, NEW w \in Readers,
         \/ \E v \in Amounts : ReadVoucher(w, v)
         \/ \E a \in 0..MaxAmount : AcceptRead(w, a)
         \/ ReconcileVoucher(w) \/ ReadInBackground(w) \/ RecordRequest(w) \/ RecordOpenState(w)
         \/ AbandonVoucher(w)
  PROVE  PaidInv'
<1> DEFINE seen == reader[w].seen
<1>1. seen \in View /\ Behind(seen, esc)
  BY ReaderFields, SeenBehind
<1>2. ReaderFits(IdleReader, esc)
  BY SeenBehind, IdleFits
<1>3. ASSUME NEW v \in Amounts, ReadVoucher(w, v) PROVE PaidInv'
  <2>1. PICK c \in {EscrowView(esc)} \cup
                 (IF rec.closeReq = 0 /\ v <= rec.deposit THEN {StoredView(rec)} ELSE {}) :
          reader' = [reader EXCEPT ![w] =
            [pc |-> IF rec.closeReq # 0 THEN "read" ELSE "checked",
             voucher |-> v, highest |-> rec.highest, at |-> now, seen |-> c]]
    BY <1>3, Zenon DEF ReadVoucher
  <2> DEFINE x == [pc |-> IF rec.closeReq # 0 THEN "read" ELSE "checked",
                   voucher |-> v, highest |-> rec.highest, at |-> now, seen |-> c]
  <2>2. ReaderFits(x, esc)
    BY SeenBehind DEF ReaderFits
  <2>3. Backed(rec', esc)
    BY <1>3, SeenBehind DEF ReadVoucher
  <2>4. reader' = [reader EXCEPT ![w] = x]
    BY <2>1
  <2> HIDE DEF x
  <2> QED BY <1>3, <2>2, <2>3, <2>4, OneMoves, Zenon DEF ReadVoucher, chainVars
<1>4. CASE ReconcileVoucher(w)
  <2> DEFINE p == [reader[w] EXCEPT !.pc = "checked"]
             x == [p EXCEPT !.highest = rec'.highest]
  <2>1. x.seen = seen
    BY ReaderFields, SMT DEF ReaderState
  <2>2. ReaderFits(x, esc)
    BY <1>1, <2>1 DEF ReaderFits
  <2>3. Backed(rec', esc)
    <3> DEFINE s == ReconcileExpired(rec, reader[w].at, seen)
    <3>1. s \in {MarkClosing(rec, 0), ClearMarker(rec, 0),
                 ReconcileExpired(rec, reader[w].at, seen), ReserveClose(rec, 0),
                 ReleaseClose(rec, 0)}
      OBVIOUS
    <3>2. /\ s.spent = rec.spent /\ s.highest = rec.highest /\ s.deposit = rec.deposit
          /\ s.settled = rec.settled /\ s.finalized = rec.finalized
      BY <3>1, SeenBehind, MarkerFields
    <3>3. rec' = s
      BY <1>4 DEF ReconcileVoucher
    <3> HIDE DEF s
    <3> QED BY <3>2, <3>3, SeenBehind, RecordFields, SameBacked
  <2>4. reader' = [reader EXCEPT ![w] = x]
    BY <1>4 DEF ReconcileVoucher
  <2> HIDE DEF x
  <2> QED BY <1>4, <2>2, <2>3, <2>4, OneMoves, Zenon DEF ReconcileVoucher, chainVars
<1>5. ASSUME NEW a \in 0..MaxAmount, AcceptRead(w, a) PROVE PaidInv'
  <2>1. a \in Nat /\ reader[w].voucher \in Nat /\ reader[w].highest \in Nat
    BY ReaderFields, ChannelAssumption, SMT
  <2>2. reader[w].voucher <= esc.deposit
    BY <1>1, <1>5, <2>1, SeenBehind, FitsBehind DEF AcceptRead
  <2>3. Backed(rec', esc)
    BY <1>1, <1>5, <2>1, <2>2, SeenBehind, AcceptBacked DEF AcceptRead
  <2> QED BY <1>2, <1>5, <2>3, OneMoves, Zenon DEF AcceptRead, chainVars
<1>6. CASE ReadInBackground(w)
  <2> DEFINE p == [IdleReader EXCEPT !.pc = "background"]
             x == [p EXCEPT !.seen = EscrowView(esc)]
  <2>1. x.seen = EscrowView(esc)
    BY SMT DEF IdleReader
  <2>2. ReaderFits(x, esc)
    BY <2>1, SeenBehind DEF ReaderFits
  <2>3. reader' = [reader EXCEPT ![w] = x] /\ Backed(rec', esc)
    BY <1>6, SeenBehind DEF ReadInBackground
  <2> HIDE DEF x
  <2> QED BY <1>6, <2>2, <2>3, OneMoves, Zenon DEF ReadInBackground, chainVars
<1>7. CASE RecordRequest(w)
  <2>1. Backed(rec', esc)
    BY <1>1, <1>7, SeenBehind, RequestBacked DEF RecordRequest
  <2> QED BY <1>2, <1>7, <2>1, OneMoves, Zenon DEF RecordRequest, chainVars
<1>8. CASE RecordOpenState(w)
  <2>1. Backed(rec', esc)
    BY <1>1, <1>8, SeenBehind, MergeBacked DEF RecordOpenState, RecordOpenRead
  <2> QED BY <1>2, <1>8, <2>1, OneMoves, Zenon DEF RecordOpenState, chainVars
<1>9. CASE AbandonVoucher(w)
  <2>1. Backed(rec', esc)
    BY <1>9, SeenBehind DEF AbandonVoucher
  <2> QED BY <1>2, <1>9, <2>1, OneMoves, Zenon DEF AbandonVoucher, chainVars
<1> QED BY <1>3, <1>4, <1>5, <1>6, <1>7, <1>8, <1>9

\* Vouchers accepted against stored state, charges and credits.
LEMMA SpendPaid ==
  ASSUME TypeOK, PaidInv
  PROVE  /\ \A v \in Amounts, a \in 0..MaxAmount : AcceptStored(v, a) => PaidInv'
         /\ \A a \in Amounts : ChargeChannel(a) \/ CreditChannel(a) => PaidInv'
<1>1. ASSUME NEW v \in Amounts, NEW a \in 0..MaxAmount, AcceptStored(v, a) PROVE PaidInv'
  <2>1. a \in Nat /\ v \in Nat /\ rec.highest \in Nat
    BY SeenBehind, RecordFields, ChannelAssumption, SMT DEF Amounts
  <2>2. v <= esc.deposit
    BY <1>1, <2>1, SeenBehind, FitsBehind DEF AcceptStored
  <2>3. Backed(rec', esc)
    BY <1>1, <2>1, <2>2, SeenBehind, AcceptBacked DEF AcceptStored
  <2> QED BY <1>1, <2>3, OneMoves, Zenon DEF AcceptStored, chainVars, workers
<1>2. ASSUME NEW a \in Amounts, ChargeChannel(a) PROVE PaidInv'
  <2> DEFINE s == Deduct(rec, a)
  <2>1. /\ s.spent = rec.spent + a /\ s.highest = rec.highest /\ s.deposit = rec.deposit
        /\ s.settled = rec.settled /\ s.finalized = rec.finalized
    BY SeenBehind, DeductFields
  <2>2. a \in Nat /\ rec' = s /\ rec.highest - rec.spent >= a
    BY <1>2, ChannelAssumption, SMT DEF ChargeChannel, Amounts, CanDeduct
  <2> HIDE DEF s
  <2>3. Backed(s, esc)
    BY <2>1, <2>2, SeenBehind, RecordFields, SMT DEF Backed, Behind
  <2> QED BY <1>2, <2>2, <2>3, OneMoves, Zenon DEF ChargeChannel, chainVars, workers
<1>3. ASSUME NEW a \in Amounts, CreditChannel(a) PROVE PaidInv'
  <2> DEFINE s == Credit(rec, a)
  <2>1. /\ s.spent = rec.spent - a /\ s.highest = rec.highest /\ s.deposit = rec.deposit
        /\ s.settled = rec.settled /\ s.finalized = rec.finalized
    BY SeenBehind, CreditFields
  <2>2. a \in Nat /\ rec' = s
    BY <1>3, ChannelAssumption, SMT DEF CreditChannel, Amounts
  <2> HIDE DEF s
  <2>3. s.spent <= rec.spent /\ s.spent \in Int
    BY <2>1, <2>2, SeenBehind, RecordFields
  <2>4. Backed(s, esc)
    BY <2>1, <2>3, SeenBehind, SameBacked
  <2> QED BY <1>3, <2>2, <2>4, OneMoves, Zenon DEF CreditChannel, chainVars, workers
<1> QED BY <1>1, <1>2, <1>3

\* Markers leave the record backed.
LEMMA MarkerBacked ==
  ASSUME NEW r \in Record, NEW e \in EscrowState, Backed(r, e), NEW n, NEW t, NEW c,
         NEW s \in {MarkClosing(r, n), ClearMarker(r, n), ReconcileExpired(r, t, c),
                    ReserveClose(r, n), ReleaseClose(r, n)}
  PROVE  Backed(s, e)
<1>1. /\ s.spent = r.spent /\ s.highest = r.highest /\ s.deposit = r.deposit
      /\ s.settled = r.settled /\ s.finalized = r.finalized
  BY MarkerFields
<1> QED BY <1>1, RecordFields, SameBacked

\* Settlement workers.
LEMMA SettlePaid ==
  ASSUME TypeOK, PaidInv, NEW w \in Settlers, SettleStep(w)
  PROVE  PaidInv'
<1>1. SettlerFits(IdleSettler, esc)
  BY SeenBehind, IdleFits
<1>2. CASE ClaimSettle(w)
  <2>1. PICK v \in LargestSettleable(rec), t \in Recent :
          /\ rec' = ClaimSettlement(rec, v, ValidBefore(t))
          /\ settler' = [settler EXCEPT ![w] =
               [pc |-> "claimed", amount |-> v, until |-> ValidBefore(t)]]
    BY <1>2 DEF ClaimSettle
  <2> DEFINE x == [pc |-> "claimed", amount |-> v, until |-> ValidBefore(t)]
             s == ClaimSettlement(rec, v, ValidBefore(t))
  <2>2. s \in {ClaimSettlement(rec, v, ValidBefore(t)), ReleaseSettlement(rec, v, ValidBefore(t))}
    OBVIOUS
  <2>3. /\ s.spent = rec.spent /\ s.highest = rec.highest /\ s.deposit = rec.deposit
        /\ s.settled = rec.settled /\ s.finalized = rec.finalized
    BY <2>2, SeenBehind, ClaimFields
  <2>4. SettlerFits(x, esc)
    BY DEF SettlerFits
  <2>5. rec' = s /\ settler' = [settler EXCEPT ![w] = x]
    BY <2>1
  <2> HIDE DEF s, x
  <2>6. Backed(rec', esc)
    BY <2>3, <2>5, SeenBehind, RecordFields, SameBacked
  <2> QED BY <1>2, <2>4, <2>5, <2>6, OneMoves, Zenon DEF ClaimSettle, chainVars
<1>3. CASE SendSettle(w)
  <2> DEFINE x == [settler[w] EXCEPT !.pc = "sent"]
  <2>1. SettlerFits(x, esc)
    BY SettlerFields, SMT DEF SettlerFits, SettlerState
  <2>2. settler' = [settler EXCEPT ![w] = x] /\ Backed(rec', esc)
    BY <1>3, SeenBehind DEF SendSettle
  <2> HIDE DEF x
  <2> QED BY <1>3, <2>1, <2>2, OneMoves, Zenon DEF SendSettle
<1>4. CASE ReleaseSettle(w)
  <2> DEFINE a == settler[w].amount
             u == settler[w].until
             s == ReleaseSettlement(rec, a, u)
  <2>1. s \in {ClaimSettlement(rec, a, u), ReleaseSettlement(rec, a, u)}
    OBVIOUS
  <2>2. /\ s.spent = rec.spent /\ s.highest = rec.highest /\ s.deposit = rec.deposit
        /\ s.settled = rec.settled /\ s.finalized = rec.finalized
    BY <2>1, SeenBehind, ClaimFields
  <2>3. rec' = s
    BY <1>4 DEF ReleaseSettle
  <2> HIDE DEF s
  <2>4. Backed(rec', esc)
    BY <2>2, <2>3, SeenBehind, RecordFields, SameBacked
  <2> QED BY <1>1, <1>4, <2>4, OneMoves, Zenon DEF ReleaseSettle, chainVars
<1>5. CASE RecordSettle(w)
  <2>1. settler[w].amount <= PaidOf(esc)
    BY <1>5 DEF RecordSettle, PaidInv, WorkersFit, SettlerFits
  <2>2. Backed(rec', esc)
    BY <1>5, <2>1, SeenBehind, SettlerFields, SettledBacked DEF RecordSettle
  <2> QED BY <1>1, <1>5, <2>2, OneMoves, Zenon DEF RecordSettle, chainVars
<1>6. CASE AbandonSettle(w)
  <2>1. Backed(rec', esc)
    BY <1>6, SeenBehind DEF AbandonSettle
  <2> QED BY <1>1, <1>6, <2>1, OneMoves, Zenon DEF AbandonSettle, chainVars
<1> QED BY <1>2, <1>3, <1>4, <1>5, <1>6 DEF SettleStep

\* Handlers of close credentials.
LEMMA ClosePaid ==
  ASSUME TypeOK, PaidInv, NEW w \in Closers,
         \/ \E v \in 0..MaxAmount : CheckClose(w, v)
         \/ MarkClose(w) \/ SendClose(w) \/ ClearClose(w)
         \/ FinishClose(w) \/ AbandonClose(w)
  PROVE  PaidInv'
<1>1. CloserFits(IdleCloser, esc)
  BY SeenBehind, IdleFits
<1>2. CloserFits(closer[w], esc)
  BY DEF PaidInv, WorkersFit
<1>3. ASSUME NEW v \in 0..MaxAmount, CheckClose(w, v) PROVE PaidInv'
  <2> DEFINE x == [pc |-> "checked", voucher |-> v, capture |-> 0, at |-> now,
                   seen |-> EscrowView(esc)]
  <2>1. CloserFits(x, esc)
    BY SeenBehind DEF CloserFits
  <2>2. closer' = [closer EXCEPT ![w] = x] /\ Backed(rec', esc)
    BY <1>3, SeenBehind DEF CheckClose
  <2> HIDE DEF x
  <2> QED BY <1>3, <2>1, <2>2, OneMoves, Zenon DEF CheckClose, chainVars
<1>4. CASE MarkClose(w)
  <2> DEFINE current == ReconcileExpired(rec, closer[w].at, closer[w].seen)
             n == CloseCapture(current.spent, closer[w].seen)
             p == [closer[w] EXCEPT !.pc = "marked"]
             x == [p EXCEPT !.capture = n]
  <2>1. x.pc = "marked" /\ x.seen = closer[w].seen
    BY CloserFields, SMT DEF CloserState
  <2>2. CloserFits(x, esc)
    BY <1>2, <2>1 DEF CloserFits
  <2>3. current \in Record /\ Backed(current, esc)
    <3>1. current \in {MarkClosing(rec, 0), ClearMarker(rec, 0),
                       ReconcileExpired(rec, closer[w].at, closer[w].seen), ReserveClose(rec, 0),
                       ReleaseClose(rec, 0)}
      OBVIOUS
    <3> QED BY <3>1, SeenBehind, CloserFields, ReconcileSound, MarkerBacked
  <2>4. \/ closer' = [closer EXCEPT ![w] = x] /\ rec' = MarkClosing(current, closer[w].at)
        \/ closer' = [closer EXCEPT ![w] = IdleCloser] /\ rec' = rec
    BY <1>4 DEF MarkClose
  <2> HIDE DEF current, x
  <2>5. Backed(MarkClosing(current, closer[w].at), esc)
    <3> DEFINE s == MarkClosing(current, closer[w].at)
    <3>1. s \in {MarkClosing(current, closer[w].at), ClearMarker(current, closer[w].at),
                 ReconcileExpired(current, 0, NoView), ReserveClose(current, closer[w].at),
                 ReleaseClose(current, closer[w].at)}
      OBVIOUS
    <3> QED BY <3>1, <2>3, SeenBehind, MarkerBacked
  <2>6. Backed(rec', esc)
    BY <2>4, <2>5, SeenBehind
  <2> QED BY <1>1, <1>4, <2>2, <2>4, <2>6, OneMoves, Zenon DEF MarkClose, chainVars
<1>5. CASE SendClose(w)
  <2> DEFINE x == [closer[w] EXCEPT !.pc = "sent"]
  <2>1. x.pc = "sent" /\ x.seen = closer[w].seen
    BY CloserFields, SMT DEF CloserState
  <2>2. CloserFits(x, esc)
    BY <1>2, <2>1 DEF CloserFits
  <2>3. closer' = [closer EXCEPT ![w] = x] /\ Backed(rec', esc)
    BY <1>5, SeenBehind DEF SendClose
  <2> HIDE DEF x
  <2> QED BY <1>5, <2>2, <2>3, OneMoves, Zenon DEF SendClose
<1>6. CASE ClearClose(w)
  <2> DEFINE s == ClearMarker(rec, closer[w].at)
  <2>1. s \in {MarkClosing(rec, closer[w].at), ClearMarker(rec, closer[w].at),
               ReconcileExpired(rec, 0, NoView), ReserveClose(rec, closer[w].at),
               ReleaseClose(rec, closer[w].at)}
    OBVIOUS
  <2>2. Backed(s, esc)
    BY <2>1, SeenBehind, MarkerBacked
  <2>3. Backed(rec', esc)
    BY <1>6, <2>2 DEF ClearClose
  <2> QED BY <1>1, <1>6, <2>3, OneMoves, Zenon DEF ClearClose, chainVars
<1>7. CASE FinishClose(w)
  <2>1. esc.closed /\ closer[w].capture <= PaidOf(esc)
    BY <1>2, <1>7, CloserFields DEF FinishClose, CloserFits, PaidOf
  <2>2. Backed(rec', esc)
    BY <1>7, <2>1, SeenBehind, CloserFields, FinalBacked DEF FinishClose
  <2> QED BY <1>1, <1>7, <2>2, OneMoves, Zenon DEF FinishClose, chainVars
<1>8. CASE AbandonClose(w)
  <2>1. Backed(rec', esc)
    BY <1>8, SeenBehind DEF AbandonClose
  <2> QED BY <1>1, <1>8, <2>1, OneMoves, Zenon DEF AbandonClose, chainVars
<1> QED BY <1>3, <1>4, <1>5, <1>6, <1>7, <1>8

\* Close supervisors.
LEMMA SupervisePaid ==
  ASSUME TypeOK, PaidInv, NEW w \in Supervisors,
         \/ ReadSupervised(w) \/ FinalizeGone(w) \/ ReconcileSupervised(w)
         \/ MergeSupervised(w) \/ ReserveSupervised(w) \/ SendSupervised(w)
         \/ ReleaseSupervised(w) \/ FinishSupervised(w) \/ AbandonSupervised(w)
  PROVE  PaidInv'
<1>1. SupervisorFits(IdleSupervisor, esc)
  BY SeenBehind, IdleFits
<1>2. SupervisorFits(supervisor[w], esc)
  BY DEF PaidInv, WorkersFit
\* A supervisor that moves on holds on to what it read.
<1>3. ASSUME NEW x, x.seen = supervisor[w].seen, x.pc \in {"merged", "reserved", "sent"}
      PROVE  SupervisorFits(x, esc)
  BY <1>2, <1>3 DEF SupervisorFits
<1>4. CASE ReadSupervised(w)
  <2> DEFINE b == rec.closeReq # 0
             p == [IdleSupervisor EXCEPT !.pc = "read"]
             t == [p EXCEPT !.at = ChainNow]
             c == [t EXCEPT !.seen = EscrowView(esc)]
             x == [c EXCEPT !.closing = b]
  <2>1. supervisor' = [supervisor EXCEPT ![w] = x]
    BY <1>4 DEF ReadSupervised
  <2>2. x.pc = "read" /\ x.seen = EscrowView(esc)
    BY SMT DEF IdleSupervisor
  <2> HIDE DEF x
  <2>3. EscrowView(esc).deposit = 0 => esc.closed
    BY SeenBehind, FreshFits
  <2>4. SupervisorFits(x, esc)
    BY <2>2, <2>3, SeenBehind DEF SupervisorFits
  <2>5. Backed(rec', esc)
    BY <1>4, SeenBehind DEF ReadSupervised
  <2> QED BY <1>4, <2>1, <2>4, <2>5, OneMoves, Zenon DEF ReadSupervised, chainVars
<1>5. CASE FinalizeGone(w)
  <2>1. esc.closed /\ esc.paid \in Nat /\ esc.paid <= PaidOf(esc)
    BY <1>2, <1>5, SeenBehind, EscrowFields DEF FinalizeGone, SupervisorFits, PaidOf
  <2>2. Backed(rec', esc)
    BY <1>5, <2>1, SeenBehind, FinalBacked DEF FinalizeGone
  <2> QED BY <1>1, <1>5, <2>2, OneMoves, Zenon DEF FinalizeGone, chainVars
<1>6. CASE ReconcileSupervised(w)
  <2> DEFINE s == ReconcileExpired(rec, supervisor[w].at, supervisor[w].seen)
  <2>1. s \in {MarkClosing(rec, 0), ClearMarker(rec, 0),
               ReconcileExpired(rec, supervisor[w].at, supervisor[w].seen),
               ReserveClose(rec, 0), ReleaseClose(rec, 0)}
    OBVIOUS
  <2>2. Backed(s, esc)
    BY <2>1, SeenBehind, MarkerBacked
  <2>3. Backed(rec', esc)
    BY <1>6, <2>2 DEF ReconcileSupervised
  <2> QED BY <1>1, <1>6, <2>3, OneMoves, Zenon DEF ReconcileSupervised, chainVars
<1>7. CASE MergeSupervised(w)
  <2> DEFINE n == CloseCapture(rec'.spent, supervisor[w].seen)
             p == [supervisor[w] EXCEPT !.pc = "merged"]
             v == [p EXCEPT !.voucher = rec'.highest]
             c == [v EXCEPT !.capture = n]
             x == [c EXCEPT !.spent = rec'.spent]
  <2>1. x.pc = "merged" /\ x.seen = supervisor[w].seen
    <3> HIDE DEF n
    <3> QED BY SupervisorFields, SMT DEF SupervisorState
  <2>2. \/ supervisor' = [supervisor EXCEPT ![w] = x]
        \/ supervisor' = [supervisor EXCEPT ![w] = IdleSupervisor]
    BY <1>7 DEF MergeSupervised
  <2> HIDE DEF x
  <2>3. SupervisorFits(x, esc)
    BY <1>3, <2>1
  <2>4. Backed(rec', esc)
    BY <1>7, SupervisorFields, SeenBehind, MergeBacked DEF MergeSupervised, MergeRequest
  <2> QED BY <1>1, <1>7, <2>2, <2>3, <2>4, OneMoves, Zenon DEF MergeSupervised, chainVars
<1>8. CASE ReserveSupervised(w)
  <2> PICK t \in Recent :
        \/ /\ rec' = ReserveClose(rec, ValidBefore(t))
           /\ supervisor' = [supervisor EXCEPT ![w] =
                [[supervisor[w] EXCEPT !.pc = "reserved"] EXCEPT !.until = ValidBefore(t)]]
        \/ rec' = rec /\ supervisor' = [supervisor EXCEPT ![w] = IdleSupervisor]
    BY <1>8 DEF ReserveSupervised
  <2> DEFINE u == ValidBefore(t)
             x == [[supervisor[w] EXCEPT !.pc = "reserved"] EXCEPT !.until = u]
             s == ReserveClose(rec, u)
  <2>1. \/ rec' = s /\ supervisor' = [supervisor EXCEPT ![w] = x]
        \/ rec' = rec /\ supervisor' = [supervisor EXCEPT ![w] = IdleSupervisor]
    OBVIOUS
  <2> HIDE DEF u
  <2>2. x.pc = "reserved" /\ x.seen = supervisor[w].seen
    BY SupervisorFields, SMT DEF SupervisorState
  <2> HIDE DEF x
  <2>3. SupervisorFits(x, esc)
    BY <1>3, <2>2
  <2>4. s \in {MarkClosing(rec, u), ClearMarker(rec, u), ReconcileExpired(rec, 0, NoView),
               ReserveClose(rec, u), ReleaseClose(rec, u)}
    OBVIOUS
  <2>5. Backed(s, esc)
    BY <2>4, SeenBehind, MarkerBacked
  <2> HIDE DEF s
  <2>6. Backed(rec', esc)
    BY <2>1, <2>5, SeenBehind
  <2> QED BY <1>1, <1>8, <2>1, <2>3, <2>6, OneMoves, Zenon DEF ReserveSupervised, chainVars
<1>9. CASE SendSupervised(w)
  <2> DEFINE x == [supervisor[w] EXCEPT !.pc = "sent"]
  <2>1. x.pc = "sent" /\ x.seen = supervisor[w].seen
    BY SupervisorFields, SMT DEF SupervisorState
  <2>2. supervisor' = [supervisor EXCEPT ![w] = x] /\ Backed(rec', esc)
    BY <1>9, SeenBehind DEF SendSupervised
  <2> HIDE DEF x
  <2>3. SupervisorFits(x, esc)
    BY <1>3, <2>1
  <2> QED BY <1>9, <2>2, <2>3, OneMoves, Zenon DEF SendSupervised
<1>10. CASE ReleaseSupervised(w)
  <2> DEFINE u == supervisor[w].until
             s == ReleaseClose(rec, u)
  <2>1. s \in {MarkClosing(rec, u), ClearMarker(rec, u), ReconcileExpired(rec, 0, NoView),
               ReserveClose(rec, u), ReleaseClose(rec, u)}
    OBVIOUS
  <2>2. Backed(s, esc)
    BY <2>1, SeenBehind, MarkerBacked
  <2>3. Backed(rec', esc)
    BY <1>10, <2>2 DEF ReleaseSupervised
  <2> QED BY <1>1, <1>10, <2>3, OneMoves, Zenon DEF ReleaseSupervised, chainVars
<1>11. CASE FinishSupervised(w)
  <2>1. esc.closed /\ esc.paid \in Nat /\ esc.paid <= PaidOf(esc)
    BY <1>2, <1>11, SeenBehind, EscrowFields DEF FinishSupervised, SupervisorFits, PaidOf
  <2>2. Backed(rec', esc)
    BY <1>11, <2>1, SeenBehind, SupervisorFields, FinalBacked DEF FinishSupervised
  <2> QED BY <1>1, <1>11, <2>2, OneMoves, Zenon DEF FinishSupervised, chainVars
<1>12. CASE AbandonSupervised(w)
  <2>1. Backed(rec', esc)
    BY <1>12, SeenBehind DEF AbandonSupervised
  <2> QED BY <1>1, <1>12, <2>1, OneMoves, Zenon DEF AbandonSupervised, chainVars
<1> QED BY <1>4, <1>5, <1>6, <1>7, <1>8, <1>9, <1>10, <1>11, <1>12

\* The outcome of a close reaches at most the handler that sent it.
LEMMA CloseOutcomeFits ==
  ASSUME TypeOK, PaidInv, NEW e \in EscrowState, Backed(rec, e), OpenDeposit <= e.deposit,
         WorkersFit(e), UNCHANGED <<rec, topper, reader, settler>>, esc' = e,
         NEW tx \in closes, NEW pc \in {"mined", "reverted"}, CloseOutcome(tx, pc),
         pc = "mined" => e.closed /\ e.paid = tx.capture
  PROVE  PaidInv'
<1>1. tx.by \in Closers \cup Supervisors
  BY SMT DEF TypeOK, CloseTx
<1>2. \A w \in Closers : CloserFits(closer'[w], e)
  <2> SUFFICES ASSUME NEW w \in Closers PROVE CloserFits(closer'[w], e)
    OBVIOUS
  <2> DEFINE x == [closer[w] EXCEPT !.pc = pc]
  <2>1. CloserFits(closer[w], e)
    BY DEF WorkersFit
  <2>2. \/ closer'[w] = closer[w]
        \/ closer'[w] = x /\ closer[w].capture = tx.capture
    BY DEF CloseOutcome, CloserTx, TypeOK
  <2>3. x.pc = pc /\ x.seen = closer[w].seen /\ x.capture = closer[w].capture
    BY CloserFields, SMT DEF CloserState
  <2> HIDE DEF x
  <2> QED BY <2>1, <2>2, <2>3 DEF CloserFits
<1>3. \A w \in Supervisors : SupervisorFits(supervisor'[w], e)
  <2> SUFFICES ASSUME NEW w \in Supervisors PROVE SupervisorFits(supervisor'[w], e)
    OBVIOUS
  <2> DEFINE x == [supervisor[w] EXCEPT !.pc = pc]
  <2>1. SupervisorFits(supervisor[w], e)
    BY DEF WorkersFit
  <2>2. supervisor'[w] = supervisor[w] \/ supervisor'[w] = x
    BY DEF CloseOutcome, TypeOK
  <2>3. x.pc = pc /\ x.seen = supervisor[w].seen
    BY SupervisorFields, SMT DEF SupervisorState
  <2> HIDE DEF x
  <2> QED BY <2>1, <2>2, <2>3 DEF SupervisorFits
<1> QED BY <1>2, <1>3, Zenon DEF PaidInv, WorkersFit

\* The chain, the payer and time.
LEMMA ChainPaid ==
  ASSUME TypeOK, PaidInv
  PROVE  /\ \A tx \in settles : SettleLands(tx) \/ SettleReverts(tx) => PaidInv'
         /\ \A tx \in closes : CloseLands(tx) \/ CloseReverts(tx) => PaidInv'
         /\ RequestClose \/ Withdraw \/ Tick => PaidInv'
<1>1. esc \in EscrowState /\ OpenDeposit <= esc.deposit /\ Backed(rec, esc) /\ WorkersFit(esc)
  BY SeenBehind DEF PaidInv
\* What still holds of a grown escrow.
<1>2. ASSUME NEW f \in EscrowState, Grows(esc, f)
      PROVE  Backed(rec, f) /\ WorkersFit(f) /\ OpenDeposit <= f.deposit
  <2>1. OpenDeposit <= f.deposit
    BY <1>1, <1>2, EscrowFields, ChannelAssumption, SMT DEF Grows
  <2> QED BY <1>1, <1>2, <2>1, GrowsKeeps
<1>3. ASSUME NEW tx \in settles, SettleLands(tx) PROVE PaidInv'
  <2>1. tx.amount \in Nat /\ tx.by \in Settlers
    BY SMT DEF TypeOK, SettleTx
  <2>2. esc' \in EscrowState /\ Grows(esc, esc') /\ PaidOf(esc') = tx.amount
    BY <1>1, <1>3, <2>1, EscrowCallsTyped, CallsGrow DEF SettleLands, CanSettle
  <2>3. Backed(rec, esc') /\ WorkersFit(esc') /\ OpenDeposit <= esc'.deposit
    BY <1>2, <2>2
  <2>4. \A w \in Settlers : SettlerFits(settler'[w], esc')
    <3> SUFFICES ASSUME NEW w \in Settlers PROVE SettlerFits(settler'[w], esc')
      OBVIOUS
    <3> DEFINE x == [settler[w] EXCEPT !.pc = "mined"]
    <3>1. SettlerFits(settler[w], esc')
      BY <2>3 DEF WorkersFit
    <3>2. \/ settler'[w] = settler[w]
          \/ settler'[w] = x /\ settler[w].amount = tx.amount
      BY <1>3 DEF SettleLands, SettleOutcome, SettlerTx, TypeOK
    <3>3. x.amount = settler[w].amount
      BY SettlerFields, SMT DEF SettlerState
    <3> HIDE DEF x
    <3> QED BY <2>1, <2>2, <3>1, <3>2, <3>3 DEF SettlerFits
  <2> QED BY <1>3, <2>3, <2>4, Zenon DEF PaidInv, WorkersFit, SettleLands
<1>4. ASSUME NEW tx \in settles, SettleReverts(tx) PROVE PaidInv'
  <2>1. \A w \in Settlers : SettlerFits(settler'[w], esc)
    <3> SUFFICES ASSUME NEW w \in Settlers PROVE SettlerFits(settler'[w], esc)
      OBVIOUS
    <3> DEFINE x == [settler[w] EXCEPT !.pc = "reverted"]
    <3>1. SettlerFits(settler[w], esc)
      BY <1>1 DEF WorkersFit
    <3>2. settler'[w] = settler[w] \/ settler'[w] = x
      BY <1>4 DEF SettleReverts, SettleOutcome, SettlerTx, TypeOK
    <3>3. x.pc = "reverted"
      BY SettlerFields, SMT DEF SettlerState
    <3> HIDE DEF x
    <3> QED BY <3>1, <3>2, <3>3 DEF SettlerFits
  <2> QED BY <1>1, <1>4, <2>1, Zenon DEF PaidInv, WorkersFit, SettleReverts
<1>5. ASSUME NEW tx \in closes, CloseLands(tx) PROVE PaidInv'
  <2>1. tx.capture \in Nat /\ tx.voucher \in Nat
    BY SMT DEF TypeOK, CloseTx
  <2>2. /\ esc' \in EscrowState /\ Grows(esc, esc')
        /\ esc'.closed /\ esc'.paid = tx.capture
    BY <1>1, <1>5, <2>1, EscrowCallsTyped, CallsGrow DEF CloseLands, CanClose
  <2>3. Backed(rec, esc') /\ WorkersFit(esc') /\ OpenDeposit <= esc'.deposit
    BY <1>2, <2>2
  <2> QED BY <1>5, <2>2, <2>3, CloseOutcomeFits DEF CloseLands
<1>6. ASSUME NEW tx \in closes, CloseReverts(tx) PROVE PaidInv'
  BY <1>1, <1>6, CloseOutcomeFits DEF CloseReverts
<1>7. ASSUME RequestClose \/ Withdraw PROVE PaidInv'
  <2>1. esc' \in EscrowState /\ Grows(esc, esc')
    <3>1. CASE RequestClose
      <4>1. ChainNow \in Nat
        BY <3>1, ChannelAssumption, SMT DEF RequestClose, ChainNow, TypeOK
      <4> QED BY <1>1, <3>1, <4>1, EscrowCallsTyped, CallsGrow DEF RequestClose
    <3>2. CASE Withdraw
      <4>1. 0 \in Nat
        OBVIOUS
      <4> QED BY <1>1, <3>2, <4>1, EscrowCallsTyped, CallsGrow DEF Withdraw
    <3> QED BY <1>7, <3>1, <3>2
  <2>2. Backed(rec, esc') /\ WorkersFit(esc') /\ OpenDeposit <= esc'.deposit
    BY <1>2, <2>1
  <2> QED BY <1>7, <2>2, Zenon DEF PaidInv, WorkersFit, RequestClose, Withdraw, workers
<1>8. ASSUME Tick PROVE PaidInv'
  BY <1>1, <1>8, Zenon DEF PaidInv, WorkersFit, Tick, workers
<1> QED BY <1>3, <1>4, <1>5, <1>6, <1>7, <1>8

\* The invariant is inductive.
LEMMA StepPaid ==
  ASSUME TypeOK, PaidInv, [Next]_vars
  PROVE  PaidInv'
<1>1. CASE CredentialNext
  <2>1. ASSUME NEW w \in Readers,
               \/ \E v \in Amounts : ReadVoucher(w, v)
               \/ ReconcileVoucher(w)
               \/ \E a \in 0..MaxAmount : AcceptRead(w, a)
               \/ ReadInBackground(w) \/ RecordRequest(w) \/ RecordOpenState(w)
               \/ AbandonVoucher(w)
        PROVE  PaidInv'
    BY <2>1, VoucherPaid
  <2> QED BY <1>1, <2>1, OpenAndTopUpPaid, SpendPaid, Zenon DEF CredentialNext
<1>2. CASE SettleNext
  <2>1. ASSUME NEW w \in Settlers, SettleStep(w) PROVE PaidInv'
    BY <2>1, SettlePaid
  <2> QED BY <1>2, <2>1, SpendPaid, Zenon DEF SettleNext, SettleStep
<1>3. CASE CloseNext
  <2>1. ASSUME NEW w \in Closers,
               \/ \E v \in 0..MaxAmount : CheckClose(w, v)
               \/ MarkClose(w) \/ SendClose(w) \/ ClearClose(w)
               \/ FinishClose(w) \/ AbandonClose(w)
        PROVE  PaidInv'
    BY <2>1, ClosePaid
  <2>2. ASSUME NEW w \in Supervisors,
               \/ ReadSupervised(w) \/ FinalizeGone(w) \/ ReconcileSupervised(w)
               \/ MergeSupervised(w) \/ ReserveSupervised(w) \/ SendSupervised(w)
               \/ ReleaseSupervised(w) \/ FinishSupervised(w) \/ AbandonSupervised(w)
        PROVE  PaidInv'
    BY <2>2, SupervisePaid
  <2> QED BY <1>3, <2>1, <2>2, Zenon DEF CloseNext
<1>4. CASE ChainNext
  BY <1>4, ChainPaid, Zenon DEF ChainNext
<1>5. CASE UNCHANGED vars
  BY <1>5, Zenon DEF vars, PaidInv, WorkersFit
<1> QED BY <1>1, <1>2, <1>3, <1>4, <1>5 DEF Next

\* The invariant holds at first.
LEMMA InitPaid == Init => PaidInv
<1> SUFFICES ASSUME Init PROVE PaidInv
  OBVIOUS
<1>1. esc \in EscrowState /\ rec \in Record
  BY InitTyped DEF TypeOK
<1>2. esc.deposit = OpenDeposit /\ esc.settled = 0 /\ esc.closed = FALSE
  BY SMT DEF Init, OpenedEscrow
<1>3. OpenDeposit <= esc.deposit
  BY <1>2, ChannelAssumption
<1>4. /\ rec.deposit = 0 /\ rec.settled = 0 /\ rec.highest = 0 /\ rec.spent = 0
      /\ rec.finalized = FALSE
  BY SMT DEF Init, NoRecord
<1>5. Backed(rec, esc)
  BY <1>2, <1>4, ChannelAssumption DEF Backed, Behind, PaidOf
<1>6. WorkersFit(esc)
  BY <1>1, <1>3, IdleFits DEF Init, WorkersFit
<1> QED BY <1>3, <1>5, <1>6 DEF PaidInv

\* The invariant holds of every execution.
LEMMA PaidInvariant == Spec => [](TypeOK /\ PaidInv)
<1>1. TypeOK /\ PaidInv /\ [Next]_vars => PaidInv'
  BY StepPaid
<1> QED BY TypeCorrect, InitPaid, <1>1, PTL DEF Spec

\* The record never counts as settled what the escrow did not pay, whichever
\* of receipts, reads, close events and markers the handlers record, in any
\* order (record_settled_state, merge_on_chain_state, finalize_close).
THEOREM SettledStaysPaid == Spec => []SettledWasPaid
<1>1. TypeOK /\ PaidInv => SettledWasPaid
  BY DEF PaidInv, Backed, Behind, PaidOf, SettledWasPaid
<1> QED BY PaidInvariant, <1>1, PTL

\* Every charge is covered by an accepted voucher and every accepted voucher by
\* the escrow's deposit, however stale the chain state that a voucher was
\* checked against (_accept_voucher, deduct_from_channel).
THEOREM VouchersStayBacked == Spec => []VoucherBacked
<1>1. TypeOK /\ PaidInv => VoucherBacked
  BY DEF PaidInv, Backed, VoucherBacked
<1> QED BY PaidInvariant, <1>1, PTL

\* Of the settle transactions in flight at most one can still move the escrow:
\* the reservation cannot tell two amounts apart, and a transaction that lost
\* its reservation settles no more than the record already counts as paid.
THEOREM SettlementsTakeTurns == Spec => []OneEffectiveSettlement
<1>1. ASSUME TypeOK, PaidInv, SettleInv PROVE OneEffectiveSettlement
  <2> SUFFICES ASSUME NEW t \in settles, NEW u \in settles,
                      CanSettle(esc, t.amount), CanSettle(esc, u.amount)
               PROVE  t = u
    BY DEF OneEffectiveSettlement
  <2>1. /\ t \in SettleTx /\ t.amount \in Nat /\ t.until \in Nat /\ Outstanding(t.until)
        /\ u \in SettleTx /\ u.amount \in Nat /\ u.until \in Nat /\ Outstanding(u.until)
    BY <1>1, SettleFields DEF SettleInv, MayLand, Outstanding, TypeOK
  <2>2. t.amount > rec.settled /\ u.amount > rec.settled
    <3>1. rec.settled <= esc.settled /\ rec.settled \in Nat /\ esc.settled \in Nat
      BY <1>1, SeenBehind, RecordFields, EscrowFields DEF CanSettle, Backed, Behind, PaidOf
    <3> QED BY <2>1, <3>1, SMT DEF CanSettle
  <2>3. t.by = u.by
    BY <1>1, <2>2 DEF SettleInv
  <2>4. /\ rec.pending = Reservation(t.amount, t.until)
        /\ rec.pending = Reservation(u.amount, u.until)
    <3>1. ~(t.amount <= rec.settled) /\ ~(u.amount <= rec.settled)
      BY <1>1, <2>1, <2>2, RecordFields DEF TypeOK
    <3> QED BY <1>1, <2>1, <3>1 DEF SettleInv, Holds
  <2>5. Reservation(t.amount, t.until) = Reservation(u.amount, u.until)
    BY <2>4
  <2>6. t.amount = u.amount /\ t.until = u.until
    BY <2>1, <2>5, ReservationInjective
  <2> QED BY <2>1, <2>3, <2>6, SettleTxEqual
<1>2. TypeOK /\ SettleInv /\ [Next]_vars => SettleInv'
  BY StepSettleInv
<1> QED BY PaidInvariant, InitSettleInv, <1>1, <1>2, PTL DEF Spec

-----------------------------------------------------------------------------
(* The invariant: of whatever may still close the channel, at most one can. *)

CloserUntil(w) == ValidBefore(closer[w].at)

\* Handlers that still own a marker they may clear, or send the close for.
Markers == {w \in Closers : closer[w].pc \in {"marked", "reverted"}}

LiveMarkers == {w \in Markers : Outstanding(CloserUntil(w))}

\* The recorded marker outlives what ends at until.
Guarded(until) == rec.closeReq # 0 /\ until <= rec.closeReq + Validity

\* A close of this capture would pay the spend.
Captures(capture) == rec.spent <= capture /\ (capture = rec.spent \/ capture <= esc.settled)

\* A view that cannot clear the marker.
Harmless(x) ==
  \/ x.seen.deposit = 0
  \/ x.at <= rec.closeReq + Validity + Skew

AgeInv ==
  /\ now >= 1
  /\ \A w \in Closers : closer[w].pc = "checked" => 1 <= closer[w].at /\ closer[w].at <= now
  /\ \A w \in Readers : reader[w].pc = "read" => reader[w].at <= now
  /\ \A tx \in closes : MayLand(tx)

\* Before the channel is closed.
OpenInv ==
  /\ \A tx \in closes : Guarded(tx.until) /\ Captures(tx.capture)
  /\ \A w \in LiveMarkers : Guarded(CloserUntil(w)) /\ Captures(closer[w].capture)
  /\ \A t, u \in closes : t = u
  /\ \A v, w \in LiveMarkers : v = w
  /\ LiveMarkers # {} => closes = {}

\* After a close, until it is recorded: the marker stays.
HeldInv ==
  /\ rec.closeReq # 0
  /\ \A w \in Markers : closer[w].at < rec.closeReq
  /\ \A w \in Readers : reader[w].pc = "read" => Harmless(reader[w])
  /\ \A w \in Closers : closer[w].pc = "checked" => Harmless(closer[w])

PayeeInv ==
  /\ esc.closed /\ closes = {} /\ LiveMarkers = {}
  /\ esc.paid = KeepGreater(rec.spent, esc.settled)
  /\ rec.finalized \/ HeldInv

CloseInv ==
  /\ AgeInv
  /\ ~esc.closed => OpenInv
  /\ esc.byPayee => PayeeInv

-----------------------------------------------------------------------------
(* When charges may go on.                                                  *)

\* Nothing can close the channel any more, or the channel has not been closed
\* by the payee.
Free(live) == ~esc.byPayee /\ (~esc.closed => closes = {} /\ live = {})

\* The numbers of the clocks and handlers.
LEMMA CloseNumbers ==
  ASSUME TypeOK
  PROVE  /\ now \in Nat /\ ChainNow \in Int
         /\ rec.closeReq \in Nat /\ rec.spent \in Nat /\ rec.finalized \in BOOLEAN
         /\ esc.settled \in Nat /\ esc.paid \in Nat /\ esc.closed \in BOOLEAN
         /\ esc.byPayee \in BOOLEAN
         /\ \A w \in Closers : CloserUntil(w) \in Nat /\ closer[w].at \in Nat
                               /\ closer[w].capture \in Nat
         /\ \A tx \in closes : tx.until \in Nat /\ tx.capture \in Nat
         /\ Validity \in Nat \ {0} /\ Skew \in Nat /\ now <= ChainNow + Skew
<1>1. now \in Nat /\ rec \in Record /\ esc \in EscrowState
  BY DEF TypeOK
<1>2. ChainNow \in Int /\ now <= ChainNow + Skew /\ Validity \in Nat \ {0} /\ Skew \in Nat
  BY <1>1, ChannelAssumption, RecordAssumption, SMT DEF ChainNow
<1>3. \A w \in Closers : CloserUntil(w) \in Nat /\ closer[w].at \in Nat
                         /\ closer[w].capture \in Nat
  BY CloserFields, RecordAssumption, SMT DEF CloserUntil, ValidBefore
<1>4. \A tx \in closes : tx.until \in Nat /\ tx.capture \in Nat
  BY SMT DEF TypeOK, CloseTx
<1>5. /\ rec.closeReq \in Nat /\ rec.spent \in Nat /\ rec.finalized \in BOOLEAN
  BY <1>1, RecordFields
<1> QED BY <1>1, <1>2, <1>3, <1>4, <1>5, EscrowFields

\* Without a marker nothing can close the channel.
LEMMA UnmarkedFree ==
  ASSUME TypeOK, CloseInv, rec.closeReq = 0, ~rec.finalized
  PROVE  Free(LiveMarkers)
<1>1. ~esc.byPayee
  BY DEF CloseInv, PayeeInv, HeldInv
<1>2. ~esc.closed => closes = {} /\ LiveMarkers = {}
  BY DEF CloseInv, OpenInv, Guarded
<1> QED BY <1>1, <1>2 DEF Free

\* Nor once the marker has expired on the server's clock.
LEMMA ExpiredFree ==
  ASSUME TypeOK, CloseInv, ~rec.finalized, NEW t \in Nat, t <= now,
         t > rec.closeReq + Validity + Skew,
         esc.byPayee => t <= rec.closeReq + Validity + Skew
  PROVE  Free(LiveMarkers)
<1>1. ~esc.byPayee
  BY CloseNumbers, SMT
<1>2. ASSUME NEW u \in Nat, Outstanding(u) PROVE ~Guarded(u)
  BY <1>2, CloseNumbers, SMT DEF Guarded, Outstanding
<1>3. ASSUME NEW tx \in closes PROVE Outstanding(tx.until) /\ tx.until \in Nat
  BY CloseNumbers DEF CloseInv, AgeInv, MayLand, Outstanding
<1>4. \A w \in LiveMarkers : Outstanding(CloserUntil(w)) /\ CloserUntil(w) \in Nat
  BY CloseNumbers DEF LiveMarkers, Markers
<1>5. ~esc.closed => closes = {} /\ LiveMarkers = {}
  BY <1>2, <1>3, <1>4 DEF CloseInv, OpenInv
<1> QED BY <1>1, <1>5 DEF Free

\* Nor after the handler whose marker is recorded has cleared it.
LEMMA ClearedFree ==
  ASSUME TypeOK, CloseInv, ~rec.finalized, NEW w \in Markers, rec.closeReq = closer[w].at
  PROVE  Free(LiveMarkers \ {w})
<1>1. ~esc.byPayee
  BY CloseNumbers, SMT DEF CloseInv, PayeeInv, HeldInv, Markers
<1>2. CASE w \in LiveMarkers
  BY <1>1, <1>2 DEF CloseInv, OpenInv, Free
<1>3. CASE w \notin LiveMarkers
  <2>1. ASSUME NEW u \in Nat, Outstanding(u) PROVE ~Guarded(u)
    BY <1>3, <2>1, CloseNumbers, SMT
       DEF Guarded, Outstanding, LiveMarkers, Markers, CloserUntil, ValidBefore
  <2>2. ASSUME NEW tx \in closes PROVE Outstanding(tx.until) /\ tx.until \in Nat
    BY CloseNumbers DEF CloseInv, AgeInv, MayLand, Outstanding
  <2>3. \A v \in LiveMarkers : Outstanding(CloserUntil(v)) /\ CloserUntil(v) \in Nat
    BY CloseNumbers DEF LiveMarkers, Markers
  <2>4. ~esc.closed => closes = {} /\ LiveMarkers = {}
    BY <2>1, <2>2, <2>3 DEF CloseInv, OpenInv
  <2> QED BY <1>1, <2>4 DEF Free
<1> QED BY <1>2, <1>3

-----------------------------------------------------------------------------
(* Steps of handlers that neither mark nor send a close.                    *)

\* What such a step may do to the record.
KeepsMarker ==
  /\ rec'.spent = rec.spent /\ rec'.closeReq >= rec.closeReq
  /\ rec.finalized => rec'.finalized

Ends == rec'.spent = rec.spent /\ rec'.finalized /\ esc.closed

\* What such a step may do to a handler that holds a view.
Looks(x, y) == y = x \/ (y.at <= now /\ 1 <= y.at /\ (esc.closed => y.seen.deposit = 0))

\* It keeps the invariant.
LEMMA HandlerKeeps ==
  ASSUME TypeOK, TypeOK', CloseInv, UNCHANGED <<now, esc, closes>>,
         \A w \in Markers' : /\ w \in Markers /\ closer'[w].at = closer[w].at
                             /\ closer'[w].capture = closer[w].capture,
         \A w \in Closers : closer'[w].pc = "checked" => Looks(closer[w], closer'[w]),
         \A w \in Readers : reader'[w].pc = "read" => Looks(reader[w], reader'[w]),
         KeepsMarker \/ Ends \/ Free(LiveMarkers')
  PROVE  CloseInv'
<1>1. ChainNow' = ChainNow /\ \A u : Outstanding(u)' <=> Outstanding(u)
  BY DEF ChainNow, Outstanding
<1>2. /\ LiveMarkers' \subseteq LiveMarkers
      /\ \A w \in Markers' : CloserUntil(w)' = CloserUntil(w)
  BY <1>1 DEF LiveMarkers, CloserUntil
<1>3. AgeInv'
  BY <1>1 DEF CloseInv, AgeInv, Looks, MayLand
<1>4. ASSUME ~esc.closed PROVE OpenInv'
  <2>1. OpenInv
    BY <1>4 DEF CloseInv
  <2>2. CASE KeepsMarker
    <3>1. \A u \in Nat : Guarded(u) => Guarded(u)'
      BY <2>2, CloseNumbers, SMT DEF Guarded, KeepsMarker, TypeOK, Record
    <3>2. \A c : Captures(c) => Captures(c)'
      BY <2>2 DEF Captures, KeepsMarker
    <3>3. \A w \in LiveMarkers : CloserUntil(w) \in Nat
      BY CloseNumbers DEF LiveMarkers, Markers
    <3>4. \A tx \in closes' : Guarded(tx.until)' /\ Captures(tx.capture)'
      BY <2>1, <3>1, <3>2, CloseNumbers DEF OpenInv
    <3>5. \A w \in LiveMarkers' : Guarded(CloserUntil(w))' /\ Captures(closer[w].capture)'
      <4> SUFFICES ASSUME NEW w \in LiveMarkers'
                   PROVE  Guarded(CloserUntil(w))' /\ Captures(closer[w].capture)'
        OBVIOUS
      <4>1. /\ w \in LiveMarkers /\ CloserUntil(w)' = CloserUntil(w)
            /\ closer'[w].capture = closer[w].capture
        BY <1>2 DEF LiveMarkers
      <4>2. Guarded(CloserUntil(w)) /\ Captures(closer[w].capture) /\ CloserUntil(w) \in Nat
        BY <2>1, <3>3, <4>1 DEF OpenInv
      <4> QED BY <2>2, <4>1, <4>2, CloseNumbers, SMT DEF Guarded, Captures, KeepsMarker, TypeOK, Record
    <3> QED BY <1>2, <2>1, <3>4, <3>5 DEF OpenInv
  <2>3. CASE Free(LiveMarkers')
    BY <1>4, <2>3 DEF Free, OpenInv
  <2> QED BY <1>4, <2>2, <2>3 DEF Ends
<1>5. ASSUME esc.byPayee PROVE PayeeInv'
  <2>1. PayeeInv
    BY <1>5 DEF CloseInv
  <2>2. KeepsMarker \/ Ends
    BY <1>5 DEF Free
  <2>3. /\ esc'.closed /\ closes' = {} /\ LiveMarkers' = {}
        /\ esc'.paid = KeepGreater(rec'.spent, esc'.settled)
    BY <1>2, <2>1, <2>2 DEF PayeeInv, KeepsMarker, Ends
  <2>4. CASE rec'.finalized
    BY <2>3, <2>4 DEF PayeeInv
  <2>5. CASE ~rec'.finalized
    <3>1. KeepsMarker /\ HeldInv
      BY <2>1, <2>2, <2>5 DEF PayeeInv, KeepsMarker, Ends
    <3>2. rec'.closeReq \in Nat /\ rec.closeReq \in Nat /\ rec'.closeReq >= rec.closeReq
      BY <3>1, RecordFields DEF TypeOK, KeepsMarker
    <3>3. rec'.closeReq # 0
      BY <3>1, <3>2, SMT DEF HeldInv
    <3>4. \A w \in Markers' : closer'[w].at < rec'.closeReq
      BY <3>1, <3>2, CloseNumbers, SMT DEF HeldInv, Markers
    <3>5. \A w \in Readers : reader'[w].pc = "read" => Harmless(reader[w])'
      BY <2>1, <3>1, <3>2, ReaderFields, CloseNumbers, SMT DEF HeldInv, Harmless, Looks, PayeeInv
    <3>6. \A w \in Closers : closer'[w].pc = "checked" => Harmless(closer[w])'
      BY <2>1, <3>1, <3>2, CloserFields, CloseNumbers, SMT DEF HeldInv, Harmless, Looks, PayeeInv
    <3> QED BY <2>3, <3>3, <3>4, <3>5, <3>6 DEF PayeeInv, HeldInv
  <2> QED BY <2>4, <2>5
<1> QED BY <1>3, <1>4, <1>5 DEF CloseInv

\* Where no handler of a close moves and no voucher handler looks at the chain.
LEMMA OthersKeep ==
  ASSUME TypeOK, TypeOK', CloseInv, UNCHANGED <<now, esc, closes, closer>>,
         \A w \in Readers : reader'[w].pc = "read" => reader'[w] = reader[w],
         KeepsMarker \/ Ends \/ Free(LiveMarkers)
  PROVE  CloseInv'
<1>1. Markers' = Markers /\ LiveMarkers' = LiveMarkers
  BY DEF Markers, LiveMarkers, CloserUntil, Outstanding, ChainNow
<1> QED BY <1>1, HandlerKeeps DEF Looks

\* Where a handler of a close looks or stops.
LEMMA CloserKeeps ==
  ASSUME TypeOK, TypeOK', CloseInv, UNCHANGED <<now, esc, closes, reader>>, NEW w \in Closers,
         NEW x, closer' = [closer EXCEPT ![w] = x], x.pc \notin {"marked", "reverted"},
         x.pc = "checked" => Looks(closer[w], x),
         KeepsMarker \/ Ends \/ Free(LiveMarkers \ {w})
  PROVE  CloseInv'
<1>1. closer'[w] = x /\ \A v \in Closers \ {w} : closer'[v] = closer[v]
  BY DEF TypeOK
<1>2. Markers' \subseteq Markers \ {w}
  BY <1>1 DEF Markers
<1>3. LiveMarkers' \subseteq LiveMarkers \ {w}
  BY <1>1, <1>2 DEF LiveMarkers, Markers, CloserUntil, Outstanding, ChainNow
<1>4. Free(LiveMarkers \ {w}) => Free(LiveMarkers')
  BY <1>3 DEF Free
<1>5. \A v \in Markers' : /\ v \in Markers /\ closer'[v].at = closer[v].at
                         /\ closer'[v].capture = closer[v].capture
  BY <1>1, <1>2 DEF Markers
<1>6. \A v \in Closers : closer'[v].pc = "checked" => Looks(closer[v], closer'[v])
  BY <1>1 DEF Looks
<1>7. \A v \in Readers : reader'[v].pc = "read" => Looks(reader[v], reader'[v])
  BY DEF Looks
<1> QED BY <1>4, <1>5, <1>6, <1>7, HandlerKeeps

\* A marker that the update clears was one that nothing relies on.
LEMMA ReconciledFree ==
  ASSUME TypeOK, CloseInv, NEW t \in Nat, t <= now, NEW c \in View,
         HeldInv => Harmless([at |-> t, seen |-> c])
  PROVE  LET s == ReconcileExpired(rec, t, c)
         IN \/ s = rec
            \/ /\ Free(LiveMarkers)
               /\ s.closeReq = 0 /\ s.spent = rec.spent /\ s.finalized = rec.finalized
<1> DEFINE s == ReconcileExpired(rec, t, c)
           z == [rec EXCEPT !.closeReq = 0, !.closeUntil = 0]
<1>1. CASE /\ ~rec.finalized /\ rec.closeReq # 0
           /\ c.closeReq = 0 /\ c.deposit # 0
           /\ t > KeepGreater(rec.closeReq + Validity, rec.closeUntil) + Skew
  <2>1. s = z
    BY <1>1 DEF ReconcileExpired
  <2>2. z.closeReq = 0 /\ z.spent = rec.spent /\ z.finalized = rec.finalized
    BY SMT DEF TypeOK, Record
  <2>3. t > rec.closeReq + Validity + Skew
    <3>1. rec.closeUntil \in Nat
      BY RecordFields DEF TypeOK
    <3> QED BY <1>1, <3>1, CloseNumbers, SMT DEF KeepGreater
  <2>4. esc.byPayee => t <= rec.closeReq + Validity + Skew
    BY <1>1 DEF CloseInv, PayeeInv, Harmless
  <2>5. Free(LiveMarkers)
    BY <1>1, <2>3, <2>4, ExpiredFree
  <2> QED BY <2>1, <2>2, <2>5
<1>2. CASE s = rec
  BY <1>2
<1> QED BY <1>1, <1>2 DEF ReconcileExpired

\* A read of a closed channel finds nothing.
LEMMA ClosedReadsEmpty == esc.closed => EscrowView(esc).deposit = 0
  BY SMT DEF EscrowView

-----------------------------------------------------------------------------
(* Actions that leave the closes alone.                                     *)

\* Opens and top-ups record what they read, and lower no marker.
LEMMA OpensKeepMarker ==
  ASSUME TypeOK
  PROVE  /\ \A w \in Openers, v \in 0..MaxAmount : RecordOpen(w, v) => KeepsMarker
         /\ \A w \in Toppers : RecordTopUp(w) \/ AbandonTopUp(w) => KeepsMarker
<1>1. rec \in Record
  BY DEF TypeOK
<1>2. ASSUME NEW w \in Openers, NEW v \in 0..MaxAmount, RecordOpen(w, v) PROVE KeepsMarker
  <2> DEFINE c == EscrowView(OpenedEscrow(OpenDeposit))
             m == MergeOnChain(rec, c)
             h == RaiseHighest(m, rec, v)
             s == OpenRecord(rec, c, v)
  <2>1. c \in View /\ c.settled = 0
    <3>1. OpenedEscrow(OpenDeposit) \in EscrowState
      BY EscrowCallsTyped, ChannelAssumption DEF TypeOK
    <3>2. c.settled = 0
      BY SMT DEF EscrowView, OpenedEscrow
    <3> QED BY <3>1, <3>2, EscrowViewType
  <2>2. v \in Nat
    BY ChannelAssumption, SMT
  <2> HIDE DEF c
  <2>3. /\ m \in Record /\ m.highest = rec.highest /\ m.spent = rec.spent
        /\ m.closeReq >= rec.closeReq /\ m.finalized = rec.finalized
    BY <1>1, <2>1, MergeSound, MergeFields, RecordFields, ViewFields DEF KeepGreater
  <2> HIDE DEF m
  <2>4. /\ h \in Record /\ h.spent = m.spent /\ h.closeReq = m.closeReq
        /\ h.finalized = m.finalized
    BY <1>1, <2>2, <2>3, RaiseSound, RaiseFields
  <2> HIDE DEF h
  <2>5. s = [h EXCEPT !.opened = TRUE, !.spent = KeepGreater(rec.spent, c.settled)]
    BY DEF OpenRecord, h, m
  <2>6. KeepGreater(rec.spent, c.settled) = rec.spent
    BY <1>1, <2>1, RecordFields DEF KeepGreater
  <2> HIDE DEF s
  <2>7. s.spent = rec.spent /\ s.closeReq = h.closeReq /\ s.finalized = h.finalized
    BY <2>4, <2>5, <2>6, SMT DEF Record
  <2>8. rec' = s
    BY <1>2 DEF RecordOpen, c, s
  <2> QED BY <2>3, <2>4, <2>7, <2>8 DEF KeepsMarker
<1>3. ASSUME NEW w \in Toppers, RecordTopUp(w) PROVE KeepsMarker
  <2>1. topper[w].seen \in View
    BY SMT DEF TypeOK, TopperState
  <2> QED BY <1>1, <1>3, <2>1, MergeFields, RecordFields, ViewFields
          DEF RecordTopUp, KeepsMarker, KeepGreater
<1>4. ASSUME NEW w \in Toppers, AbandonTopUp(w) PROVE KeepsMarker
  BY <1>1, <1>4, RecordFields DEF AbandonTopUp, KeepsMarker
<1> QED BY <1>2, <1>3, <1>4

\* They keep the invariant.
LEMMA OpenAndTopUpClose ==
  ASSUME TypeOK, TypeOK', CloseInv
  PROVE  /\ \A w \in Openers, v \in 0..MaxAmount : RecordOpen(w, v) => CloseInv'
         /\ \A w \in Toppers : RecordTopUp(w) \/ AbandonTopUp(w) => CloseInv'
<1>1. ASSUME NEW w \in Openers, NEW v \in 0..MaxAmount, RecordOpen(w, v) PROVE CloseInv'
  <2>1. KeepsMarker
    BY <1>1, OpensKeepMarker
  <2> QED BY <1>1, <2>1, OthersKeep, Zenon DEF RecordOpen, chainVars
<1>2. ASSUME NEW w \in Toppers, RecordTopUp(w) \/ AbandonTopUp(w) PROVE CloseInv'
  <2>1. KeepsMarker
    BY <1>2, OpensKeepMarker
  <2> QED BY <1>2, <2>1, OthersKeep, Zenon DEF RecordTopUp, AbandonTopUp, chainVars
<1> QED BY <1>1, <1>2

\* Charges, credits and accepted vouchers need a record without a marker.
LEMMA SpendClose ==
  ASSUME TypeOK, TypeOK', CloseInv
  PROVE  /\ \A v \in Amounts, a \in 0..MaxAmount : AcceptStored(v, a) => CloseInv'
         /\ \A a \in Amounts : ChargeChannel(a) \/ CreditChannel(a) => CloseInv'
<1>1. ASSUME NEW v \in Amounts, NEW a \in 0..MaxAmount, AcceptStored(v, a) PROVE CloseInv'
  <2>1. Free(LiveMarkers)
    BY <1>1, UnmarkedFree DEF AcceptStored, CanAccept
  <2> QED BY <1>1, <2>1, OthersKeep, Zenon DEF AcceptStored, chainVars, workers
<1>2. ASSUME NEW a \in Amounts, ChargeChannel(a) PROVE CloseInv'
  <2>1. Free(LiveMarkers)
    BY <1>2, UnmarkedFree DEF ChargeChannel, CanDeduct
  <2> QED BY <1>2, <2>1, OthersKeep, Zenon DEF ChargeChannel, chainVars, workers
<1>3. ASSUME NEW a \in Amounts, CreditChannel(a) PROVE CloseInv'
  <2>1. Free(LiveMarkers)
    BY <1>3, UnmarkedFree DEF CreditChannel, CanCredit
  <2> QED BY <1>3, <2>1, OthersKeep, Zenon DEF CreditChannel, chainVars, workers
<1> QED BY <1>1, <1>2, <1>3

\* Voucher handlers.
LEMMA VoucherClose ==
  ASSUME TypeOK, TypeOK', CloseInv, NEW w \in Readers,
         \/ \E v \in Amounts : ReadVoucher(w, v)
         \/ \E a \in 0..MaxAmount : AcceptRead(w, a)
         \/ ReconcileVoucher(w) \/ ReadInBackground(w) \/ RecordRequest(w) \/ RecordOpenState(w)
         \/ AbandonVoucher(w)
  PROVE  CloseInv'
<1>1. rec \in Record /\ reader[w].seen \in View
  BY ReaderFields DEF TypeOK
<1>2. IdleReader.pc = "idle"
  BY SMT DEF IdleReader
\* A handler that moves on no longer holds a view it could clear a marker with.
<1>3. ASSUME NEW x, x.pc # "read", reader' = [reader EXCEPT ![w] = x]
      PROVE  \A v \in Readers : reader'[v].pc = "read" => reader'[v] = reader[v]
  BY <1>3 DEF TypeOK
<1>4. ASSUME NEW v \in Amounts, ReadVoucher(w, v) PROVE CloseInv'
  <2>1. PICK c \in {EscrowView(esc)} \cup
                 (IF rec.closeReq = 0 /\ v <= rec.deposit THEN {StoredView(rec)} ELSE {}) :
          reader' = [reader EXCEPT ![w] =
            [pc |-> IF rec.closeReq # 0 THEN "read" ELSE "checked",
             voucher |-> v, highest |-> rec.highest, at |-> now, seen |-> c]]
    BY <1>4, Zenon DEF ReadVoucher
  <2> DEFINE x == [pc |-> IF rec.closeReq # 0 THEN "read" ELSE "checked",
                   voucher |-> v, highest |-> rec.highest, at |-> now, seen |-> c]
  <2>2. x.pc = "read" => x.at = now /\ x.seen = EscrowView(esc)
    BY SMT
  <2>3. reader' = [reader EXCEPT ![w] = x]
    BY <2>1
  <2> HIDE DEF x
  <2>4. x.pc = "read" => Looks(reader[w], x)
    BY <2>2, ClosedReadsEmpty, CloseNumbers DEF Looks, CloseInv, AgeInv
  <2>5. \A u \in Readers : reader'[u].pc = "read" => Looks(reader[u], reader'[u])
    BY <2>3, <2>4 DEF TypeOK, Looks
  <2>6. KeepsMarker
    BY <1>1, <1>4, RecordFields DEF ReadVoucher, KeepsMarker
  <2>7. UNCHANGED <<now, esc, closes, closer>>
    BY <1>4, Zenon DEF ReadVoucher, chainVars
  <2>8. Markers' = Markers
    BY <2>7 DEF Markers
  <2> QED BY <2>5, <2>6, <2>7, <2>8, HandlerKeeps DEF Looks
<1>5. CASE ReconcileVoucher(w)
  <2> DEFINE p == [reader[w] EXCEPT !.pc = "checked"]
             x == [p EXCEPT !.highest = rec'.highest]
             s == ReconcileExpired(rec, reader[w].at, reader[w].seen)
  <2>1. x.pc = "checked" /\ reader' = [reader EXCEPT ![w] = x]
    BY <1>5, ReaderFields, SMT DEF ReconcileVoucher, ReaderState
  <2> HIDE DEF x
  <2>2. HeldInv => Harmless([at |-> reader[w].at, seen |-> reader[w].seen])
    BY <1>5 DEF ReconcileVoucher, HeldInv, Harmless
  <2>3. s = rec \/ Free(LiveMarkers)
    BY <1>1, <1>5, <2>2, ReaderFields, ReconciledFree DEF ReconcileVoucher, CloseInv, AgeInv
  <2>4. rec' = s
    BY <1>5 DEF ReconcileVoucher
  <2> HIDE DEF s
  <2>5. KeepsMarker \/ Free(LiveMarkers)
    BY <1>1, <2>3, <2>4, RecordFields DEF KeepsMarker
  <2>6. \A v \in Readers : reader'[v].pc = "read" => reader'[v] = reader[v]
    BY <1>3, <2>1
  <2> QED BY <1>5, <2>5, <2>6, OthersKeep, Zenon DEF ReconcileVoucher, chainVars
<1>6. ASSUME NEW a \in 0..MaxAmount, AcceptRead(w, a) PROVE CloseInv'
  <2>1. Free(LiveMarkers)
    BY <1>6, UnmarkedFree DEF AcceptRead, CanAccept
  <2>2. \A v \in Readers : reader'[v].pc = "read" => reader'[v] = reader[v]
    BY <1>2, <1>3, <1>6 DEF AcceptRead
  <2> QED BY <1>6, <2>1, <2>2, OthersKeep, Zenon DEF AcceptRead, chainVars
<1>7. CASE ReadInBackground(w)
  <2> DEFINE p == [IdleReader EXCEPT !.pc = "background"]
             x == [p EXCEPT !.seen = EscrowView(esc)]
  <2>1. x.pc = "background"
    BY SMT DEF IdleReader
  <2>2. reader' = [reader EXCEPT ![w] = x]
    BY <1>7 DEF ReadInBackground
  <2> HIDE DEF x
  <2>3. \A v \in Readers : reader'[v].pc = "read" => reader'[v] = reader[v]
    BY <1>3, <2>1, <2>2
  <2>4. KeepsMarker
    BY <1>1, <1>7, RecordFields DEF ReadInBackground, KeepsMarker
  <2> QED BY <1>7, <2>3, <2>4, OthersKeep, Zenon DEF ReadInBackground, chainVars
<1>8. CASE RecordRequest(w)
  <2>1. KeepsMarker
    BY <1>1, <1>8, RequestFields, RecordFields, ViewFields
       DEF RecordRequest, KeepsMarker, KeepGreater
  <2>2. \A v \in Readers : reader'[v].pc = "read" => reader'[v] = reader[v]
    BY <1>2, <1>3, <1>8 DEF RecordRequest
  <2> QED BY <1>8, <2>1, <2>2, OthersKeep, Zenon DEF RecordRequest, chainVars
<1>9. CASE RecordOpenState(w)
  <2>1. rec' = rec \/ rec' = MergeOnChain(rec, reader[w].seen)
    BY <1>9 DEF RecordOpenState, RecordOpenRead
  <2>2. KeepsMarker
    BY <1>1, <2>1, MergeFields, RecordFields, ViewFields DEF KeepsMarker, KeepGreater
  <2>3. \A v \in Readers : reader'[v].pc = "read" => reader'[v] = reader[v]
    BY <1>2, <1>3, <1>9 DEF RecordOpenState
  <2> QED BY <1>9, <2>2, <2>3, OthersKeep, Zenon DEF RecordOpenState, chainVars
<1>10. CASE AbandonVoucher(w)
  <2>1. KeepsMarker
    BY <1>1, <1>10, RecordFields DEF AbandonVoucher, KeepsMarker
  <2>2. \A v \in Readers : reader'[v].pc = "read" => reader'[v] = reader[v]
    BY <1>2, <1>3, <1>10 DEF AbandonVoucher
  <2> QED BY <1>10, <2>1, <2>2, OthersKeep, Zenon DEF AbandonVoucher, chainVars
<1> QED BY <1>4, <1>5, <1>6, <1>7, <1>8, <1>9, <1>10

\* Settlement workers touch no marker and no handler but their own.
LEMMA SettlesKeepMarker ==
  ASSUME TypeOK, NEW w \in Settlers, SettleStep(w)
  PROVE  /\ KeepsMarker
         /\ UNCHANGED <<now, esc, closes, closer, reader, supervisor, noted>>
<1> DEFINE a == settler[w].amount
           u == settler[w].until
<1>1. rec \in Record
  BY DEF TypeOK
<1>2. UNCHANGED <<now, esc, closes, closer, reader, supervisor, noted>>
  BY Zenon DEF SettleStep, ClaimSettle, SendSettle, ReleaseSettle, RecordSettle, AbandonSettle,
               chainVars
<1>3. CASE ClaimSettle(w)
  <2>1. PICK v \in LargestSettleable(rec), t \in Recent :
          rec' = ClaimSettlement(rec, v, ValidBefore(t))
    BY <1>3 DEF ClaimSettle
  <2>2. rec' \in {ClaimSettlement(rec, v, ValidBefore(t)),
                  ReleaseSettlement(rec, v, ValidBefore(t))}
    BY <2>1
  <2>3. KeepsMarker
    BY <1>1, <2>2, ClaimFields, RecordFields DEF KeepsMarker
  <2> QED BY <1>2, <2>3
<1>4. CASE ReleaseSettle(w)
  <2>1. rec' \in {ClaimSettlement(rec, a, u), ReleaseSettlement(rec, a, u)}
    BY <1>4 DEF ReleaseSettle
  <2>2. KeepsMarker
    BY <1>1, <2>1, ClaimFields, RecordFields DEF KeepsMarker
  <2> QED BY <1>2, <2>2
<1>5. CASE RecordSettle(w)
  <2>1. KeepsMarker
    BY <1>1, <1>5, SettledFields, RecordFields DEF RecordSettle, KeepsMarker
  <2> QED BY <1>2, <2>1
<1>6. CASE SendSettle(w) \/ AbandonSettle(w)
  <2>1. KeepsMarker
    BY <1>1, <1>6, RecordFields DEF SendSettle, AbandonSettle, KeepsMarker
  <2> QED BY <1>2, <2>1
<1> QED BY <1>3, <1>4, <1>5, <1>6 DEF SettleStep

\* They keep the invariant.
LEMMA SettleClose ==
  ASSUME TypeOK, TypeOK', CloseInv, NEW w \in Settlers, SettleStep(w)
  PROVE  CloseInv'
BY SettlesKeepMarker, OthersKeep, Zenon

-----------------------------------------------------------------------------
(* Handlers of close credentials.                                           *)

\* A marker is written only where no close can land, and this one outlives
\* the close it is written for.
LEMMA MarkKeeps ==
  ASSUME TypeOK, TypeOK', PaidInv, CloseInv, NEW w \in Closers, MarkClose(w)
  PROVE  CloseInv'
<1> DEFINE seen == closer[w].seen
           current == ReconcileExpired(rec, closer[w].at, seen)
           n == CloseCapture(current.spent, seen)
           p == [closer[w] EXCEPT !.pc = "marked"]
           x == [p EXCEPT !.capture = n]
<1>1. /\ rec \in Record /\ seen \in View /\ closer[w].at \in Nat /\ 1 <= closer[w].at
      /\ closer[w].at <= now /\ closer[w].pc = "checked"
  BY CloserFields DEF TypeOK, MarkClose, CloseInv, AgeInv
<1>2. UNCHANGED <<now, esc, closes, reader>>
  BY Zenon DEF MarkClose, chainVars
<1>3. \/ /\ CanMarkClosing(current, seen, closer[w].voucher)
         /\ closer' = [closer EXCEPT ![w] = x] /\ rec' = MarkClosing(current, closer[w].at)
      \/ closer' = [closer EXCEPT ![w] = IdleCloser] /\ rec' = rec
  BY DEF MarkClose
<1>4. \/ current = rec
      \/ /\ Free(LiveMarkers)
         /\ current.closeReq = 0 /\ current.spent = rec.spent
         /\ current.finalized = rec.finalized
  <2>1. HeldInv => Harmless([at |-> closer[w].at, seen |-> seen])
    BY <1>1 DEF HeldInv, Harmless
  <2> QED BY <1>1, <2>1, ReconciledFree
<1>5. /\ x.pc = "marked" /\ x.at = closer[w].at /\ x.capture = n
  <2> HIDE DEF n
  <2> QED BY CloserFields, SMT DEF CloserState
<1>6. current \in Record
  BY <1>1, ReconcileSound
<1> HIDE DEF current, x
<1>7. CASE closer' = [closer EXCEPT ![w] = IdleCloser] /\ rec' = rec
  <2>1. IdleCloser.pc = "idle"
    BY SMT DEF IdleCloser
  <2>2. KeepsMarker
    BY <1>1, <1>7, RecordFields DEF KeepsMarker
  <2> QED BY <1>2, <1>7, <2>1, <2>2, CloserKeeps
<1>8. CASE /\ CanMarkClosing(current, seen, closer[w].voucher)
           /\ closer' = [closer EXCEPT ![w] = x] /\ rec' = MarkClosing(current, closer[w].at)
  <2>1. /\ Free(LiveMarkers) /\ ~rec.finalized
        /\ current.spent = rec.spent
    BY <1>4, <1>8, UnmarkedFree DEF CanMarkClosing
  <2>2. rec'.closeReq = closer[w].at /\ rec'.spent = rec.spent
    BY <1>6, <1>8, <2>1, SMT DEF MarkClosing, Record
  <2>3. closer'[w] = x /\ \A v \in Closers \ {w} : closer'[v] = closer[v]
    BY <1>8 DEF TypeOK
  <2>4. ChainNow' = ChainNow /\ \A u : Outstanding(u)' <=> Outstanding(u)
    BY <1>2 DEF ChainNow, Outstanding
  <2>5. LiveMarkers' \subseteq LiveMarkers \cup {w}
    BY <2>3, <2>4 DEF LiveMarkers, Markers, CloserUntil
  <2>6. AgeInv'
    BY <1>2, <1>5, <2>3, <2>4 DEF CloseInv, AgeInv, MayLand
  <2>7. ~esc'.byPayee
    BY <1>2, <2>1 DEF Free
  <2>8. ASSUME ~esc'.closed PROVE OpenInv'
    <3>1. closes' = {} /\ LiveMarkers' \subseteq {w}
      BY <1>2, <2>1, <2>5, <2>8 DEF Free
    <3>2. Guarded(CloserUntil(w))'
      BY <1>1, <1>5, <2>2, <2>3, CloseNumbers, SMT DEF Guarded, CloserUntil, ValidBefore
    <3>3. Captures(closer[w].capture)'
      <4>1. closer'[w].capture = KeepGreater(rec.spent, seen.settled)
        BY <1>5, <2>1, <2>3 DEF CloseCapture
      <4>2. seen.settled <= esc.settled
        BY <1>2, <2>8, SeenBehind DEF Behind, PaidOf
      <4> QED BY <1>1, <1>2, <2>2, <4>1, <4>2, ViewFields, CloseNumbers, SMT
              DEF Captures, KeepGreater
    <3> QED BY <3>1, <3>2, <3>3 DEF OpenInv
  <2> QED BY <2>6, <2>7, <2>8 DEF CloseInv
<1> QED BY <1>3, <1>7, <1>8

\* A close that is sent takes over the claim of its handler.
LEMMA SendKeeps ==
  ASSUME TypeOK, TypeOK', CloseInv, NEW w \in Closers, SendClose(w)
  PROVE  CloseInv'
<1> DEFINE x == [closer[w] EXCEPT !.pc = "sent"]
           tx == CloserTx(w)
<1>1. /\ UNCHANGED <<now, esc, rec, reader>> /\ closer[w].pc = "marked"
      /\ closes' = Broadcast(closes, tx) /\ closer' = [closer EXCEPT ![w] = x]
  BY DEF SendClose
<1>2. x.pc = "sent"
  BY CloserFields, SMT DEF CloserState
<1>3. tx.until = CloserUntil(w) /\ tx.capture = closer[w].capture
  BY SMT DEF CloserTx, CloserUntil
<1>4. rec \in Record /\ w \in Markers
  BY <1>1 DEF TypeOK, Markers
<1> HIDE DEF x, tx
<1>5. CASE ~MayLand(tx)
  <2>1. closes' = closes
    BY <1>1, <1>5 DEF Broadcast
  <2>2. KeepsMarker
    BY <1>1, <1>4, RecordFields DEF KeepsMarker
  <2> QED BY <1>1, <1>2, <2>1, <2>2, CloserKeeps
<1>6. CASE MayLand(tx)
  <2>1. closes' = closes \cup {tx} /\ w \in LiveMarkers
    BY <1>1, <1>3, <1>4, <1>6 DEF Broadcast, LiveMarkers, MayLand, Outstanding
  <2>2. ~esc.byPayee
    BY <2>1 DEF CloseInv, PayeeInv
  <2>3. ChainNow' = ChainNow /\ \A u : Outstanding(u)' <=> Outstanding(u)
    BY <1>1 DEF ChainNow, Outstanding
  <2>4. closer'[w] = x /\ \A v \in Closers \ {w} : closer'[v] = closer[v]
    BY <1>1 DEF TypeOK
  <2>5. LiveMarkers' \subseteq LiveMarkers \ {w}
    BY <1>2, <2>3, <2>4 DEF LiveMarkers, Markers, CloserUntil
  <2>6. AgeInv'
    BY <1>1, <1>2, <1>6, <2>1, <2>3, <2>4 DEF CloseInv, AgeInv, MayLand
  <2>7. ASSUME ~esc.closed PROVE OpenInv'
    <3>1. OpenInv
      BY <2>7 DEF CloseInv
    <3>2. closes' = {tx} /\ LiveMarkers' = {}
      BY <2>1, <2>5, <3>1 DEF OpenInv
    <3>3. Guarded(tx.until) /\ Captures(tx.capture)
      BY <1>3, <2>1, <3>1 DEF OpenInv
    <3> QED BY <1>1, <3>2, <3>3 DEF OpenInv, Guarded, Captures
  <2> QED BY <1>1, <2>2, <2>6, <2>7 DEF CloseInv
<1> QED BY <1>5, <1>6

\* Clearing the marker of a close that failed frees the channel.
LEMMA ClearKeeps ==
  ASSUME TypeOK, TypeOK', PaidInv, CloseInv, NEW w \in Closers, ClearClose(w)
  PROVE  CloseInv'
<1> DEFINE z == [rec EXCEPT !.closeReq = 0]
<1>1. /\ w \in Markers /\ UNCHANGED <<now, esc, closes, reader>>
      /\ rec \in Record /\ closer' = [closer EXCEPT ![w] = IdleCloser]
      /\ rec' = ClearMarker(rec, closer[w].at)
  BY DEF ClearClose, Markers, TypeOK, chainVars
<1>2. IdleCloser.pc = "idle"
  BY SMT DEF IdleCloser
<1>3. CASE rec.closeReq # closer[w].at
  <2>1. KeepsMarker
    BY <1>1, <1>3, RecordFields DEF ClearMarker, KeepsMarker
  <2> QED BY <1>1, <1>2, <2>1, CloserKeeps
<1>4. CASE rec.closeReq = closer[w].at /\ ~rec.finalized
  <2>1. Free(LiveMarkers \ {w})
    BY <1>1, <1>4, ClearedFree
  <2> QED BY <1>1, <1>2, <2>1, CloserKeeps
<1>5. CASE rec.closeReq = closer[w].at /\ rec.finalized
  <2>1. z.spent = rec.spent /\ z.finalized = rec.finalized
    BY <1>1, SMT DEF Record
  <2>2. Ends
    BY <1>1, <1>5, <2>1, SeenBehind DEF ClearMarker, Ends, Backed
  <2> QED BY <1>1, <1>2, <2>2, CloserKeeps
<1> QED BY <1>3, <1>4, <1>5

\* The other steps of a close credential.
LEMMA OtherCloseKeeps ==
  ASSUME TypeOK, TypeOK', PaidInv, CloseInv, NEW w \in Closers,
         (\E v \in 0..MaxAmount : CheckClose(w, v)) \/ FinishClose(w) \/ AbandonClose(w)
  PROVE  CloseInv'
<1>1. rec \in Record /\ IdleCloser.pc = "idle"
  BY SMT DEF TypeOK, IdleCloser
<1>2. ASSUME NEW v \in 0..MaxAmount, CheckClose(w, v) PROVE CloseInv'
  <2> DEFINE x == [pc |-> "checked", voucher |-> v, capture |-> 0, at |-> now,
                   seen |-> EscrowView(esc)]
  <2>1. x.pc = "checked" /\ x.at = now /\ x.seen = EscrowView(esc)
    BY SMT
  <2>2. closer' = [closer EXCEPT ![w] = x]
    BY <1>2 DEF CheckClose
  <2> HIDE DEF x
  <2>3. Looks(closer[w], x)
    BY <2>1, ClosedReadsEmpty, CloseNumbers DEF Looks, CloseInv, AgeInv
  <2>4. KeepsMarker
    BY <1>1, <1>2, RecordFields DEF CheckClose, KeepsMarker
  <2>5. UNCHANGED <<now, esc, closes, reader>>
    BY <1>2, Zenon DEF CheckClose, chainVars
  <2> QED BY <2>1, <2>2, <2>3, <2>4, <2>5, CloserKeeps
<1>3. CASE FinishClose(w)
  <2>1. esc.closed
    BY <1>3 DEF FinishClose, PaidInv, WorkersFit, CloserFits
  <2>2. Ends
    BY <1>1, <1>3, <2>1, FinalFields DEF FinishClose, Ends
  <2>3. UNCHANGED <<now, esc, closes, reader>>
    BY <1>3, Zenon DEF FinishClose, chainVars
  <2> QED BY <1>1, <1>3, <2>2, <2>3, CloserKeeps DEF FinishClose
<1>4. CASE AbandonClose(w)
  <2>1. KeepsMarker
    BY <1>1, <1>4, RecordFields DEF AbandonClose, KeepsMarker
  <2>2. UNCHANGED <<now, esc, closes, reader>>
    BY <1>4, Zenon DEF AbandonClose, chainVars
  <2> QED BY <1>1, <1>4, <2>1, <2>2, CloserKeeps DEF AbandonClose
<1> QED BY <1>2, <1>3, <1>4

-----------------------------------------------------------------------------
(* The chain, the payer and time.                                           *)

\* What the payer does, and what a settlement moves.
LEMMA PayerKeeps ==
  ASSUME TypeOK, TypeOK', CloseInv, UNCHANGED <<now, rec, closes, closer, reader>>,
         ~esc.closed, esc'.byPayee = esc.byPayee, esc'.settled >= esc.settled
  PROVE  CloseInv'
<1>1. /\ ~esc.byPayee /\ OpenInv
  BY DEF CloseInv, PayeeInv
<1>2. ChainNow' = ChainNow /\ LiveMarkers' = LiveMarkers
  BY DEF ChainNow, LiveMarkers, Markers, CloserUntil, Outstanding
<1>3. AgeInv'
  BY <1>2 DEF CloseInv, AgeInv, MayLand
<1>4. ASSUME NEW c \in Nat, Captures(c) PROVE Captures(c)'
  BY <1>4, CloseNumbers, EscrowFields, SMT DEF Captures, TypeOK
<1>5. \A w \in LiveMarkers : closer[w].capture \in Nat
  BY CloseNumbers DEF LiveMarkers, Markers
<1>6. \A tx \in closes' : Guarded(tx.until)' /\ Captures(tx.capture)'
  BY <1>1, <1>4, CloseNumbers DEF OpenInv, Guarded
<1>7. \A w \in LiveMarkers' : Guarded(CloserUntil(w))' /\ Captures(closer[w].capture)'
  BY <1>1, <1>2, <1>4, <1>5 DEF OpenInv, Guarded, CloserUntil
<1>8. OpenInv'
  BY <1>1, <1>2, <1>6, <1>7 DEF OpenInv
<1> QED BY <1>1, <1>3, <1>8 DEF CloseInv

\* A close that lands is the only one that could, and pays the spend.
LEMMA LandsKeeps ==
  ASSUME TypeOK, TypeOK', CloseInv, NEW tx \in closes, CloseLands(tx)
  PROVE  CloseInv'
<1>1. /\ UNCHANGED <<now, rec, reader>> /\ closes' = closes \ {tx}
      /\ MayLand(tx) /\ ~esc.closed /\ esc.settled <= tx.capture
      /\ esc' = ClosedByPayee(esc, tx.capture) /\ CloseOutcome(tx, "mined")
  BY DEF CloseLands, CanClose
<1>2. /\ esc'.closed /\ esc'.byPayee /\ esc'.paid = tx.capture /\ esc'.settled = esc.settled
  BY <1>1, SMT DEF ClosedByPayee, TypeOK, EscrowState
<1>3. OpenInv
  BY <1>1 DEF CloseInv
<1>4. closes' = {} /\ LiveMarkers = {}
  BY <1>1, <1>3 DEF OpenInv
<1>5. ChainNow' = ChainNow /\ \A u : Outstanding(u)' <=> Outstanding(u)
  BY <1>1 DEF ChainNow, Outstanding
<1>6. /\ \A v \in Markers' : v \in Markers /\ closer'[v] = closer[v]
      /\ \A v \in Closers : closer'[v].pc = "checked" => closer'[v] = closer[v]
  <2>1. ASSUME NEW v \in Closers PROVE closer'[v] = closer[v] \/ closer'[v].pc = "mined"
    <3>1. [closer[v] EXCEPT !.pc = "mined"].pc = "mined"
      BY <2>1, CloserFields, SMT DEF CloserState
    <3> QED BY <1>1, <3>1 DEF CloseOutcome, TypeOK
  <2> QED BY <2>1 DEF Markers
<1>7. LiveMarkers' = {}
  BY <1>4, <1>5, <1>6 DEF LiveMarkers, CloserUntil
<1>8. AgeInv'
  BY <1>1, <1>4, <1>6 DEF CloseInv, AgeInv
<1>9. esc'.paid = KeepGreater(rec'.spent, esc'.settled)
  BY <1>1, <1>2, <1>3, CloseNumbers, SMT DEF OpenInv, Captures, KeepGreater
<1>10. rec.closeReq # 0 /\ ChainNow < rec.closeReq + Validity
  BY <1>1, <1>3, CloseNumbers, SMT DEF OpenInv, Guarded, MayLand
<1>11. ASSUME NEW v \in Markers PROVE closer[v].at < rec.closeReq
  <2>1. ~Outstanding(CloserUntil(v)) /\ v \in Closers
    BY <1>4 DEF LiveMarkers, Markers
  <2> QED BY <1>10, <2>1, CloseNumbers, SMT DEF Outstanding, CloserUntil, ValidBefore
<1>12. ASSUME NEW n \in Nat, n <= now PROVE n <= rec.closeReq + Validity + Skew
  BY <1>10, <1>12, CloseNumbers, SMT
<1>13. HeldInv'
  <2>1. \A v \in Readers : reader[v].pc = "read" => reader[v].at <= rec.closeReq + Validity + Skew
    BY <1>12, ReaderFields DEF CloseInv, AgeInv
  <2>2. \A v \in Closers : closer[v].pc = "checked"
                             => closer[v].at <= rec.closeReq + Validity + Skew
    BY <1>12, CloserFields DEF CloseInv, AgeInv
  <2> QED BY <1>1, <1>6, <1>10, <1>11, <2>1, <2>2 DEF HeldInv, Harmless
<1> QED BY <1>2, <1>4, <1>7, <1>8, <1>9, <1>13 DEF CloseInv, PayeeInv

\* A close that reverts hands its claim back to the handler that waits for it.
LEMMA RevertsKeeps ==
  ASSUME TypeOK, TypeOK', CloseInv, NEW tx \in closes, CloseReverts(tx)
  PROVE  CloseInv'
<1>1. /\ UNCHANGED <<now, rec, esc, reader>> /\ closes' = closes \ {tx}
      /\ CloseOutcome(tx, "reverted")
  BY DEF CloseReverts
<1>2. ~esc.byPayee
  BY DEF CloseInv, PayeeInv
<1>3. ChainNow' = ChainNow /\ \A u : Outstanding(u)' <=> Outstanding(u)
  BY <1>1 DEF ChainNow, Outstanding
<1>4. ASSUME NEW v \in Closers
      PROVE  \/ closer'[v] = closer[v]
             \/ /\ v = tx.by
                /\ closer'[v].pc = "reverted" /\ closer'[v].capture = tx.capture
                /\ ValidBefore(closer'[v].at) = tx.until
  <2> DEFINE x == [closer[v] EXCEPT !.pc = "reverted"]
  <2>1. x.pc = "reverted" /\ x.capture = closer[v].capture /\ x.at = closer[v].at
    BY <1>4, CloserFields, SMT DEF CloserState
  <2>2. \/ closer'[v] = closer[v]
        \/ v = tx.by /\ closer'[v] = x /\ tx = CloserTx(v)
    BY <1>1, <1>4 DEF CloseOutcome, TypeOK
  <2> HIDE DEF x
  <2> QED BY <2>1, <2>2, SMT DEF CloserTx
<1>5. AgeInv'
  BY <1>1, <1>3, <1>4 DEF CloseInv, AgeInv, MayLand
<1>6. ASSUME ~esc.closed PROVE OpenInv'
  <2>1. OpenInv
    BY <1>6 DEF CloseInv
  <2>2. closes' = {} /\ LiveMarkers = {} /\ Guarded(tx.until) /\ Captures(tx.capture)
    BY <1>1, <2>1 DEF OpenInv
  <2>3. \A v \in LiveMarkers' : /\ v = tx.by /\ closer'[v].capture = tx.capture
                                /\ CloserUntil(v)' = tx.until
    BY <1>3, <1>4, <2>2 DEF LiveMarkers, Markers, CloserUntil
  <2>4. \A v \in LiveMarkers' : Guarded(CloserUntil(v))' /\ Captures(closer[v].capture)'
    BY <1>1, <2>2, <2>3 DEF Guarded, Captures
  <2> QED BY <2>2, <2>3, <2>4 DEF OpenInv
<1> QED BY <1>1, <1>2, <1>5, <1>6 DEF CloseInv

\* Time takes claims away, and gives none.
LEMMA TickKeeps ==
  ASSUME TypeOK, TypeOK', CloseInv, Tick
  PROVE  CloseInv'
<1>1. /\ now' = now + 1 /\ UNCHANGED <<rec, esc, reader, closer>>
      /\ closes' = {tx \in closes : ChainNow' < tx.until}
  BY Zenon DEF Tick, workers
<1>2. ChainNow' = ChainNow + 1
  BY <1>1, CloseNumbers, ChannelAssumption, SMT DEF ChainNow
<1>3. \A u \in Nat : Outstanding(u)' => Outstanding(u)
  BY <1>2, CloseNumbers, SMT DEF Outstanding
<1>4. LiveMarkers' \subseteq LiveMarkers
  BY <1>1, <1>3, CloseNumbers DEF LiveMarkers, Markers, CloserUntil
<1>5. AgeInv'
  <2>1. now' >= 1 /\ \A n \in Nat : n <= now => n <= now'
    BY <1>1, CloseNumbers, SMT
  <2>2. \A w \in Closers : closer'[w].pc = "checked" => 1 <= closer'[w].at /\ closer'[w].at <= now'
    BY <1>1, <2>1, CloseNumbers DEF CloseInv, AgeInv
  <2>3. \A w \in Readers : reader'[w].pc = "read" => reader'[w].at <= now'
    BY <1>1, <2>1, ReaderFields DEF CloseInv, AgeInv
  <2>4. \A tx \in closes' : MayLand(tx)'
    BY <1>1 DEF MayLand
  <2> QED BY <2>1, <2>2, <2>3, <2>4 DEF AgeInv
<1>6. OpenInv => OpenInv'
  BY <1>1, <1>4 DEF OpenInv, Guarded, Captures, CloserUntil
<1>7. PayeeInv => PayeeInv'
  BY <1>1, <1>4 DEF PayeeInv, HeldInv, Harmless, Markers
<1> QED BY <1>1, <1>5, <1>6, <1>7 DEF CloseInv

\* The steps of the chain and the payer.
LEMMA ChainClose ==
  ASSUME TypeOK, TypeOK', CloseInv
  PROVE  /\ \A tx \in settles : SettleLands(tx) \/ SettleReverts(tx) => CloseInv'
         /\ \A w \in Toppers, a \in Amounts : TopUpMined(w, a) => CloseInv'
         /\ RequestClose \/ Withdraw => CloseInv'
<1>1. esc \in EscrowState /\ rec \in Record
  BY DEF TypeOK
<1>2. ASSUME NEW tx \in settles, SettleLands(tx) PROVE CloseInv'
  <2>1. tx.amount \in Nat
    BY SMT DEF TypeOK, SettleTx
  <2>2. esc'.byPayee = esc.byPayee /\ esc'.settled >= esc.settled
    BY <1>1, <1>2, <2>1, EscrowFields, SMT DEF SettleLands, CanSettle, Settled, EscrowState
  <2>3. UNCHANGED <<now, rec, closes, closer, reader>> /\ ~esc.closed
    BY <1>2 DEF SettleLands, CanSettle
  <2> QED BY <2>2, <2>3, PayerKeeps
<1>3. ASSUME NEW tx \in settles, SettleReverts(tx) PROVE CloseInv'
  <2>1. KeepsMarker
    BY <1>1, <1>3, RecordFields DEF SettleReverts, KeepsMarker
  <2> QED BY <1>3, <2>1, OthersKeep, Zenon DEF SettleReverts
<1>4. ASSUME NEW w \in Toppers, NEW a \in Amounts, TopUpMined(w, a) PROVE CloseInv'
  <2>1. esc'.byPayee = esc.byPayee /\ esc'.settled >= esc.settled
    BY <1>1, <1>4, EscrowFields, SMT DEF TopUpMined, ToppedUp, EscrowState
  <2>2. UNCHANGED <<now, rec, closes, closer, reader>> /\ ~esc.closed
    BY <1>4 DEF TopUpMined
  <2> QED BY <2>1, <2>2, PayerKeeps
<1>5. ASSUME RequestClose PROVE CloseInv'
  <2>1. esc'.byPayee = esc.byPayee /\ esc'.settled >= esc.settled
    BY <1>1, <1>5, EscrowFields, SMT DEF RequestClose, CloseRequested, EscrowState
  <2>2. UNCHANGED <<now, rec, closes, closer, reader>> /\ ~esc.closed
    BY <1>5 DEF RequestClose, workers
  <2> QED BY <2>1, <2>2, PayerKeeps
<1>6. ASSUME Withdraw PROVE CloseInv'
  <2>1. esc'.byPayee = esc.byPayee /\ esc'.settled >= esc.settled
    BY <1>1, <1>6, EscrowFields, SMT DEF Withdraw, Withdrawn, EscrowState
  <2>2. UNCHANGED <<now, rec, closes, closer, reader>> /\ ~esc.closed
    BY <1>6 DEF Withdraw, workers
  <2> QED BY <2>1, <2>2, PayerKeeps
<1> QED BY <1>2, <1>3, <1>4, <1>5, <1>6

\* The invariant is inductive where no supervisor runs.
LEMMA StepClose ==
  ASSUME Supervisors = {}, TypeOK, PaidInv, CloseInv, [Next]_vars
  PROVE  CloseInv'
<1>1. TypeOK'
  BY StepTyped
<1>2. CASE CredentialNext
  <2>1. ASSUME NEW w \in Readers,
               \/ \E v \in Amounts : ReadVoucher(w, v)
               \/ ReconcileVoucher(w)
               \/ \E a \in 0..MaxAmount : AcceptRead(w, a)
               \/ ReadInBackground(w) \/ RecordRequest(w) \/ RecordOpenState(w)
               \/ AbandonVoucher(w)
        PROVE  CloseInv'
    BY <1>1, <2>1, VoucherClose
  <2>2. ASSUME NEW w \in Toppers,
               (\E a \in Amounts : TopUpMined(w, a)) \/ RecordTopUp(w) \/ AbandonTopUp(w)
        PROVE  CloseInv'
    BY <1>1, <2>2, ChainClose, OpenAndTopUpClose
  <2>3. ASSUME NEW w \in Openers, NEW v \in 0..MaxAmount, RecordOpen(w, v) PROVE CloseInv'
    BY <1>1, <2>3, OpenAndTopUpClose
  <2>4. ASSUME NEW v \in Amounts, NEW a \in 0..MaxAmount, AcceptStored(v, a) PROVE CloseInv'
    BY <1>1, <2>4, SpendClose
  <2> QED BY <1>2, <2>1, <2>2, <2>3, <2>4, Zenon DEF CredentialNext
<1>3. CASE SettleNext
  <2>1. ASSUME NEW w \in Settlers, SettleStep(w) PROVE CloseInv'
    BY <1>1, <2>1, SettleClose
  <2>2. ASSUME NEW a \in Amounts, ChargeChannel(a) \/ CreditChannel(a) PROVE CloseInv'
    BY <1>1, <2>2, SpendClose
  <2> QED BY <1>3, <2>1, <2>2, Zenon DEF SettleNext, SettleStep
<1>4. CASE CloseNext
  <2>1. ASSUME NEW w \in Closers,
               \/ \E v \in 0..MaxAmount : CheckClose(w, v)
               \/ MarkClose(w) \/ SendClose(w) \/ ClearClose(w)
               \/ FinishClose(w) \/ AbandonClose(w)
        PROVE  CloseInv'
    BY <1>1, <2>1, MarkKeeps, SendKeeps, ClearKeeps, OtherCloseKeeps
  <2> QED BY <1>4, <2>1, Zenon DEF CloseNext
<1>5. CASE ChainNext
  <2>1. ASSUME NEW tx \in closes, CloseLands(tx) \/ CloseReverts(tx) PROVE CloseInv'
    BY <1>1, <2>1, LandsKeeps, RevertsKeeps
  <2>2. ASSUME NEW tx \in settles, SettleLands(tx) \/ SettleReverts(tx) PROVE CloseInv'
    BY <1>1, <2>2, ChainClose
  <2>3. ASSUME RequestClose \/ Withdraw \/ Tick PROVE CloseInv'
    BY <1>1, <2>3, ChainClose, TickKeeps
  <2> QED BY <1>5, <2>1, <2>2, <2>3, Zenon DEF ChainNext
<1>6. CASE UNCHANGED vars
  <2>1. KeepsMarker
    BY <1>6, RecordFields DEF vars, TypeOK, KeepsMarker
  <2> QED BY <1>1, <1>6, <2>1, OthersKeep, Zenon DEF vars
<1> QED BY <1>2, <1>3, <1>4, <1>5, <1>6 DEF Next

\* The invariant holds at first.
LEMMA InitClose == Init => CloseInv
<1> SUFFICES ASSUME Init PROVE CloseInv
  OBVIOUS
<1>1. esc.closed = FALSE /\ esc.byPayee = FALSE
  BY SMT DEF Init, OpenedEscrow
<1>2. AgeInv
  BY SMT DEF Init, AgeInv, IdleCloser, IdleReader
<1>3. OpenInv
  BY SMT DEF Init, OpenInv, LiveMarkers, Markers, IdleCloser
<1> QED BY <1>1, <1>2, <1>3 DEF CloseInv

\* However many close credentials are presented at once, with failures,
\* reverts, lost receipts and late settlements, top-ups and reads between
\* their steps: a close by the payee pays the accepted charges and nothing
\* else (mark_pending_close, reconcile_expired_pending_close, clear).
THEOREM ClosesPayTheSpend ==
  ASSUME Supervisors = {}
  PROVE  Spec => []CloseCapturesSpend
<1>1. TypeOK /\ PaidInv /\ CloseInv /\ [Next]_vars => CloseInv'
  BY StepClose
<1>2. CloseInv => CloseCapturesSpend
  BY DEF CloseInv, PayeeInv, CloseCapturesSpend
<1> QED BY PaidInvariant, InitClose, <1>1, <1>2, PTL DEF Spec

-----------------------------------------------------------------------------
(* A payer's close request.                                                 *)

\* A view that could clear a marker is older than the request on chain.
Predates(x) == x.seen.closeReq # 0 \/ x.at <= esc.closeReq + Skew

\* A request that was forgotten is one that is no longer on chain, and no new
\* one will have its number.
Remembers ==
  noted # 0 /\ rec.closeReq < noted /\ ~rec.finalized /\ ~esc.closed
    => noted < ChainNow /\ esc.closeReq # noted

ViewInv ==
  /\ \A w \in Readers : reader[w].pc = "read" => reader[w].at <= ChainNow + Skew
  /\ \A w \in Supervisors : supervisor[w].pc = "read" => supervisor[w].at <= ChainNow + Skew
  /\ esc.closeReq # 0 /\ ~esc.closed =>
       /\ \A w \in Readers : reader[w].pc = "read" => Predates(reader[w])
       /\ \A w \in Supervisors : supervisor[w].pc = "read" => Predates(supervisor[w])

RequestInv == ViewInv /\ Remembers

\* A handler looks at the chain, or holds no view that could clear a marker.
Fresh(x) == x.at <= ChainNow + Skew /\ x.seen = EscrowView(esc)

\* The numbers that the invariant compares.
LEMMA RequestNumbers ==
  ASSUME TypeOK
  PROVE  /\ ChainNow \in Int /\ noted \in Nat /\ esc.closeReq \in Nat /\ rec.closeReq \in Nat
         /\ now <= ChainNow + Skew /\ ChainNow <= ChainNow + Skew
         /\ Skew \in Nat /\ Validity \in Nat \ {0}
         /\ \A w \in Readers : reader[w].at \in Int
         /\ \A w \in Supervisors : supervisor[w].at \in Int
<1>1. \A w \in Supervisors : supervisor[w].at \in Int
  BY SMT DEF TypeOK, SupervisorState
<1>2. \A w \in Readers : reader[w].at \in Int
  BY ReaderFields
<1>3. noted \in Nat /\ esc.closeReq \in Nat
  BY EscrowFields DEF TypeOK
<1>4. ChainNow <= ChainNow + Skew
  BY CloseNumbers
<1> QED BY <1>1, <1>2, <1>3, <1>4, CloseNumbers

\* Steps that leave the chain alone.
LEMMA LooksKeepRequest ==
  ASSUME TypeOK, RequestInv, UNCHANGED <<now, esc>>, Remembers',
         \A w \in Readers : reader'[w].pc = "read" => reader'[w] = reader[w] \/ Fresh(reader'[w]),
         \A w \in Supervisors : supervisor'[w].pc = "read"
           => supervisor'[w] = supervisor[w] \/ Fresh(supervisor'[w])
  PROVE  RequestInv'
<1>1. ChainNow' = ChainNow
  BY DEF ChainNow
<1>2. ~esc.closed => EscrowView(esc).closeReq = esc.closeReq
  BY SMT DEF EscrowView
<1>3. ViewInv'
  BY <1>1, <1>2 DEF RequestInv, ViewInv, Fresh, Predates
<1> QED BY <1>3 DEF RequestInv

\* Updates that lower no marker forget nothing.
LEMMA RaisesRemember ==
  ASSUME TypeOK, TypeOK', RequestInv, UNCHANGED <<now, esc>>,
         rec.finalized => rec'.finalized,
         \/ noted' = noted /\ rec'.closeReq >= rec.closeReq
         \/ rec'.closeReq >= noted'
         \/ rec'.finalized
  PROVE  Remembers'
<1>1. ChainNow' = ChainNow
  BY DEF ChainNow
<1>2. /\ rec'.closeReq \in Nat /\ noted' \in Nat /\ rec'.finalized \in BOOLEAN
  BY RecordFields DEF TypeOK
<1> QED BY <1>1, <1>2, RequestNumbers, SMT DEF RequestInv, Remembers

\* A marker that expired was no request that is still on chain.
LEMMA ReconcileRemembers ==
  ASSUME TypeOK, RequestInv, UNCHANGED <<now, esc, noted>>, NEW t \in Int, NEW c \in View,
         t <= ChainNow + Skew,
         esc.closeReq # 0 /\ ~esc.closed => c.closeReq # 0 \/ t <= esc.closeReq + Skew,
         rec' = ReconcileExpired(rec, t, c)
  PROVE  Remembers'
<1> DEFINE z == [rec EXCEPT !.closeReq = 0, !.closeUntil = 0]
<1>1. ChainNow' = ChainNow
  BY DEF ChainNow
<1>2. CASE rec' = rec
  BY <1>1, <1>2 DEF RequestInv, Remembers
<1>3. CASE /\ c.closeReq = 0
           /\ t > KeepGreater(rec.closeReq + Validity, rec.closeUntil) + Skew
           /\ rec' = z
  <2>1. t > rec.closeReq + Validity + Skew
    <3>1. rec.closeUntil \in Nat
      BY RecordFields DEF TypeOK
    <3> QED BY <1>3, <3>1, RequestNumbers, SMT DEF KeepGreater
  <2>2. z.finalized = rec.finalized
    BY SMT DEF TypeOK, Record
  <2>3. ASSUME noted # 0, ~rec.finalized, ~esc.closed
        PROVE  noted < ChainNow /\ esc.closeReq # noted
    <3>1. CASE rec.closeReq < noted
      BY <2>3, <3>1 DEF RequestInv, Remembers
    <3>2. CASE rec.closeReq >= noted
      BY <1>3, <2>1, <2>3, <3>2, RequestNumbers, SMT
    <3> QED BY <3>1, <3>2, RequestNumbers, SMT
  <2> QED BY <1>1, <1>3, <2>2, <2>3 DEF Remembers
<1> QED BY <1>2, <1>3 DEF ReconcileExpired

\* Steps that touch no view: what is left to show is about the record.
LEMMA OthersRemember ==
  ASSUME TypeOK, TypeOK', RequestInv, UNCHANGED <<now, esc, noted, reader, supervisor>>,
         rec'.closeReq >= rec.closeReq \/ rec'.finalized, rec.finalized => rec'.finalized
  PROVE  RequestInv'
<1>1. Remembers'
  BY RaisesRemember
<1> QED BY <1>1, LooksKeepRequest

\* Opens, top-ups, charges, credits and settlements.
LEMMA SpendRequest ==
  ASSUME TypeOK, TypeOK', RequestInv
  PROVE  /\ \A w \in Openers, v \in 0..MaxAmount : RecordOpen(w, v) => RequestInv'
         /\ \A w \in Toppers : RecordTopUp(w) \/ AbandonTopUp(w) => RequestInv'
         /\ \A v \in Amounts, a \in 0..MaxAmount : AcceptStored(v, a) => RequestInv'
         /\ \A a \in Amounts : ChargeChannel(a) \/ CreditChannel(a) => RequestInv'
         /\ \A w \in Settlers : SettleStep(w) => RequestInv'
<1>1. ASSUME NEW w \in Openers, NEW v \in 0..MaxAmount, RecordOpen(w, v) PROVE RequestInv'
  <2>1. KeepsMarker
    BY <1>1, OpensKeepMarker
  <2>2. UNCHANGED <<now, esc, noted, reader, supervisor>>
    BY <1>1, Zenon DEF RecordOpen, chainVars
  <2> QED BY <2>1, <2>2, OthersRemember DEF KeepsMarker
<1>2. ASSUME NEW w \in Toppers, RecordTopUp(w) \/ AbandonTopUp(w) PROVE RequestInv'
  <2>1. KeepsMarker
    BY <1>2, OpensKeepMarker
  <2>2. UNCHANGED <<now, esc, noted, reader, supervisor>>
    BY <1>2, Zenon DEF RecordTopUp, AbandonTopUp, chainVars
  <2> QED BY <2>1, <2>2, OthersRemember DEF KeepsMarker
\* A record that may be charged has no marker to lose.
<1>3. ASSUME rec.closeReq = 0, ~rec.finalized, UNCHANGED <<now, esc, noted, reader, supervisor>>
      PROVE  RequestInv'
  <2>1. rec'.closeReq >= rec.closeReq
    <3>1. rec'.closeReq \in Nat
      BY RecordFields DEF TypeOK
    <3> QED BY <1>3, <3>1, SMT
  <2> QED BY <1>3, <2>1, OthersRemember
<1>4. ASSUME NEW v \in Amounts, NEW a \in 0..MaxAmount, AcceptStored(v, a) PROVE RequestInv'
  BY <1>3, <1>4, Zenon DEF AcceptStored, CanAccept, chainVars, workers
<1>5. ASSUME NEW a \in Amounts, ChargeChannel(a) PROVE RequestInv'
  BY <1>3, <1>5, Zenon DEF ChargeChannel, CanDeduct, chainVars, workers
<1>6. ASSUME NEW a \in Amounts, CreditChannel(a) PROVE RequestInv'
  BY <1>3, <1>6, Zenon DEF CreditChannel, CanCredit, chainVars, workers
<1>7. ASSUME NEW w \in Settlers, SettleStep(w) PROVE RequestInv'
  <2>1. KeepsMarker /\ UNCHANGED <<now, esc, noted, reader, supervisor>>
    BY <1>7, SettlesKeepMarker
  <2> QED BY <2>1, OthersRemember DEF KeepsMarker
<1> QED BY <1>1, <1>2, <1>4, <1>5, <1>6, <1>7

\* A voucher handler that moves on no longer holds a view it could clear a
\* marker with.
LEMMA ReaderMovesOn ==
  ASSUME TypeOK, TypeOK', RequestInv, NEW w \in Readers, NEW x, x.pc = "read" => Fresh(x),
         reader' = [reader EXCEPT ![w] = x], UNCHANGED <<now, esc, supervisor>>, Remembers'
  PROVE  RequestInv'
<1>1. \A v \in Readers : reader'[v].pc = "read" => reader'[v] = reader[v] \/ Fresh(reader'[v])
  BY DEF TypeOK
<1>2. \A v \in Supervisors : supervisor'[v].pc = "read"
        => supervisor'[v] = supervisor[v] \/ Fresh(supervisor'[v])
  OBVIOUS
<1> QED BY <1>1, <1>2, LooksKeepRequest

\* Voucher handlers.
LEMMA VoucherRequest ==
  ASSUME TypeOK, TypeOK', RequestInv, NEW w \in Readers,
         \/ \E v \in Amounts : ReadVoucher(w, v)
         \/ \E a \in 0..MaxAmount : AcceptRead(w, a)
         \/ ReconcileVoucher(w) \/ ReadInBackground(w) \/ RecordRequest(w) \/ RecordOpenState(w)
         \/ AbandonVoucher(w)
  PROVE  RequestInv'
<1>1. rec \in Record /\ reader[w].seen \in View
  BY ReaderFields DEF TypeOK
<1>2. IdleReader.pc # "read"
  BY SMT DEF IdleReader
<1>3. UNCHANGED <<now, esc, supervisor>>
  BY Zenon DEF ReadVoucher, AcceptRead, ReconcileVoucher, ReadInBackground, RecordRequest,
               RecordOpenState, AbandonVoucher, chainVars
<1>4. ASSUME rec' = rec, noted' = noted PROVE Remembers'
  <2>1. rec'.closeReq >= rec.closeReq
    BY <1>1, <1>4, RecordFields
  <2> QED BY <1>3, <1>4, <2>1, RaisesRemember
<1>5. ASSUME NEW v \in Amounts, ReadVoucher(w, v) PROVE RequestInv'
  <2>1. PICK c \in {EscrowView(esc)} \cup
                 (IF rec.closeReq = 0 /\ v <= rec.deposit THEN {StoredView(rec)} ELSE {}) :
          reader' = [reader EXCEPT ![w] =
            [pc |-> IF rec.closeReq # 0 THEN "read" ELSE "checked",
             voucher |-> v, highest |-> rec.highest, at |-> now, seen |-> c]]
    BY <1>5, Zenon DEF ReadVoucher
  <2> DEFINE x == [pc |-> IF rec.closeReq # 0 THEN "read" ELSE "checked",
                   voucher |-> v, highest |-> rec.highest, at |-> now, seen |-> c]
  <2>2. x.pc = "read" => x.at = now /\ x.seen = EscrowView(esc)
    BY SMT
  <2>3. reader' = [reader EXCEPT ![w] = x]
    BY <2>1
  <2> HIDE DEF x
  <2>4. x.pc = "read" => Fresh(x)
    BY <2>2, RequestNumbers DEF Fresh
  <2>5. Remembers'
    BY <1>4, <1>5 DEF ReadVoucher
  <2> QED BY <1>3, <2>3, <2>4, <2>5, ReaderMovesOn
<1>6. CASE ReconcileVoucher(w)
  <2> DEFINE p == [reader[w] EXCEPT !.pc = "checked"]
             x == [p EXCEPT !.highest = rec'.highest]
  <2>1. x.pc = "checked" /\ reader' = [reader EXCEPT ![w] = x]
    BY <1>6, ReaderFields, SMT DEF ReconcileVoucher, ReaderState
  <2> HIDE DEF x
  <2>2. /\ reader[w].at <= ChainNow + Skew
        /\ esc.closeReq # 0 /\ ~esc.closed
             => reader[w].seen.closeReq # 0 \/ reader[w].at <= esc.closeReq + Skew
    BY <1>6 DEF ReconcileVoucher, RequestInv, ViewInv, Predates
  <2>3. Remembers'
    BY <1>1, <1>3, <1>6, <2>2, ReaderFields, ReconcileRemembers DEF ReconcileVoucher
  <2> QED BY <1>3, <2>1, <2>3, ReaderMovesOn
<1>7. ASSUME NEW a \in 0..MaxAmount, AcceptRead(w, a) PROVE RequestInv'
  <2>1. rec'.closeReq >= rec.closeReq /\ ~rec.finalized /\ noted' = noted
    <3>1. rec.closeReq = 0 /\ ~rec.finalized /\ noted' = noted
      BY <1>7 DEF AcceptRead, CanAccept
    <3>2. rec'.closeReq \in Nat
      BY RecordFields DEF TypeOK
    <3> QED BY <3>1, <3>2, SMT
  <2>2. Remembers'
    BY <1>3, <2>1, RaisesRemember
  <2> QED BY <1>2, <1>3, <1>7, <2>2, ReaderMovesOn DEF AcceptRead
<1>8. CASE ReadInBackground(w)
  <2> DEFINE p == [IdleReader EXCEPT !.pc = "background"]
             x == [p EXCEPT !.seen = EscrowView(esc)]
  <2>1. x.pc = "background"
    BY SMT DEF IdleReader
  <2>2. reader' = [reader EXCEPT ![w] = x]
    BY <1>8 DEF ReadInBackground
  <2> HIDE DEF x
  <2>3. Remembers'
    BY <1>4, <1>8 DEF ReadInBackground
  <2> QED BY <1>3, <2>1, <2>2, <2>3, ReaderMovesOn
<1>9. CASE RecordRequest(w)
  <2>1. rec'.closeReq = KeepGreater(rec.closeReq, noted') /\ noted' = reader[w].seen.closeReq
        /\ rec'.finalized = rec.finalized
    BY <1>1, <1>9, RequestFields DEF RecordRequest
  <2>2. rec'.closeReq >= noted'
    BY <1>1, <2>1, RecordFields, ViewFields DEF KeepGreater
  <2>3. Remembers'
    BY <1>3, <2>1, <2>2, RaisesRemember
  <2> QED BY <1>2, <1>3, <1>9, <2>3, ReaderMovesOn DEF RecordRequest
<1>10. CASE RecordOpenState(w)
  <2>1. rec' = rec \/ rec' = MergeOnChain(rec, reader[w].seen)
    BY <1>10 DEF RecordOpenState, RecordOpenRead
  <2>2. rec'.closeReq >= rec.closeReq /\ rec'.finalized = rec.finalized
    BY <1>1, <2>1, MergeFields, RecordFields, ViewFields DEF KeepGreater
  <2>3. Remembers'
    BY <1>3, <1>10, <2>2, RaisesRemember DEF RecordOpenState
  <2> QED BY <1>2, <1>3, <1>10, <2>3, ReaderMovesOn DEF RecordOpenState
<1>11. CASE AbandonVoucher(w)
  <2>1. Remembers'
    BY <1>4, <1>11 DEF AbandonVoucher
  <2> QED BY <1>2, <1>3, <1>11, <2>1, ReaderMovesOn DEF AbandonVoucher
<1> QED BY <1>5, <1>6, <1>7, <1>8, <1>9, <1>10, <1>11

\* A supervisor that moves on.
LEMMA SupervisorMovesOn ==
  ASSUME TypeOK, TypeOK', RequestInv, NEW w \in Supervisors, NEW x, x.pc = "read" => Fresh(x),
         supervisor' = [supervisor EXCEPT ![w] = x], UNCHANGED <<now, esc, reader>>, Remembers'
  PROVE  RequestInv'
<1>1. \A v \in Supervisors : supervisor'[v].pc = "read"
        => supervisor'[v] = supervisor[v] \/ Fresh(supervisor'[v])
  BY DEF TypeOK
<1>2. \A v \in Readers : reader'[v].pc = "read" => reader'[v] = reader[v] \/ Fresh(reader'[v])
  OBVIOUS
<1> QED BY <1>1, <1>2, LooksKeepRequest

\* What a supervisor reserves and releases is not the marker.
LEMMA ReserveFields ==
  ASSUME NEW r \in Record, NEW u, NEW s \in {ReserveClose(r, u), ReleaseClose(r, u)}
  PROVE  s.closeReq = r.closeReq /\ s.finalized = r.finalized
<1>1. \E n : s = r \/ s = [r EXCEPT !.closeUntil = n]
  BY Zenon DEF ReserveClose, ReleaseClose
<1> QED BY <1>1, SMT DEF Record

\* Supervisors.
LEMMA SuperviseRequest ==
  ASSUME TypeOK, TypeOK', RequestInv, NEW w \in Supervisors,
         \/ ReadSupervised(w) \/ FinalizeGone(w) \/ ReconcileSupervised(w)
         \/ MergeSupervised(w) \/ ReserveSupervised(w) \/ SendSupervised(w)
         \/ ReleaseSupervised(w) \/ FinishSupervised(w) \/ AbandonSupervised(w)
  PROVE  RequestInv'
<1>1. rec \in Record /\ supervisor[w].seen \in View
  BY SupervisorFields DEF TypeOK
<1>2. IdleSupervisor.pc # "read"
  BY SMT DEF IdleSupervisor
<1>3. UNCHANGED <<now, esc, reader>>
  BY Zenon DEF ReadSupervised, FinalizeGone, ReconcileSupervised, MergeSupervised,
               ReserveSupervised, SendSupervised, ReleaseSupervised, FinishSupervised,
               AbandonSupervised, chainVars
<1>4. ASSUME rec'.closeReq = rec.closeReq, rec'.finalized = rec.finalized, noted' = noted
      PROVE  Remembers'
  <2>1. rec'.closeReq >= rec.closeReq
    BY <1>1, <1>4, RecordFields
  <2> QED BY <1>3, <1>4, <2>1, RaisesRemember
<1>5. CASE ReadSupervised(w)
  <2> DEFINE b == rec.closeReq # 0
             p == [IdleSupervisor EXCEPT !.pc = "read"]
             t == [p EXCEPT !.at = ChainNow]
             c == [t EXCEPT !.seen = EscrowView(esc)]
             q == [c EXCEPT !.closing = b]
  <2>1. supervisor' = [supervisor EXCEPT ![w] = q]
    BY <1>5 DEF ReadSupervised
  <2>2. q.at = ChainNow /\ q.seen = EscrowView(esc)
    BY SMT DEF IdleSupervisor
  <2> HIDE DEF q
  <2>3. Fresh(q)
    BY <2>2, RequestNumbers DEF Fresh
  <2>4. Remembers'
    BY <1>4, <1>5 DEF ReadSupervised
  <2> QED BY <1>3, <2>1, <2>3, <2>4, SupervisorMovesOn
<1>6. CASE FinalizeGone(w)
  <2>1. rec'.finalized
    BY <1>1, <1>6, EventFields DEF FinalizeGone, FinalizeFromEvent
  <2>2. Remembers'
    BY <1>3, <2>1, RaisesRemember
  <2> QED BY <1>2, <1>3, <1>6, <2>2, SupervisorMovesOn DEF FinalizeGone
<1>7. CASE ReconcileSupervised(w)
  <2>1. /\ supervisor[w].at <= ChainNow + Skew
        /\ esc.closeReq # 0 /\ ~esc.closed
             => supervisor[w].seen.closeReq # 0 \/ supervisor[w].at <= esc.closeReq + Skew
    BY <1>7 DEF ReconcileSupervised, RequestInv, ViewInv, Predates
  <2>2. Remembers'
    BY <1>1, <1>3, <1>7, <2>1, RequestNumbers, ReconcileRemembers DEF ReconcileSupervised
  <2> QED BY <1>2, <1>3, <1>7, <2>2, SupervisorMovesOn DEF ReconcileSupervised
<1>8. CASE MergeSupervised(w)
  <2> DEFINE n == CloseCapture(rec'.spent, supervisor[w].seen)
             p == [supervisor[w] EXCEPT !.pc = "merged"]
             v == [p EXCEPT !.voucher = rec'.highest]
             c == [v EXCEPT !.capture = n]
             q == [c EXCEPT !.spent = rec'.spent]
  <2>1. \/ supervisor' = [supervisor EXCEPT ![w] = q]
        \/ supervisor' = [supervisor EXCEPT ![w] = IdleSupervisor]
    BY <1>8 DEF MergeSupervised
  <2>2. q.pc = "merged"
    <3> HIDE DEF n
    <3> QED BY SupervisorFields, SMT DEF SupervisorState
  <2> HIDE DEF q
  <2>3. Remembers'
    <3>1. CASE rec.finalized
      <4>1. rec' = rec /\ noted' = noted
        BY <1>8, <3>1 DEF MergeSupervised, MergeRequest
      <4> QED BY <1>4, <4>1
    <3>2. CASE ~rec.finalized
      <4>1. rec' = MergeOnChain(rec, supervisor[w].seen) /\ noted' = supervisor[w].seen.closeReq
        BY <1>8, <3>2 DEF MergeSupervised, MergeRequest
      <4>2. rec'.closeReq >= noted'
        BY <1>1, <4>1, MergeFields, RecordFields, ViewFields DEF KeepGreater
      <4> QED BY <1>3, <3>2, <4>2, RaisesRemember
    <3> QED BY <3>1, <3>2
  <2> QED BY <1>2, <1>3, <2>1, <2>2, <2>3, SupervisorMovesOn
<1>9. CASE ReserveSupervised(w)
  <2> PICK t \in Recent :
        \/ /\ rec' = ReserveClose(rec, ValidBefore(t))
           /\ supervisor' = [supervisor EXCEPT ![w] =
                [[supervisor[w] EXCEPT !.pc = "reserved"] EXCEPT !.until = ValidBefore(t)]]
        \/ rec' = rec /\ supervisor' = [supervisor EXCEPT ![w] = IdleSupervisor]
    BY <1>9 DEF ReserveSupervised
  <2> DEFINE u == ValidBefore(t)
             p == [supervisor[w] EXCEPT !.pc = "reserved"]
             q == [p EXCEPT !.until = u]
  <2>1. \/ supervisor' = [supervisor EXCEPT ![w] = q]
        \/ supervisor' = [supervisor EXCEPT ![w] = IdleSupervisor]
    OBVIOUS
  <2>2. q.pc = "reserved"
    <3> HIDE DEF u
    <3> QED BY SupervisorFields, SMT DEF SupervisorState
  <2>3. rec' = rec \/ rec' \in {ReserveClose(rec, u), ReleaseClose(rec, u)}
    OBVIOUS
  <2> HIDE DEF q, u
  <2>4. noted' = noted
    BY <1>9, Zenon DEF ReserveSupervised
  <2>5. rec'.closeReq = rec.closeReq /\ rec'.finalized = rec.finalized
    <3>1. CASE rec' = rec
      BY <3>1
    <3>2. CASE rec' \in {ReserveClose(rec, u), ReleaseClose(rec, u)}
      BY <1>1, <3>2, ReserveFields, SMT
    <3> QED BY <2>3, <3>1, <3>2
  <2>6. Remembers'
    BY <1>4, <2>4, <2>5, Zenon
  <2> QED BY <1>2, <1>3, <2>1, <2>2, <2>6, SupervisorMovesOn
<1>10. CASE SendSupervised(w)
  <2> DEFINE q == [supervisor[w] EXCEPT !.pc = "sent"]
  <2>1. q.pc = "sent"
    BY SupervisorFields, SMT DEF SupervisorState
  <2>2. supervisor' = [supervisor EXCEPT ![w] = q]
    BY <1>10 DEF SendSupervised
  <2> HIDE DEF q
  <2>3. Remembers'
    BY <1>4, <1>10 DEF SendSupervised
  <2> QED BY <1>3, <2>1, <2>2, <2>3, SupervisorMovesOn
<1>11. CASE ReleaseSupervised(w)
  <2> DEFINE u == supervisor[w].until
  <2>1. rec' \in {ReserveClose(rec, u), ReleaseClose(rec, u)}
    BY <1>11 DEF ReleaseSupervised
  <2>2. noted' = noted
    BY <1>11, Zenon DEF ReleaseSupervised
  <2>3. rec'.closeReq = rec.closeReq /\ rec'.finalized = rec.finalized
    BY <1>1, <2>1, ReserveFields, Zenon
  <2>4. Remembers'
    BY <1>4, <2>2, <2>3, Zenon
  <2> QED BY <1>2, <1>3, <1>11, <2>4, SupervisorMovesOn DEF ReleaseSupervised
<1>12. CASE FinishSupervised(w)
  <2>1. rec'.finalized
    BY <1>1, <1>12, FinalFields DEF FinishSupervised
  <2>2. Remembers'
    BY <1>3, <2>1, RaisesRemember
  <2> QED BY <1>2, <1>3, <1>12, <2>2, SupervisorMovesOn DEF FinishSupervised
<1>13. CASE AbandonSupervised(w)
  <2>1. Remembers'
    BY <1>4, <1>13 DEF AbandonSupervised
  <2> QED BY <1>2, <1>3, <1>13, <2>1, SupervisorMovesOn DEF AbandonSupervised
<1> QED BY <1>5, <1>6, <1>7, <1>8, <1>9, <1>10, <1>11, <1>12, <1>13

\* The chain, the payer and time: a new request is newer than every view, and
\* than every request before it.
LEMMA ChainKeepsRequest ==
  ASSUME TypeOK, TypeOK', RequestInv, UNCHANGED <<rec, reader>>, ChainNow' >= ChainNow,
         \A w \in Supervisors : supervisor'[w].pc = "read" => supervisor'[w] = supervisor[w],
         \/ esc'.closed
         \/ esc'.closeReq = 0 /\ noted' = 0
         \/ esc'.closeReq = esc.closeReq /\ esc'.closed = esc.closed /\ noted' = noted
         \/ ~esc.closed /\ esc'.closeReq = ChainNow /\ ChainNow' = ChainNow /\ noted' = noted
  PROVE  RequestInv'
<1>1. ChainNow' \in Int /\ ChainNow \in Int /\ Skew \in Nat
  BY RequestNumbers, ChannelAssumption, SMT DEF ChainNow, TypeOK
<1>2. /\ \A w \in Readers : reader'[w].pc = "read" => reader'[w].at <= ChainNow' + Skew
      /\ \A w \in Readers : reader'[w].pc = "read" => reader'[w].at <= ChainNow + Skew
  BY <1>1, RequestNumbers, SMT DEF RequestInv, ViewInv
<1>3. \A w \in Supervisors : supervisor'[w].pc = "read" =>
        /\ supervisor'[w] = supervisor[w]
        /\ supervisor'[w].at <= ChainNow' + Skew /\ supervisor'[w].at <= ChainNow + Skew
  BY <1>1, RequestNumbers, SMT DEF RequestInv, ViewInv
<1>4. ASSUME esc'.closeReq # 0, ~esc'.closed
      PROVE  /\ \A w \in Readers : reader'[w].pc = "read" => Predates(reader[w])'
             /\ \A w \in Supervisors : supervisor'[w].pc = "read" => Predates(supervisor[w])'
  <2>1. CASE esc'.closeReq = esc.closeReq /\ esc'.closed = esc.closed
    BY <1>3, <1>4, <2>1 DEF RequestInv, ViewInv, Predates
  <2>2. CASE esc'.closeReq = ChainNow
    BY <1>2, <1>3, <2>2 DEF Predates
  <2> QED BY <1>4, <2>1, <2>2
<1>5. ViewInv'
  BY <1>2, <1>3, <1>4 DEF ViewInv
<1>6. Remembers'
  BY <1>1, RequestNumbers, SMT DEF RequestInv, Remembers
<1> QED BY <1>5, <1>6 DEF RequestInv

\* The steps of the chain and the payer.
LEMMA ChainRequest ==
  ASSUME TypeOK, TypeOK', RequestInv
  PROVE  /\ \A tx \in settles : SettleLands(tx) \/ SettleReverts(tx) => RequestInv'
         /\ \A tx \in closes : CloseLands(tx) \/ CloseReverts(tx) => RequestInv'
         /\ \A w \in Toppers, a \in Amounts : TopUpMined(w, a) => RequestInv'
         /\ RequestClose \/ Withdraw \/ Tick => RequestInv'
<1>1. esc \in EscrowState /\ ChainNow \in Int
  BY RequestNumbers DEF TypeOK
<1>2. now' = now => ChainNow' = ChainNow /\ ChainNow' >= ChainNow
  BY <1>1, SMT DEF ChainNow
<1>3. ASSUME NEW tx \in settles, SettleLands(tx) PROVE RequestInv'
  <2>1. esc'.closeReq = esc.closeReq /\ esc'.closed = esc.closed
    BY <1>1, <1>3, SMT DEF SettleLands, Settled, EscrowState
  <2>2. UNCHANGED <<now, rec, reader, supervisor, noted>>
    BY <1>3 DEF SettleLands
  <2> QED BY <1>2, <2>1, <2>2, ChainKeepsRequest
<1>4. ASSUME NEW tx \in settles, SettleReverts(tx) PROVE RequestInv'
  <2>1. UNCHANGED <<now, rec, esc, reader, supervisor, noted>>
    BY <1>4 DEF SettleReverts
  <2> QED BY <1>2, <2>1, ChainKeepsRequest
\* Who learns the outcome of a close was waiting for it.
<1>5. ASSUME NEW tx \in closes, NEW pc, pc # "read", CloseOutcome(tx, pc), NEW w \in Supervisors,
             supervisor'[w].pc = "read"
      PROVE  supervisor'[w] = supervisor[w]
  <2> DEFINE x == [supervisor[w] EXCEPT !.pc = pc]
  <2>1. supervisor'[w] = supervisor[w] \/ supervisor'[w] = x
    BY <1>5, Zenon DEF CloseOutcome, TypeOK
  <2>2. x.pc = pc
    BY SupervisorFields, SMT DEF SupervisorState
  <2> QED BY <1>5, <2>1, <2>2
<1>6. ASSUME NEW tx \in closes, CloseLands(tx) PROVE RequestInv'
  <2>1. esc'.closed
    BY <1>1, <1>6, SMT DEF CloseLands, ClosedByPayee, EscrowState
  <2>2. UNCHANGED <<now, rec, reader, noted>>
    BY <1>6 DEF CloseLands
  <2>3. \A w \in Supervisors : supervisor'[w].pc = "read" => supervisor'[w] = supervisor[w]
    BY <1>5, <1>6 DEF CloseLands
  <2> QED BY <1>2, <2>1, <2>2, <2>3, ChainKeepsRequest
<1>7. ASSUME NEW tx \in closes, CloseReverts(tx) PROVE RequestInv'
  <2>1. UNCHANGED <<now, rec, esc, reader, noted>>
    BY <1>7 DEF CloseReverts
  <2>2. \A w \in Supervisors : supervisor'[w].pc = "read" => supervisor'[w] = supervisor[w]
    BY <1>5, <1>7 DEF CloseReverts
  <2> QED BY <1>2, <2>1, <2>2, ChainKeepsRequest
<1>8. ASSUME NEW w \in Toppers, NEW a \in Amounts, TopUpMined(w, a) PROVE RequestInv'
  <2>1. esc'.closeReq = 0 /\ noted' = 0
    BY <1>1, <1>8, SMT DEF TopUpMined, ToppedUp, EscrowState
  <2>2. UNCHANGED <<now, rec, reader, supervisor>>
    BY <1>8 DEF TopUpMined
  <2> QED BY <1>2, <2>1, <2>2, ChainKeepsRequest
<1>9. ASSUME RequestClose PROVE RequestInv'
  <2>1. esc'.closeReq = ChainNow /\ ~esc.closed
    BY <1>1, <1>9, SMT DEF RequestClose, CloseRequested, EscrowState
  <2>2. UNCHANGED <<now, rec, reader, supervisor, noted>>
    BY <1>9, Zenon DEF RequestClose, workers
  <2> QED BY <1>2, <2>1, <2>2, ChainKeepsRequest
<1>10. ASSUME Withdraw PROVE RequestInv'
  <2>1. esc'.closed
    BY <1>1, <1>10, SMT DEF Withdraw, Withdrawn, EscrowState
  <2>2. UNCHANGED <<now, rec, reader, supervisor, noted>>
    BY <1>10, Zenon DEF Withdraw, workers
  <2> QED BY <1>2, <2>1, <2>2, ChainKeepsRequest
<1>11. ASSUME Tick PROVE RequestInv'
  <2>1. UNCHANGED <<rec, esc, reader, supervisor, noted>> /\ now' = now + 1
    BY <1>11, Zenon DEF Tick, workers
  <2>2. ChainNow' >= ChainNow
    BY <2>1, ChannelAssumption, SMT DEF ChainNow, TypeOK
  <2> QED BY <2>1, <2>2, ChainKeepsRequest
<1> QED BY <1>3, <1>4, <1>6, <1>7, <1>8, <1>9, <1>10, <1>11

\* The invariant is inductive where no close credential is presented.
LEMMA StepRequest ==
  ASSUME Closers = {}, TypeOK, RequestInv, [Next]_vars
  PROVE  RequestInv'
<1>1. TypeOK'
  BY StepTyped
<1>2. CASE CredentialNext
  <2>1. ASSUME NEW w \in Readers,
               \/ \E v \in Amounts : ReadVoucher(w, v)
               \/ ReconcileVoucher(w)
               \/ \E a \in 0..MaxAmount : AcceptRead(w, a)
               \/ ReadInBackground(w) \/ RecordRequest(w) \/ RecordOpenState(w)
               \/ AbandonVoucher(w)
        PROVE  RequestInv'
    BY <1>1, <2>1, VoucherRequest
  <2>2. ASSUME NEW w \in Toppers,
               (\E a \in Amounts : TopUpMined(w, a)) \/ RecordTopUp(w) \/ AbandonTopUp(w)
        PROVE  RequestInv'
    BY <1>1, <2>2, ChainRequest, SpendRequest
  <2>3. ASSUME NEW w \in Openers, NEW v \in 0..MaxAmount, RecordOpen(w, v) PROVE RequestInv'
    BY <1>1, <2>3, SpendRequest
  <2>4. ASSUME NEW v \in Amounts, NEW a \in 0..MaxAmount, AcceptStored(v, a) PROVE RequestInv'
    BY <1>1, <2>4, SpendRequest
  <2> QED BY <1>2, <2>1, <2>2, <2>3, <2>4, Zenon DEF CredentialNext
<1>3. CASE SettleNext
  <2>1. ASSUME NEW w \in Settlers, SettleStep(w) PROVE RequestInv'
    BY <1>1, <2>1, SpendRequest
  <2>2. ASSUME NEW a \in Amounts, ChargeChannel(a) \/ CreditChannel(a) PROVE RequestInv'
    BY <1>1, <2>2, SpendRequest
  <2> QED BY <1>3, <2>1, <2>2, Zenon DEF SettleNext, SettleStep
<1>4. CASE CloseNext
  <2>1. ASSUME NEW w \in Supervisors,
               \/ ReadSupervised(w) \/ FinalizeGone(w) \/ ReconcileSupervised(w)
               \/ MergeSupervised(w) \/ ReserveSupervised(w) \/ SendSupervised(w)
               \/ ReleaseSupervised(w) \/ FinishSupervised(w) \/ AbandonSupervised(w)
        PROVE  RequestInv'
    BY <1>1, <2>1, SuperviseRequest
  <2> QED BY <1>4, <2>1, Zenon DEF CloseNext
<1>5. CASE ChainNext
  BY <1>1, <1>5, ChainRequest, Zenon DEF ChainNext
<1>6. CASE UNCHANGED vars
  <2>1. rec'.closeReq >= rec.closeReq
    BY <1>6, RequestNumbers DEF vars
  <2> QED BY <1>1, <1>6, <2>1, OthersRemember, Zenon DEF vars
<1> QED BY <1>2, <1>3, <1>4, <1>5, <1>6 DEF Next

\* The invariant holds at first.
LEMMA InitRequest == Init => RequestInv
<1> SUFFICES ASSUME Init PROVE RequestInv
  OBVIOUS
<1>1. ViewInv
  BY SMT DEF Init, ViewInv, IdleReader, IdleSupervisor, OpenedEscrow
<1>2. Remembers
  BY DEF Init, Remembers
<1> QED BY <1>1, <1>2 DEF RequestInv

\* However many voucher handlers and supervisors read the chain and write what
\* they read late, with top-ups that cancel a request and new requests between
\* their steps: a request that the store was told of and that is still pending
\* stays recorded (record_pending_close, merge_request,
\* reconcile_expired_pending_close).
THEOREM RequestsStayRemembered ==
  ASSUME Closers = {}
  PROVE  Spec => []RequestRemembered
<1>1. TypeOK /\ RequestInv /\ [Next]_vars => RequestInv'
  BY StepRequest
<1>2. TypeOK /\ RequestInv => RequestRemembered
  BY RequestNumbers, SMT DEF RequestInv, Remembers, RequestRemembered, TypeOK, Record
<1> QED BY TypeCorrect, InitRequest, <1>1, <1>2, PTL DEF Spec

=============================================================================
