--------------------------- MODULE SessionChannel ---------------------------
(***************************************************************************)
(* One payment channel of the session server: its stored record, the       *)
(* escrow on chain, the transactions in flight between them, and the       *)
(* concurrent handlers (of one process or of several) that read the chain, *)
(* update the record and broadcast.  Every update of the record is one     *)
(* atomic step, as StoreChannelStore.update_channel makes it; between two  *)
(* updates, a chain read, a broadcast and its receipt, any other handler   *)
(* may run, and a handler may stop for good (a crash, a timeout, a store   *)
(* error).                                                                 *)
(***************************************************************************)
EXTENDS ChannelRecord, Escrow

CONSTANTS Openers, Toppers, Readers, Settlers, Closers, Supervisors,
          OpenDeposit,  \* what the open transaction deposits
          MaxDeposit,   \* bound: top-ups keep the deposit within it
          MaxAmount,    \* bound: the largest voucher, charge or credit
          MaxTime,      \* bound: the last tick of the server clock
          MaxStall,     \* bound: how old a clock reading an update may use
          ChainLag,     \* how far the chain clock is behind the server clock
          Grace,        \* the escrow's close grace period
          PayerRequests \* whether the payer requests closes on chain

ASSUME ChannelAssumption ==
  /\ OpenDeposit \in Nat \ {0} /\ MaxDeposit \in Nat /\ MaxAmount \in Nat
  /\ MaxTime \in Nat /\ MaxStall \in Nat /\ Grace \in Nat
  /\ PayerRequests \in BOOLEAN
  /\ ChainLag \in Int /\ -Skew <= ChainLag /\ ChainLag <= Skew

VARIABLES now,        \* the server clock
          rec,        \* the stored channel record
          esc,        \* the escrow
          settles,    \* settle transactions that may still land
          closes,     \* close transactions that may still land
          opener, topper, reader, settler, closer, supervisor,
          noted       \* history: the close request the store was told of

chainVars == <<esc, settles, closes>>
workers == <<opener, topper, reader, settler, closer, supervisor>>
vars == <<now, rec, esc, settles, closes,
          opener, topper, reader, settler, closer, supervisor, noted>>

-----------------------------------------------------------------------------
Amounts == 1..MaxAmount

ChainNow == now - ChainLag

\* A block includes a transaction only before its valid_before.
MayLand(tx) == ChainNow < tx.until

Broadcast(pool, tx) == IF MayLand(tx) THEN pool \cup {tx} ELSE pool

\* Clock readings that an update made now may rest on.
Recent == {t \in 1..now : now - t <= MaxStall}

NoView == [deposit |-> 0, settled |-> 0, closeReq |-> 0]

IdleReader == [pc |-> "idle", voucher |-> 0, highest |-> 0, at |-> 0,
               seen |-> NoView]
IdleTopper == [pc |-> "idle", seen |-> NoView]
IdleSettler == [pc |-> "idle", amount |-> 0, until |-> 0]
IdleCloser == [pc |-> "idle", voucher |-> 0, capture |-> 0, at |-> 0,
               seen |-> NoView]
IdleSupervisor == [pc |-> "idle", voucher |-> 0, capture |-> 0, spent |-> 0,
                   until |-> 0, at |-> 0, seen |-> NoView, closing |-> FALSE]

\* The open transaction is mined; each opener holds its receipt.
Init ==
  /\ now = 1
  /\ rec = NoRecord
  /\ esc = OpenedEscrow(OpenDeposit)
  /\ settles = {} /\ closes = {}
  /\ opener = [w \in Openers |-> "mined"]
  /\ topper = [w \in Toppers |-> IdleTopper]
  /\ reader = [w \in Readers |-> IdleReader]
  /\ settler = [w \in Settlers |-> IdleSettler]
  /\ closer = [w \in Closers |-> IdleCloser]
  /\ supervisor = [w \in Supervisors |-> IdleSupervisor]
  /\ noted = 0

-----------------------------------------------------------------------------
(* Open and top-up credentials.  Their state is read back at the receipt's *)
(* block, so an open always records what it deposited.                     *)

RecordOpen(w, v) ==
  /\ opener[w] = "mined"
  /\ v <= OpenDeposit
  /\ rec' = OpenRecord(rec, EscrowView(OpenedEscrow(OpenDeposit)), v)
  /\ opener' = [opener EXCEPT ![w] = "idle"]
  /\ UNCHANGED <<now, chainVars, topper, reader, settler, closer, supervisor, noted>>

TopUpMined(w, a) ==
  /\ topper[w].pc = "idle"
  /\ rec.opened
  /\ ~esc.closed /\ esc.deposit + a <= MaxDeposit
  /\ esc' = ToppedUp(esc, a)
  /\ topper' = [topper EXCEPT ![w] = [pc |-> "mined", seen |-> EscrowView(esc')]]
  /\ noted' = 0
  /\ UNCHANGED <<now, rec, settles, closes, opener, reader, settler, closer, supervisor>>

RecordTopUp(w) ==
  /\ topper[w].pc = "mined"
  /\ rec' = MergeOnChain(rec, topper[w].seen)
  /\ topper' = [topper EXCEPT ![w] = IdleTopper]
  /\ UNCHANGED <<now, chainVars, opener, reader, settler, closer, supervisor, noted>>

\* The handler stops before it records the top-up.
AbandonTopUp(w) ==
  /\ topper[w].pc = "mined"
  /\ topper' = [topper EXCEPT ![w] = IdleTopper]
  /\ UNCHANGED <<now, rec, chainVars, opener, reader, settler, closer, supervisor, noted>>

-----------------------------------------------------------------------------
(* Voucher credentials.                                                    *)

\* One update that checks and accepts against the stored channel state,
\* verified recently enough; a is the request's charge, 0 for none.
AcceptStored(v, a) ==
  /\ CanAccept(rec)
  /\ VoucherFits(StoredView(rec), rec.highest, v)
  /\ rec' = DeductIfCovered(AcceptVoucher(rec, StoredView(rec), v), a)
  /\ UNCHANGED <<now, chainVars, workers, noted>>

\* The handler loads the channel and reads the chain, or trusts the state
\* it loaded.
ReadVoucher(w, v) ==
  /\ reader[w].pc = "idle"
  /\ rec.opened /\ ~rec.finalized
  /\ \E seen \in {EscrowView(esc)} \cup
                 (IF rec.closeReq = 0 /\ v <= rec.deposit THEN {StoredView(rec)} ELSE {}) :
       reader' = [reader EXCEPT ![w] =
         [pc |-> IF rec.closeReq # 0 THEN "read" ELSE "checked",
          voucher |-> v, highest |-> rec.highest, at |-> now, seen |-> seen]]
  /\ UNCHANGED <<now, rec, chainVars, opener, topper, settler, closer, supervisor, noted>>

\* A loaded channel that was closing is reconciled first.
ReconcileVoucher(w) ==
  /\ reader[w].pc = "read"
  /\ rec' = ReconcileExpired(rec, reader[w].at, reader[w].seen)
  /\ reader' = [reader EXCEPT ![w] =
       [@ EXCEPT !.pc = "checked", !.highest = rec'.highest]]
  /\ UNCHANGED <<now, chainVars, opener, topper, settler, closer, supervisor, noted>>

\* The highest voucher again, with nothing to charge, writes nothing.
AcceptRead(w, a) ==
  /\ reader[w].pc = "checked"
  /\ reader[w].voucher # reader[w].highest \/ a # 0
  /\ VoucherFits(reader[w].seen, reader[w].highest, reader[w].voucher)
  /\ CanAccept(rec)
  /\ rec' = DeductIfCovered(AcceptVoucher(rec, reader[w].seen, reader[w].voucher), a)
  /\ reader' = [reader EXCEPT ![w] = IdleReader]
  /\ UNCHANGED <<now, chainVars, opener, topper, settler, closer, supervisor, noted>>

\* A read that a voucher did not wait for, recorded later.
ReadInBackground(w) ==
  /\ reader[w].pc = "idle"
  /\ rec.opened
  /\ reader' = [reader EXCEPT ![w] =
       [IdleReader EXCEPT !.pc = "background", !.seen = EscrowView(esc)]]
  /\ UNCHANGED <<now, rec, chainVars, opener, topper, settler, closer, supervisor, noted>>

\* Either read that saw a close request records it.
RecordRequest(w) ==
  /\ reader[w].pc \in {"checked", "background"}
  /\ reader[w].seen.closeReq # 0
  /\ rec' = RecordPendingClose(rec, reader[w].seen)
  /\ noted' = reader[w].seen.closeReq
  /\ reader' = [reader EXCEPT ![w] = IdleReader]
  /\ UNCHANGED <<now, chainVars, opener, topper, settler, closer, supervisor>>

RecordOpenState(w) ==
  /\ reader[w].pc = "background"
  /\ reader[w].seen.closeReq = 0 /\ reader[w].seen.deposit # 0
  /\ rec' = RecordOpenRead(rec, reader[w].seen)
  /\ reader' = [reader EXCEPT ![w] = IdleReader]
  /\ UNCHANGED <<now, chainVars, opener, topper, settler, closer, supervisor, noted>>

\* A rejected voucher, or a handler that stops.
AbandonVoucher(w) ==
  /\ reader[w].pc # "idle"
  /\ reader' = [reader EXCEPT ![w] = IdleReader]
  /\ UNCHANGED <<now, rec, chainVars, opener, topper, settler, closer, supervisor, noted>>

-----------------------------------------------------------------------------
(* Charges and credits of the application.                                 *)

ChargeChannel(a) ==
  /\ CanDeduct(rec, a)
  /\ rec' = Deduct(rec, a)
  /\ UNCHANGED <<now, chainVars, workers, noted>>

\* credit_channel reads the clock once, before the update it may retry.
CreditChannel(a) ==
  /\ \E t \in Recent : CanCredit(rec, a, t)
  /\ rec' = Credit(rec, a)
  /\ UNCHANGED <<now, chainVars, workers, noted>>
-----------------------------------------------------------------------------
(* Settlement.                                                             *)

\* Chooses the voucher and raises the credit floor in one update.
ClaimSettle(w) ==
  /\ settler[w].pc = "idle"
  /\ rec.opened
  /\ ~SettlementInFlight(rec, now)
  /\ \E v \in LargestSettleable(rec), t \in Recent :
       /\ rec' = ClaimSettlement(rec, v, ValidBefore(t))
       /\ settler' = [settler EXCEPT ![w] =
            [pc |-> "claimed", amount |-> v, until |-> ValidBefore(t)]]
  /\ UNCHANGED <<now, chainVars, opener, topper, reader, closer, supervisor, noted>>

SettlerTx(w) == [by |-> w, amount |-> settler[w].amount, until |-> settler[w].until]

\* The node took the transaction, or may have taken it.
SendSettle(w) ==
  /\ settler[w].pc = "claimed"
  /\ settles' = Broadcast(settles, SettlerTx(w))
  /\ settler' = [settler EXCEPT ![w].pc = "sent"]
  /\ UNCHANGED <<now, rec, esc, closes, opener, topper, reader, closer, supervisor, noted>>

\* The node refused the transaction before it was sent ("claimed"), or its
\* receipt says that it reverted.
ReleaseSettle(w) ==
  /\ settler[w].pc \in {"claimed", "reverted"}
  /\ rec' = ReleaseSettlement(rec, settler[w].amount, settler[w].until)
  /\ settler' = [settler EXCEPT ![w] = IdleSettler]
  /\ UNCHANGED <<now, chainVars, opener, topper, reader, closer, supervisor, noted>>

RecordSettle(w) ==
  /\ settler[w].pc = "mined"
  /\ rec' = RecordSettled(rec, settler[w].amount)
  /\ settler' = [settler EXCEPT ![w] = IdleSettler]
  /\ UNCHANGED <<now, chainVars, opener, topper, reader, closer, supervisor, noted>>

\* A timeout, a store error or a crash: the reservation stays.
AbandonSettle(w) ==
  /\ settler[w].pc # "idle"
  /\ settler' = [settler EXCEPT ![w] = IdleSettler]
  /\ UNCHANGED <<now, rec, chainVars, opener, topper, reader, closer, supervisor, noted>>

-----------------------------------------------------------------------------
(* Close credentials: the payer and the server close together.             *)

\* _check_close against the stored channel and a chain read.
CheckClose(w, v) ==
  /\ closer[w].pc = "idle"
  /\ rec.opened /\ ~rec.finalized
  /\ LET seen == EscrowView(esc)
     IN /\ seen.closeReq = 0
        /\ seen.deposit = 0 => v = 0 /\ rec.spent = 0
        /\ CanCapture(rec.spent, seen, v)
        /\ closer' = [closer EXCEPT ![w] =
             [pc |-> "checked", voucher |-> v, capture |-> 0, at |-> now, seen |-> seen]]
  /\ UNCHANGED <<now, rec, chainVars, opener, topper, reader, settler, supervisor, noted>>

\* Writes the marker that stops charges, unless another close holds it.
MarkClose(w) ==
  /\ closer[w].pc = "checked"
  /\ LET seen == closer[w].seen
         current == ReconcileExpired(rec, closer[w].at, seen)
     IN IF CanMarkClosing(current, seen, closer[w].voucher)
        THEN /\ rec' = MarkClosing(current, closer[w].at)
             /\ closer' = [closer EXCEPT ![w] =
                  [@ EXCEPT !.pc = "marked",
                            !.capture = CloseCapture(current.spent, seen)]]
        ELSE /\ closer' = [closer EXCEPT ![w] = IdleCloser]
             /\ UNCHANGED rec
  /\ UNCHANGED <<now, chainVars, opener, topper, reader, settler, supervisor, noted>>

CloserTx(w) ==
  [by |-> w, capture |-> closer[w].capture, voucher |-> closer[w].voucher,
   until |-> ValidBefore(closer[w].at)]

SendClose(w) ==
  /\ closer[w].pc = "marked"
  /\ closes' = Broadcast(closes, CloserTx(w))
  /\ closer' = [closer EXCEPT ![w].pc = "sent"]
  /\ UNCHANGED <<now, rec, esc, settles, opener, topper, reader, settler, supervisor, noted>>

\* The close failed before anything was sent, or it reverted.
ClearClose(w) ==
  /\ closer[w].pc \in {"marked", "reverted"}
  /\ rec' = ClearMarker(rec, closer[w].at)
  /\ closer' = [closer EXCEPT ![w] = IdleCloser]
  /\ UNCHANGED <<now, chainVars, opener, topper, reader, settler, supervisor, noted>>

\* ChannelClosed pays at most the capture, out of the deposit that was read.
FinishClose(w) ==
  /\ closer[w].pc = "mined"
  /\ esc.paid <= closer[w].capture /\ esc.deposit <= closer[w].seen.deposit
  /\ rec' = FinalizeClosed(rec, closer[w].capture, closer[w].voucher)
  /\ closer' = [closer EXCEPT ![w] = IdleCloser]
  /\ UNCHANGED <<now, chainVars, opener, topper, reader, settler, supervisor, noted>>

AbandonClose(w) ==
  /\ closer[w].pc # "idle"
  /\ closer' = [closer EXCEPT ![w] = IdleCloser]
  /\ UNCHANGED <<now, rec, chainVars, opener, topper, reader, settler, supervisor, noted>>
-----------------------------------------------------------------------------
(* Close supervision: the server answers a payer's close request.          *)

\* The escrow state of the pinned block, and whether the stored record was
\* closing when it was loaded.
ReadSupervised(w) ==
  /\ supervisor[w].pc = "idle"
  /\ rec.opened /\ ~rec.finalized
  /\ supervisor' = [supervisor EXCEPT ![w] =
       [IdleSupervisor EXCEPT !.pc = "read", !.at = ChainNow,
                              !.seen = EscrowView(esc), !.closing = rec.closeReq # 0]]
  /\ UNCHANGED <<now, rec, chainVars, opener, topper, reader, settler, closer, noted>>

\* The deposit left the escrow: finalized from the ChannelClosed event.
FinalizeGone(w) ==
  /\ supervisor[w].pc = "read" /\ supervisor[w].seen.deposit = 0
  /\ rec' = FinalizeFromEvent(rec, esc.paid)
  /\ supervisor' = [supervisor EXCEPT ![w] = IdleSupervisor]
  /\ UNCHANGED <<now, chainVars, opener, topper, reader, settler, closer, noted>>

\* No request on chain: a recorded one was cancelled, or is a server close.
ReconcileSupervised(w) ==
  /\ supervisor[w].pc = "read" /\ supervisor[w].closing
  /\ supervisor[w].seen.deposit # 0 /\ supervisor[w].seen.closeReq = 0
  /\ rec' = ReconcileExpired(rec, supervisor[w].at, supervisor[w].seen)
  /\ supervisor' = [supervisor EXCEPT ![w] = IdleSupervisor]
  /\ UNCHANGED <<now, chainVars, opener, topper, reader, settler, closer, noted>>

\* Records the request, and computes the capture from the record it wrote.
MergeSupervised(w) ==
  /\ supervisor[w].pc = "read" /\ supervisor[w].seen.closeReq # 0
  /\ rec' = MergeRequest(rec, supervisor[w].seen)
  /\ noted' = IF rec.finalized THEN noted ELSE supervisor[w].seen.closeReq
  /\ LET seen == supervisor[w].seen
         capture == CloseCapture(rec'.spent, seen)
     IN supervisor' = [supervisor EXCEPT ![w] =
          IF /\ ~rec'.finalized
             /\ CanCapture(rec'.spent, seen, rec'.highest)
             /\ capture > seen.settled
          THEN [@ EXCEPT !.pc = "merged", !.voucher = rec'.highest,
                         !.capture = capture, !.spent = rec'.spent]
          ELSE IdleSupervisor]
  /\ UNCHANGED <<now, chainVars, opener, topper, reader, settler, closer>>

ReserveSupervised(w) ==
  /\ supervisor[w].pc = "merged"
  /\ \E t \in Recent :
       IF CanReserveClose(rec, supervisor[w].spent, t)
       THEN /\ rec' = ReserveClose(rec, ValidBefore(t))
            /\ supervisor' = [supervisor EXCEPT ![w] =
                  [@ EXCEPT !.pc = "reserved", !.until = ValidBefore(t)]]
       ELSE /\ supervisor' = [supervisor EXCEPT ![w] = IdleSupervisor]
            /\ UNCHANGED rec
  /\ UNCHANGED <<now, chainVars, opener, topper, reader, settler, closer, noted>>

SupervisorTx(w) ==
  [by |-> w, capture |-> supervisor[w].capture, voucher |-> supervisor[w].voucher,
   until |-> supervisor[w].until]

SendSupervised(w) ==
  /\ supervisor[w].pc = "reserved"
  /\ closes' = Broadcast(closes, SupervisorTx(w))
  /\ supervisor' = [supervisor EXCEPT ![w].pc = "sent"]
  /\ UNCHANGED <<now, rec, esc, settles, opener, topper, reader, settler, closer, noted>>

\* The close failed before anything was sent.
ReleaseSupervised(w) ==
  /\ supervisor[w].pc = "reserved"
  /\ rec' = ReleaseClose(rec, supervisor[w].until)
  /\ supervisor' = [supervisor EXCEPT ![w] = IdleSupervisor]
  /\ UNCHANGED <<now, chainVars, opener, topper, reader, settler, closer, noted>>

FinishSupervised(w) ==
  /\ supervisor[w].pc = "mined"
  /\ esc.paid <= supervisor[w].capture /\ esc.deposit <= supervisor[w].seen.deposit
  /\ rec' = FinalizeClosed(rec, esc.paid, supervisor[w].voucher)
  /\ supervisor' = [supervisor EXCEPT ![w] = IdleSupervisor]
  /\ UNCHANGED <<now, chainVars, opener, topper, reader, settler, closer, noted>>

\* A failed read or lookup, a reverted or unconfirmed close, or a crash:
\* the next run starts over.
AbandonSupervised(w) ==
  /\ supervisor[w].pc # "idle"
  /\ supervisor' = [supervisor EXCEPT ![w] = IdleSupervisor]
  /\ UNCHANGED <<now, rec, chainVars, opener, topper, reader, settler, closer, noted>>

-----------------------------------------------------------------------------
(* The chain, the payer and time.                                          *)

\* A handler still waiting for the receipt of tx learns its outcome.
SettleOutcome(tx, pc) ==
  settler' = IF settler[tx.by].pc = "sent" /\ tx = SettlerTx(tx.by)
             THEN [settler EXCEPT ![tx.by].pc = pc]
             ELSE settler

CloseOutcome(tx, pc) ==
  IF tx.by \in Closers
  THEN /\ closer' = IF closer[tx.by].pc = "sent" /\ tx = CloserTx(tx.by)
                    THEN [closer EXCEPT ![tx.by].pc = pc]
                    ELSE closer
       /\ UNCHANGED supervisor
  ELSE /\ supervisor' = IF supervisor[tx.by].pc = "sent" /\ tx = SupervisorTx(tx.by)
                        THEN [supervisor EXCEPT ![tx.by].pc = pc]
                        ELSE supervisor
       /\ UNCHANGED closer

SettleLands(tx) ==
  /\ MayLand(tx) /\ CanSettle(esc, tx.amount)
  /\ esc' = Settled(esc, tx.amount)
  /\ settles' = settles \ {tx}
  /\ SettleOutcome(tx, "mined")
  /\ UNCHANGED <<now, rec, closes, opener, topper, reader, closer, supervisor, noted>>

\* Included but without effect: the escrow or a gas limit refused it.
SettleReverts(tx) ==
  /\ settles' = settles \ {tx}
  /\ SettleOutcome(tx, "reverted")
  /\ UNCHANGED <<now, rec, esc, closes, opener, topper, reader, closer, supervisor, noted>>

CloseLands(tx) ==
  /\ MayLand(tx) /\ CanClose(esc, tx.capture, tx.voucher)
  /\ esc' = ClosedByPayee(esc, tx.capture)
  /\ closes' = closes \ {tx}
  /\ CloseOutcome(tx, "mined")
  /\ UNCHANGED <<now, rec, settles, opener, topper, reader, settler, noted>>

CloseReverts(tx) ==
  /\ closes' = closes \ {tx}
  /\ CloseOutcome(tx, "reverted")
  /\ UNCHANGED <<now, rec, esc, settles, opener, topper, reader, settler, noted>>

RequestClose ==
  /\ PayerRequests
  /\ ~esc.closed /\ esc.closeReq = 0 /\ ChainNow > 0
  /\ esc' = CloseRequested(esc, ChainNow)
  /\ UNCHANGED <<now, rec, settles, closes, workers, noted>>

Withdraw ==
  /\ ~esc.closed /\ esc.closeReq # 0 /\ ChainNow >= esc.closeReq + Grace
  /\ esc' = Withdrawn(esc)
  /\ UNCHANGED <<now, rec, settles, closes, workers, noted>>

\* Time passes; transactions that can no longer land are dropped.
Tick ==
  /\ now < MaxTime
  /\ now' = now + 1
  /\ settles' = {tx \in settles : ChainNow' < tx.until}
  /\ closes' = {tx \in closes : ChainNow' < tx.until}
  /\ UNCHANGED <<rec, esc, workers, noted>>
-----------------------------------------------------------------------------
CredentialNext ==
  \/ \E w \in Openers, v \in 0..MaxAmount : RecordOpen(w, v)
  \/ \E w \in Toppers : \/ \E a \in Amounts : TopUpMined(w, a)
                        \/ RecordTopUp(w)
                        \/ AbandonTopUp(w)
  \/ \E v \in Amounts, a \in 0..MaxAmount : AcceptStored(v, a)
  \/ \E w \in Readers : \/ \E v \in Amounts : ReadVoucher(w, v)
                        \/ ReconcileVoucher(w)
                        \/ \E a \in 0..MaxAmount : AcceptRead(w, a)
                        \/ ReadInBackground(w)
                        \/ RecordRequest(w)
                        \/ RecordOpenState(w)
                        \/ AbandonVoucher(w)

SettleNext ==
  \/ \E a \in Amounts : ChargeChannel(a) \/ CreditChannel(a)
  \/ \E w \in Settlers : \/ ClaimSettle(w)
                         \/ SendSettle(w)
                         \/ ReleaseSettle(w)
                         \/ RecordSettle(w)
                         \/ AbandonSettle(w)

CloseNext ==
  \/ \E w \in Closers : \/ \E v \in 0..MaxAmount : CheckClose(w, v)
                        \/ MarkClose(w)
                        \/ SendClose(w)
                        \/ ClearClose(w)
                        \/ FinishClose(w)
                        \/ AbandonClose(w)
  \/ \E w \in Supervisors : \/ ReadSupervised(w)
                            \/ FinalizeGone(w)
                            \/ ReconcileSupervised(w)
                            \/ MergeSupervised(w)
                            \/ ReserveSupervised(w)
                            \/ SendSupervised(w)
                            \/ ReleaseSupervised(w)
                            \/ FinishSupervised(w)
                            \/ AbandonSupervised(w)

ChainNext ==
  \/ \E tx \in settles : SettleLands(tx) \/ SettleReverts(tx)
  \/ \E tx \in closes : CloseLands(tx) \/ CloseReverts(tx)
  \/ RequestClose
  \/ Withdraw
  \/ Tick

Next == CredentialNext \/ SettleNext \/ CloseNext \/ ChainNext

Spec == Init /\ [][Next]_vars

-----------------------------------------------------------------------------
SettleTx == [by : Settlers, amount : Nat, until : Nat]
CloseTx == [by : Closers \cup Supervisors, capture : Nat, voucher : Nat, until : Nat]

ReaderState ==
  [pc : {"idle", "read", "checked", "background"}, voucher : Nat, highest : Nat,
   at : Nat, seen : View]
TopperState == [pc : {"idle", "mined"}, seen : View]
SettlerState ==
  [pc : {"idle", "claimed", "sent", "mined", "reverted"}, amount : Nat, until : Nat]
CloserState ==
  [pc : {"idle", "checked", "marked", "sent", "mined", "reverted"},
   voucher : Nat, capture : Nat, at : Nat, seen : View]
SupervisorState ==
  [pc : {"idle", "read", "merged", "reserved", "sent", "mined", "reverted"},
   voucher : Nat, capture : Nat, spent : Nat, until : Nat, at : Int,
   seen : View, closing : BOOLEAN]

\* The types of the state.
TypeOK ==
  /\ now \in Nat /\ rec \in Record /\ esc \in EscrowState
  /\ settles \in SUBSET SettleTx /\ closes \in SUBSET CloseTx
  /\ opener \in [Openers -> {"mined", "idle"}]
  /\ topper \in [Toppers -> TopperState]
  /\ reader \in [Readers -> ReaderState]
  /\ settler \in [Settlers -> SettlerState]
  /\ closer \in [Closers -> CloserState]
  /\ supervisor \in [Supervisors -> SupervisorState]
  /\ noted \in Nat

\* A settlement captures its whole voucher, so no credit may take the spend
\* below a settle transaction that can still land: the reservation written
\* with the choice of the voucher outlives the transaction, whatever becomes
\* of the worker that sent it (settle, _credit_decline_reason).
SettlementFloor == \A tx \in settles : tx.amount <= rec.spent

\* One reservation cannot tell two transactions apart, so of the settle
\* transactions in flight at most one can still move the escrow (choose).
OneEffectiveSettlement ==
  \A t, u \in {tx \in settles : CanSettle(esc, tx.amount)} : t = u

\* Every charge is backed by a signed voucher, and every accepted voucher by
\* a deposit the escrow holds, although vouchers are checked against chain
\* reads and stored state that are stale when the record is updated.
VoucherBacked ==
  /\ rec.spent <= rec.highest
  /\ ~rec.finalized => rec.highest <= esc.deposit

\* The record never counts as settled what the escrow did not pay, whichever
\* of receipts, reads, close events and markers it was told of, in any order.
SettledWasPaid ==
  rec.settled <= IF esc.closed THEN esc.paid ELSE esc.settled

\* A close by the payee pays exactly the accepted charges (or what was already
\* settled above them): none is lost, and the rest goes back to the payer.
CloseCapturesSpend ==
  esc.byPayee => esc.paid = KeepGreater(rec.spent, esc.settled)

\* A payer's close request that the store was told of, and that is still
\* pending on chain, stays recorded, so that vouchers keep being rejected.
RequestRemembered ==
  noted # 0 /\ esc.closeReq = noted /\ ~esc.closed
    => rec.closeReq # 0 \/ rec.finalized

\* The invariant behind SettlementFloor: whoever may still broadcast, land or
\* release a settlement owns the reservation, unless the recorded settlement
\* already covers it; and no two of them own the same one.
Outstanding(until) == ChainNow < until

Holds(amount, until) ==
  Outstanding(until) =>
    /\ amount <= rec.spent
    /\ amount <= rec.settled \/ rec.pending = Reservation(amount, until)

Releasers == {w \in Settlers : settler[w].pc \in {"claimed", "reverted"}}

SettleInv ==
  /\ \A tx \in settles : MayLand(tx) /\ Holds(tx.amount, tx.until)
  /\ \A w \in Releasers : Holds(settler[w].amount, settler[w].until)
  /\ \A tx \in settles, w \in Releasers :
       tx.amount > rec.settled
         => ~(settler[w].amount = tx.amount /\ settler[w].until = tx.until)
  /\ \A v, w \in Releasers :
       v # w /\ settler[v].amount > rec.settled /\ Outstanding(settler[v].until)
         => ~(settler[w].amount = settler[v].amount /\ settler[w].until = settler[v].until)
  /\ \A t, u \in settles :
       t.amount > rec.settled /\ u.amount > rec.settled => t.by = u.by

\* Concurrent and late updates never take back a voucher, a settlement, a
\* deposit of an open channel, or the end of a channel.
RecordMonotonic ==
  [][/\ rec'.highest >= rec.highest
     /\ rec'.settled >= rec.settled
     /\ rec.finalized => rec'.finalized
     /\ ~rec'.finalized => rec'.deposit >= rec.deposit]_rec
=============================================================================
