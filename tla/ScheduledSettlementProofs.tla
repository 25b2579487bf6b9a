---------------------- MODULE ScheduledSettlementProofs ----------------------
(***************************************************************************)
(* Theorems about ScheduledSettlement, for any finite set of workers,      *)
(* every schedule, lease, validity and skew, and any number of failures.   *)
(***************************************************************************)
EXTENDS ScheduledSettlement, TLAPS, FiniteSetTheorems

-----------------------------------------------------------------------------
(* Types, and what the record owes to the escrow.                          *)

Steps == {"idle", "claim", "choose", "send", "wait", "captured", "reverted", "record",
          "complete", "release"}

Record ==
  [spent : 0..MaxSpend, settled : Nat, boundary : Nat, age : 0..Interval, closing : BOOLEAN]

Types ==
  /\ record \in Record
  /\ lease \in [owner : (Workers \cup {Nobody}) \X (0..1), left : 0..LeaseTime]
  /\ pending \in Settlement
  /\ pc \in [Workers -> Steps]
  /\ mine \in [Workers -> Settlement]
  /\ txs \in SUBSET Transaction /\ IsFiniteSet(txs)
  /\ claims \in [Workers -> 0..1]
  /\ paid \in Nat /\ faults \in 0..MaxFaults

\* Nothing is settled that was not spent, and nothing is confirmed or recorded as
\* settled that the escrow did not pay.
Confirmed == {"captured", "record"}
Bounds ==
  /\ record.settled <= paid /\ record.boundary <= paid /\ paid <= record.spent
  /\ \A w \in Workers : mine[w].amount <= record.spent
  /\ \A w \in Workers : pc[w] \in Confirmed => mine[w].amount <= paid
  /\ \A t \in txs : t.amount <= record.spent /\ t.left > 0

-----------------------------------------------------------------------------
(* Who may still move the escrow.                                          *)

\* The worker may still send a settlement that would capture, or give back the
\* reservation of one that reverted.
HasTurn(w) == pc[w] \in {"send", "reverted"} /\ mine[w].left > 0 /\ mine[w].amount > paid

\* The reservation is that of a settlement which may still land.
Reserves(t) == pending.amount = t.amount /\ pending.left = t.left + Skew

\* Until it expires, such a settlement is the one that the record reserves, and
\* it was sent once.
Turns ==
  /\ \A w \in Workers : HasTurn(w) => Reserves(mine[w])
  /\ \A t \in txs : t.amount > paid => Reserves(t)
  /\ \A v, w \in Workers : HasTurn(v) /\ HasTurn(w) => v = w
  /\ \A w \in Workers, t \in txs : ~(HasTurn(w) /\ t.amount > paid)
  /\ \A t, u \in txs : t.amount > paid /\ u.amount > paid => t = u

ScheduleInv == Types /\ Bounds /\ Turns

-----------------------------------------------------------------------------
(* Types.                                                                  *)

\* What the constants are.
LEMMA Limits ==
  /\ MaxSpend \in Nat /\ Amount \in Nat /\ Interval \in Nat \ {0} /\ LeaseTime \in Nat \ {0}
  /\ Validity \in Nat \ {0} /\ Skew \in Nat /\ MaxFaults \in Nat
  /\ Servers \subseteq Workers /\ Supervisors \subseteq Workers
  BY ScheduleAssumption DEF Workers

\* Choosing and giving back keep the types of settlements.
LEMMA SettlementTypes ==
  /\ NoPending \in Settlement
  /\ \A n \in 0..MaxSpend : /\ [amount |-> n, left |-> Validity + Skew] \in Settlement
                            /\ [amount |-> n, left |-> Validity] \in Settlement
  /\ \A t \in Settlement : [t EXCEPT !.left = Less(@)] \in Settlement
  /\ \A t \in Transaction : t.left > 0 => [t EXCEPT !.left = @ - 1] \in Transaction
  BY Limits DEF Settlement, Transaction, NoPending, Less

\* A settlement that is abandoned.
LEMMA AbandonTypes ==
  ASSUME Types, NEW w \in Workers, NEW known, Abandon(w, known)
  PROVE  pending' \in Settlement /\ mine' \in [Workers -> Settlement] /\ pc' \in [Workers -> Steps]
  BY SettlementTypes DEF Types, Abandon, GoTo, Steps

\* Every step of a worker keeps the types.
LEMMA WorkerTypes ==
  ASSUME Types, Bounds, NEW w \in Workers, Advance(w) \/ Renew(w) \/ Stop(w)
  PROVE  Types'
<1>1. CASE Claim(w)
  BY <1>1, Limits DEF Claim, Types, GoTo, Steps
<1>2. CASE Choose(w)
  <2>1. record.spent \in 0..MaxSpend
    BY DEF Types, Record
  <2>. QED
    BY <1>2, <2>1, SettlementTypes DEF Choose, Types, GoTo, Steps
<1>3. CASE Send(w)
  <2>1. Sent(w) \in Transaction
    BY DEF Types, Sent, Transaction, Settlement
  <2>2. txs' \in {txs, txs \cup {Sent(w)}}
    BY <1>3 DEF Send
  <2>3. txs' \in SUBSET Transaction /\ IsFiniteSet(txs')
    BY <2>1, <2>2, FS_AddElement DEF Types
  <2>4. faults' \in 0..MaxFaults
    <3>1. faults' = faults \/ Fails
      BY <1>3 DEF Send
    <3>. QED
      BY <3>1, Limits DEF Fails, Types
  <2>5. pending' \in Settlement /\ mine' \in [Workers -> Settlement] /\ pc' \in [Workers -> Steps]
    BY <1>3, AbandonTypes DEF Send, GoTo, Types, Steps
  <2>. QED
    BY <1>3, <2>3, <2>4, <2>5 DEF Send, Types
<1>4. CASE Confirm(w)
  <2>1. faults' \in 0..MaxFaults
    <3>1. faults' = faults \/ Fails
      BY <1>4 DEF Confirm
    <3>. QED
      BY <3>1, Limits DEF Fails, Types
  <2>2. pending' \in Settlement /\ mine' \in [Workers -> Settlement] /\ pc' \in [Workers -> Steps]
    BY <1>4, AbandonTypes DEF Confirm, GoTo, Types, Steps
  <2>. QED
    BY <1>4, <2>1, <2>2 DEF Confirm, Types
<1>5. CASE RecordSettled(w)
  <2>1. mine[w] \in Settlement
    BY DEF Types
  <2>2. SettledBy(w) \in Nat /\ Boundary(w) \in Nat
    BY <2>1 DEF Types, Record, SettledBy, Boundary, Settlement
  <2>3. record' \in Record
    <3>0. record \in Record /\ 0 \in 0..Interval
      BY Limits DEF Types
    <3>1. \A m, n \in Nat : [record EXCEPT !.settled = m, !.boundary = n, !.age = 0] \in Record
      BY <3>0 DEF Record
    <3>2. \/ record' = record
          \/ record' = [record EXCEPT !.settled = SettledBy(w), !.boundary = Boundary(w), !.age = 0]
      BY <1>5 DEF RecordSettled
    <3>. QED
      BY <2>2, <3>0, <3>1, <3>2
  <2>4. faults' \in 0..MaxFaults
    <3>1. faults' = faults \/ Fails
      BY <1>5 DEF RecordSettled
    <3>. QED
      BY <3>1, Limits DEF Fails, Types
  <2>5. pending' \in Settlement /\ mine' \in [Workers -> Settlement] /\ pc' \in [Workers -> Steps]
    BY <1>5, SettlementTypes DEF RecordSettled, GoTo, Types, Steps
  <2>. QED
    BY <1>5, <2>3, <2>4, <2>5 DEF RecordSettled, Types
<1>6. CASE Complete(w)
  <2>1. record' \in Record
    BY <1>6, Limits DEF Complete, Types, Record
  <2>2. lease' \in [owner : (Workers \cup {Nobody}) \X (0..1), left : 0..LeaseTime]
    BY <1>6, Limits DEF Complete, Types, NoLease
  <2>. QED
    BY <1>6, <2>1, <2>2, Limits DEF Complete, Fails, GoTo, Types, Steps
<1>7. CASE Release(w)
  <2>1. lease' \in [owner : (Workers \cup {Nobody}) \X (0..1), left : 0..LeaseTime]
    BY <1>7, Limits DEF Release, Types, NoLease
  <2>. QED
    BY <1>7, <2>1, Limits DEF Release, Fails, GoTo, Types, Steps
<1>8. CASE Renew(w)
  BY <1>8, Limits DEF Renew, Types
<1>9. CASE Stop(w)
  BY <1>9, Limits, SettlementTypes DEF Stop, Fails, GoTo, Types, Steps
<1>. QED
  BY <1>1, <1>2, <1>3, <1>4, <1>5, <1>6, <1>7, <1>8, <1>9 DEF Advance

\* Requests, reads, the chain and time keep the types.
LEMMA WorldTypes ==
  ASSUME Types, Bounds,
         \/ \E w \in Workers : Charge(w) \/ FindRequest(w) \/ FindCancelled(w) \/ Supervise(w)
         \/ MergeRead \/ (\E t \in txs : Land(t)) \/ Tick
  PROVE  Types'
<1>1. ASSUME NEW w \in Workers, Charge(w) PROVE Types'
  <2>1. record' \in Record
    BY <1>1, Limits DEF Charge, Types, Record
  <2>. QED
    BY <1>1, <2>1 DEF Charge, GoTo, Types, Steps
<1>2. ASSUME NEW w \in Workers, FindRequest(w) PROVE Types'
  <2>1. record' \in Record
    BY <1>2 DEF FindRequest, Types, Record
  <2>. QED
    BY <1>2, <2>1 DEF FindRequest, GoTo, Types, Steps
<1>3. ASSUME NEW w \in Workers, Supervise(w) PROVE Types'
  BY <1>3 DEF Supervise, GoTo, Types, Steps
<1>7. ASSUME NEW w \in Workers, FindCancelled(w) PROVE Types'
  BY <1>7 DEF FindCancelled, Types, Record
<1>4. CASE MergeRead
  BY <1>4 DEF MergeRead, Types, Record
<1>5. ASSUME NEW t \in txs, Land(t) PROVE Types'
  <2>1. IsFiniteSet(txs')
    BY <1>5, FS_RemoveElement DEF Land, Types
  <2>2. t.amount \in Nat
    BY Limits DEF Types, Transaction
  <2>3. pc' \in [Workers -> Steps]
    BY <1>5 DEF Land, Outcome, Types, Steps
  <2>4. faults' \in 0..MaxFaults
    <3>1. faults' = faults \/ Fails
      BY <1>5 DEF Land
    <3>. QED
      BY <3>1, Limits DEF Fails, Types
  <2>5. paid' \in Nat
    BY <1>5, <2>2 DEF Land, Types
  <2>. QED
    BY <1>5, <2>1, <2>3, <2>4, <2>5 DEF Land, Types
<1>6. CASE Tick
  <2>1. Expired \subseteq txs /\ IsFiniteSet(Expired)
    BY FS_Subset DEF Expired, Types
  <2>2. IsFiniteSet(Stalled)
    BY ScheduleAssumption, FS_Subset DEF Stalled
  <2>3. faults' \in 0..MaxFaults
    <3>1. Cardinality(Expired) \in Nat /\ Cardinality(Stalled) \in Nat
      BY <2>1, <2>2, FS_CardinalityType
    <3>. QED
      BY <1>6, <3>1, Limits DEF Tick, Types
  <2>4. txs' \in SUBSET Transaction
    BY <1>6, SettlementTypes DEF Tick, Types, Bounds
  <2>5. IsFiniteSet(txs')
    <3>. DEFINE left == txs \ Expired
                later == [t \in left |-> [t EXCEPT !.left = @ - 1]]
    <3>1. IsFiniteSet(left)
      BY FS_Subset DEF Types
    <3>2. txs' = {[t EXCEPT !.left = @ - 1] : t \in left}
      BY <1>6 DEF Tick
    <3>3. later \in Surjection(left, txs')
      BY <3>2 DEF Surjection
    <3>. QED
      BY <3>1, <3>3, FS_Surjection
  <2>6. lease' \in [owner : (Workers \cup {Nobody}) \X (0..1), left : 0..LeaseTime]
    <3>1. lease \in [owner : (Workers \cup {Nobody}) \X (0..1), left : 0..LeaseTime]
      BY DEF Types
    <3>2. Less(lease.left) \in 0..LeaseTime
      BY <3>1, Limits DEF Less
    <3>3. lease' = [lease EXCEPT !.left = Less(lease.left)]
      BY <1>6 DEF Tick
    <3>. QED
      BY <3>1, <3>2, <3>3
  <2>7. pending' \in Settlement /\ mine' \in [Workers -> Settlement]
    BY <1>6, SettlementTypes DEF Tick, Types
  <2>8. record' \in Record
    BY <1>6, Limits DEF Tick, Types, Record
  <2>. QED
    BY <1>6, <2>3, <2>4, <2>5, <2>6, <2>7, <2>8 DEF Tick, Types
<1>. QED
  BY <1>1, <1>2, <1>3, <1>4, <1>5, <1>6, <1>7

-----------------------------------------------------------------------------
(* What the record owes to the escrow.                                     *)

\* The numbers that are compared.
LEMMA Numbers ==
  ASSUME Types
  PROVE  /\ record.spent \in 0..MaxSpend /\ record.settled \in Nat /\ record.boundary \in Nat
         /\ paid \in Nat /\ pending.amount \in Nat /\ pending.left \in Nat
         /\ \A w \in Workers : mine[w] \in Settlement /\ mine[w].amount \in Nat /\ mine[w].left \in Nat
         /\ \A t \in txs : t \in Transaction /\ t.by \in Workers /\ t.amount \in Nat /\ t.left \in Nat
  BY Limits DEF Types, Record, Settlement, Transaction

\* A settlement that is abandoned, or whose worker stops.
LEMMA DroppedBounds ==
  ASSUME Types, Bounds, NEW w \in Workers, mine' = [mine EXCEPT ![w] = NoPending],
         pc'[w] \notin Confirmed, \A v \in Workers \ {w} : pc'[v] = pc[v],
         UNCHANGED <<record, paid>>, txs' \in {txs, txs \cup {Sent(w)}},
         txs' = txs \/ mine[w].left > 0
  PROVE  Bounds'
<1>1. mine'[w].amount = 0 /\ \A v \in Workers \ {w} : mine'[v] = mine[v]
  BY DEF Types, NoPending
<1>2. record.spent \in Nat /\ paid \in Nat
  BY Numbers
<1>. QED
  BY <1>1, <1>2 DEF Bounds, Sent

\* Every step of a worker keeps the bounds.
LEMMA WorkerBounds ==
  ASSUME Types, Bounds, NEW w \in Workers, Advance(w) \/ Renew(w) \/ Stop(w)
  PROVE  Bounds'
<1>. USE DEF Confirmed
<1>1. ASSUME NEW s \in Steps \ Confirmed, GoTo(w, s), UNCHANGED <<record, mine, txs, paid>>
      PROVE  Bounds'
  BY <1>1 DEF Bounds, GoTo, Types
<1>2. \A s, known : GoTo(w, s) \/ Abandon(w, known) => \A v \in Workers \ {w} : pc'[v] = pc[v]
  BY DEF GoTo, Abandon, Types
<1>3. \A s : GoTo(w, s) => pc'[w] = s
  BY DEF GoTo, Types
<1>4. CASE Claim(w) \/ Release(w)
  BY <1>1, <1>4 DEF Claim, Release, Steps
<1>5. CASE Choose(w)
  <2>1. CASE mine' = [mine EXCEPT ![w] = [amount |-> record.spent, left |-> Validity]]
    <3>1. mine'[w].amount = record.spent /\ \A v \in Workers \ {w} : mine'[v] = mine[v]
      BY <2>1 DEF Types
    <3>2. pc'[w] \notin Confirmed /\ \A v \in Workers \ {w} : pc'[v] = pc[v]
      BY <1>2, <1>3, <1>5 DEF Choose
    <3>3. UNCHANGED <<record, txs, paid>> /\ record.spent \in Nat
      BY <1>5, Numbers DEF Choose
    <3>. QED
      BY <3>1, <3>2, <3>3 DEF Bounds
  <2>2. CASE GoTo(w, "release") /\ UNCHANGED mine
    BY <1>1, <1>5, <2>2 DEF Choose, Steps
  <2>. QED
    BY <1>5, <2>1, <2>2 DEF Choose
<1>6. CASE Send(w)
  <2>1. /\ UNCHANGED <<record, paid>>
        /\ \/ GoTo(w, "wait") /\ UNCHANGED mine /\ mine[w].left > 0 /\ txs' = txs \cup {Sent(w)}
           \/ /\ \E known : Abandon(w, known)
              /\ txs' = txs \/ (mine[w].left > 0 /\ txs' = txs \cup {Sent(w)})
    BY <1>6 DEF Send
  <2>2. CASE \E known : Abandon(w, known)
    <3>1. GoTo(w, "release") /\ mine' = [mine EXCEPT ![w] = NoPending]
      BY <2>2 DEF Abandon
    <3>. QED
      BY <1>2, <1>3, <2>1, <2>2, <3>1, DroppedBounds
  <2>3. CASE GoTo(w, "wait") /\ UNCHANGED mine /\ mine[w].left > 0 /\ txs' = txs \cup {Sent(w)}
    <3>1. pc'[w] \notin Confirmed /\ \A v \in Workers \ {w} : pc'[v] = pc[v]
      BY <1>2, <1>3, <2>3
    <3>. QED
      BY <2>1, <2>3, <3>1 DEF Bounds, Sent
  <2>. QED
    BY <2>1, <2>2, <2>3
<1>7. CASE Confirm(w)
  <2>1. CASE \E known : Abandon(w, known)
    <3>1. GoTo(w, "release") /\ mine' = [mine EXCEPT ![w] = NoPending]
      BY <2>1 DEF Abandon
    <3>2. UNCHANGED <<record, paid, txs>>
      BY <1>7 DEF Confirm
    <3>. QED
      BY <1>2, <1>3, <3>1, <3>2, DroppedBounds
  <2>2. CASE pc[w] = "captured" /\ GoTo(w, "record") /\ UNCHANGED mine
    <3>1. \A v \in Workers \ {w} : pc'[v] = pc[v]
      BY <1>2, <2>2
    <3>2. mine[w].amount <= paid
      BY <2>2 DEF Bounds
    <3>3. UNCHANGED <<record, paid, txs>>
      BY <1>7 DEF Confirm
    <3>. QED
      BY <2>2, <3>1, <3>2, <3>3 DEF Bounds
  <2>. QED
    BY <1>7, <2>1, <2>2 DEF Confirm
<1>8. CASE RecordSettled(w)
  <2>1. pc[w] = "record" /\ mine[w].amount <= paid
    BY <1>8 DEF RecordSettled, Bounds
  <2>2. SettledBy(w) <= paid /\ Boundary(w) <= paid
    BY <2>1 DEF SettledBy, Boundary, Bounds
  <2>3. record'.spent = record.spent /\ record'.settled <= paid /\ record'.boundary <= paid
    BY <1>8, <2>2 DEF RecordSettled, Types, Record, Bounds
  <2>4. mine'[w].amount = 0 /\ \A v \in Workers \ {w} : mine'[v] = mine[v]
    BY <1>8 DEF RecordSettled, Types, NoPending
  <2>5. pc'[w] \notin Confirmed /\ \A v \in Workers \ {w} : pc'[v] = pc[v]
    BY <1>2, <1>3, <1>8 DEF RecordSettled
  <2>6. UNCHANGED <<paid, txs>>
    BY <1>8 DEF RecordSettled
  <2>7. record.spent \in Nat /\ paid \in Nat
    BY Numbers
  <2>. QED
    BY <2>3, <2>4, <2>5, <2>6, <2>7 DEF Bounds
<1>9. CASE Complete(w)
  <2>1. /\ record'.spent = record.spent /\ record'.settled = record.settled
        /\ record'.boundary = record.boundary
    BY <1>9 DEF Complete, Types, Record
  <2>2. pc'[w] \notin Confirmed /\ \A v \in Workers \ {w} : pc'[v] = pc[v]
    BY <1>2, <1>3, <1>9 DEF Complete
  <2>3. UNCHANGED <<mine, txs, paid>>
    BY <1>9 DEF Complete
  <2>. QED
    BY <2>1, <2>2, <2>3 DEF Bounds
<1>10. CASE Renew(w)
  BY <1>10 DEF Renew, Bounds
<1>11. CASE Stop(w)
  <2>1. GoTo(w, "idle") /\ mine' = [mine EXCEPT ![w] = NoPending] /\ UNCHANGED <<record, txs, paid>>
    BY <1>11 DEF Stop
  <2>. QED
    BY <1>2, <1>3, <2>1, DroppedBounds
<1>. QED
  BY <1>4, <1>5, <1>6, <1>7, <1>8, <1>9, <1>10, <1>11 DEF Advance

\* Requests, reads, the chain and time keep the bounds.
LEMMA WorldBounds ==
  ASSUME Types, Bounds,
         \/ \E w \in Workers : Charge(w) \/ FindRequest(w) \/ FindCancelled(w) \/ Supervise(w)
         \/ MergeRead \/ (\E t \in txs : Land(t)) \/ Tick
  PROVE  Bounds'
<1>. USE Numbers
<1>1. ASSUME UNCHANGED <<mine, txs, paid>>, \A w \in Workers : pc'[w] \in Confirmed => pc[w] \in Confirmed,
             record'.boundary = record.boundary, record.spent <= record'.spent,
             record'.spent \in Nat, record'.settled <= paid
      PROVE  Bounds'
  <2>1. paid <= record'.spent
    BY <1>1 DEF Bounds
  <2>2. \A w \in Workers : mine[w].amount <= record'.spent
    BY <1>1 DEF Bounds
  <2>3. \A t \in txs : t.amount <= record'.spent
    BY <1>1 DEF Bounds
  <2>. QED
    BY <1>1, <2>1, <2>2, <2>3 DEF Bounds
<1>2. ASSUME NEW w \in Workers, Charge(w) \/ FindRequest(w) PROVE Bounds'
  <2>1. UNCHANGED <<mine, txs, paid>> /\ \E s : s \notin Confirmed /\ GoTo(w, s)
    BY <1>2 DEF Charge, FindRequest, Confirmed
  <2>2. \A v \in Workers : pc'[v] \in Confirmed => pc[v] \in Confirmed
    BY <2>1 DEF GoTo, Types
  <2>3. /\ record'.boundary = record.boundary /\ record.spent <= record'.spent
        /\ record'.spent \in Nat /\ record'.settled <= paid
    <3>1. record \in Record /\ record.settled <= paid /\ paid <= paid
      BY DEF Types, Bounds
    <3>2. \/ record' = [record EXCEPT !.spent = @ + 1]
          \/ record' = [record EXCEPT !.closing = TRUE, !.settled = paid]
      BY <1>2 DEF Charge, FindRequest
    <3>3. CASE record' = [record EXCEPT !.spent = @ + 1]
      <4>1. /\ record'.boundary = record.boundary /\ record'.settled = record.settled
            /\ record'.spent = record.spent + 1
        BY <3>1, <3>3 DEF Record
      <4>. QED
        BY <3>1, <4>1
    <3>4. CASE record' = [record EXCEPT !.closing = TRUE, !.settled = paid]
      <4>1. /\ record'.boundary = record.boundary /\ record'.settled = paid
            /\ record'.spent = record.spent
        BY <3>1, <3>4 DEF Record
      <4>. QED
        BY <3>1, <4>1
    <3>. QED
      BY <3>2, <3>3, <3>4
  <2>. QED
    BY <1>1, <2>1, <2>2, <2>3
<1>3. ASSUME NEW w \in Workers, Supervise(w) PROVE Bounds'
  BY <1>3 DEF Supervise, GoTo, Types, Bounds, Confirmed
<1>7. ASSUME NEW w \in Workers, FindCancelled(w) PROVE Bounds'
  <2>1. /\ record'.boundary = record.boundary /\ record'.spent = record.spent
        /\ record'.settled = record.settled
    BY <1>7 DEF FindCancelled, Types, Record
  <2>2. UNCHANGED <<mine, txs, paid, pc>>
    BY <1>7 DEF FindCancelled
  <2>. QED
    BY <2>1, <2>2 DEF Bounds
<1>4. CASE MergeRead
  <2>1. /\ record'.boundary = record.boundary /\ record'.spent = record.spent
        /\ record'.settled = paid
    BY <1>4 DEF MergeRead, Types, Record
  <2>. QED
    BY <1>1, <1>4, <2>1 DEF MergeRead
<1>5. ASSUME NEW t \in txs, Land(t) PROVE Bounds'
  <2>1. paid <= paid' /\ paid' <= record.spent /\ paid' \in Nat /\ txs' \subseteq txs
    BY <1>5 DEF Land, Bounds
  <2>2. record.settled <= paid' /\ record.boundary <= paid'
    BY <2>1 DEF Bounds
  <2>3. UNCHANGED <<record, mine>>
    BY <1>5 DEF Land
  <2>4. ASSUME NEW w \in Workers, pc'[w] \in Confirmed PROVE mine[w].amount <= paid'
    <3>1. CASE pc[w] \in Confirmed
      BY <2>1, <3>1 DEF Bounds
    <3>2. CASE pc[w] \notin Confirmed
      <4>1. \/ Outcome(t, "captured") /\ paid' = t.amount
            \/ Outcome(t, "reverted")
        BY <1>5 DEF Land
      <4>2. Sent(w) = t /\ paid' = t.amount
        BY <2>4, <3>2, <4>1 DEF Outcome, Types, Confirmed
      <4>. QED
        BY <2>1, <4>2 DEF Sent
    <3>. QED
      BY <3>1, <3>2
  <2>. QED
    BY <2>1, <2>2, <2>3, <2>4 DEF Bounds
<1>6. CASE Tick
  <2>1. /\ record'.boundary = record.boundary /\ record'.spent = record.spent
        /\ record'.settled = record.settled
    BY <1>6 DEF Tick, Types, Record
  <2>2. \A w \in Workers : mine'[w].amount = mine[w].amount
    BY <1>6 DEF Tick, Settlement
  <2>3. \A t \in txs' : t.amount <= record.spent /\ t.left > 0
    <3>1. \A t \in txs \ Expired : [t EXCEPT !.left = @ - 1].amount <= record.spent
                                   /\ [t EXCEPT !.left = @ - 1].left > 0
      BY DEF Expired, Bounds, Transaction
    <3>. QED
      BY <1>6, <3>1 DEF Tick
  <2>4. UNCHANGED <<pc, paid>>
    BY <1>6 DEF Tick
  <2>. QED
    BY <2>1, <2>2, <2>3, <2>4 DEF Bounds
<1>. QED
  BY <1>2, <1>3, <1>4, <1>5, <1>6, <1>7

-----------------------------------------------------------------------------
(* Taking turns.                                                           *)

\* A step that starts no send, sends nothing and leaves the reservation of
\* whatever may still land.
LEMMA TurnsKept ==
  ASSUME Turns,
         \A w \in Workers : HasTurn(w)' => HasTurn(w) /\ mine'[w] = mine[w],
         \A t \in txs' : t.amount > paid' => t \in txs /\ t.amount > paid,
         \/ UNCHANGED pending
         \/ /\ \A w \in Workers : ~HasTurn(w)'
            /\ \A t \in txs' : ~(t.amount > paid')
  PROVE  Turns'
  BY DEF Turns, Reserves

\* Nobody may send or land any more what is abandoned.
LEMMA AbandonTurns ==
  ASSUME Types, Bounds, Turns, NEW w \in Workers, NEW known, Abandon(w, known),
         txs' = txs, UNCHANGED paid,
         known => HasTurn(w) \/ mine[w].left = 0 \/ mine[w].amount <= paid
  PROVE  Turns'
<1>. USE Numbers
<1>1. /\ pc'[w] \notin {"send", "reverted"}
      /\ \A v \in Workers \ {w} : pc'[v] = pc[v] /\ mine'[v] = mine[v]
  BY DEF Abandon, GoTo, Types
<1>2. \A v \in Workers : HasTurn(v)' => HasTurn(v) /\ mine'[v] = mine[v] /\ v # w
  BY <1>1 DEF HasTurn
<1>3. CASE UNCHANGED pending
  BY <1>2, <1>3, TurnsKept
<1>4. CASE known /\ IsMine(w)
  <2>1. CASE HasTurn(w)
    BY <1>2, <2>1, TurnsKept DEF Turns
  <2>2. CASE mine[w].amount <= paid
    <3>1. ~(pending.amount > paid)
      BY <1>4, <2>2 DEF IsMine
    <3>. QED
      BY <1>2, <3>1, TurnsKept DEF Turns, Reserves, HasTurn
  <2>. QED
    BY <1>4, <2>1, <2>2 DEF IsMine
<1>. QED
  BY <1>3, <1>4 DEF Abandon, TakesBack

\* A worker reserves only when nothing is reserved, and hands over its turn to
\* the transaction that it sends.
LEMMA WorkerTurns ==
  ASSUME Types, Bounds, Turns, NEW w \in Workers, Advance(w) \/ Renew(w) \/ Stop(w)
  PROVE  Turns'
<1>. USE Numbers
<1>1. ASSUME NEW s, s \notin {"send", "reverted"}, GoTo(w, s), UNCHANGED <<pending, paid, txs>>,
             \A v \in Workers \ {w} : mine'[v] = mine[v]
      PROVE  Turns'
  <2>1. pc'[w] = s /\ \A v \in Workers \ {w} : pc'[v] = pc[v]
    BY <1>1 DEF GoTo, Types
  <2>2. \A v \in Workers : HasTurn(v)' => HasTurn(v) /\ mine'[v] = mine[v]
    BY <1>1, <2>1 DEF HasTurn
  <2>. QED
    BY <1>1, <2>2, TurnsKept
<1>2. CASE Claim(w) \/ Release(w) \/ Complete(w)
  <2>1. UNCHANGED <<pending, paid, txs, mine>> /\ \E s : s \notin {"send", "reverted"} /\ GoTo(w, s)
    BY <1>2 DEF Claim, Release, Complete
  <2>. QED
    BY <1>1, <2>1
<1>3. CASE Choose(w)
  <2>1. CASE GoTo(w, "release") /\ UNCHANGED <<pending, mine>>
    BY <1>1, <1>3, <2>1 DEF Choose
  <2>2. CASE /\ pending.left = 0
             /\ pending' = [amount |-> record.spent, left |-> Validity + Skew]
             /\ mine' = [mine EXCEPT ![w] = [amount |-> record.spent, left |-> Validity]]
             /\ GoTo(w, "send")
    <3>1. UNCHANGED <<paid, txs>>
      BY <1>3 DEF Choose
    <3>2. \A v \in Workers : ~HasTurn(v)
      BY <2>2, Limits DEF Turns, Reserves, HasTurn
    <3>3. \A t \in txs : ~(t.amount > paid)
      BY <2>2, Limits DEF Turns, Reserves, Bounds
    <3>4. \A v \in Workers \ {w} : ~HasTurn(v)'
      BY <2>2, <3>1, <3>2 DEF HasTurn, GoTo, Types
    <3>5. Reserves(mine[w])'
      BY <2>2 DEF Reserves, Types
    <3>. QED
      BY <3>1, <3>3, <3>4, <3>5 DEF Turns
  <2>. QED
    BY <1>3, <2>1, <2>2 DEF Choose
<1>4. CASE Send(w)
  <2>1. pc[w] = "send" /\ UNCHANGED paid
    BY <1>4 DEF Send
  <2>2. CASE txs' = txs /\ \E known : Abandon(w, known)
    <3>1. HasTurn(w) \/ mine[w].left = 0 \/ mine[w].amount <= paid
      BY <2>1 DEF HasTurn
    <3>. QED
      BY <2>1, <2>2, <3>1, AbandonTurns
  <2>3. CASE /\ mine[w].left > 0 /\ txs' = txs \cup {Sent(w)} /\ UNCHANGED pending
             /\ GoTo(w, "wait") \/ GoTo(w, "release")
             /\ \A v \in Workers \ {w} : mine'[v] = mine[v]
    <3>1. pc'[w] \notin {"send", "reverted"} /\ \A v \in Workers \ {w} : pc'[v] = pc[v]
      BY <2>3 DEF GoTo, Types
    <3>2. \A v \in Workers : HasTurn(v)' => HasTurn(v) /\ mine'[v] = mine[v] /\ v # w
      BY <2>1, <2>3, <3>1 DEF HasTurn
    <3>3. CASE mine[w].amount > paid
      <4>1. HasTurn(w)
        BY <2>1, <2>3, <3>3 DEF HasTurn
      <4>2. \A v \in Workers : ~HasTurn(v)'
        BY <3>2, <4>1 DEF Turns
      <4>3. \A t \in txs' : t.amount > paid => t = Sent(w)
        BY <2>3, <4>1 DEF Turns
      <4>4. Reserves(Sent(w))
        BY <4>1 DEF Turns, Reserves, Sent
      <4>. QED
        BY <2>1, <2>3, <4>2, <4>3, <4>4 DEF Turns, Reserves
    <3>4. CASE ~(mine[w].amount > paid)
      <4>1. \A t \in txs' : t.amount > paid' => t \in txs /\ t.amount > paid
        BY <2>1, <2>3, <3>4 DEF Sent
      <4>. QED
        BY <2>3, <3>2, <4>1, TurnsKept
    <3>. QED
      BY <3>3, <3>4
  <2>4. \/ txs' = txs /\ \E known : Abandon(w, known)
        \/ /\ mine[w].left > 0 /\ txs' = txs \cup {Sent(w)}
           /\ \/ GoTo(w, "wait") /\ UNCHANGED <<pending, mine>>
              \/ Abandon(w, FALSE)
    BY <1>4 DEF Send
  <2>5. Abandon(w, FALSE) => /\ UNCHANGED pending /\ GoTo(w, "release")
                             /\ \A v \in Workers \ {w} : mine'[v] = mine[v]
    BY DEF Abandon, TakesBack, Types
  <2>. QED
    BY <2>2, <2>3, <2>4, <2>5
<1>5. CASE Confirm(w)
  <2>1. \/ GoTo(w, "record") /\ UNCHANGED <<pending, mine>>
        \/ pc[w] = "reverted" /\ Abandon(w, TRUE)
        \/ Abandon(w, FALSE)
    BY <1>5 DEF Confirm
  <2>2. UNCHANGED <<paid, txs>>
    BY <1>5 DEF Confirm
  <2>3. CASE GoTo(w, "record") /\ UNCHANGED <<pending, mine>>
    BY <1>1, <2>2, <2>3
  <2>4. CASE pc[w] = "reverted" /\ Abandon(w, TRUE)
    <3>1. HasTurn(w) \/ mine[w].left = 0 \/ mine[w].amount <= paid
      BY <2>4 DEF HasTurn
    <3>. QED
      BY <2>2, <2>4, <3>1, AbandonTurns
  <2>5. CASE Abandon(w, FALSE)
    BY <2>2, <2>5, AbandonTurns
  <2>. QED
    BY <2>1, <2>3, <2>4, <2>5
<1>6. CASE RecordSettled(w)
  <2>1. UNCHANGED <<paid, txs>> /\ \A v \in Workers \ {w} : mine'[v] = mine[v]
    BY <1>6 DEF RecordSettled, Types
  <2>2. \E s : s \notin {"send", "reverted"} /\ GoTo(w, s)
    BY <1>6 DEF RecordSettled
  <2>3. CASE UNCHANGED pending
    BY <1>1, <2>1, <2>2, <2>3
  <2>4. CASE pending.amount <= paid
    <3>1. \A v \in Workers : ~HasTurn(v)
      BY <2>4 DEF Turns, Reserves, HasTurn
    <3>2. \A t \in txs : ~(t.amount > paid)
      BY <2>4 DEF Turns, Reserves
    <3>3. \A v \in Workers : ~HasTurn(v)'
      BY <2>1, <2>2, <3>1 DEF HasTurn, GoTo, Types
    <3>. QED
      BY <2>1, <3>2, <3>3, TurnsKept
  <2>5. SettledBy(w) <= paid /\ SettledBy(w) \in Nat
    BY <1>6 DEF SettledBy, RecordSettled, Bounds, Confirmed
  <2>6. UNCHANGED pending \/ ~(pending.amount > SettledBy(w))
    BY <1>6 DEF RecordSettled
  <2>. QED
    BY <2>3, <2>4, <2>5, <2>6
<1>7. CASE Renew(w)
  BY <1>7, TurnsKept DEF Renew, HasTurn
<1>8. CASE Stop(w)
  <2>1. /\ UNCHANGED <<pending, paid, txs>> /\ GoTo(w, "idle")
        /\ \A v \in Workers \ {w} : mine'[v] = mine[v]
    BY <1>8 DEF Stop, Types
  <2>. QED
    BY <1>1, <2>1
<1>. QED
  BY <1>2, <1>3, <1>4, <1>5, <1>6, <1>7, <1>8 DEF Advance

\* Requests, reads and the chain leave reservations alone; time runs for the
\* reservation as for what relies on it.
LEMMA WorldTurns ==
  ASSUME Types, Bounds, Turns,
         \/ \E w \in Workers : Charge(w) \/ FindRequest(w) \/ FindCancelled(w) \/ Supervise(w)
         \/ MergeRead \/ (\E t \in txs : Land(t)) \/ Tick
  PROVE  Turns'
<1>. USE Numbers
<1>5. ASSUME NEW w \in Workers, FindCancelled(w) PROVE Turns'
  BY <1>5, TurnsKept DEF FindCancelled, HasTurn
<1>1. ASSUME NEW w \in Workers, Charge(w) \/ FindRequest(w) \/ Supervise(w) PROVE Turns'
  <2>1. UNCHANGED <<pending, mine, txs, paid>> /\ \E s : s \notin {"send", "reverted"} /\ GoTo(w, s)
    BY <1>1 DEF Charge, FindRequest, Supervise
  <2>2. \A v \in Workers : HasTurn(v)' => HasTurn(v)
    BY <2>1 DEF HasTurn, GoTo, Types
  <2>. QED
    BY <2>1, <2>2, TurnsKept
<1>2. CASE MergeRead
  BY <1>2, TurnsKept DEF MergeRead, HasTurn
<1>3. ASSUME NEW t \in txs, Land(t) PROVE Turns'
  <2>1. UNCHANGED <<pending, mine>> /\ txs' = txs \ {t} /\ paid <= paid' /\ paid' \in Nat
    BY <1>3 DEF Land
  <2>2. \A u \in txs' : u.amount > paid' => u \in txs /\ u.amount > paid
    BY <2>1
  <2>3. \A v \in Workers :
          \/ pc'[v] = pc[v]
          \/ pc'[v] = "captured"
          \/ pc'[v] = "reverted" /\ Sent(v) = t /\ paid' = paid
    <3>1. \/ pc' = pc
          \/ pc' = [pc EXCEPT ![t.by] = "captured"]
          \/ Sent(t.by) = t /\ pc' = [pc EXCEPT ![t.by] = "reverted"] /\ paid' = paid
      <4>1. Outcome(t, "captured") \/ (Outcome(t, "reverted") /\ paid' = paid)
        BY <1>3 DEF Land
      <4>2. ASSUME NEW step, Outcome(t, step)
            PROVE  pc' = pc \/ (Sent(t.by) = t /\ pc' = [pc EXCEPT ![t.by] = step])
        BY <4>2 DEF Outcome
      <4>. QED
        BY <4>1, <4>2
    <3>. QED
      BY <3>1 DEF Types
  <2>4. CASE t.amount <= paid \/ \A v \in Workers : pc'[v] = "reverted" => pc[v] = "reverted"
    <3>1. \A v \in Workers : HasTurn(v)' => HasTurn(v) /\ mine'[v] = mine[v]
      BY <2>1, <2>3, <2>4 DEF HasTurn, Sent
    <3>. QED
      BY <2>1, <2>2, <3>1, TurnsKept
  <2>5. ASSUME t.amount > paid, NEW w \in Workers, pc'[w] = "reverted", pc[w] # "reverted"
        PROVE  Turns'
    <3>1. Sent(w) = t /\ paid' = paid
      BY <2>3, <2>5
    <3>2. Reserves(mine[w])
      BY <2>5, <3>1 DEF Turns, Reserves, Sent
    <3>3. \A v \in Workers : ~HasTurn(v)
      BY <2>5 DEF Turns
    <3>4. \A v \in Workers : HasTurn(v)' => v = w
      BY <2>1, <2>3, <3>1, <3>3 DEF HasTurn, Sent
    <3>5. \A u \in txs' : ~(u.amount > paid')
      BY <2>1, <2>5, <3>1 DEF Turns
    <3>. QED
      BY <2>1, <3>2, <3>4, <3>5 DEF Turns, Reserves
  <2>. QED
    BY <2>4, <2>5
<1>4. CASE Tick
  <2>1. /\ UNCHANGED <<pc, paid>>
        /\ pending'.amount = pending.amount /\ pending'.left = Less(pending.left)
    BY <1>4 DEF Tick, Types, Settlement
  <2>2. \A w \in Workers : mine'[w].amount = mine[w].amount /\ mine'[w].left = Less(mine[w].left)
    BY <1>4 DEF Tick, Settlement
  <2>3. \A t \in txs' : \E u \in txs : /\ t = [u EXCEPT !.left = @ - 1]
                                     /\ t.amount = u.amount /\ t.left = u.left - 1
    <3>1. \A u \in txs : /\ [u EXCEPT !.left = @ - 1].amount = u.amount
                         /\ [u EXCEPT !.left = @ - 1].left = u.left - 1
      BY DEF Transaction
    <3>2. txs' = {[t EXCEPT !.left = @ - 1] : t \in txs \ Expired}
      BY <1>4 DEF Tick
    <3>. QED
      BY <3>1, <3>2
  <2>4. \A w \in Workers : HasTurn(w)' => HasTurn(w)
    BY <2>1, <2>2 DEF HasTurn, Less
  <2>5. \A w \in Workers : HasTurn(w)' => Reserves(mine[w])'
    <3>. SUFFICES ASSUME NEW w \in Workers, HasTurn(w)' PROVE Reserves(mine[w])'
      OBVIOUS
    <3>1. pending.amount = mine[w].amount /\ pending.left = mine[w].left + Skew
      BY <2>4 DEF Turns, Reserves
    <3>2. mine[w].left > 0
      BY <2>4 DEF HasTurn
    <3>. QED
      BY <2>1, <2>2, <3>1, <3>2, Limits DEF Reserves, Less
  <2>6. \A t \in txs' : t.amount > paid' => Reserves(t)'
    <3>. SUFFICES ASSUME NEW t \in txs', t.amount > paid PROVE Reserves(t)'
      BY <2>1
    <3>1. PICK u \in txs : t.amount = u.amount /\ t.left = u.left - 1
      BY <2>3
    <3>2. pending.amount = u.amount /\ pending.left = u.left + Skew /\ u.left > 0
      BY <3>1 DEF Turns, Reserves, Bounds
    <3>. QED
      BY <2>1, <3>1, <3>2, Limits DEF Reserves, Less
  <2>7. \A w \in Workers, t \in txs' : ~(HasTurn(w)' /\ t.amount > paid')
    BY <2>1, <2>3, <2>4 DEF Turns
  <2>8. \A t, u \in txs' : t.amount > paid' /\ u.amount > paid' => t = u
    BY <2>1, <2>3 DEF Turns
  <2>. QED
    BY <2>4, <2>5, <2>6, <2>7, <2>8 DEF Turns
<1>. QED
  BY <1>1, <1>2, <1>3, <1>4, <1>5

-----------------------------------------------------------------------------
(* Theorems.                                                               *)

LEMMA InitSchedule == Init => ScheduleInv
<1>. SUFFICES ASSUME Init PROVE ScheduleInv
  OBVIOUS
<1>. USE Limits
<1>1. Types
  BY SettlementTypes, FS_EmptySet DEF Init, Types, Record, NoLease, Steps
<1>2. Bounds
  BY DEF Init, Bounds, NoPending
<1>3. Turns
  BY DEF Init, Turns, HasTurn
<1>. QED
  BY <1>1, <1>2, <1>3 DEF ScheduleInv

LEMMA ScheduleStep == ScheduleInv /\ [Next]_vars => ScheduleInv'
<1>. SUFFICES ASSUME ScheduleInv, [Next]_vars PROVE ScheduleInv'
  OBVIOUS
<1>1. Types /\ Bounds /\ Turns
  BY DEF ScheduleInv
<1>2. ASSUME NEW w \in Workers, Advance(w) \/ Renew(w) \/ Stop(w) PROVE ScheduleInv'
  BY <1>1, <1>2, WorkerTypes, WorkerBounds, WorkerTurns DEF ScheduleInv
<1>3. CASE \/ \E w \in Workers : Charge(w) \/ FindRequest(w) \/ FindCancelled(w) \/ Supervise(w)
           \/ MergeRead \/ (\E t \in txs : Land(t)) \/ Tick
  BY <1>1, <1>3, WorldTypes, WorldBounds, WorldTurns DEF ScheduleInv
<1>4. CASE UNCHANGED vars
  BY <1>1, <1>4 DEF vars, ScheduleInv, Types, Bounds, Turns, HasTurn, Reserves
<1>. QED
  BY <1>2, <1>3, <1>4 DEF Next

\* The invariant, of any number of workers, every schedule and every validity.
THEOREM ScheduleSafe == Spec => []ScheduleInv
  BY InitSchedule, ScheduleStep, PTL DEF Spec

\* Types; and the record never says that more is settled than the escrow paid,
\* nor did the escrow pay more than was spent.
THEOREM ScheduleTypeCorrect == Spec => []TypeOK
<1>1. ScheduleInv => TypeOK
  <2>. SUFFICES ASSUME ScheduleInv PROVE TypeOK
    OBVIOUS
  <2>1. record.settled <= paid /\ paid <= record.spent
    BY DEF ScheduleInv, Bounds
  <2>2. /\ record.spent \in 0..MaxSpend /\ record.age \in 0..Interval
        /\ record.closing \in BOOLEAN /\ lease.left \in 0..LeaseTime
    BY DEF ScheduleInv, Types, Record
  <2>. QED
    BY <2>1, <2>2 DEF ScheduleInv, Types, TypeOK, Steps
<1>. QED
  BY <1>1, ScheduleSafe, PTL

\* Spend that no settlement captured always counts towards the next one, although
\* charges go on while a settlement is sent, and receipts are lost.
THEOREM SpendStaysCounted == Spec => []NoSpendForgotten
<1>1. ScheduleInv => NoSpendForgotten
  BY DEF ScheduleInv, Bounds, NoSpendForgotten, CountsFrom
<1>. QED
  BY <1>1, ScheduleSafe, PTL

\* Settlements capture in turn, although workers outlive their leases.
THEOREM CapturesTakeTurns == Spec => []OneMayCapture
<1>1. ScheduleInv => OneMayCapture
  <2>. SUFFICES ASSUME ScheduleInv PROVE OneMayCapture
    OBVIOUS
  <2>. DEFINE live == {t \in txs : t.amount > paid}
  <2>1. \A t, u \in live : t = u
    BY DEF ScheduleInv, Turns
  <2>2. CASE live = {}
    BY <2>2, FS_EmptySet DEF OneMayCapture
  <2>3. ASSUME NEW t \in live PROVE OneMayCapture
    <3>1. live = {t}
      BY <2>1
    <3>2. Cardinality(live) = 1
      BY <3>1, FS_Singleton
    <3>. QED
      BY <3>2 DEF OneMayCapture
  <2>. QED
    BY <2>2, <2>3
<1>. QED
  BY <1>1, ScheduleSafe, PTL
=============================================================================
