----------------------- MODULE SessionSponsorshipProofs -----------------------
(* What the sponsorship of sessions never signs nor sends, for any number of    *)
(* workers, payers and transactions, and every limit.                           *)
EXTENDS SessionSponsorship, FiniteSetTheorems, WellFoundedInduction, TLAPS

-----------------------------------------------------------------------------
(* The inductive invariant.                                                     *)

Pcs == {"idle", "limited", "validate", "simulate", "cosign", "check", "reserve", "send",
        "release"}

Day == 0..DayOf(MaxTime)

Job == [pc : Pcs, tx : Txs \cup {NoTx}, day : Day, slot : Slots \cup {NoSlot}, at : Nat]

\* A worker that reserved a slot and has not yet used it or given it back.
Holds(job) == job.pc \notin {"idle", "limited"}

Shape ==
  /\ now \in 0..MaxTime
  /\ usage \in [Payers -> [day : Day, count : [Actions -> 0..PerDay]]]
  /\ sent \in [Slots -> Nat]
  /\ worker \in [Workers -> Job]
  /\ \A w \in Workers : worker[w].pc # "idle" => worker[w].tx \in Txs

\* The slot is of the worker's payer and action, and of a day between the one the
\* worker began on and the one the record is of.
SlotsFit ==
  \A w \in Workers : Holds(worker[w]) =>
    /\ worker[w].slot \in Slots
    /\ worker[w].slot.payer = Tx(w).payer /\ worker[w].slot.action = Tx(w).action
    /\ worker[w].day <= worker[w].slot.day
    /\ worker[w].slot.day <= usage[Tx(w).payer].day

\* What the record still counts of a slot: the day it is of, an older day, for
\* which the limit stands, or one that it has not come to.
Counted(s) ==
  IF usage[s.payer].day = s.day THEN usage[s.payer].count[s.action]
  ELSE IF usage[s.payer].day > s.day THEN PerDay ELSE 0

Holders(jobs, s) == {w \in Workers : Holds(jobs[w]) /\ jobs[w].slot = s}

\* Sent on a slot, or still held: no more than the record counts.
SlotsCounted ==
  \A s \in Slots : sent[s] + Cardinality(Holders(worker, s)) <= Counted(s)

\* What a worker goes on with was accepted.
Accepted == \A w \in Workers : CoSigned(w) => WithinPolicy(Tx(w).gas, Tx(w).price)

DayInv == Shape /\ SlotsFit /\ SlotsCounted /\ Accepted

-----------------------------------------------------------------------------
(* Arithmetic.                                                                  *)

\* A quotient times its divisor is no more than what was divided.
LEMMA QuotientBelow ==
  ASSUME NEW n \in Nat, NEW d \in Nat, d > 0
  PROVE  n \div d \in Nat /\ (n \div d) * d <= n
  OBVIOUS

\* Days do not run backwards.
LEMMA DayMonotone ==
  ASSUME NEW m \in Nat, NEW n \in Nat, m <= n
  PROVE  DayOf(m) \in Nat /\ DayOf(n) \in Nat /\ DayOf(m) <= DayOf(n)
  BY SponsorshipAssumption DEF DayOf

\* Less gas at the same price costs no more.
LEMMA ProductMonotone ==
  ASSUME NEW m \in Nat, NEW n \in Nat, NEW d \in Nat, m <= n
  PROVE  m * d <= n * d
  OBVIOUS

\* The copy that is only simulated stays within the policy (sponsored_simulation_gas).
LEMMA SimulationWithin ==
  ASSUME NEW gas \in Nat, NEW price \in Nat, WithinPolicy(gas, price)
  PROVE  WithinPolicy(SimulationGas(gas, price), price)
<1> DEFINE padded == Padded(gas)
           most == Affordable(padded, price)
<1>1. padded \in Nat /\ padded <= MaxGas
  BY PolicyAssumption DEF Padded, Lesser
<1>2. most \in Nat /\ most <= MaxGas /\ most * price <= MaxTotalFee
  <2>1. CASE price > 0
    <3>1. MaxTotalFee \div price \in Nat /\ (MaxTotalFee \div price) * price <= MaxTotalFee
      BY <2>1, QuotientBelow, PolicyAssumption
    <3>2. most \in Nat /\ most <= padded /\ most <= MaxTotalFee \div price
      BY <1>1, <2>1, <3>1 DEF Affordable, Lesser
    <3>3. most * price <= (MaxTotalFee \div price) * price
      BY <3>1, <3>2, ProductMonotone
    <3> HIDE DEF padded, most
    <3> QED  BY <1>1, <3>1, <3>2, <3>3, PolicyAssumption
  <2>2. CASE price = 0
    <3>1. most = padded
      BY <2>2 DEF Affordable
    <3>2. most * price = 0
      BY <1>1, <2>2, <3>1
    <3> QED  BY <1>1, <3>1, <3>2, PolicyAssumption
  <2> QED  BY <2>1, <2>2
<1>3. SimulationGas(gas, price) \in {most, gas}
  BY DEF SimulationGas, Greater
<1> QED  BY <1>2, <1>3 DEF WithinPolicy
-----------------------------------------------------------------------------
(* Counting holders.                                                            *)

\* The workers that hold a slot are finitely many.
LEMMA HoldersFinite ==
  ASSUME NEW jobs, NEW s
  PROVE  IsFiniteSet(Holders(jobs, s)) /\ Cardinality(Holders(jobs, s)) \in Nat
<1>1. Holders(jobs, s) \in SUBSET Workers
  BY DEF Holders
<1> QED  BY <1>1, FS_Subset, FS_CardinalityType, SponsorshipAssumption

\* When no worker takes a slot, no slot has more holders.
LEMMA NoneEnters ==
  ASSUME NEW f, NEW g, NEW s,
         \A v \in Workers : Holds(g[v]) => Holds(f[v]) /\ g[v].slot = f[v].slot
  PROVE  Cardinality(Holders(g, s)) <= Cardinality(Holders(f, s))
<1>1. Holders(g, s) \in SUBSET Holders(f, s)
  BY DEF Holders
<1> QED  BY <1>1, FS_Subset, HoldersFinite

\* A worker that is done with its slot is a holder less.
LEMMA OneLeaves ==
  ASSUME NEW f, NEW g, NEW s, NEW w \in Workers, Holds(f[w]), f[w].slot = s, ~Holds(g[w]),
         \A v \in Workers \ {w} : g[v] = f[v]
  PROVE  Cardinality(Holders(g, s)) = Cardinality(Holders(f, s)) - 1
<1>1. Holders(g, s) = Holders(f, s) \ {w} /\ w \in Holders(f, s)
  BY DEF Holders
<1>2. IsFiniteSet(Holders(f, s)) /\ Cardinality(Holders(f, s)) \in Nat
  BY HoldersFinite
<1>3. Cardinality(Holders(f, s) \ {w}) = Cardinality(Holders(f, s)) - 1
  BY <1>1, <1>2, FS_RemoveElement
<1> QED  BY <1>1, <1>3

\* A worker that reserves a slot is a holder more of this slot, and of no other.
LEMMA OneEnters ==
  ASSUME NEW f, NEW g, NEW s, NEW w \in Workers, ~Holds(f[w]), Holds(g[w]),
         \A v \in Workers \ {w} : g[v] = f[v]
  PROVE  Cardinality(Holders(g, s)) =
           IF g[w].slot = s THEN Cardinality(Holders(f, s)) + 1 ELSE Cardinality(Holders(f, s))
<1>1. w \notin Holders(f, s)
  BY DEF Holders
<1>2. Holders(g, s) = IF g[w].slot = s THEN Holders(f, s) \cup {w} ELSE Holders(f, s)
  BY <1>1 DEF Holders
<1> QED  BY <1>1, <1>2, FS_AddElement, HoldersFinite
-----------------------------------------------------------------------------
(* Initially.                                                                   *)

\* The invariant holds before anything was presented.
LEMMA DayInvInit == Init => DayInv
<1> SUFFICES ASSUME Init PROVE DayInv
  OBVIOUS
<1> USE DEF Init
<1>1. DayOf(MaxTime) \in Nat
  BY DayMonotone, SponsorshipAssumption
<1>2. \A w \in Workers : worker[w] = Idle
  OBVIOUS
<1>3. Shape
  <2>1. Idle \in Job
    BY <1>1 DEF Idle, Job, Day, Pcs
  <2>2. usage \in [Payers -> [day : Day, count : [Actions -> 0..PerDay]]]
    BY <1>1, SponsorshipAssumption DEF Day
  <2>3. now \in 0..MaxTime
    BY SponsorshipAssumption
  <2> QED  BY <1>2, <2>1, <2>2, <2>3 DEF Shape, Idle
<1>4. \A w \in Workers : ~Holds(worker[w])
  BY <1>2 DEF Holds, Idle
<1>5. SlotsFit
  BY <1>4 DEF SlotsFit
<1>6. SlotsCounted
  <2> SUFFICES ASSUME NEW s \in Slots
               PROVE  sent[s] + Cardinality(Holders(worker, s)) <= Counted(s)
    BY DEF SlotsCounted
  <2>1. Holders(worker, s) = {}
    BY <1>4 DEF Holders
  <2>2. Cardinality(Holders(worker, s)) = 0
    BY <2>1, FS_EmptySet
  <2>3. s.payer \in Payers /\ s.action \in Actions
    BY DEF Slots
  <2>4. Counted(s) \in Nat
    BY <2>3, SponsorshipAssumption DEF Counted
  <2> QED  BY <2>2, <2>4
<1>7. Accepted
  BY <1>2 DEF Accepted, CoSigned, Idle
<1> QED  BY <1>3, <1>5, <1>6, <1>7 DEF DayInv

-----------------------------------------------------------------------------
(* Steps that leave the records alone.                                          *)

\* A worker with a slot goes on with its transaction, accepted if it is to be sent.
Goes(w) ==
  /\ w \in Workers /\ Holds(worker[w]) /\ Holds(worker'[w])
  /\ worker' \in [Workers -> Job]
  /\ \A v \in Workers \ {w} : worker'[v] = worker[v]
  /\ worker'[w].tx = worker[w].tx /\ worker'[w].day = worker[w].day
  /\ worker'[w].slot = worker[w].slot
  /\ CoSigned(w)' => CoSigned(w) \/ WithinPolicy(Tx(w).gas, Tx(w).price)
  /\ UNCHANGED <<now, usage, sent>>

\* Where nothing is counted and nobody takes a slot, the count still suffices.
LEMMA CountedKept ==
  ASSUME SlotsCounted, Shape, UNCHANGED <<usage, sent>>,
         \A v \in Workers : Holds(worker'[v]) => Holds(worker[v]) /\ worker'[v].slot = worker[v].slot
  PROVE  SlotsCounted'
<1> SUFFICES ASSUME NEW s \in Slots
             PROVE  sent[s] + Cardinality(Holders(worker', s)) <= Counted(s)
  BY DEF SlotsCounted, Counted, Holders
<1>1. Cardinality(Holders(worker', s)) <= Cardinality(Holders(worker, s))
  BY NoneEnters
<1>2. Cardinality(Holders(worker', s)) \in Nat /\ Cardinality(Holders(worker, s)) \in Nat
  BY HoldersFinite
<1>3. sent[s] \in Nat /\ sent[s] + Cardinality(Holders(worker, s)) <= Counted(s)
  BY DEF SlotsCounted, Shape
<1>4. Counted(s) \in Int
  BY SponsorshipAssumption DEF Counted, Shape, Slots
<1> QED  BY <1>1, <1>2, <1>3, <1>4

\* A worker that goes on with its transaction and its slot keeps the invariant.
LEMMA GoesKeeps ==
  ASSUME DayInv, NEW w, Goes(w)
  PROVE  DayInv'
<1>1. \A v \in Workers :
        /\ worker'[v].tx = worker[v].tx /\ worker'[v].day = worker[v].day
        /\ worker'[v].slot = worker[v].slot
        /\ Holds(worker'[v]) <=> Holds(worker[v])
        /\ worker'[v].pc # "idle" <=> worker[v].pc # "idle"
  BY DEF Goes, Holds
<1>2. Shape'
  BY <1>1 DEF Goes, DayInv, Shape
<1>3. SlotsFit'
  BY <1>1 DEF Goes, DayInv, SlotsFit, Tx
<1>4. SlotsCounted'
  BY <1>1, CountedKept DEF Goes, DayInv
<1>5. Accepted'
  BY <1>1 DEF Goes, DayInv, Accepted, CoSigned, Tx
<1> QED  BY <1>2, <1>3, <1>4, <1>5 DEF DayInv

\* A call that ends keeps its slot counted.
LEMMA EndKeeps ==
  ASSUME DayInv, NEW w \in Workers, End(w), UNCHANGED <<now, usage, sent>>
  PROVE  DayInv'
<1>1. worker' = [worker EXCEPT ![w] = Idle] /\ worker \in [Workers -> Job]
  BY DEF End, DayInv, Shape
<1>2. worker'[w] = Idle /\ \A v \in Workers \ {w} : worker'[v] = worker[v]
  BY <1>1
<1>3. Idle \in Job /\ ~Holds(Idle)
  <2>1. DayOf(MaxTime) \in Nat
    BY DayMonotone, SponsorshipAssumption
  <2> QED  BY <2>1 DEF Idle, Job, Day, Pcs, Holds
<1>4. Shape'
  BY <1>1, <1>2, <1>3 DEF DayInv, Shape, Idle
<1>5. SlotsFit'
  BY <1>2, <1>3 DEF DayInv, SlotsFit, Tx
<1>6. SlotsCounted'
  BY <1>2, <1>3, CountedKept DEF DayInv
<1>7. Accepted'
  BY <1>2 DEF DayInv, Accepted, CoSigned, Tx, Idle
<1> QED  BY <1>4, <1>5, <1>6, <1>7 DEF DayInv
-----------------------------------------------------------------------------
(* Steps that count: a slot is reserved, given back, or used.                    *)

\* A credential is presented: the worker begins, on the day of the clock.
LEMMA PresentKeeps ==
  ASSUME DayInv, NEW w \in Workers, NEW tx \in Txs, Present(w, tx)
  PROVE  DayInv'
<1>1. CASE UNCHANGED worker
  BY <1>1 DEF Present, Records, Chain, DayInv, Shape, SlotsFit, SlotsCounted, Counted, Holders,
              Accepted, CoSigned, Tx
<1>2. CASE worker' = [worker EXCEPT ![w] = [Idle EXCEPT !.pc = "limited", !.tx = tx,
                                                        !.day = DayOf(now)]]
  <2> DEFINE job == [pc |-> "limited", tx |-> tx, day |-> DayOf(now), slot |-> NoSlot, at |-> 0]
  <2>1. DayOf(now) \in Day
    <3>1. now \in Nat /\ now <= MaxTime
      BY SponsorshipAssumption DEF DayInv, Shape
    <3> QED  BY <3>1, DayMonotone, SponsorshipAssumption DEF Day
  <2>2. job \in Job /\ ~Holds(job)
    BY <2>1 DEF Job, Pcs, Holds
  <2>3. /\ worker' \in [Workers -> Job] /\ worker'[w] = job
        /\ \A v \in Workers \ {w} : worker'[v] = worker[v]
    BY <1>2, <2>2 DEF DayInv, Shape, Idle
  <2>4. UNCHANGED <<now, usage, sent>>
    BY DEF Present, Records, Chain
  <2>5. Shape'
    BY <2>3, <2>4 DEF DayInv, Shape
  <2>6. SlotsFit'
    BY <2>2, <2>3, <2>4 DEF DayInv, SlotsFit, Tx
  <2>7. SlotsCounted'
    BY <2>2, <2>3, <2>4, CountedKept DEF DayInv
  <2>8. Accepted'
    BY <2>3, <2>4 DEF DayInv, Accepted, CoSigned, Tx
  <2> QED  BY <2>5, <2>6, <2>7, <2>8 DEF DayInv
<1> QED  BY <1>1, <1>2 DEF Present

\* A slot is reserved: one more is counted, and one more holds it.
LEMMA ReserveSlotKeeps ==
  ASSUME DayInv, NEW w \in Workers, ReserveSlot(w)
  PROVE  DayInv'
<1> DEFINE p == Tx(w).payer
           a == Tx(w).action
           u == UsageOn(p, worker[w].day)
<1>1. /\ worker[w] \in Job /\ worker[w].pc = "limited" /\ ~Holds(worker[w])
      /\ p \in Payers /\ a \in Actions
      /\ usage[p] \in [day : Day, count : [Actions -> 0..PerDay]]
  BY SponsorshipAssumption DEF ReserveSlot, At, DayInv, Shape, Holds, Tx, Payers
<1>2. CASE u.count[a] >= PerDay
  <2>1. End(w) /\ UNCHANGED <<now, usage, sent>>
    BY <1>2 DEF ReserveSlot, Chain, Counts
  <2> QED  BY <2>1, EndKeeps
<1>3. CASE ~(u.count[a] >= PerDay)
  <2> DEFINE slot == [payer |-> p, action |-> a, day |-> u.day]
  <2>1. /\ usage' = [usage EXCEPT ![p] = [u EXCEPT !.count[a] = @ + 1]]
        /\ worker' = [worker EXCEPT ![w].pc = "validate", ![w].slot = slot]
        /\ UNCHANGED <<now, sent>>
    BY <1>3 DEF ReserveSlot, Chain, Counts
  <2>2. u \in [day : Day, count : [Actions -> 0..PerDay]]
    BY <1>1, SponsorshipAssumption DEF UsageOn, Job
  <2>3. worker[w].day <= u.day /\ usage[p].day <= u.day
    BY <1>1 DEF UsageOn, Job, Day
  <2>4. u.day = usage[p].day => u = usage[p]
    BY <1>1 DEF UsageOn, Job, Day
  <2>5. slot \in Slots
    BY <1>1, <2>2 DEF Slots, Day
  <2>6. /\ usage'[p].day = u.day
        /\ \A b \in Actions : usage'[p].count[b] = IF b = a THEN u.count[a] + 1 ELSE u.count[b]
        /\ \A q \in Payers \ {p} : usage'[q] = usage[q]
        /\ usage' \in [Payers -> [day : Day, count : [Actions -> 0..PerDay]]]
    <3>1. u.count[a] + 1 \in 0..PerDay
      BY <1>1, <1>3, <2>2, SponsorshipAssumption
    <3>2. [u EXCEPT !.count[a] = @ + 1] \in [day : Day, count : [Actions -> 0..PerDay]]
      BY <2>2, <3>1
    <3> QED  BY <1>1, <2>1, <2>2, <3>2 DEF DayInv, Shape
  <2>7. /\ worker' \in [Workers -> Job]
        /\ worker'[w].pc = "validate" /\ worker'[w].slot = slot
        /\ worker'[w].tx = worker[w].tx /\ worker'[w].day = worker[w].day
        /\ \A v \in Workers \ {w} : worker'[v] = worker[v]
    BY <1>1, <2>1, <2>5 DEF DayInv, Shape, Job, Pcs
  <2>8. Holds(worker'[w])
    BY <2>7 DEF Holds
  <2> HIDE DEF u, slot
  <2>9. Shape'
    BY <1>1, <2>1, <2>6, <2>7 DEF DayInv, Shape
  <2>10. SlotsFit'
    <3> SUFFICES ASSUME NEW v \in Workers, Holds(worker'[v])
                 PROVE  /\ worker'[v].slot \in Slots
                        /\ worker'[v].slot.payer = worker'[v].tx.payer
                        /\ worker'[v].slot.action = worker'[v].tx.action
                        /\ worker'[v].day <= worker'[v].slot.day
                        /\ worker'[v].slot.day <= usage'[worker'[v].tx.payer].day
      BY DEF SlotsFit, Tx
    <3>1. CASE v = w
      BY <2>2, <2>3, <2>5, <2>6, <2>7, <3>1 DEF slot, Tx, Day
    <3>2. CASE v # w
      <4>1. worker'[v] = worker[v] /\ worker[v].tx.payer \in Payers
        BY <2>7, <3>2 DEF DayInv, Shape, Holds, Payers
      <4>2. worker[v].slot.day <= usage[worker[v].tx.payer].day /\ worker[v].slot \in Slots
        BY <4>1 DEF DayInv, SlotsFit, Tx
      <4>3. usage[worker[v].tx.payer].day <= usage'[worker[v].tx.payer].day
        <5>1. CASE worker[v].tx.payer = p
          BY <2>3, <2>6, <5>1
        <5>2. CASE worker[v].tx.payer # p
          <6>1. usage'[worker[v].tx.payer] = usage[worker[v].tx.payer]
            BY <2>6, <4>1, <5>2
          <6>2. usage[worker[v].tx.payer].day \in Int
            BY <4>1 DEF DayInv, Shape, Day
          <6> QED  BY <6>1, <6>2
        <5> QED  BY <5>1, <5>2
      <4>4. /\ worker[v].slot.day \in Int
            /\ usage[worker[v].tx.payer].day \in Int /\ usage'[worker[v].tx.payer].day \in Int
        BY <2>6, <4>1, <4>2 DEF DayInv, Shape, Day, Slots
      <4> QED  BY <4>1, <4>2, <4>3, <4>4 DEF DayInv, SlotsFit, Tx
    <3> QED  BY <3>1, <3>2
  <2>11. SlotsCounted'
    <3> SUFFICES ASSUME NEW s \in Slots
                 PROVE  sent[s] + Cardinality(Holders(worker', s)) <= Counted(s)'
      BY <2>1 DEF SlotsCounted, Counted, Holders
    <3>1. Cardinality(Holders(worker', s)) =
            IF slot = s THEN Cardinality(Holders(worker, s)) + 1 ELSE Cardinality(Holders(worker, s))
      BY <1>1, <2>7, <2>8, OneEnters
    <3>2. Cardinality(Holders(worker, s)) \in Nat
      BY HoldersFinite
    <3>3. sent[s] \in Nat /\ sent[s] + Cardinality(Holders(worker, s)) <= Counted(s)
      BY DEF DayInv, SlotsCounted, Shape
    <3>4. s.payer \in Payers /\ s.action \in Actions /\ s.day \in Int
      BY DEF Slots
    <3>5. /\ usage[s.payer].day \in Int /\ usage[s.payer].count[s.action] \in 0..PerDay
          /\ usage'[s.payer].day \in Int /\ usage'[s.payer].count[s.action] \in 0..PerDay
      BY <2>6, <3>4 DEF DayInv, Shape, Day
    <3>6. CASE slot = s
      <4>1. s.payer = p /\ s.action = a /\ s.day = u.day
        BY <3>6 DEF slot
      <4>2. Counted(s)' = u.count[a] + 1
        BY <1>1, <2>6, <4>1 DEF Counted
      <4>3. CASE usage[p].day = u.day
        BY <2>4, <3>1, <3>2, <3>3, <3>5, <3>6, <4>1, <4>2, <4>3 DEF Counted
      <4>4. CASE usage[p].day < u.day
        <5>1. Counted(s) = 0
          BY <3>4, <3>5, <4>1, <4>4 DEF Counted
        <5>2. u.count[a] \in Nat
          BY <1>1, <2>2
        <5> QED  BY <3>1, <3>2, <3>3, <3>6, <4>2, <5>1, <5>2
      <4> QED  BY <2>2, <2>3, <3>4, <3>5, <4>1, <4>3, <4>4
    <3>7. CASE slot # s
      <4>1. Counted(s) <= Counted(s)'
        <5>1. CASE s.payer # p
          <6>1. usage'[s.payer] = usage[s.payer]
            BY <2>6, <3>4, <5>1
          <6> QED  BY <3>4, <3>5, <6>1, SponsorshipAssumption DEF Counted
        <5>2. CASE s.payer = p /\ usage[p].day = u.day
          <6>1. usage'[p].day = usage[p].day
            BY <2>6, <5>2
          <6>2. usage[p].count[s.action] <= usage'[p].count[s.action]
            <7>1. usage'[p].count[s.action] \in {u.count[s.action], u.count[s.action] + 1}
              BY <2>6, <3>4
            <7>2. u.count[s.action] = usage[p].count[s.action]
              BY <2>4, <5>2
            <7>3. usage[p].count[s.action] \in Int
              BY <3>5, <5>2
            <7> QED  BY <7>1, <7>2, <7>3
          <6> QED  BY <3>4, <3>5, <5>2, <6>1, <6>2, SponsorshipAssumption DEF Counted
        <5>3. CASE s.payer = p /\ usage[p].day < u.day
          <6>1. usage[p].day < usage'[p].day
            BY <2>6, <5>3
          <6>2. Counted(s) <= PerDay
            BY <3>5, SponsorshipAssumption DEF Counted
          <6>3. s.day <= usage[p].day => Counted(s)' = PerDay
            BY <3>4, <3>5, <5>3, <6>1 DEF Counted
          <6>4. s.day > usage[p].day => Counted(s) = 0 /\ Counted(s)' >= 0
            BY <3>4, <3>5, <5>3, SponsorshipAssumption DEF Counted
          <6>5. s.day <= usage[p].day \/ s.day > usage[p].day
            BY <3>4, <3>5, <5>3
          <6> QED  BY <6>2, <6>3, <6>4, <6>5
        <5>4. usage[p].day \in Int /\ u.day \in Int
          BY <1>1, <2>2 DEF Day
        <5>5. usage[p].day = u.day \/ usage[p].day < u.day
          BY <2>3, <5>4
        <5> QED  BY <5>1, <5>2, <5>3, <5>5
      <4>2. Counted(s) \in Int /\ Counted(s)' \in Int
        BY <3>4, <3>5, SponsorshipAssumption DEF Counted
      <4> QED  BY <3>1, <3>2, <3>3, <3>7, <4>1, <4>2
    <3> QED  BY <3>6, <3>7
  <2>12. Accepted'
    BY <2>7 DEF DayInv, Accepted, CoSigned, Tx
  <2> QED  BY <2>9, <2>10, <2>11, <2>12 DEF DayInv
<1> QED  BY <1>2, <1>3

\* A slot is given back only on its own day, on which the record still counts it.
LEMMA ReleaseKeeps ==
  ASSUME DayInv, NEW w \in Workers, Release(w)
  PROVE  DayInv'
<1> DEFINE p == Tx(w).payer
           a == Tx(w).action
           slot == worker[w].slot
<1>1. /\ worker[w] \in Job /\ worker[w].pc = "release" /\ Holds(worker[w])
      /\ p \in Payers /\ a \in Actions
      /\ usage[p] \in [day : Day, count : [Actions -> 0..PerDay]]
  BY SponsorshipAssumption DEF Release, At, DayInv, Shape, Holds, Tx, Payers
<1>2. /\ slot \in Slots /\ slot.payer = p /\ slot.action = a
      /\ worker[w].day <= slot.day /\ slot.day <= usage[p].day
  BY <1>1 DEF DayInv, SlotsFit
<1>3. End(w) /\ UNCHANGED <<now, sent>>
  BY DEF Release, Chain, Counts
<1>4. CASE UNCHANGED usage
  BY <1>3, <1>4, EndKeeps
<1>5. CASE GivesBack(usage[p], w) /\ usage' = [usage EXCEPT ![p].count[a] = @ - 1]
  <2>1. usage[p].day = slot.day /\ usage[p].count[a] > 0
    BY <1>1, <1>2, <1>5 DEF GivesBack, Job, Slots, Day
  <2>2. /\ usage' \in [Payers -> [day : Day, count : [Actions -> 0..PerDay]]]
        /\ \A q \in Payers : usage'[q].day = usage[q].day
        /\ \A q \in Payers, b \in Actions :
              usage'[q].count[b] = IF q = p /\ b = a THEN usage[q].count[b] - 1
                                   ELSE usage[q].count[b]
    <3>1. usage[p].count[a] - 1 \in 0..PerDay
      BY <1>1, <2>1, SponsorshipAssumption
    <3>2. usage \in [Payers -> [day : Day, count : [Actions -> 0..PerDay]]]
      BY DEF DayInv, Shape
    <3>3. [usage[p] EXCEPT !.count[a] = @ - 1] \in [day : Day, count : [Actions -> 0..PerDay]]
      BY <1>1, <3>1
    <3>4. usage' = [usage EXCEPT ![p] = [usage[p] EXCEPT !.count[a] = @ - 1]]
      BY <1>1, <1>5, <3>2
    <3> HIDE DEF p, a
    <3> QED  BY <1>1, <3>2, <3>3, <3>4
  <2>3. /\ worker' \in [Workers -> Job] /\ worker'[w] = Idle /\ ~Holds(worker'[w])
        /\ \A v \in Workers \ {w} : worker'[v] = worker[v]
    <3>1. Idle \in Job /\ ~Holds(Idle)
      BY DayMonotone, SponsorshipAssumption DEF Idle, Job, Day, Pcs, Holds
    <3> QED  BY <1>3, <3>1 DEF End, DayInv, Shape
  <2>4. Shape'
    BY <1>3, <2>2, <2>3 DEF DayInv, Shape, Idle
  <2>5. SlotsFit'
    <3> SUFFICES ASSUME NEW v \in Workers, Holds(worker'[v])
                 PROVE  /\ worker'[v].slot \in Slots
                        /\ worker'[v].slot.payer = worker'[v].tx.payer
                        /\ worker'[v].slot.action = worker'[v].tx.action
                        /\ worker'[v].day <= worker'[v].slot.day
                        /\ worker'[v].slot.day <= usage'[worker'[v].tx.payer].day
      BY DEF SlotsFit, Tx
    <3>1. worker'[v] = worker[v] /\ worker[v].tx.payer \in Payers
      BY <2>3 DEF DayInv, Shape, Holds, Payers
    <3> QED  BY <2>2, <3>1 DEF DayInv, SlotsFit, Tx
  <2>6. SlotsCounted'
    <3> SUFFICES ASSUME NEW s \in Slots
                 PROVE  sent[s] + Cardinality(Holders(worker', s)) <= Counted(s)'
      BY <1>3 DEF SlotsCounted, Counted, Holders
    <3>1. /\ Cardinality(Holders(worker, s)) \in Nat
          /\ Cardinality(Holders(worker', s)) \in Nat
      BY HoldersFinite
    <3>2. sent[s] \in Nat /\ sent[s] + Cardinality(Holders(worker, s)) <= Counted(s)
      BY DEF DayInv, SlotsCounted, Shape
    <3>3. s.payer \in Payers /\ s.action \in Actions /\ s.day \in Int
      BY DEF Slots
    <3>4. /\ usage[s.payer].day \in Int /\ usage[s.payer].count[s.action] \in 0..PerDay
          /\ usage'[s.payer].day = usage[s.payer].day
      BY <2>2, <3>3 DEF DayInv, Shape, Day
    <3>5. CASE slot = s
      <4>1. Cardinality(Holders(worker', s)) = Cardinality(Holders(worker, s)) - 1
        BY <1>1, <2>3, <3>5, OneLeaves
      <4>2. Counted(s) = usage[p].count[a] /\ Counted(s)' = usage[p].count[a] - 1
        BY <1>1, <1>2, <2>1, <2>2, <3>4, <3>5 DEF Counted
      <4>3. usage[p].count[a] \in Int
        BY <1>1
      <4> QED  BY <3>1, <3>2, <4>1, <4>2, <4>3
    <3>6. CASE slot # s
      <4>1. Cardinality(Holders(worker', s)) <= Cardinality(Holders(worker, s))
        BY <2>3, NoneEnters
      <4>2. ~(s.payer = p /\ s.action = a /\ s.day = usage[p].day)
        <5>1. /\ s = [payer |-> s.payer, action |-> s.action, day |-> s.day]
              /\ slot = [payer |-> slot.payer, action |-> slot.action, day |-> slot.day]
          BY <1>2 DEF Slots
        <5> HIDE DEF slot, p, a
        <5> QED  BY <1>2, <2>1, <3>6, <5>1
      <4>3. Counted(s)' = Counted(s)
        BY <2>2, <3>3, <3>4, <4>2 DEF Counted
      <4>4. Counted(s) \in Int
        BY <3>4, SponsorshipAssumption DEF Counted
      <4> QED  BY <3>1, <3>2, <4>1, <4>3, <4>4
    <3> QED  BY <3>5, <3>6
  <2>7. Accepted'
    BY <2>3 DEF DayInv, Accepted, CoSigned, Tx, Idle
  <2> QED  BY <2>4, <2>5, <2>6, <2>7 DEF DayInv
<1> QED  BY <1>4, <1>5 DEF Release

\* A transaction is sent: its slot is used for good, and nobody holds it any more.
LEMMA SendKeeps ==
  ASSUME DayInv, NEW w \in Workers, Send(w)
  PROVE  DayInv'
<1> DEFINE slot == worker[w].slot
<1>1. /\ worker[w].pc = "send" /\ Holds(worker[w]) /\ slot \in Slots
      /\ worker \in [Workers -> Job] /\ sent \in [Slots -> Nat]
  BY DEF Send, At, DayInv, Shape, SlotsFit, Holds
<1>2. /\ worker' \in [Workers -> Job] /\ worker'[w] = Idle /\ ~Holds(worker'[w])
      /\ \A v \in Workers \ {w} : worker'[v] = worker[v]
  <2>1. Idle \in Job /\ ~Holds(Idle)
    BY DayMonotone, SponsorshipAssumption DEF Idle, Job, Day, Pcs, Holds
  <2> QED  BY <1>1, <2>1 DEF Send, End
<1>3. /\ UNCHANGED <<now, usage>> /\ sent' \in [Slots -> Nat]
      /\ \A s \in Slots : sent'[s] = IF s = slot THEN sent[s] + 1 ELSE sent[s]
  BY <1>1 DEF Send, Records
<1>4. Shape'
  BY <1>2, <1>3 DEF DayInv, Shape, Idle
<1>5. SlotsFit'
  BY <1>2, <1>3 DEF DayInv, SlotsFit, Tx
<1>6. SlotsCounted'
  <2> SUFFICES ASSUME NEW s \in Slots
               PROVE  sent'[s] + Cardinality(Holders(worker', s)) <= Counted(s)
    BY <1>3 DEF SlotsCounted, Counted, Holders
  <2>1. /\ Cardinality(Holders(worker, s)) \in Nat
        /\ Cardinality(Holders(worker', s)) \in Nat
    BY HoldersFinite
  <2>2. sent[s] \in Nat /\ sent[s] + Cardinality(Holders(worker, s)) <= Counted(s)
    BY DEF DayInv, SlotsCounted, Shape
  <2>3. Counted(s) \in Int
    BY SponsorshipAssumption DEF Counted, DayInv, Shape, Slots
  <2>4. CASE slot = s
    <3>1. Cardinality(Holders(worker', s)) = Cardinality(Holders(worker, s)) - 1
      BY <1>1, <1>2, <2>4, OneLeaves
    <3> QED  BY <1>3, <2>1, <2>2, <2>3, <2>4, <3>1
  <2>5. CASE slot # s
    <3>1. Cardinality(Holders(worker', s)) <= Cardinality(Holders(worker, s))
      BY <1>2, NoneEnters
    <3> QED  BY <1>3, <2>1, <2>2, <2>3, <2>5, <3>1
  <2> QED  BY <2>4, <2>5
<1>7. Accepted'
  BY <1>2 DEF DayInv, Accepted, CoSigned, Tx, Idle
<1> QED  BY <1>4, <1>5, <1>6, <1>7 DEF DayInv
-----------------------------------------------------------------------------
(* The other steps, and what they come to.                                      *)

\* A worker that takes its transaction on to a place where it was accepted, or
\* gives up, goes.
LEMMA MoveGoes ==
  ASSUME DayInv, NEW w \in Workers, NEW job, Holds(worker[w]), worker' = [worker EXCEPT ![w] = job],
         job \in Job, Holds(job), job.tx = worker[w].tx, job.day = worker[w].day,
         job.slot = worker[w].slot,
         job.pc = "release" \/ CoSigned(w) \/ WithinPolicy(Tx(w).gas, Tx(w).price),
         UNCHANGED <<now, usage, sent>>
  PROVE  DayInv'
<1>1. worker \in [Workers -> Job]
  BY DEF DayInv, Shape
<1>2. worker'[w] = job /\ \A v \in Workers \ {w} : worker'[v] = worker[v]
  BY <1>1
<1>3. worker' \in [Workers -> Job]
  BY <1>1
<1>4. CoSigned(w)' => CoSigned(w) \/ WithinPolicy(Tx(w).gas, Tx(w).price)
  BY <1>2 DEF CoSigned
<1>5. Goes(w)
  BY <1>2, <1>3, <1>4 DEF Goes
<1> QED  BY <1>5, GoesKeeps

\* The program counter alone is moved.
LEMMA GotoKeeps ==
  ASSUME DayInv, NEW w \in Workers, Holds(worker[w]), NEW pc \in Pcs, Goto(w, pc),
         pc \notin {"idle", "limited"},
         pc = "release" \/ CoSigned(w) \/ WithinPolicy(Tx(w).gas, Tx(w).price),
         UNCHANGED <<now, usage, sent>>
  PROVE  DayInv'
<1> DEFINE job == [worker[w] EXCEPT !.pc = pc]
<1>1. worker[w] \in Job /\ worker \in [Workers -> Job]
  BY DEF DayInv, Shape
<1>2. worker' = [worker EXCEPT ![w] = job]
  BY <1>1 DEF Goto
<1>3. /\ job \in Job /\ job.pc = pc /\ job.tx = worker[w].tx
      /\ job.day = worker[w].day /\ job.slot = worker[w].slot
  BY <1>1 DEF Job
<1>4. Holds(job)
  BY <1>3 DEF Holds
<1> HIDE DEF job
<1> QED  BY <1>2, <1>3, <1>4, MoveGoes

\* Whatever a worker does, the invariant is kept.
LEMMA StepKeeps ==
  ASSUME DayInv, NEW w \in Workers, Step(w)
  PROVE  DayInv'
<1> USE DEF Records, Chain, Counts
<1>1. CASE \E tx \in Txs : Present(w, tx)
  BY <1>1, PresentKeeps
<1>2. CASE ReserveSlot(w)
  BY <1>2, ReserveSlotKeeps
<1>3. CASE Release(w)
  BY <1>3, ReleaseKeeps
<1>4. CASE Validate(w)
  <2>1. Holds(worker[w])
    BY <1>4 DEF Validate, At, Holds
  <2>2. CASE Goto(w, "release")
    BY <1>4, <2>1, <2>2, GotoKeeps DEF Validate, Pcs
  <2>3. CASE Goto(w, "simulate") /\ EnvelopeAccepted(Tx(w), now)
    BY <1>4, <2>1, <2>3, GotoKeeps DEF Validate, Pcs, EnvelopeAccepted
  <2> QED  BY <1>4, <2>2, <2>3 DEF Validate
<1>5. CASE SimulateSender(w)
  <2>1. Holds(worker[w]) /\ CoSigned(w)
    BY <1>5 DEF SimulateSender, At, Holds, CoSigned
  <2> QED  BY <1>5, <2>1, GotoKeeps DEF SimulateSender, Pcs
<1>6. CASE Cosign(w)
  <2>1. Holds(worker[w]) /\ CoSigned(w)
    BY <1>6 DEF Cosign, At, Holds, CoSigned
  <2>2. Goto(w, "check") \/ Goto(w, "release")
    BY <1>6 DEF Cosign
  <2> QED  BY <1>6, <2>1, <2>2, GotoKeeps DEF Cosign, Pcs
<1>7. CASE Check(w)
  <2>1. Holds(worker[w]) /\ CoSigned(w)
    BY <1>7 DEF Check, At, Holds, CoSigned
  <2>2. CASE Goto(w, "release")
    BY <1>7, <2>1, <2>2, GotoKeeps DEF Check, Pcs
  <2>3. CASE \E pc \in {"send", "reserve"} :
               worker' = [worker EXCEPT ![w].pc = pc, ![w].at = now]
    <3>1. PICK pc \in {"send", "reserve"} : worker' = [worker EXCEPT ![w].pc = pc, ![w].at = now]
      BY <2>3
    <3> DEFINE job == [worker[w] EXCEPT !.pc = pc, !.at = now]
    <3>2. worker[w] \in Job /\ worker \in [Workers -> Job] /\ now \in Nat
      BY SponsorshipAssumption DEF DayInv, Shape
    <3>3. worker' = [worker EXCEPT ![w] = job]
      BY <3>1, <3>2
    <3>4. /\ job \in Job /\ job.pc = pc /\ job.tx = worker[w].tx
          /\ job.day = worker[w].day /\ job.slot = worker[w].slot
      BY <3>2 DEF Job, Pcs
    <3>5. Holds(job)
      BY <3>4 DEF Holds
    <3> HIDE DEF job
    <3> QED  BY <1>7, <2>1, <3>3, <3>4, <3>5, MoveGoes DEF Check
  <2> QED  BY <1>7, <2>2, <2>3 DEF Check
<1>8. CASE ReadClock(w)
  <2>1. Holds(worker[w]) /\ CoSigned(w)
    BY <1>8 DEF ReadClock, At, Holds, CoSigned
  <2> DEFINE job == [worker[w] EXCEPT !.at = now]
  <2>2. worker[w] \in Job /\ worker \in [Workers -> Job] /\ now \in Nat
    BY SponsorshipAssumption DEF DayInv, Shape
  <2>3. worker' = [worker EXCEPT ![w] = job]
    BY <1>8, <2>2 DEF ReadClock
  <2>4. /\ job \in Job /\ job.pc = worker[w].pc /\ job.tx = worker[w].tx
        /\ job.day = worker[w].day /\ job.slot = worker[w].slot
    BY <2>2 DEF Job
  <2>5. Holds(job)
    BY <2>1, <2>4 DEF Holds
  <2> HIDE DEF job
  <2> QED  BY <1>8, <2>1, <2>3, <2>4, <2>5, MoveGoes DEF ReadClock
<1>9. CASE ReserveTopUp(w)
  <2>1. Holds(worker[w]) /\ CoSigned(w)
    BY <1>9 DEF ReserveTopUp, At, Holds, CoSigned
  <2>2. Goto(w, "send") \/ Goto(w, "release")
    BY <1>9 DEF ReserveTopUp
  <2> QED  BY <1>9, <2>1, <2>2, GotoKeeps DEF ReserveTopUp, Pcs
<1>10. CASE Send(w)
  BY <1>10, SendKeeps
<1>11. CASE Cancel(w)
  <2>1. Holds(worker[w])
    BY <1>11 DEF Cancel, Holds
  <2> QED  BY <1>11, <2>1, GotoKeeps DEF Cancel, Pcs
<1>12. CASE Crash(w)
  BY <1>12, EndKeeps DEF Crash
<1> QED  BY <1>1, <1>2, <1>3, <1>4, <1>5, <1>6, <1>7, <1>8, <1>9, <1>10, <1>11, <1>12 DEF Step

\* A step that leaves the workers and what is counted alone keeps the invariant.
LEMMA RestKeeps ==
  ASSUME DayInv, UNCHANGED <<usage, worker, sent>>, now' \in 0..MaxTime
  PROVE  DayInv'
BY DEF DayInv, Shape, SlotsFit, SlotsCounted, Counted, Holders, Accepted, CoSigned, Tx

\* The invariant is kept by every step.
LEMMA DayInvNext == DayInv /\ [Next]_vars => DayInv'
<1> SUFFICES ASSUME DayInv, [Next]_vars PROVE DayInv'
  OBVIOUS
<1>1. CASE \E w \in Workers : Step(w)
  BY <1>1, StepKeeps
<1>2. CASE \E tx \in Txs : Include(tx)
  BY <1>2, RestKeeps DEF Include, Records, Counts, DayInv, Shape
<1>3. CASE Tick
  <2>1. now' \in 0..MaxTime
    BY <1>3, SponsorshipAssumption DEF Tick, DayInv, Shape
  <2> QED  BY <1>3, <2>1, RestKeeps DEF Tick, Records, Counts
<1>4. CASE UNCHANGED vars
  BY <1>4, RestKeeps DEF vars, DayInv, Shape
<1> QED  BY <1>1, <1>2, <1>3, <1>4 DEF Next

\* The invariant holds whatever the workers, the node and the clock do.
LEMMA DayInvAlways == Spec => []DayInv
BY DayInvInit, DayInvNext, PTL DEF Spec

-----------------------------------------------------------------------------
(* The theorems.                                                                *)

\* Whatever workers reserve, give back, send, cancel or leave behind, on whatever
\* days, no more is sent on a payer's slots of a day than SponsorshipLimit.per_day.
THEOREM DayLimitHolds == Spec => []SponsoredWithinDay
<1>1. DayInv => SponsoredWithinDay
  <2> SUFFICES ASSUME DayInv, NEW s \in Slots PROVE sent[s] <= PerDay
    BY DEF SponsoredWithinDay
  <2>1. s.payer \in Payers /\ s.action \in Actions
    BY DEF Slots
  <2>2. usage[s.payer].count[s.action] \in 0..PerDay
    BY <2>1 DEF DayInv, Shape
  <2>3. Counted(s) \in Int /\ Counted(s) <= PerDay
    BY <2>2, SponsorshipAssumption DEF Counted
  <2>4. sent[s] \in Nat /\ sent[s] + Cardinality(Holders(worker, s)) <= Counted(s)
    BY DEF DayInv, SlotsCounted, Shape
  <2> QED  BY <2>3, <2>4, HoldersFinite, SponsorshipAssumption
<1> QED  BY <1>1, DayInvAlways, PTL

\* Whatever envelope is presented, what the fee payer co-signs, and the copy that it
\* only simulates, is within its policy.
THEOREM PolicyHolds == Spec => []SignsWithinPolicy
<1>1. DayInv => SignsWithinPolicy
  <2> SUFFICES ASSUME DayInv, NEW w \in Workers, CoSigned(w)
               PROVE  /\ WithinPolicy(Tx(w).gas, Tx(w).price)
                      /\ WithinPolicy(SimulationGas(Tx(w).gas, Tx(w).price), Tx(w).price)
    BY DEF SignsWithinPolicy
  <2>1. Tx(w) \in Txs
    BY DEF DayInv, Shape, CoSigned, Tx
  <2>2. Tx(w).gas \in Nat /\ Tx(w).price \in Nat
    BY <2>1, SponsorshipAssumption
  <2>3. WithinPolicy(Tx(w).gas, Tx(w).price)
    BY DEF DayInv, Accepted
  <2> QED  BY <2>2, <2>3, SimulationWithin
<1> QED  BY <1>1, DayInvAlways, PTL

-----------------------------------------------------------------------------
(* Sums of costs.                                                               *)

Cost(m) == m.tx.gas * m.tx.price
Costs(S) == MapThenSumSet(LAMBDA m : m.tx.gas * m.tx.price, S)

Chosen(s) == CHOOSE x \in s : TRUE

\* What a sum over a set is computed by.
Summing(S, g) ==
  g = [s \in SUBSET S |-> IF s = {} THEN 0 ELSE Cost(Chosen(s)) + g[s \ {Chosen(s)}]]

LEMMA Sums == \A S : \E h : Costs(S) = h[S] /\ ((\E g : Summing(S, g)) => Summing(S, h))
<1> SUFFICES ASSUME NEW S
             PROVE  \E h : Costs(S) = h[S] /\ ((\E g : Summing(S, g)) => Summing(S, h))
  OBVIOUS
<1> DEFINE h == CHOOSE g : Summing(S, g)
<1>1. Costs(S) = h[S]
  BY DEF Costs, Cost, MapThenSumSet, MapThenFoldSet, Summing, Chosen
<1>2. (\E g : Summing(S, g)) => Summing(S, h)
  OBVIOUS
<1> QED  BY <1>1, <1>2

\* Induction, over a set of numbers.
LEMMA EveryNumber ==
  ASSUME NEW N \in SUBSET Nat, 0 \in N, \A n \in N : n + 1 \in N
  PROVE  N = Nat
<1> DEFINE below == OpToRel(<, Nat)
           rest == Nat \ N
<1>1. \A x, y \in Nat : y < x => <<y, x>> \in below
  BY DEF OpToRel
<1>2. IsWellFoundedOn(below, Nat)
  BY NatLessThanWellFounded
<1> HIDE DEF below
<1>3. SUFFICES ASSUME rest # {} PROVE FALSE
  OBVIOUS
<1>4. PICK x \in rest : \A y \in rest : ~ (<<y, x>> \in below)
  BY <1>2, <1>3, WFMin
<1>5. x \in Nat /\ x # 0 /\ x - 1 \in Nat /\ x - 1 < x
  BY <1>4
<1>6. x - 1 \in N
  BY <1>1, <1>4, <1>5
<1>7. x - 1 + 1 = x
  BY <1>5
<1> QED  BY <1>4, <1>6, <1>7

\* A member is chosen of a set that is not empty; without it the set is smaller.
LEMMA Choice ==
  ASSUME NEW s, IsFiniteSet(s), s # {}
  PROVE  /\ Chosen(s) \in s
         /\ Cardinality(s) \in Nat /\ Cardinality(s) # 0
         /\ Cardinality(s \ {Chosen(s)}) = Cardinality(s) - 1
<1>1. Chosen(s) \in s
  BY DEF Chosen
<1> QED  BY <1>1, FS_RemoveElement, FS_CardinalityType, FS_EmptySet

\* A sum over a finite set is computed, set by set of ever more members.
LEMMA SumExists ==
  ASSUME NEW S, IsFiniteSet(S), \A m \in S : Cost(m) \in Nat
  PROVE  \E g \in [SUBSET S -> Nat] : Summing(S, g)
<1> DEFINE Value(g, s) == IF s = {} THEN 0 ELSE Cost(Chosen(s)) + g[s \ {Chosen(s)}]
           UpTo(g, n) == \A s \in SUBSET S : Cardinality(s) <= n => g[s] = Value(g, s)
           N == {n \in Nat : \E g \in [SUBSET S -> Nat] : UpTo(g, n)}
<1>1. \A s \in SUBSET S : IsFiniteSet(s) /\ Cardinality(s) \in Nat /\ Cardinality(s) <= Cardinality(S)
  BY FS_Subset, FS_CardinalityType
<1>2. \A s \in SUBSET S : s # {} =>
        /\ Cost(Chosen(s)) \in Nat /\ s \ {Chosen(s)} \in SUBSET S
        /\ Cardinality(s) # 0 /\ Cardinality(s \ {Chosen(s)}) = Cardinality(s) - 1
  BY <1>1, Choice
<1>3. 0 \in N
  <2> DEFINE g == [s \in SUBSET S |-> 0]
  <2>1. g \in [SUBSET S -> Nat]
    OBVIOUS
  <2>2. ASSUME NEW s \in SUBSET S, Cardinality(s) <= 0 PROVE s = {}
    <3>1. Cardinality(s) \in Nat /\ (s # {} => Cardinality(s) # 0)
      BY <1>1, <1>2
    <3>2. Cardinality(s) = 0
      BY <2>2, <3>1
    <3> QED  BY <3>1, <3>2
  <2>3. \A s \in SUBSET S : g[s] = 0
    OBVIOUS
  <2> HIDE DEF g
  <2>4. UpTo(g, 0)
    BY <2>2, <2>3
  <2> HIDE DEF UpTo
  <2> QED  BY <2>1, <2>4
<1>4. ASSUME NEW n \in N PROVE n + 1 \in N
  <2>1. PICK g \in [SUBSET S -> Nat] : UpTo(g, n)
    BY <1>4
  <2> DEFINE h == [s \in SUBSET S |-> IF Cardinality(s) <= n THEN g[s] ELSE Value(g, s)]
  <2>2. \A s \in SUBSET S : Value(g, s) \in Nat /\ g[s] \in Nat
    <3>1. \A s \in SUBSET S : g[s] \in Nat
      OBVIOUS
    <3>2. ASSUME NEW s \in SUBSET S, s # {} PROVE Cost(Chosen(s)) + g[s \ {Chosen(s)}] \in Nat
      <4>1. Cost(Chosen(s)) \in Nat /\ g[s \ {Chosen(s)}] \in Nat
        BY <1>2, <3>1, <3>2
      <4> QED  BY <4>1
    <3> QED  BY <3>1, <3>2
  <2>3. h \in [SUBSET S -> Nat]
    <3> HIDE DEF Value
    <3> QED  BY <2>2
  <2>4. ASSUME NEW s \in SUBSET S PROVE h[s] = Value(g, s)
    BY <2>1
  <2>5. ASSUME NEW s \in SUBSET S, Cardinality(s) <= n + 1, s # {}
        PROVE  h[s \ {Chosen(s)}] = g[s \ {Chosen(s)}]
    BY <1>1, <1>2, <2>5
  <2>6. UpTo(h, n + 1)
    BY <2>4, <2>5
  <2>7. n + 1 \in Nat
    BY <1>4
  <2> HIDE DEF h, UpTo
  <2> QED  BY <2>3, <2>6, <2>7
<1>5. N = Nat
  <2> HIDE DEF UpTo
  <2>1. N \in SUBSET Nat
    OBVIOUS
  <2> HIDE DEF N
  <2> QED  BY <1>3, <1>4, <2>1, EveryNumber
<1>6. PICK g \in [SUBSET S -> Nat] : UpTo(g, Cardinality(S))
  BY <1>1, <1>5
<1>7. g = [s \in SUBSET S |-> Value(g, s)]
  BY <1>1, <1>6
<1> QED  BY <1>7 DEF Summing

\* So many costs of at most so much sum up to at most the product.
LEMMA CostsBounded ==
  ASSUME NEW S, IsFiniteSet(S), \A m \in S : Cost(m) \in Nat /\ Cost(m) <= MaxTotalFee
  PROVE  Costs(S) \in Nat /\ Costs(S) <= Cardinality(S) * MaxTotalFee
<1>1. PICK h : Costs(S) = h[S] /\ ((\E g : Summing(S, g)) => Summing(S, h))
  BY Sums
<1>2. Summing(S, h)
  BY <1>1, SumExists
<1>3. \A s \in SUBSET S : h[s] = IF s = {} THEN 0 ELSE Cost(Chosen(s)) + h[s \ {Chosen(s)}]
  BY <1>2 DEF Summing
<1>4. \A s \in SUBSET S : IsFiniteSet(s) /\ Cardinality(s) \in Nat
  BY FS_Subset, FS_CardinalityType
<1> DEFINE N == {n \in Nat : \A s \in SUBSET S : Cardinality(s) = n =>
                               h[s] \in Nat /\ h[s] <= n * MaxTotalFee}
<1>5. 0 \in N
  <2>1. \A s \in SUBSET S : Cardinality(s) = 0 => s = {}
    BY <1>4, FS_EmptySet
  <2>2. 0 * MaxTotalFee = 0
    BY PolicyAssumption
  <2>3. \A s \in SUBSET S : Cardinality(s) = 0 => h[s] = 0
    BY <1>3, <2>1
  <2> QED  BY <2>2, <2>3
<1>6. ASSUME NEW n \in N PROVE n + 1 \in N
  <2>0. n \in Nat /\ n + 1 \in Nat /\ n + 1 # 0
    BY <1>6
  <2>1. ASSUME NEW s \in SUBSET S, Cardinality(s) = n + 1
        PROVE  h[s] \in Nat /\ h[s] <= (n + 1) * MaxTotalFee
    <3> DEFINE c == Chosen(s)
               r == s \ {Chosen(s)}
    <3>1. s # {}
      BY <1>4, <2>0, <2>1, FS_EmptySet
    <3>2. c \in S /\ r \in SUBSET S
      BY <1>4, <3>1, Choice
    <3>3. Cardinality(r) = n
      <4>1. Cardinality(r) = Cardinality(s) - 1
        BY <1>4, <3>1, Choice
      <4> QED  BY <2>0, <2>1, <4>1
    <3>4. h[s] = Cost(c) + h[r]
      BY <1>3, <3>1
    <3> HIDE DEF c, r
    <3>5. h[r] \in Nat /\ h[r] <= n * MaxTotalFee
      BY <1>6, <3>2, <3>3
    <3>6. Cost(c) \in Nat /\ Cost(c) <= MaxTotalFee
      BY <3>2
    <3>7. (n + 1) * MaxTotalFee = n * MaxTotalFee + MaxTotalFee /\ n * MaxTotalFee \in Nat
      BY <2>0, PolicyAssumption
    <3> QED  BY <3>4, <3>5, <3>6, <3>7, PolicyAssumption
  <2> QED  BY <2>0, <2>1
<1>7. N = Nat
  <2>1. N \in SUBSET Nat
    OBVIOUS
  <2> HIDE DEF N
  <2> QED  BY <1>5, <1>6, <2>1, EveryNumber
<1> QED  BY <1>1, <1>4, <1>7
-----------------------------------------------------------------------------
(* The rolling window.                                                          *)

Covers(e, tx) == e.payer = tx.payer /\ e.tx = tx.id

\* The record stays within the limits of a window.
RecordOK ==
  /\ IsFiniteSet(rolling) /\ Cardinality(rolling) <= MaxTransactions
  /\ \A p \in Payers : Cardinality({e \in rolling : e.payer = p}) <= PerPayer
  /\ Cardinality(rolling) * MaxTotalFee <= RollingFee
  /\ \A e \in rolling : e.at \in Nat

\* An entry is no older than a validity window before the end of its transaction.
EntriesFresh ==
  \A e \in rolling : \A tx \in Txs : tx.proven /\ Covers(e, tx) => tx.valid <= e.at + MaxWindow

\* A top-up has its entry until no window of the record can hold both.
Backed(tx) ==
  tx.action = "topUp" /\ now < tx.valid + Slack => \E e \in rolling : Covers(e, tx)

WorkerFits(job) ==
  /\ job.pc # "idle" => job.tx.proven
  /\ job.pc \in {"simulate", "cosign", "check", "reserve", "send"} =>
       job.tx.valid <= now + MaxWindow
  /\ job.pc = "reserve" => job.at <= now /\ job.tx.valid <= job.at + MaxWindow
  /\ job.pc = "send" => Backed(job.tx)

PoolFits ==
  \A tx \in pool : tx \in Txs /\ tx.proven /\ Backed(tx) /\ WithinPolicy(tx.gas, tx.price)

MinedFits ==
  /\ \A m \in mined : m.tx \in pool /\ m.at \in Nat /\ m.at <= now /\ m.at < m.tx.valid
  /\ \A m, n \in mined : m.tx = n.tx => m = n

WindowInv ==
  /\ RecordOK /\ EntriesFresh /\ PoolFits /\ MinedFits
  /\ \A w \in Workers : WorkerFits(worker[w])
  /\ TopUpsCapped

\* Transactions with an entry each are no more than the entries.
LEMMA CoveredCount ==
  ASSUME NEW ms, NEW es, IsFiniteSet(es),
         \A m \in ms : \E e \in es : Covers(e, m.tx),
         \A m, n \in ms : m.tx.payer = n.tx.payer /\ m.tx.id = n.tx.id => m = n
  PROVE  IsFiniteSet(ms) /\ Cardinality(ms) <= Cardinality(es)
<1> DEFINE f == [m \in ms |-> CHOOSE e \in es : Covers(e, m.tx)]
<1>1. \A m \in ms : f[m] \in es /\ Covers(f[m], m.tx)
  OBVIOUS
<1>2. f \in Injection(ms, es)
  <2>1. f \in [ms -> es]
    BY <1>1
  <2>2. \A m, n \in ms : f[m] = f[n] => m = n
    <3> HIDE DEF f
    <3> QED  BY <1>1 DEF Covers
  <2> HIDE DEF f
  <2> QED  BY <2>1, <2>2 DEF Injection, IsInjective
<1> QED  BY <1>2, FS_Injection

\* What a record within the limits covers is within them.
LEMMA CoveredCapped ==
  ASSUME NEW ms, NEW es, IsFiniteSet(es), Cardinality(es) <= MaxTransactions,
         \A p \in Payers : Cardinality({e \in es : e.payer = p}) <= PerPayer,
         Cardinality(es) * MaxTotalFee <= RollingFee,
         \A m \in ms : \E e \in es : Covers(e, m.tx),
         \A m, n \in ms : m.tx.payer = n.tx.payer /\ m.tx.id = n.tx.id => m = n,
         \A m \in ms : Cost(m) \in Nat /\ Cost(m) <= MaxTotalFee
  PROVE  Capped(ms)
<1>1. IsFiniteSet(ms) /\ Cardinality(ms) <= Cardinality(es)
  BY CoveredCount
<1>2. Cardinality(ms) \in Nat /\ Cardinality(es) \in Nat
  BY <1>1, FS_CardinalityType
<1>3. ASSUME NEW p \in Payers PROVE Cardinality({m \in ms : m.tx.payer = p}) <= PerPayer
  <2> DEFINE mp == {m \in ms : m.tx.payer = p}
             ep == {e \in es : e.payer = p}
  <2>1. IsFiniteSet(ep)
    BY FS_Subset
  <2>2. \A m \in mp : \E e \in ep : Covers(e, m.tx)
    BY DEF Covers
  <2>3. \A m, n \in mp : m.tx.payer = n.tx.payer /\ m.tx.id = n.tx.id => m = n
    OBVIOUS
  <2>4. Cardinality(ep) <= PerPayer
    OBVIOUS
  <2> HIDE DEF mp, ep
  <2>5. IsFiniteSet(mp) /\ Cardinality(mp) <= Cardinality(ep)
    BY <2>1, <2>2, <2>3, CoveredCount
  <2>6. Cardinality(mp) \in Nat /\ Cardinality(ep) \in Nat
    BY <2>1, <2>5, FS_CardinalityType
  <2>7. Cardinality(mp) <= PerPayer
    BY <2>4, <2>5, <2>6, SponsorshipAssumption
  <2> QED  BY <2>7 DEF mp
<1>4. Costs(ms) \in Nat /\ Costs(ms) <= Cardinality(ms) * MaxTotalFee
  BY <1>1, CostsBounded
<1>5. Cardinality(ms) * MaxTotalFee <= Cardinality(es) * MaxTotalFee
  BY <1>1, <1>2, ProductMonotone, PolicyAssumption
<1>6. Cardinality(ms) * MaxTotalFee \in Nat /\ Cardinality(es) * MaxTotalFee \in Nat
  BY <1>2, PolicyAssumption
<1>7. Costs(ms) <= RollingFee
  BY <1>4, <1>5, <1>6, SponsorshipAssumption
<1>8. Cardinality(ms) <= MaxTransactions
  BY <1>1, <1>2, SponsorshipAssumption
<1> QED  BY <1>3, <1>7, <1>8 DEF Capped, Costs

\* What a worker's own step does to the others and to the window.
LEMMA WindowKept ==
  ASSUME WindowInv, NEW w \in Workers, UNCHANGED <<now, rolling, pool, mined>>,
         \A v \in Workers \ {w} : worker'[v] = worker[v], WorkerFits(worker'[w])
  PROVE  WindowInv'
<1>1. \A tx : Backed(tx)' <=> Backed(tx)
  BY DEF Backed
<1>2. \A v \in Workers : WorkerFits(worker[v])' <=> WorkerFits(worker'[v])
  BY DEF WorkerFits, Backed
<1>3. \A v \in Workers : WorkerFits(worker[v])'
  BY <1>2 DEF WindowInv
<1>4. RecordOK' /\ EntriesFresh'
  BY DEF WindowInv, RecordOK, EntriesFresh
<1>5. PoolFits' /\ MinedFits'
  BY <1>1 DEF WindowInv, PoolFits, MinedFits
<1>6. TopUpsCapped'
  BY DEF WindowInv, TopUpsCapped, Within
<1> QED  BY <1>3, <1>4, <1>5, <1>6 DEF WindowInv

\* A worker that ends, gives up or goes on with what it checked fits.
LEMMA GoesFit ==
  ASSUME DayInv, WindowInv, NEW w \in Workers, UNCHANGED <<now, rolling, pool, mined>>
  PROVE  /\ End(w) => WindowInv'
         /\ \A pc \in {"validate", "simulate", "cosign", "check", "release"} :
              /\ Goto(w, pc)
              /\ worker[w].pc # "idle"
              /\ pc \in {"validate", "release"} \/ worker[w].tx.valid <= now + MaxWindow
              => WindowInv'
<1>1. worker \in [Workers -> Job] /\ worker[w] \in Job
  BY DEF DayInv, Shape
<1>2. ASSUME End(w) PROVE WindowInv'
  <2>1. worker'[w] = Idle /\ \A v \in Workers \ {w} : worker'[v] = worker[v]
    BY <1>1, <1>2 DEF End
  <2>2. WorkerFits(Idle)
    BY DEF WorkerFits, Idle
  <2> QED  BY <2>1, <2>2, WindowKept
<1>3. ASSUME NEW pc \in {"validate", "simulate", "cosign", "check", "release"},
             Goto(w, pc), worker[w].pc # "idle",
             pc \in {"validate", "release"} \/ worker[w].tx.valid <= now + MaxWindow
      PROVE  WindowInv'
  <2> DEFINE job == [worker[w] EXCEPT !.pc = pc]
  <2>1. job.pc = pc /\ job.tx = worker[w].tx
    BY <1>1 DEF Job
  <2>2. worker'[w] = job /\ \A v \in Workers \ {w} : worker'[v] = worker[v]
    BY <1>1, <1>3 DEF Goto
  <2> HIDE DEF job
  <2>3. worker[w].tx.proven
    BY <1>3 DEF WindowInv, WorkerFits
  <2>4. WorkerFits(job)
    BY <1>3, <2>1, <2>3 DEF WorkerFits
  <2> QED  BY <2>2, <2>4, WindowKept
<1> QED  BY <1>2, <1>3

\* Steps of a worker that touch neither the window's record nor the pool.
LEMMA WorkerSteps ==
  ASSUME DayInv, WindowInv, NEW w \in Workers
  PROVE  /\ \A tx \in Txs : Present(w, tx) => WindowInv'
         /\ ReserveSlot(w) \/ Release(w) \/ Validate(w) => WindowInv'
         /\ SimulateSender(w) \/ Cosign(w) \/ Check(w) => WindowInv'
         /\ ReadClock(w) \/ Cancel(w) \/ Crash(w) => WindowInv'
<1> USE DEF Records, Chain, Counts
<1>0. /\ worker \in [Workers -> Job] /\ worker[w] \in Job /\ now \in Nat
      /\ worker[w].pc # "idle" => worker[w].tx.valid \in Nat
  BY SponsorshipAssumption DEF DayInv, Shape
<1>1. ASSUME NEW tx \in Txs, Present(w, tx) PROVE WindowInv'
  <2> DEFINE job == [Idle EXCEPT !.pc = "limited", !.tx = tx, !.day = DayOf(now)]
  <2>1. UNCHANGED <<now, rolling, pool, mined>>
    BY <1>1 DEF Present
  <2>2. CASE tx.proven
    <3>1. worker'[w] = job /\ \A v \in Workers \ {w} : worker'[v] = worker[v]
      BY <1>0, <1>1, <2>2 DEF Present
    <3>2. job.pc = "limited" /\ job.tx = tx
      BY DEF Idle
    <3> HIDE DEF job
    <3>3. WorkerFits(job)
      BY <2>2, <3>2 DEF WorkerFits
    <3> QED  BY <2>1, <3>1, <3>3, WindowKept
  <2>3. CASE ~tx.proven
    <3>1. worker' = worker
      BY <1>1, <2>3 DEF Present
    <3>2. WorkerFits(worker[w])
      BY DEF WindowInv
    <3> QED  BY <2>1, <3>1, <3>2, WindowKept
  <2> QED  BY <2>2, <2>3
<1>2. ASSUME ReserveSlot(w) PROVE WindowInv'
  <2>1. UNCHANGED <<now, rolling, pool, mined>> /\ worker[w].pc = "limited"
    BY <1>2 DEF ReserveSlot, At
  <2>2. CASE End(w)
    BY <2>1, <2>2, GoesFit
  <2>3. CASE ~End(w)
    <3>1. PICK slot : worker' = [worker EXCEPT ![w].pc = "validate", ![w].slot = slot]
      BY <1>2, <2>3 DEF ReserveSlot
    <3> DEFINE job == [worker[w] EXCEPT !.pc = "validate", !.slot = slot]
    <3>2. job.pc = "validate" /\ job.tx = worker[w].tx
      BY <1>0 DEF Job
    <3>3. worker'[w] = job /\ \A v \in Workers \ {w} : worker'[v] = worker[v]
      BY <1>0, <3>1
    <3> HIDE DEF job
    <3>4. WorkerFits(job)
      BY <2>1, <3>2 DEF WorkerFits, WindowInv
    <3> QED  BY <2>1, <3>3, <3>4, WindowKept
  <2> QED  BY <2>2, <2>3
<1>3. ASSUME Release(w) \/ Crash(w) PROVE WindowInv'
  <2>1. UNCHANGED <<now, rolling, pool, mined>> /\ End(w)
    BY <1>3 DEF Release, Crash
  <2> QED  BY <2>1, GoesFit
<1>4. ASSUME Validate(w) PROVE WindowInv'
  <2>1. UNCHANGED <<now, rolling, pool, mined>> /\ worker[w].pc # "idle"
    BY <1>4 DEF Validate, At
  <2>2. Goto(w, "release") \/ (Goto(w, "simulate") /\ worker[w].tx.valid <= now + MaxWindow)
    BY <1>4 DEF Validate, EnvelopeAccepted, Tx
  <2> QED  BY <2>1, <2>2, GoesFit
<1>5. ASSUME SimulateSender(w) \/ Cosign(w) PROVE WindowInv'
  <2>1. UNCHANGED <<now, rolling, pool, mined>> /\ worker[w].pc \in {"simulate", "cosign"}
    BY <1>5 DEF SimulateSender, Cosign, At
  <2>2. Goto(w, "cosign") \/ Goto(w, "check") \/ Goto(w, "release")
    BY <1>5 DEF SimulateSender, Cosign
  <2>3. worker[w].tx.valid <= now + MaxWindow
    BY <2>1 DEF WindowInv, WorkerFits
  <2> QED  BY <2>1, <2>2, <2>3, GoesFit
<1>6. ASSUME Cancel(w) PROVE WindowInv'
  <2>1. UNCHANGED <<now, rolling, pool, mined>> /\ worker[w].pc # "idle" /\ Goto(w, "release")
    BY <1>6 DEF Cancel
  <2> QED  BY <2>1, GoesFit
<1>7. ASSUME NEW pc \in {"send", "reserve"}, worker[w].pc \in {"check", "reserve"},
             worker' = [worker EXCEPT ![w].pc = pc, ![w].at = now],
             pc = "send" => worker[w].tx.action = "open", UNCHANGED <<now, rolling, pool, mined>>
      PROVE  WindowInv'
  <2> DEFINE job == [worker[w] EXCEPT !.pc = pc, !.at = now]
  <2>1. job.pc = pc /\ job.tx = worker[w].tx /\ job.at = now
    BY <1>0 DEF Job
  <2>2. worker'[w] = job /\ \A v \in Workers \ {w} : worker'[v] = worker[v]
    BY <1>0, <1>7
  <2> HIDE DEF job
  <2>3. worker[w].tx.proven /\ worker[w].tx.valid <= now + MaxWindow
    BY <1>7 DEF WindowInv, WorkerFits
  <2>4. WorkerFits(job)
    BY <1>0, <1>7, <2>1, <2>3 DEF WorkerFits, Backed
  <2> QED  BY <1>7, <2>2, <2>4, WindowKept
<1>8. ASSUME Check(w) PROVE WindowInv'
  <2>1. UNCHANGED <<now, rolling, pool, mined>> /\ worker[w].pc = "check"
    BY <1>8 DEF Check, At
  <2>2. CASE Goto(w, "release")
    BY <2>1, <2>2, GoesFit
  <2>3. CASE ~Goto(w, "release")
    <3>1. worker' = [worker EXCEPT ![w].pc = IF Tx(w).action = "open" THEN "send" ELSE "reserve",
                                   ![w].at = now]
      BY <1>8, <2>3 DEF Check
    <3> QED  BY <1>7, <2>1, <3>1 DEF Tx
  <2> QED  BY <2>2, <2>3
<1>9. ASSUME ReadClock(w) PROVE WindowInv'
  <2>1. UNCHANGED <<now, rolling, pool, mined>> /\ worker[w].pc = "reserve"
    BY <1>9 DEF ReadClock, At
  <2>2. worker' = [worker EXCEPT ![w].pc = "reserve", ![w].at = now]
    BY <1>0, <1>9, <2>1 DEF ReadClock, Job
  <2> QED  BY <1>7, <2>1, <2>2
<1> QED  BY <1>1, <1>2, <1>3, <1>4, <1>5, <1>6, <1>8, <1>9

\* A live entry of the worker's clock holds for what may still be included.
LEMMA StaysBacked ==
  ASSUME WindowInv, now \in Nat, NEW at \in Nat, at <= now, now' = now,
         {e \in rolling : e.at > at - Rolling} \subseteq rolling',
         NEW tx \in Txs, tx.proven, Backed(tx)
  PROVE  Backed(tx)'
<1> SUFFICES ASSUME tx.action = "topUp", now < tx.valid + Slack
             PROVE  \E e \in rolling' : Covers(e, tx)
  BY DEF Backed
<1>1. PICK e \in rolling : Covers(e, tx)
  BY DEF Backed
<1>2. e.at \in Nat /\ tx.valid <= e.at + MaxWindow /\ tx.valid \in Nat
  BY <1>1, SponsorshipAssumption DEF WindowInv, RecordOK, EntriesFresh
<1>3. e.at > at - Rolling
  BY <1>2, SponsorshipAssumption, PolicyAssumption DEF Slack
<1> QED  BY <1>1, <1>3

\* An entry is added only below the limits.
LEMMA RecordGrows ==
  ASSUME WindowInv, NEW w \in Workers, Tx(w).payer \in Payers, worker[w].at \in Nat,
         ~Exhausted(w), rolling' = Live(w) \cup {Entry(w)}
  PROVE  RecordOK'
<1> DEFINE live == Live(w)
<1>1. live \subseteq rolling /\ IsFiniteSet(live) /\ Cardinality(live) \in Nat
  BY FS_Subset, FS_CardinalityType DEF Live, WindowInv, RecordOK
<1>2. /\ Cardinality(live) < MaxTransactions
      /\ (Cardinality(live) + 1) * MaxTotalFee <= RollingFee
      /\ ~(Cardinality({e \in live : e.payer = Tx(w).payer}) >= PerPayer)
  <2>1. /\ ~(Cardinality(live) >= MaxTransactions)
        /\ ~((Cardinality(live) + 1) * MaxTotalFee > RollingFee)
        /\ ~(Cardinality({e \in live : e.payer = Tx(w).payer}) >= PerPayer)
    BY DEF Exhausted
  <2>2. (Cardinality(live) + 1) * MaxTotalFee \in Nat
    BY <1>1, PolicyAssumption
  <2> HIDE DEF live
  <2> QED  BY <1>1, <2>1, <2>2, SponsorshipAssumption
<1>3. Entry(w).payer = Tx(w).payer /\ Entry(w).at = worker[w].at
  BY DEF Entry
<1> HIDE DEF live
<1>4. rolling' = live \cup {Entry(w)}
  BY DEF live
<1>5. /\ IsFiniteSet(rolling') /\ Cardinality(rolling') \in Nat
      /\ Cardinality(rolling') <= Cardinality(live) + 1
  <2>1. /\ IsFiniteSet(live \cup {Entry(w)})
        /\ Cardinality(live \cup {Entry(w)}) \in {Cardinality(live), Cardinality(live) + 1}
    BY <1>1, FS_AddElement
  <2>2. IsFiniteSet(rolling')
    BY <1>4, <2>1
  <2>3. Cardinality(rolling') = Cardinality(live) \/ Cardinality(rolling') = Cardinality(live) + 1
    BY <1>4, <2>1
  <2> QED  BY <1>1, <2>2, <2>3
<1>6. Cardinality(rolling') <= MaxTransactions
  BY <1>1, <1>2, <1>5, SponsorshipAssumption
<1>7. Cardinality(rolling') * MaxTotalFee <= RollingFee
  <2>1. Cardinality(rolling') * MaxTotalFee <= (Cardinality(live) + 1) * MaxTotalFee
    BY <1>1, <1>5, ProductMonotone, PolicyAssumption
  <2>2. (Cardinality(live) + 1) * MaxTotalFee \in Nat /\ Cardinality(rolling') * MaxTotalFee \in Nat
    BY <1>1, <1>5, PolicyAssumption
  <2> QED  BY <1>2, <2>1, <2>2, SponsorshipAssumption
<1>8. ASSUME NEW p \in Payers PROVE Cardinality({e \in rolling' : e.payer = p}) <= PerPayer
  <2> DEFINE old == {e \in live : e.payer = p}
             new == {e \in rolling' : e.payer = p}
  <2>1. IsFiniteSet(old) /\ Cardinality(old) \in Nat
    <3>1. old \in SUBSET live
      OBVIOUS
    <3> QED  BY <1>1, <3>1, FS_Subset, FS_CardinalityType
  <2>2. CASE p = Tx(w).payer
    <3>1. new = old \cup {Entry(w)}
      BY <1>3, <1>4, <2>2
    <3>2. ~(Cardinality(old) >= PerPayer)
      BY <1>2, <2>2
    <3> HIDE DEF old, new
    <3>3. Cardinality(old \cup {Entry(w)}) \in {Cardinality(old), Cardinality(old) + 1}
      BY <2>1, FS_AddElement
    <3>4. Cardinality(new) <= PerPayer
      BY <2>1, <3>1, <3>2, <3>3, SponsorshipAssumption
    <3> QED  BY <3>4 DEF new
  <2>3. CASE p # Tx(w).payer
    <3> DEFINE all == {e \in rolling : e.payer = p}
    <3>1. new \in SUBSET all
      BY <1>1, <1>3, <1>4, <2>3
    <3>2. IsFiniteSet(all) /\ Cardinality(all) <= PerPayer
      <4>1. all \in SUBSET rolling /\ IsFiniteSet(rolling)
        BY DEF WindowInv, RecordOK
      <4> QED  BY <4>1, FS_Subset DEF WindowInv, RecordOK
    <3> HIDE DEF new, all
    <3>3. IsFiniteSet(new) /\ Cardinality(new) <= Cardinality(all)
      BY <3>1, <3>2, FS_Subset
    <3>4. Cardinality(new) \in Nat /\ Cardinality(all) \in Nat
      BY <3>2, <3>3, FS_CardinalityType
    <3>5. Cardinality(new) <= PerPayer
      BY <3>2, <3>3, <3>4, SponsorshipAssumption
    <3> QED  BY <3>5 DEF new
  <2> QED  BY <2>2, <2>3
<1>9. \A e \in rolling' : e.at \in Nat
  BY <1>1, <1>3, <1>4 DEF WindowInv, RecordOK
<1> QED  BY <1>5, <1>6, <1>7, <1>8, <1>9 DEF RecordOK

\* The record of the window is consulted, and extended, before a top-up is sent.
LEMMA ReserveTopUpFits ==
  ASSUME DayInv, WindowInv, NEW w \in Workers, ReserveTopUp(w)
  PROVE  WindowInv'
<1> DEFINE tx == worker[w].tx
<1>0. /\ worker \in [Workers -> Job] /\ worker[w] \in Job /\ now \in Nat
      /\ worker[w].pc = "reserve" /\ UNCHANGED <<now, pool, mined>>
  BY SponsorshipAssumption DEF DayInv, Shape, ReserveTopUp, At, Chain, Counts
<1>1. /\ tx \in Txs /\ tx.proven /\ Tx(w) = tx /\ tx.payer \in Payers
      /\ worker[w].at \in Nat /\ worker[w].at <= now /\ tx.valid <= worker[w].at + MaxWindow
  BY <1>0 DEF WindowInv, WorkerFits, DayInv, Shape, Payers, Tx, Job
<1>2. CASE Goto(w, "release") /\ UNCHANGED rolling
  BY <1>0, <1>2, GoesFit
<1> DEFINE Moved(pc) == [worker[w] EXCEPT !.pc = pc]
<1>3. \A pc : Goto(w, pc) =>
        /\ worker'[w] = Moved(pc) /\ Moved(pc).pc = pc /\ Moved(pc).tx = tx
        /\ \A v \in Workers \ {w} : worker'[v] = worker[v]
  BY <1>0 DEF Goto, Job
<1> HIDE DEF Moved
<1>4. CASE Known(w) /\ Goto(w, "send") /\ UNCHANGED rolling
  <2>1. \E e \in rolling : Covers(e, tx)
    BY <1>1, <1>4 DEF Known, Live, Covers
  <2>2. tx.valid <= now + MaxWindow
    BY <1>0 DEF WindowInv, WorkerFits
  <2>3. WorkerFits(Moved("send"))
    BY <1>1, <1>3, <1>4, <2>1, <2>2 DEF WorkerFits, Backed
  <2> QED  BY <1>0, <1>3, <1>4, <2>3, WindowKept
<1>5. CASE ~Exhausted(w) /\ rolling' = Live(w) \cup {Entry(w)} /\ (Goto(w, "send") \/ Goto(w, "release"))
  <2>1. RecordOK'
    BY <1>1, <1>5, RecordGrows
  <2>2. Covers(Entry(w), tx) /\ Entry(w).at = worker[w].at
    BY <1>1 DEF Covers, Entry
  <2>3. EntriesFresh'
    <3>1. ASSUME NEW e \in rolling', NEW u \in Txs, u.proven, Covers(e, u)
          PROVE  u.valid <= e.at + MaxWindow
      <4>1. CASE e \in rolling
        BY <3>1, <4>1 DEF WindowInv, EntriesFresh
      <4>2. CASE e = Entry(w)
        <5>1. u = tx
          BY <1>1, <2>2, <3>1, <4>2, SponsorshipAssumption DEF Covers
        <5> QED  BY <1>1, <2>2, <4>2, <5>1
      <4> QED  BY <1>5, <4>1, <4>2 DEF Live
    <3> QED  BY <3>1 DEF EntriesFresh, Covers
  <2>4. ASSUME NEW u \in Txs, u.proven, Backed(u) PROVE Backed(u)'
    <3>1. {e \in rolling : e.at > worker[w].at - Rolling} \subseteq rolling'
      BY <1>5 DEF Live
    <3> QED  BY <1>0, <1>1, <2>4, <3>1, StaysBacked
  <2>6. PoolFits' /\ MinedFits'
    BY <1>0, <2>4 DEF WindowInv, PoolFits, MinedFits
  <2>7. \A v \in Workers : WorkerFits(worker[v])' <=>
          /\ worker'[v].pc # "idle" => worker'[v].tx.proven
          /\ worker'[v].pc \in {"simulate", "cosign", "check", "reserve", "send"} =>
               worker'[v].tx.valid <= now' + MaxWindow
          /\ worker'[v].pc = "reserve" =>
               worker'[v].at <= now' /\ worker'[v].tx.valid <= worker'[v].at + MaxWindow
          /\ worker'[v].pc = "send" => Backed(worker[v].tx)'
    BY DEF WorkerFits, Backed
  <2>8. WorkerFits(worker[w])'
    <3>1. worker'[w].tx = tx /\ worker'[w].pc \in {"send", "release"}
      BY <1>3, <1>5
    <3>2. tx.valid <= now + MaxWindow
      BY <1>0 DEF WindowInv, WorkerFits
    <3>3. Backed(worker[w].tx)'
      BY <1>0, <1>5, <2>2, <3>1 DEF Backed, Covers
    <3> QED  BY <1>0, <1>1, <2>7, <3>1, <3>2, <3>3
  <2>9. ASSUME NEW v \in Workers \ {w} PROVE WorkerFits(worker[v])'
    <3>1. worker'[v] = worker[v]
      BY <1>3, <1>5
    <3>2. WorkerFits(worker[v])
      BY DEF WindowInv
    <3>3. worker[v].pc = "send" => worker[v].tx \in Txs /\ worker[v].tx.proven
      BY <3>2 DEF WorkerFits, DayInv, Shape
    <3>4. worker[v].pc = "send" => Backed(worker[v].tx)'
      <4>1. ASSUME worker[v].pc = "send", NEW u, u = worker[v].tx PROVE Backed(u)'
        BY <2>4, <3>2, <3>3, <4>1 DEF WorkerFits
      <4>2. \A u : u = worker[v].tx => (Backed(worker[v].tx)' <=> Backed(u)')
        BY <3>1 DEF Backed, Covers
      <4> QED  BY <4>1, <4>2
    <3> QED  BY <1>0, <2>7, <3>1, <3>2, <3>4 DEF WorkerFits
  <2>10. TopUpsCapped'
    BY <1>0 DEF WindowInv, TopUpsCapped, Within
  <2> QED  BY <2>1, <2>3, <2>6, <2>8, <2>9, <2>10 DEF WindowInv
<1> QED  BY <1>2, <1>4, <1>5 DEF ReserveTopUp

\* What is handed to the node has its entry.
LEMMA SendFits ==
  ASSUME DayInv, WindowInv, NEW w \in Workers, Send(w)
  PROVE  WindowInv'
<1>0. /\ worker \in [Workers -> Job] /\ worker[w].pc = "send"
      /\ UNCHANGED <<now, rolling, mined>> /\ worker' = [worker EXCEPT ![w] = Idle]
      /\ pool' = pool \/ pool' = pool \cup {worker[w].tx}
  BY DEF DayInv, Shape, Send, At, End, Records, Tx
<1>1. \A tx : Backed(tx)' <=> Backed(tx)
  BY <1>0 DEF Backed
<1>2. \A v \in Workers : worker'[v] = worker[v] \/ worker'[v] = Idle
  BY <1>0
<1>3. \A v \in Workers : WorkerFits(worker[v])' <=> WorkerFits(worker'[v])
  BY <1>0 DEF WorkerFits, Backed
<1>4. WorkerFits(Idle)
  BY DEF WorkerFits, Idle
<1>5. \A v \in Workers : WorkerFits(worker[v])'
  BY <1>2, <1>3, <1>4 DEF WindowInv
<1>6. RecordOK' /\ EntriesFresh' /\ TopUpsCapped'
  BY <1>0 DEF WindowInv, RecordOK, EntriesFresh, TopUpsCapped, Within
<1>7. PoolFits'
  <2>1. worker[w].tx \in Txs /\ worker[w].tx.proven /\ Backed(worker[w].tx)
    BY <1>0 DEF WindowInv, WorkerFits, DayInv, Shape
  <2>2. WithinPolicy(worker[w].tx.gas, worker[w].tx.price)
    BY <1>0 DEF DayInv, Accepted, CoSigned, Tx
  <2>3. \A tx \in pool' : tx \in Txs /\ tx.proven /\ Backed(tx) /\ WithinPolicy(tx.gas, tx.price)
    BY <1>0, <2>1, <2>2 DEF WindowInv, PoolFits
  <2> QED  BY <1>1, <2>3 DEF PoolFits
<1>8. MinedFits'
  BY <1>0 DEF WindowInv, MinedFits
<1> QED  BY <1>5, <1>6, <1>7, <1>8 DEF WindowInv

\* An inclusion is counted in the windows that it falls in: there the entries of
\* all of them are still in the record.
LEMMA IncludeFits ==
  ASSUME DayInv, WindowInv, NEW tx \in Txs, Include(tx)
  PROVE  WindowInv'
<1>0. /\ tx \in pool /\ now < tx.valid /\ now \in Nat /\ \A m \in mined : m.tx # tx
      /\ mined' = mined \cup {[tx |-> tx, at |-> now]}
      /\ UNCHANGED <<rolling, worker, now, pool>>
  BY SponsorshipAssumption DEF Include, Records, DayInv, Shape
<1>1. MinedFits'
  <2>1. \A m \in mined' : m.tx \in pool /\ m.at \in Nat /\ m.at <= now /\ m.at < m.tx.valid
    BY <1>0 DEF WindowInv, MinedFits
  <2>2. \A m, n \in mined' : m.tx = n.tx => m = n
    BY <1>0 DEF WindowInv, MinedFits
  <2> QED  BY <1>0, <2>1, <2>2 DEF MinedFits
<1>2. ASSUME NEW t \in -1..MaxTime
      PROVE  Capped({m \in mined' : m.tx.action = "topUp" /\ m.at > t /\ m.at <= t + Slack})
  <2> DEFINE ms == {m \in mined' : m.tx.action = "topUp" /\ m.at > t /\ m.at <= t + Slack}
  <2>0. t \in Int /\ Slack \in Int
    BY SponsorshipAssumption, PolicyAssumption DEF Slack
  <2>1. CASE now > t /\ now <= t + Slack
    <3>1. ASSUME NEW m \in ms PROVE \E e \in rolling : Covers(e, m.tx)
      <4>1. /\ m.tx \in pool /\ m.at \in Nat /\ m.at < m.tx.valid
            /\ m.tx.action = "topUp" /\ m.at > t
        BY <1>0, <1>1 DEF MinedFits
      <4>2. Backed(m.tx) /\ m.tx.valid \in Nat
        BY <4>1, SponsorshipAssumption DEF WindowInv, PoolFits
      <4>3. now < m.tx.valid + Slack
        BY <1>0, <2>0, <2>1, <4>1, <4>2
      <4> QED  BY <4>1, <4>2, <4>3 DEF Backed
    <3>2. ASSUME NEW m \in ms, NEW n \in ms, m.tx.payer = n.tx.payer, m.tx.id = n.tx.id
          PROVE  m = n
      <4>1. m.tx \in pool /\ n.tx \in pool
        BY <1>0, <1>1 DEF MinedFits
      <4>2. m.tx \in Txs /\ n.tx \in Txs /\ m.tx.proven /\ n.tx.proven
        BY <4>1 DEF WindowInv, PoolFits
      <4>3. m.tx = n.tx
        BY <3>2, <4>2, SponsorshipAssumption
      <4> QED  BY <1>1, <4>3 DEF MinedFits
    <3>3. ASSUME NEW m \in ms PROVE Cost(m) \in Nat /\ Cost(m) <= MaxTotalFee
      <4>1. m.tx \in pool
        BY <1>0, <1>1 DEF MinedFits
      <4>2. m.tx \in Txs /\ WithinPolicy(m.tx.gas, m.tx.price)
        BY <4>1 DEF WindowInv, PoolFits
      <4>3. m.tx.gas \in Nat /\ m.tx.price \in Nat
        BY <4>2, SponsorshipAssumption
      <4>4. m.tx.gas * m.tx.price \in Nat
        BY <4>3
      <4> QED  BY <4>2, <4>4 DEF WithinPolicy, Cost
    <3> HIDE DEF ms
    <3>4. Capped(ms)
      BY <3>1, <3>2, <3>3, CoveredCapped DEF WindowInv, RecordOK
    <3> QED  BY <3>4 DEF ms
  <2>2. CASE ~(now > t /\ now <= t + Slack)
    <3>1. ms = Within(t)
      BY <1>0, <2>2 DEF Within
    <3> HIDE DEF ms
    <3>2. Capped(ms)
      BY <3>1 DEF WindowInv, TopUpsCapped
    <3> QED  BY <3>2 DEF ms
  <2> QED  BY <2>1, <2>2
<1>3. TopUpsCapped'
  BY <1>2 DEF TopUpsCapped, Within
<1>4. RecordOK' /\ EntriesFresh' /\ PoolFits'
  BY <1>0 DEF WindowInv, RecordOK, EntriesFresh, PoolFits, Backed
<1>5. \A v \in Workers : WorkerFits(worker[v])'
  BY <1>0 DEF WindowInv, WorkerFits, Backed
<1> QED  BY <1>1, <1>3, <1>4, <1>5 DEF WindowInv

\* Time passes: entries and transactions age together.
LEMMA TickFits ==
  ASSUME DayInv, WindowInv, Tick
  PROVE  WindowInv'
<1>0. /\ now \in Nat /\ now' = now + 1 /\ UNCHANGED <<rolling, worker, pool, mined>>
      /\ Slack \in Int
  BY SponsorshipAssumption, PolicyAssumption DEF Tick, Records, DayInv, Shape, Slack
<1>1. ASSUME NEW tx \in Txs, Backed(tx) PROVE Backed(tx)'
  <2>1. tx.valid \in Nat
    BY SponsorshipAssumption
  <2>2. now' < tx.valid + Slack => now < tx.valid + Slack
    BY <1>0, <2>1
  <2> QED  BY <1>0, <1>1, <2>2 DEF Backed, Covers
<1>2. RecordOK' /\ EntriesFresh' /\ TopUpsCapped'
  BY <1>0 DEF WindowInv, RecordOK, EntriesFresh, TopUpsCapped, Within
<1>3. PoolFits'
  BY <1>0, <1>1 DEF WindowInv, PoolFits
<1>4. MinedFits'
  <2>1. \A m \in mined : m.at <= now'
    BY <1>0 DEF WindowInv, MinedFits
  <2> QED  BY <1>0, <2>1 DEF WindowInv, MinedFits
<1>5. ASSUME NEW v \in Workers PROVE WorkerFits(worker[v])'
  <2>1. WorkerFits(worker[v]) /\ (worker[v].pc # "idle" => worker[v].tx \in Txs)
    BY DEF WindowInv, DayInv, Shape
  <2>2. worker[v].pc # "idle" => worker[v].tx.valid \in Nat
    BY <2>1, SponsorshipAssumption
  <2>3. worker[v].at \in Nat
    BY DEF DayInv, Shape, Job
  <2>4. worker[v].pc = "send" => Backed(worker[v].tx)'
    <3>1. ASSUME NEW u, u = worker[v].tx, worker[v].pc = "send" PROVE Backed(u)'
      BY <1>1, <2>1, <3>1 DEF WorkerFits
    <3>2. \A u : u = worker[v].tx => (Backed(worker[v].tx)' <=> Backed(u)')
      BY <1>0 DEF Backed, Covers
    <3> QED  BY <3>1, <3>2
  <2>5. worker[v].pc \in {"simulate", "cosign", "check", "reserve", "send"} =>
          worker[v].tx.valid <= now' + MaxWindow
    BY <1>0, <2>1, <2>2, PolicyAssumption DEF WorkerFits
  <2>6. worker[v].pc = "reserve" => worker[v].at <= now'
    BY <1>0, <2>1, <2>3 DEF WorkerFits
  <2>7. WorkerFits(worker[v])' <=>
          /\ worker[v].pc # "idle" => worker[v].tx.proven
          /\ worker[v].pc \in {"simulate", "cosign", "check", "reserve", "send"} =>
               worker[v].tx.valid <= now' + MaxWindow
          /\ worker[v].pc = "reserve" =>
               worker[v].at <= now' /\ worker[v].tx.valid <= worker[v].at + MaxWindow
          /\ worker[v].pc = "send" => Backed(worker[v].tx)'
    BY <1>0 DEF WorkerFits, Backed
  <2> QED  BY <2>1, <2>4, <2>5, <2>6, <2>7 DEF WorkerFits
<1> QED  BY <1>2, <1>3, <1>4, <1>5 DEF WindowInv

\* The invariant of the window is kept by every step.
LEMMA WindowInvNext == DayInv /\ WindowInv /\ [Next]_vars => WindowInv'
<1> SUFFICES ASSUME DayInv, WindowInv, [Next]_vars PROVE WindowInv'
  OBVIOUS
<1>1. CASE \E w \in Workers : Step(w)
  BY <1>1, WorkerSteps, ReserveTopUpFits, SendFits DEF Step
<1>2. CASE \E tx \in Txs : Include(tx)
  BY <1>2, IncludeFits
<1>3. CASE Tick
  BY <1>3, TickFits
<1>4. CASE UNCHANGED vars
  <2>1. UNCHANGED <<now, rolling, worker, pool, mined>>
    BY <1>4 DEF vars
  <2>2. RecordOK' /\ EntriesFresh' /\ TopUpsCapped' /\ MinedFits'
    BY <2>1 DEF WindowInv, RecordOK, EntriesFresh, TopUpsCapped, Within, MinedFits
  <2>3. PoolFits'
    BY <2>1 DEF WindowInv, PoolFits, Backed
  <2>4. \A w \in Workers : WorkerFits(worker[w])'
    BY <2>1 DEF WindowInv, WorkerFits, Backed
  <2> QED  BY <2>2, <2>3, <2>4 DEF WindowInv
<1> QED  BY <1>1, <1>2, <1>3, <1>4 DEF Next

\* At first the record is empty.
LEMMA WindowInvInit == Init => WindowInv
<1> SUFFICES ASSUME Init PROVE WindowInv
  OBVIOUS
<1>1. rolling = {} /\ pool = {} /\ mined = {} /\ \A w \in Workers : worker[w] = Idle
  BY DEF Init
<1>2. IsFiniteSet({}) /\ Cardinality({}) = 0
  BY FS_EmptySet
<1>3. 0 * MaxTotalFee = 0 /\ PerPayer \in Nat /\ MaxTransactions \in Nat /\ RollingFee \in Nat
  BY SponsorshipAssumption, PolicyAssumption
<1>4. RecordOK
  <2>1. \A p \in Payers : {e \in rolling : e.payer = p} = {}
    BY <1>1
  <2> QED  BY <1>1, <1>2, <1>3, <2>1 DEF RecordOK
<1>5. TopUpsCapped
  <2>1. Capped({})
    <3>1. \A p \in Payers : Cardinality({e \in {} : e.payer = p}) = 0
      <4>1. \A p \in Payers : {e \in {} : e.payer = p} = {}
        OBVIOUS
      <4> QED  BY <1>2, <4>1
    <3> QED  BY <1>2, <1>3, <3>1, CoveredCapped
  <2>2. \A t : Within(t) = {}
    BY <1>1 DEF Within
  <2> QED  BY <2>1, <2>2 DEF TopUpsCapped
<1>6. EntriesFresh /\ PoolFits /\ MinedFits
  BY <1>1 DEF EntriesFresh, PoolFits, MinedFits
<1>7. \A w \in Workers : WorkerFits(worker[w])
  BY <1>1 DEF WorkerFits, Idle
<1> QED  BY <1>4, <1>5, <1>6, <1>7 DEF WindowInv

\* However workers read the clock, stop between the record and the send, or send a
\* top-up again on its entry, and whenever what they sent is included: in a window,
\* but for the time a transaction may stay valid, no more top-ups are included, of a
\* payer and of all, and they cost no more, than SessionSponsorshipLimit allows.
THEOREM WindowLimitHolds == Spec => []TopUpsCapped
<1>1. WindowInv => TopUpsCapped
  BY DEF WindowInv
<1> QED  BY <1>1, WindowInvInit, WindowInvNext, DayInvAlways, PTL DEF Spec

===============================================================================
