-------------------------- MODULE SessionSponsorship --------------------------
(***************************************************************************)
(* A server pays the fees of the opens and top-ups of its session clients  *)
(* (_session.py, _chain.py, _fee_payer.py).  Two shared records bound what  *)
(* it spends: of each payer so many opens and so many top-ups a UTC day    *)
(* (_sponsorship_limit.py), and of all payers so many top-ups, and so much *)
(* in fees, in a rolling window (sponsorship_limit.py).  Any number of     *)
(* servers share the records; their workers run beside each other, and     *)
(* stop, or are cancelled, at any await.                                   *)
(*                                                                         *)
(* A transaction is what a payer signed, acceptable or not:                *)
(* [id, payer, proven, action, gas, price, valid], where "proven" says     *)
(* that its signatures prove who the payer is.                             *)
(***************************************************************************)
EXTENDS SponsorPolicy, FiniteSetsExt

CONSTANTS Workers,         \* calls of the servers' session methods
          Txs,             \* the transactions that payers signed
          PerDay,          \* SponsorshipLimit.per_day
          DayLength,       \* of a UTC day
          PerPayer,        \* SessionSponsorshipLimit.per_payer
          MaxTransactions, \* SessionSponsorshipLimit.max_transactions
          RollingFee,      \* SessionSponsorshipLimit.max_total_fee
          Rolling,         \* SessionSponsorshipLimit.window_seconds
          MaxTries, MaxTime  \* bounds: credentials presented, the clock

Actions == {"open", "topUp"}

ASSUME SponsorshipAssumption ==
  /\ PerDay \in Nat /\ DayLength \in Nat \ {0}
  /\ PerPayer \in Nat \ {0} /\ MaxTransactions \in Nat \ {0}
  /\ RollingFee \in Nat \ {0} /\ Rolling \in Nat \ {0}
  /\ MaxTries \in Nat /\ MaxTime \in Nat /\ IsFiniteSet(Workers)
  /\ \A t \in Txs : t.gas \in Nat /\ t.price \in Nat /\ t.valid \in Nat /\ t.action \in Actions
  \* A payer's signature proves one transaction of an id (expiring_nonce_hash).
  /\ \A t, u \in Txs : t.proven /\ u.proven /\ t.payer = u.payer /\ t.id = u.id => t = u

VARIABLES now,     \* the clock
          usage,   \* the record of each payer's day
          rolling, \* the entries of the rolling window
          worker,  \* where each worker is
          pool,    \* sponsored transactions that were handed to the node
          mined,   \* those that were included, and when
          tries,   \* how many credentials were presented
          sent     \* ghost: the sends that used a slot of a payer's day

vars == <<now, usage, rolling, worker, pool, mined, tries, sent>>

Payers == {t.payer : t \in Txs}
DayOf(t) == t \div DayLength
Slots == [payer : Payers, action : Actions, day : 0..DayOf(MaxTime)]
NoSlot == [payer |-> "none"]
NoTx == [id |-> "none"]

\* "day" is the day a worker reserves on, "slot" (a ghost) the slot it then holds.
Idle == [pc |-> "idle", tx |-> NoTx, day |-> 0, slot |-> NoSlot, at |-> 0]

Init ==
  /\ now = 0
  /\ usage = [p \in Payers |-> [day |-> 0, count |-> [a \in Actions |-> 0]]]
  /\ rolling = {}
  /\ worker = [w \in Workers |-> Idle]
  /\ pool = {} /\ mined = {} /\ tries = 0
  /\ sent = [s \in Slots |-> 0]

At(w, pc) == worker[w].pc = pc
Tx(w) == worker[w].tx
Goto(w, pc) == worker' = [worker EXCEPT ![w].pc = pc]

\* The call ends; a slot it holds stays counted.
End(w) == worker' = [worker EXCEPT ![w] = Idle]

Records == <<usage, rolling>>
Chain == <<now, pool, mined>>
Counts == <<tries, sent>>

-----------------------------------------------------------------------------
(* The limit of a payer's day.                                             *)

\* A transaction that proves no payer is not sponsored.
Present(w, tx) ==
  /\ At(w, "idle") /\ tries < MaxTries
  /\ tries' = tries + 1
  /\ IF tx.proven
     THEN worker' = [worker EXCEPT ![w] = [Idle EXCEPT !.pc = "limited", !.tx = tx,
                                                       !.day = DayOf(now)]]
     ELSE UNCHANGED worker
  /\ UNCHANGED <<Records, Chain, sent>>

\* The record, of this day or of a later one that was recorded already.
UsageOn(p, day) ==
  IF usage[p].day >= day THEN usage[p] ELSE [day |-> day, count |-> [a \in Actions |-> 0]]

\* Over the limit it is not sponsored.
ReserveSlot(w) ==
  /\ At(w, "limited")
  /\ LET p == Tx(w).payer
         a == Tx(w).action
         u == UsageOn(p, worker[w].day)
     IN  IF u.count[a] >= PerDay
         THEN End(w) /\ UNCHANGED usage
         ELSE /\ usage' = [usage EXCEPT ![p] = [u EXCEPT !.count[a] = @ + 1]]
              /\ worker' = [worker EXCEPT ![w].pc = "validate",
                              ![w].slot = [payer |-> p, action |-> a, day |-> u.day]]
  /\ UNCHANGED <<rolling, Chain, Counts>>

\* Mutant: a slot is given back on whatever day it is.
GivesBackAnyDay(u, w) == u.count[Tx(w).action] > 0

\* Only on the day it was reserved: a later record holds other requests.
GivesBack(u, w) == u.day = worker[w].day /\ u.count[Tx(w).action] > 0

\* Nothing was sent: the slot is given back, unless the store fails.
Release(w) ==
  /\ At(w, "release")
  /\ LET p == Tx(w).payer IN
     \/ usage' = IF GivesBack(usage[p], w)
                 THEN [usage EXCEPT ![p].count[Tx(w).action] = @ - 1] ELSE usage
     \/ UNCHANGED usage
  /\ End(w)
  /\ UNCHANGED <<rolling, Chain, Counts>>

-----------------------------------------------------------------------------
(* Co-signing and sending.                                                 *)

\* The envelope is checked by co-signing it; so is an open's voucher.
Validate(w) ==
  /\ At(w, "validate")
  /\ IF EnvelopeAccepted(Tx(w), now)
     THEN Goto(w, "simulate") \/ Goto(w, "release")
     ELSE Goto(w, "release")
  /\ UNCHANGED <<Records, Chain, Counts>>

\* As the sender, at the gas of the transaction.
SimulateSender(w) ==
  /\ At(w, "simulate")
  /\ Goto(w, "cosign") \/ Goto(w, "release")
  /\ UNCHANGED <<Records, Chain, Counts>>

\* Then, checked again, as the sponsored transaction.
Cosign(w) ==
  /\ At(w, "cosign")
  /\ IF /\ EnvelopeAccepted(Tx(w), now)
        /\ WithinPolicy(SimulationGas(Tx(w).gas, Tx(w).price), Tx(w).price)
     THEN Goto(w, "check") \/ Goto(w, "release")
     ELSE Goto(w, "release")
  /\ UNCHANGED <<Records, Chain, Counts>>

\* The simulation took time.  From here on the transaction counts as sent.
Check(w) ==
  /\ At(w, "check")
  /\ IF TimeLeft(Tx(w), now)
     THEN worker' = [worker EXCEPT ![w].pc = IF Tx(w).action = "open" THEN "send" ELSE "reserve",
                                   ![w].at = now]
     ELSE Goto(w, "release")
  /\ UNCHANGED <<Records, Chain, Counts>>

\* Handed to the node, which takes it or not.
Send(w) ==
  /\ At(w, "send")
  /\ sent' = [sent EXCEPT ![worker[w].slot] = @ + 1]
  /\ pool' \in {pool, pool \cup {Tx(w)}}
  /\ End(w)
  /\ UNCHANGED <<Records, now, mined, tries>>

-----------------------------------------------------------------------------
(* The limit of the rolling window, right before a top-up is sent.         *)

Entry(w) == [at |-> worker[w].at, payer |-> Tx(w).payer, tx |-> Tx(w).id]
Live(w) == {e \in rolling : e.at > worker[w].at - Rolling}

\* Mutant: the entries of a payer are taken for each other.
KnownByPayer(w) == \E e \in Live(w) : e.payer = Tx(w).payer

\* A retry of a transaction has its entry.
Known(w) == \E e \in Live(w) : e.payer = Tx(w).payer /\ e.tx = Tx(w).id

Exhausted(w) ==
  \/ Cardinality({e \in Live(w) : e.payer = Tx(w).payer}) >= PerPayer
  \/ Cardinality(Live(w)) >= MaxTransactions
  \/ (Cardinality(Live(w)) + 1) * MaxTotalFee > RollingFee

\* The clock is read before the record.
ReadClock(w) ==
  /\ At(w, "reserve") /\ worker[w].at # now
  /\ worker' = [worker EXCEPT ![w].at = now]
  /\ UNCHANGED <<Records, Chain, Counts>>

\* An entry is for the most that a transaction may cost, and is never given back.
ReserveTopUp(w) ==
  /\ At(w, "reserve")
  /\ \/ Known(w) /\ Goto(w, "send") /\ UNCHANGED rolling
     \/ ~Known(w) /\ Exhausted(w) /\ Goto(w, "release") /\ UNCHANGED rolling
     \/ /\ ~Known(w) /\ ~Exhausted(w)
        /\ rolling' = Live(w) \cup {Entry(w)}
        /\ Goto(w, "send") \/ Goto(w, "release")
     \/ Goto(w, "release") /\ UNCHANGED rolling
  /\ UNCHANGED <<usage, Chain, Counts>>

-----------------------------------------------------------------------------
(* The rest of the world.                                                  *)

\* A request is cancelled before it counts as sent: its slot is given back.
Cancel(w) ==
  /\ worker[w].pc \in {"validate", "simulate", "cosign", "check", "reserve"}
  /\ Goto(w, "release")
  /\ UNCHANGED <<Records, Chain, Counts>>

\* The process stops, or a request is cancelled at another await.
Crash(w) ==
  /\ ~At(w, "idle")
  /\ End(w)
  /\ UNCHANGED <<Records, Chain, Counts>>

\* An expiring nonce lets a transaction in once, before it is invalid.
Include(tx) ==
  /\ tx \in pool /\ now < tx.valid /\ \A m \in mined : m.tx # tx
  /\ mined' = mined \cup {[tx |-> tx, at |-> now]}
  /\ UNCHANGED <<Records, worker, now, pool, Counts>>

Tick ==
  /\ now < MaxTime
  /\ now' = now + 1
  /\ UNCHANGED <<Records, worker, pool, mined, Counts>>

Step(w) ==
  \/ \E tx \in Txs : Present(w, tx)
  \/ ReserveSlot(w) \/ Release(w)
  \/ Validate(w) \/ SimulateSender(w) \/ Cosign(w) \/ Check(w)
  \/ ReadClock(w) \/ ReserveTopUp(w) \/ Send(w)
  \/ Cancel(w) \/ Crash(w)

Next ==
  \/ \E w \in Workers : Step(w)
  \/ \E tx \in Txs : Include(tx)
  \/ Tick

Spec == Init /\ [][Next]_vars

-----------------------------------------------------------------------------
(* Properties.                                                             *)

\* The fee payer co-signs nothing above its policy, nor a copy that it only
\* simulates, whatever envelope it is presented with; and the copy of one that its
\* policy allows is never refused.
CoSigned(w) == worker[w].pc \in {"simulate", "cosign", "check", "reserve", "send"}
SignsWithinPolicy ==
  \A w \in Workers : CoSigned(w) =>
    /\ WithinPolicy(Tx(w).gas, Tx(w).price)
    /\ WithinPolicy(SimulationGas(Tx(w).gas, Tx(w).price), Tx(w).price)

\* No more sponsored opens, nor top-ups, of a payer are sent on slots of one day
\* than the limit, although slots are given back, by workers that reserved them
\* the day before too.
SponsoredWithinDay == \A s \in Slots : sent[s] <= PerDay

\* Top-ups are included later than they are reserved, on the same reservation
\* when they are retried: in a rolling window, but for the time a transaction may
\* stay valid, no more of them are included, and they cost no more, than the limits
\* of one window allow, whatever fees the payers put into their transactions.
Slack == Rolling - MaxWindow
Within(t) == {m \in mined : m.tx.action = "topUp" /\ m.at > t /\ m.at <= t + Slack}
Capped(ms) ==
  /\ Cardinality(ms) <= MaxTransactions
  /\ \A p \in Payers : Cardinality({m \in ms : m.tx.payer = p}) <= PerPayer
  /\ MapThenSumSet(LAMBDA m : m.tx.gas * m.tx.price, ms) <= RollingFee
TopUpsCapped == \A t \in -1..MaxTime : Capped(Within(t))
=============================================================================
