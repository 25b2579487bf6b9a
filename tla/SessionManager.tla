--------------------------- MODULE SessionManager ---------------------------
(***************************************************************************)
(* A session manager (session/client/_manager.py): one request at a time   *)
(* over one channel.  Opens and vouchers are stored as they are signed and *)
(* rolled back when the request fails; manual top-ups may run beside the   *)
(* request and share its funding lock.                                     *)
(***************************************************************************)
EXTENDS SessionService

CONSTANTS TopUps,      \* the Requests that are calls of top_up
          ManualAmount,\* what a call of top_up adds
          MaxRetries   \* the transport's max_payment_retries

VARIABLES store,    \* the entry of the channel store
          mgr,      \* the fields of the manager
          funding,  \* the calls that hold the funding lock
          call,     \* where each call is
          opened,   \* how many channels were opened
          unknown   \* history: top-ups of unknown outcome, of each channel

client == <<store, mgr, funding, call, opened, unknown>>
vars == <<service, client>>

NoCredential == [kind |-> "none", by |-> "none", ch |-> 0, amount |-> 0, deposit |-> 0,
                 snap |-> NoSnapshot]

IdleCall == [pc |-> "new", round |-> 0, snap |-> NoSnapshot, paidFor |-> NoSnapshot,
             target |-> NoEntry, required |-> 0, sent |-> NoCredential]

\* channel and spent, the baseline of the request in flight, the channels it
\* created, its last challenge, and whether funding is blocked.
Init ==
  /\ ServiceInit
  /\ store = NoEntry /\ funding = {} /\ opened = 0
  /\ mgr = [channel |-> NoEntry, spent |-> 0, busy |-> FALSE, blocked |-> FALSE,
            previous |-> NoEntry, previousSpent |-> 0, created |-> {},
            received |-> 0, last |-> NoSnapshot, challenged |-> FALSE]
  /\ call = [r \in Requests |-> IdleCall]
  /\ unknown = [c \in Channels |-> 0]

TypeOK ==
  /\ ServiceTypeOK
  /\ store \in Entry /\ funding \subseteq Requests /\ opened \in 0..MaxChannels
  /\ mgr.channel \in Entry /\ mgr.previous \in Entry /\ mgr.created \subseteq Channels
  /\ mgr.spent \in Nat /\ mgr.received \in 0..MaxRetries /\ mgr.last \in Snapshot
  /\ \A r \in Requests : call[r].snap \in Snapshot /\ call[r].target \in Entry
  /\ unknown \in [Channels -> Nat]

-----------------------------------------------------------------------------
Send(m) == requests' = requests \cup {m}

Post(kind, r, c, amount, deposit) ==
  [kind |-> kind, by |-> r, ch |-> c, amount |-> amount, deposit |-> deposit,
   snap |-> call[r].snap]

Receive(reply) == replies' = replies \ {reply}

Goto(r, pc) == call' = [call EXCEPT ![r].pc = pc]

End(r) ==
  /\ call' = [call EXCEPT ![r] = [IdleCall EXCEPT !.pc = "done"]]
  /\ funding' = funding \ {r}

Ready(r, pc) == r \notin TopUps /\ call[r].pc = pc

\* The manager follows every entry its method writes; one of another channel
\* starts with no confirmed spend, and belongs to the request in flight.
Updated(m, entry) ==
  IF entry.ch = m.channel.ch
  THEN [m EXCEPT !.channel = entry]
  ELSE [m EXCEPT !.channel = entry, !.spent = 0,
                 !.created = IF m.busy THEN @ \cup {entry.ch} ELSE @]

Write(entry) ==
  /\ CanPersist(store, entry)
  /\ store' = Persisted(store, entry)
  /\ mgr' = Updated(mgr, store')

-----------------------------------------------------------------------------
(* Rolling back.                                                           *)

\* A voucher is taken back in the store and the manager, if it can be.
TakesBack(m) ==
  /\ m.previous.ch # 0 /\ m.previous.ch = m.channel.ch /\ m.previous.cum # m.channel.cum
  /\ CanPersist(store, m.channel)

\* Mutant: a channel that the request created stays with the manager.
RollbackNothingCreated(m) == [m EXCEPT !.created = {}]

\* The manager after a failed request: what it created is dropped, or the
\* voucher it signed is taken back.
RolledBack(m) ==
  IF m.created # {}
  THEN [m EXCEPT !.channel = m.previous, !.spent = m.previousSpent, !.created = {}]
  ELSE IF TakesBack(m) THEN [m EXCEPT !.channel.cum = m.previous.cum] ELSE m

StoreRolledBack(m) ==
  IF m.created # {}
  THEN Deleted(store)
  ELSE IF TakesBack(m) THEN Persisted(store, RolledBack(m).channel) ELSE store

Rollback ==
  /\ store' = StoreRolledBack(mgr)
  /\ mgr' = [RolledBack(mgr) EXCEPT !.busy = FALSE]

-----------------------------------------------------------------------------
(* fetch.                                                                  *)

BeginFetch(r) ==
  /\ Ready(r, "new") /\ ~mgr.busy /\ ~mgr.blocked
  /\ Goto(r, "begun")
  /\ mgr' = [mgr EXCEPT !.busy = TRUE, !.previous = mgr.channel,
                        !.previousSpent = mgr.spent, !.created = {}, !.received = 0]
  /\ UNCHANGED <<service, store, funding, opened, unknown>>

\* A HEAD request proves who the payer is, for the server's snapshot.
AskSnapshot(r) ==
  /\ Ready(r, "begun") /\ mgr.channel.ch = 0
  /\ \E snap \in Hints(served) \ {NoSnapshot} :
       call' = [call EXCEPT ![r] = [@ EXCEPT !.pc = "bootstrapping", !.snap = snap]]
  /\ UNCHANGED <<service, store, mgr, funding, opened, unknown>>

\* The channel on chain must cover the snapshot; a stored channel is kept.
Usable(entry) ==
  entry.deposit # 0 /\ entry.cum <= entry.deposit /\ WithinLimit(entry.cum)

RecoverSnapshot(r) ==
  /\ Ready(r, "bootstrapping")
  /\ LET snap == call[r].snap
         entry == [ch |-> snap.ch, cum |-> BootstrapCumulative(snap),
                   deposit |-> escrow[snap.ch], uncertain |-> FALSE]
     IN IF Usable(entry) /\ store.ch = 0
        THEN /\ store' = entry
             /\ mgr' = [mgr EXCEPT !.channel = entry, !.spent = snap.spent,
                                   !.previous = entry, !.previousSpent = snap.spent]
        ELSE UNCHANGED <<store, mgr>>
  /\ Goto(r, "recovered")
  /\ UNCHANGED <<service, funding, opened, unknown>>

Ask(r) ==
  /\ Ready(r, "begun") \/ Ready(r, "recovered")
  /\ Send(Fetch(r))
  /\ Goto(r, "asked")
  /\ UNCHANGED <<replies, escrow, served, faults, charged, unserved,
                 store, mgr, funding, opened, unknown>>

TakeChallenge(r, reply) ==
  /\ Ready(r, "asked")
  /\ reply.by = r /\ reply.status = "402"
  /\ Receive(reply)
  /\ call' = [call EXCEPT ![r] = [@ EXCEPT !.pc = "challenged", !.snap = reply.snap]]
  /\ UNCHANGED <<requests, escrow, served, faults, charged, unserved,
                 store, mgr, funding, opened, unknown>>

\* The snapshot names a channel that this request created: it is kept.
CommitsReferenced(snap) == mgr.channel.ch \in mgr.created /\ snap.ch = mgr.channel.ch

Note(m, snap) ==
  [m EXCEPT !.received = @ + 1, !.last = snap, !.challenged = TRUE]

\* A replacement challenge first undoes what the refused credential changed,
\* when its channel was created by this request or its id is repeated.
ReceiveChallenge(r) ==
  /\ Ready(r, "challenged")
  /\ LET snap == call[r].snap
     IN \/ /\ mgr.received = 0
           /\ mgr' = Note(mgr, snap)
           /\ UNCHANGED store
        \/ /\ mgr.received > 0 /\ CommitsReferenced(snap)
           /\ mgr' = Note([mgr EXCEPT !.created = @ \ {snap.ch}, !.previous = mgr.channel,
                                      !.previousSpent = mgr.spent], snap)
           /\ UNCHANGED store
        \/ /\ mgr.received > 0 /\ ~CommitsReferenced(snap)
           /\ \E repeated \in BOOLEAN :
                IF mgr.created # {} \/ (repeated /\ snap # mgr.last)
                THEN /\ mgr' = Note(RolledBack(mgr), snap)
                     /\ store' = StoreRolledBack(mgr)
                ELSE /\ mgr' = Note(mgr, snap)
                     /\ UNCHANGED store
  /\ Goto(r, "accepted")
  /\ UNCHANGED <<service, funding, opened, unknown>>

\* Decides whether the next voucher needs funds, or the server knows of more.
CheckFunds(r) ==
  /\ Ready(r, "accepted")
  /\ LET snap == call[r].snap
         required == Required(store, snap)
         deposit == KnownDeposit(store, snap)
     IN IF store.ch = 0 \/ (required <= deposit /\ deposit = store.deposit)
        THEN Goto(r, "funded")
        ELSE /\ required <= deposit \/ WithinLimit(required)
             /\ call' = [call EXCEPT ![r] =
                  [@ EXCEPT !.pc = "underfunded", !.required = required,
                            !.target = [store EXCEPT !.deposit = deposit]]]
  /\ UNCHANGED <<service, store, mgr, funding, opened, unknown>>

FundingFree(r) == funding = {}

\* Under the lock the stored entry counts, and an uncertain one blocks.
LockFunding(r) ==
  /\ Ready(r, "underfunded") /\ FundingFree(r)
  /\ funding' = funding \cup {r}
  /\ LET seen == call[r].target
         entry == IF store.ch = seen.ch
                  THEN [store EXCEPT !.deposit = Larger(@, seen.deposit)] ELSE seen
         next == IF entry.uncertain THEN "uncertain"
                 ELSE IF TopUpFor(entry.deposit, call[r].required) > 0 THEN "short" ELSE "landed"
     IN call' = [call EXCEPT ![r] = [@ EXCEPT !.target = entry, !.pc = next]]
  /\ UNCHANGED <<service, store, mgr, opened, unknown>>

PostTopUp(r) ==
  /\ Ready(r, "short")
  /\ LET m == Post("topUp", r, call[r].target.ch,
                   TopUpFor(call[r].target.deposit, call[r].required), 0)
     IN /\ Send(m)
        /\ call' = [call EXCEPT ![r] = [@ EXCEPT !.pc = "toppingUp", !.sent = m]]
  /\ UNCHANGED <<replies, escrow, served, faults, charged, unserved,
                 store, mgr, funding, opened, unknown>>

\* Writes the funded deposit onto the entry that is stored by then.
RecordFunds(r) ==
  /\ Ready(r, "landed")
  /\ LET entry == call[r].target
         latest == IF store.ch = entry.ch THEN store ELSE entry
     IN \/ /\ Write([latest EXCEPT !.deposit = Larger(@, entry.deposit)])
           /\ Goto(r, "funded")
           /\ funding' = funding \ {r}
        \/ /\ ~CanPersist(store, latest)
           /\ Goto(r, "uncertain")
           /\ UNCHANGED <<store, mgr, funding>>
  /\ UNCHANGED <<service, opened, unknown>>

\* Sends a credential.
Pay(r, m) ==
  /\ Send(m)
  /\ call' = [call EXCEPT ![r] =
       [@ EXCEPT !.pc = "paying", !.round = call[r].round + 1,
                 !.sent = m, !.paidFor = call[r].snap]]

SignOpen(r) ==
  /\ Ready(r, "funded") /\ PlanKind(store, call[r].snap) = "open"
  /\ opened < MaxChannels
  /\ opened' = opened + 1
  /\ Write([ch |-> opened + 1, cum |-> Price, deposit |-> OpeningDeposit, uncertain |-> FALSE])
  /\ Pay(r, Post("open", r, opened + 1, Price, OpeningDeposit))
  /\ UNCHANGED <<replies, escrow, served, faults, charged, unserved, funding, unknown>>

SignVoucher(r) ==
  /\ Ready(r, "funded") /\ PlanKind(store, call[r].snap) = "voucher"
  /\ WithinLimit(store.cum + Price)
  /\ Write([store EXCEPT !.cum = @ + Price])
  /\ Pay(r, Post("voucher", r, store.ch, store.cum + Price, 0))
  /\ UNCHANGED <<replies, escrow, served, faults, charged, unserved, funding, opened, unknown>>

SignRecovered(r) ==
  /\ Ready(r, "funded") /\ PlanKind(store, call[r].snap) = "recover"
  /\ LET snap == call[r].snap
         cum == RecoveredCumulative(snap)
     IN /\ escrow[snap.ch] # 0 /\ cum <= escrow[snap.ch] /\ WithinLimit(cum)
        /\ Write([ch |-> snap.ch, cum |-> cum, deposit |-> escrow[snap.ch], uncertain |-> FALSE])
        /\ Pay(r, Post("voucher", r, snap.ch, cum, 0))
  /\ UNCHANGED <<replies, escrow, served, faults, charged, unserved, funding, opened, unknown>>

\* A receipt of the channel confirms spend, within what the manager signed.
Credible(m, receipt) == receipt.ch = m.channel.ch => receipt.accepted <= m.channel.cum

Confirmed(m, receipt) ==
  IF receipt.ch = m.channel.ch /\ Credible(m, receipt)
  THEN [m EXCEPT !.spent = Larger(@, receipt.spent)] ELSE m

FetchPaid(r, reply) ==
  /\ Ready(r, "paying") /\ reply.by = r /\ reply.status = "ok"
  /\ Receive(reply)
  /\ mgr' = [Confirmed(mgr, reply.snap) EXCEPT !.busy = FALSE]
  /\ End(r)
  /\ UNCHANGED <<requests, escrow, served, faults, charged, unserved, store, opened, unknown>>

\* Another challenge: the transport signs again, or resends for the same one.
PayAgain(r, reply) ==
  /\ Ready(r, "paying") /\ reply.by = r /\ AsksPayment(reply)
  /\ call[r].round < MaxRetries
  /\ Receive(reply)
  /\ \/ /\ call' = [call EXCEPT ![r] = [@ EXCEPT !.pc = "challenged", !.snap = reply.snap]]
        /\ UNCHANGED requests
     \/ /\ reply.snap = call[r].paidFor
        /\ Send(call[r].sent)
        /\ call' = [call EXCEPT ![r].round = @ + 1]
  /\ UNCHANGED <<escrow, served, faults, charged, unserved, store, mgr, funding, opened, unknown>>

\* A response that is no success, without a receipt.
FetchRefused(r, reply) ==
  /\ Ready(r, "paying") /\ reply.by = r
  /\ reply.status = "failed" \/ (AsksPayment(reply) /\ call[r].round = MaxRetries)
  /\ Receive(reply)
  /\ Rollback
  /\ End(r)
  /\ UNCHANGED <<requests, escrow, served, faults, charged, unserved, opened, unknown>>

\* No answer, or no credential can be made: a limit, the chain or a refused
\* top-up forbids it.
FetchFails(r) ==
  /\ r \notin TopUps
  /\ call[r].pc \in {"asked", "accepted", "short", "funded", "paying", "refused"}
  /\ Rollback
  /\ End(r)
  /\ UNCHANGED <<service, opened, unknown>>

-----------------------------------------------------------------------------
(* top_up, and the answers to top-ups of both kinds.                       *)

BeginTopUp(r) ==
  /\ r \in TopUps /\ call[r].pc = "new"
  /\ mgr.channel.ch # 0 /\ mgr.challenged /\ ~mgr.blocked
  /\ WithinLimit(mgr.channel.cum + ManualAmount)
  /\ call' = [call EXCEPT ![r] = [@ EXCEPT !.pc = "waiting", !.target = mgr.channel]]
  /\ UNCHANGED <<service, store, mgr, funding, opened, unknown>>

PostManualTopUp(r) ==
  /\ r \in TopUps /\ call[r].pc = "waiting" /\ FundingFree(r)
  /\ funding' = funding \cup {r}
  /\ LET entry == IF store.ch = call[r].target.ch THEN store ELSE call[r].target
         m == Post("topUp", r, entry.ch, ManualAmount, 0)
     IN IF entry.uncertain
        THEN /\ call' = [call EXCEPT ![r].pc = "uncertain"]
             /\ UNCHANGED requests
        ELSE /\ Send(m)
             /\ call' = [call EXCEPT ![r] =
                  [@ EXCEPT !.pc = "toppingUp", !.target = entry, !.sent = m]]
  /\ UNCHANGED <<replies, escrow, served, faults, charged, unserved, store, mgr, opened, unknown>>

ToppingUp(r) == call[r].pc \in {"toppingUp", "toppingUpAgain"}

ToppedUp(r, reply) ==
  /\ Ready(r, "toppingUp") \/ Ready(r, "toppingUpAgain")
  /\ reply.by = r /\ reply.status = "ok"
  /\ Receive(reply)
  /\ call' = [call EXCEPT ![r] =
       [@ EXCEPT !.pc = "landed",
                 !.target.deposit = call[r].target.deposit + call[r].sent.amount]]
  /\ UNCHANGED <<requests, escrow, served, faults, charged, unserved,
                 store, mgr, funding, opened, unknown>>

\* The receipt counts first; one that accepts more than was signed fails the
\* call.  The deposit is added to the manager's channel, or to the stored one
\* when the manager has moved to another.
ManualToppedUp(r, reply) ==
  /\ r \in TopUps /\ ToppingUp(r) /\ reply.by = r /\ reply.status = "ok"
  /\ Receive(reply)
  /\ LET target == call[r].target
         latest == IF mgr.channel.ch = 0 THEN target ELSE mgr.channel
         funded(entry) == [entry EXCEPT !.deposit = Larger(@, target.deposit) + ManualAmount]
     IN \/ /\ Credible(mgr, reply.snap) /\ latest.ch = target.ch /\ CanPersist(store, latest)
           /\ store' = Persisted(store, funded(latest))
           /\ mgr' = [Confirmed(mgr, reply.snap) EXCEPT !.channel = store']
        \/ /\ Credible(mgr, reply.snap) /\ latest.ch # target.ch /\ store.ch = target.ch
           /\ store' = funded(store)
           /\ mgr' = Confirmed(mgr, reply.snap)
        \/ /\ \/ ~Credible(mgr, reply.snap)
              \/ IF latest.ch = target.ch THEN ~CanPersist(store, latest)
                                          ELSE store.ch # target.ch
           /\ mgr' = Confirmed(mgr, reply.snap)
           /\ UNCHANGED store
  /\ End(r)
  /\ UNCHANGED <<requests, escrow, served, faults, charged, unserved, opened, unknown>>

RepeatTopUp(r, reply) ==
  /\ call[r].pc = "toppingUp" /\ reply.by = r /\ reply.status = "402"
  /\ Receive(reply)
  /\ Send(call[r].sent)
  /\ Goto(r, "toppingUpAgain")
  /\ UNCHANGED <<escrow, served, faults, charged, unserved, store, mgr, funding, opened, unknown>>

\* A refused top-up fails the call; a fetch then rolls back.
TopUpRefused(r, reply) ==
  /\ ToppingUp(r) /\ reply.by = r
  /\ reply.status = "failed" \/ (reply.status = "402" /\ call[r].pc = "toppingUpAgain")
  /\ Receive(reply)
  /\ Goto(r, "refused")
  /\ UNCHANGED <<requests, escrow, served, faults, charged, unserved,
                 store, mgr, funding, opened, unknown>>

EndTopUp(r) ==
  /\ r \in TopUps /\ call[r].pc = "refused"
  /\ End(r)
  /\ UNCHANGED <<service, store, mgr, opened, unknown>>

MarkUncertain(entry) == [entry EXCEPT !.uncertain = TRUE]

\* The request failed or timed out: the deposit may still land.
TopUpUnknown(r) ==
  /\ ToppingUp(r)
  /\ LET entry == IF store.ch = call[r].target.ch THEN store ELSE call[r].target
     IN \/ Write(MarkUncertain(entry))
        \/ ~CanPersist(store, entry) /\ UNCHANGED <<store, mgr>>
  /\ unknown' = [unknown EXCEPT ![call[r].target.ch] = @ + 1]
  /\ Goto(r, "uncertain")
  /\ UNCHANGED <<service, funding, opened>>

\* Funding stays blocked; a fetch is not rolled back.
Block(r) ==
  /\ call[r].pc = "uncertain"
  /\ mgr' = [mgr EXCEPT !.blocked = TRUE, !.busy = IF r \in TopUps THEN @ ELSE FALSE]
  /\ End(r)
  /\ UNCHANGED <<service, store, opened, unknown>>

Step(r) ==
  \/ BeginFetch(r) \/ AskSnapshot(r) \/ RecoverSnapshot(r) \/ Ask(r)
  \/ ReceiveChallenge(r) \/ CheckFunds(r)
  \/ LockFunding(r) \/ PostTopUp(r) \/ RecordFunds(r)
  \/ SignOpen(r) \/ SignVoucher(r) \/ SignRecovered(r) \/ FetchFails(r)
  \/ BeginTopUp(r) \/ PostManualTopUp(r) \/ EndTopUp(r)
  \/ TopUpUnknown(r) \/ Block(r)
  \/ \E reply \in replies :
       \/ TakeChallenge(r, reply) \/ FetchPaid(r, reply) \/ PayAgain(r, reply)
       \/ FetchRefused(r, reply) \/ ToppedUp(r, reply) \/ ManualToppedUp(r, reply)
       \/ RepeatTopUp(r, reply) \/ TopUpRefused(r, reply)

Next ==
  \/ \E r \in Requests : Step(r)
  \/ ServiceNext /\ UNCHANGED client

Spec == Init /\ [][Next]_vars

-----------------------------------------------------------------------------
(* Properties.                                                             *)

Quiet == \A r \in Requests : call[r].pc \in {"new", "done"}

\* Between calls the manager's channel is the stored one, whatever was
\* rolled back, committed, topped up or recovered in between, unless an
\* unknown top-up has blocked the manager.
ManagerMatchesStore == Quiet /\ ~mgr.blocked => mgr.channel = store

=============================================================================
