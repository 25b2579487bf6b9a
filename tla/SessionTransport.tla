-------------------------- MODULE SessionTransport --------------------------
(***************************************************************************)
(* Concurrent requests of one process that pay through a payment transport *)
(* with the tempo session method (client/transport.py, runtime.py,         *)
(* session/client/_session.py and _state.py).  A credential is created     *)
(* under the lock of the channel's scope; an open keeps the lock until its *)
(* outcome is settled, and only then is its channel stored.  Other tasks   *)
(* run at every await.                                                     *)
(***************************************************************************)
EXTENDS SessionService

CONSTANTS MaxRetries   \* max_payment_retries

ASSUME TransportAssumption == MaxRetries \in Nat \ {0}

VARIABLES store,    \* the entry of the channel's scope
          scope,    \* the requests that hold the scope's lock
          task,     \* where each request is
          opened,   \* how many channels were opened
          signed,   \* history: the last amount signed for each channel
          unknown,  \* history: top-ups of unknown outcome, of each channel
          forsaken  \* history: opens that were given up without an acknowledgement

client == <<store, scope, task, opened, signed, unknown, forsaken>>
vars == <<service, client>>

NoCredential == [kind |-> "none", by |-> "none", ch |-> 0, amount |-> 0, deposit |-> 0,
                 snap |-> NoSnapshot]

IdleTask == [pc |-> "new", round |-> 0, snap |-> NoSnapshot, paidFor |-> NoSnapshot,
             sent |-> NoCredential]

Init ==
  /\ ServiceInit
  /\ store = NoEntry /\ scope = {} /\ opened = 0
  /\ task = [r \in Requests |-> IdleTask]
  /\ signed = [c \in Channels |-> 0]
  /\ unknown = [c \in Channels |-> 0]
  /\ forsaken = {}

TypeOK ==
  /\ ServiceTypeOK
  /\ store \in Entry /\ scope \subseteq Requests /\ opened \in 0..MaxChannels
  /\ \A r \in Requests :
       /\ task[r].pc \in {"new", "asked", "challenged", "locked", "toppingUp",
                          "toppingUpAgain", "funded", "paying", "done"}
       /\ task[r].round \in 0..MaxRetries
       /\ task[r].snap \in Snapshot /\ task[r].paidFor \in Snapshot
       /\ task[r].sent \in Message \cup {NoCredential}
  /\ signed \in [Channels -> Nat] /\ unknown \in [Channels -> Nat]
  /\ forsaken \subseteq Channels

-----------------------------------------------------------------------------
Send(m) == requests' = requests \cup {m}

Post(kind, r, c, amount, deposit) ==
  [kind |-> kind, by |-> r, ch |-> c, amount |-> amount, deposit |-> deposit,
   snap |-> task[r].snap]

Receive(reply) == replies' = replies \ {reply}

Goto(r, pc) == task' = [task EXCEPT ![r].pc = pc]

\* The request ends, for the caller: a response or an exception.
End(r) == task' = [task EXCEPT ![r] = [IdleTask EXCEPT !.pc = "done"]]

\* Creating the credential fails: the lock is released, nothing was sent.
FailCredential(r) ==
  /\ End(r)
  /\ scope' = scope \ {r}

HasPendingOpen(r) == task[r].sent.kind = "open"

EntryOf(m) == [ch |-> m.ch, cum |-> m.amount, deposit |-> m.deposit, uncertain |-> FALSE]

\* Stores an accepted open, unless its channel is already stored.
StoreOpen(r) ==
  LET m == task[r].sent
  IN store' = IF store.ch = m.ch \/ ~CanPersist(store, EntryOf(m))
              THEN store
              ELSE Persisted(store, EntryOf(m))

\* The outcome of the last credential: an accepted or acknowledged open is
\* stored, another is forsaken, and the lock is released.
Settle(r, accepted) ==
  /\ IF HasPendingOpen(r) /\ accepted THEN StoreOpen(r) ELSE UNCHANGED store
  /\ forsaken' = IF HasPendingOpen(r) /\ ~accepted
                 THEN forsaken \cup {task[r].sent.ch} ELSE forsaken
  /\ scope' = scope \ {r}

-----------------------------------------------------------------------------
(* The unpaid request and its challenge.                                   *)

Ask(r) ==
  /\ task[r].pc = "new"
  /\ Send(Fetch(r))
  /\ Goto(r, "asked")
  /\ UNCHANGED <<replies, escrow, served, faults, charged, unserved,
                 store, scope, opened, signed, unknown, forsaken>>

TakeChallenge(r, reply) ==
  /\ task[r].pc = "asked"
  /\ reply.by = r /\ reply.status = "402"
  /\ Receive(reply)
  /\ task' = [task EXCEPT ![r] = [@ EXCEPT !.pc = "challenged", !.snap = reply.snap]]
  /\ UNCHANGED <<requests, escrow, served, faults, charged, unserved,
                 store, scope, opened, signed, unknown, forsaken>>

\* Mutant: an open does not keep the lock while its outcome is unknown.
FreeOfLock(r) == \A q \in scope : task[q].pc = "paying"

ScopeFree(r) == scope = {}

LockScope(r) ==
  /\ task[r].pc = "challenged" /\ ScopeFree(r)
  /\ scope' = scope \cup {r}
  /\ Goto(r, "locked")
  /\ UNCHANGED <<service, store, opened, signed, unknown, forsaken>>

-----------------------------------------------------------------------------
(* The top-up before a voucher.                                            *)

Shortfall(r) == Required(store, task[r].snap) > KnownDeposit(store, task[r].snap)

\* Nothing to fund: no entry yet, or the stored deposit covers the voucher.
NeedNoFunds(r) ==
  /\ task[r].pc = "locked"
  /\ \/ store.ch = 0
     \/ ~Shortfall(r) /\ KnownDeposit(store, task[r].snap) = store.deposit
  /\ Goto(r, "funded")
  /\ UNCHANGED <<service, store, scope, opened, signed, unknown, forsaken>>

\* Funding is refused while an earlier top-up may still land, and past
\* max_deposit.
RefuseFunds(r) ==
  /\ task[r].pc = "locked" /\ store.ch # 0
  /\ \/ Shortfall(r) /\ ~WithinLimit(Required(store, task[r].snap))
     \/ store.uncertain /\ (Shortfall(r) \/ KnownDeposit(store, task[r].snap) # store.deposit)
  /\ FailCredential(r)
  /\ UNCHANGED <<service, store, opened, signed, unknown, forsaken>>

\* The server knows a larger deposit, which covers the voucher.
LearnDeposit(r) ==
  /\ task[r].pc = "locked" /\ store.ch # 0 /\ ~store.uncertain
  /\ ~Shortfall(r) /\ KnownDeposit(store, task[r].snap) # store.deposit
  /\ store' = [store EXCEPT !.deposit = KnownDeposit(store, task[r].snap)]
  /\ Goto(r, "funded")
  /\ UNCHANGED <<service, scope, opened, signed, unknown, forsaken>>

Additional(r) ==
  TopUpFor(KnownDeposit(store, task[r].snap), Required(store, task[r].snap))

PostTopUp(r) ==
  /\ task[r].pc = "locked" /\ store.ch # 0 /\ ~store.uncertain
  /\ Shortfall(r) /\ WithinLimit(Required(store, task[r].snap))
  /\ LET m == Post("topUp", r, store.ch, Additional(r), 0)
     IN /\ Send(m)
        /\ task' = [task EXCEPT ![r] = [@ EXCEPT !.pc = "toppingUp", !.sent = m]]
  /\ UNCHANGED <<replies, escrow, served, faults, charged, unserved,
                 store, scope, opened, signed, unknown, forsaken>>

ToppingUp(r) == task[r].pc \in {"toppingUp", "toppingUpAgain"}

ToppedUp(r, reply) ==
  /\ ToppingUp(r) /\ reply.by = r /\ reply.status = "ok"
  /\ Receive(reply)
  /\ store' = [store EXCEPT !.deposit =
       Larger(@, KnownDeposit(store, task[r].snap) + task[r].sent.amount)]
  /\ Goto(r, "funded")
  /\ UNCHANGED <<requests, escrow, served, faults, charged, unserved,
                 scope, opened, signed, unknown, forsaken>>

\* A refused top-up is posted once more, for the fresh challenge.
RepeatTopUp(r, reply) ==
  /\ task[r].pc = "toppingUp" /\ reply.by = r /\ reply.status = "402"
  /\ Receive(reply)
  /\ Send(task[r].sent)
  /\ Goto(r, "toppingUpAgain")
  /\ UNCHANGED <<escrow, served, faults, charged, unserved,
                 store, scope, opened, signed, unknown, forsaken>>

\* Another refusal: nothing is recorded of the top-up.
TopUpRefused(r, reply) ==
  /\ ToppingUp(r) /\ reply.by = r
  /\ reply.status = "failed" \/ (task[r].pc = "toppingUpAgain" /\ reply.status = "402")
  /\ Receive(reply)
  /\ FailCredential(r)
  /\ UNCHANGED <<requests, escrow, served, faults, charged, unserved,
                 store, opened, signed, unknown, forsaken>>

\* Mutant: a cancelled top-up is not recorded.
MarkNothing(entry) == entry

MarkUncertain(entry) == [entry EXCEPT !.uncertain = TRUE]

\* The request failed, timed out or was cancelled: it may still land.
TopUpUnknown(r) ==
  /\ ToppingUp(r)
  /\ store' = MarkUncertain(store)
  /\ unknown' = [unknown EXCEPT ![store.ch] = @ + 1]
  /\ FailCredential(r)
  /\ UNCHANGED <<service, opened, signed, forsaken>>

-----------------------------------------------------------------------------
(* The credential.                                                         *)

\* What is left behind by the previous round is gone once this one signs.
Pay(r, m) ==
  /\ Send(m)
  /\ task' = [task EXCEPT ![r] =
       [@ EXCEPT !.pc = "paying", !.round = task[r].round + 1,
                 !.sent = m, !.paidFor = task[r].snap]]
  /\ signed' = [signed EXCEPT ![m.ch] = m.amount]

SignOpen(r) ==
  /\ task[r].pc = "funded" /\ PlanKind(store, task[r].snap) = "open"
  /\ opened < MaxChannels
  /\ opened' = opened + 1
  /\ Pay(r, Post("open", r, opened + 1, Price, OpeningDeposit))
  /\ UNCHANGED <<replies, escrow, served, faults, charged, unserved,
                 store, scope, unknown, forsaken>>

\* Stored before it is sent, and never taken back; the lock ends with it.
SignVoucher(r) ==
  /\ task[r].pc = "funded" /\ PlanKind(store, task[r].snap) = "voucher"
  /\ WithinLimit(store.cum + Price)
  /\ store' = [store EXCEPT !.cum = @ + Price]
  /\ Pay(r, Post("voucher", r, store.ch, store.cum + Price, 0))
  /\ scope' = scope \ {r}
  /\ UNCHANGED <<replies, escrow, served, faults, charged, unserved, opened, unknown, forsaken>>

CanRecover(snap) ==
  /\ escrow[snap.ch] # 0
  /\ RecoveredCumulative(snap) <= escrow[snap.ch]
  /\ WithinLimit(RecoveredCumulative(snap))

\* The channel of the snapshot, with the deposit read on chain.
SignRecovered(r) ==
  /\ task[r].pc = "funded" /\ PlanKind(store, task[r].snap) = "recover"
  /\ LET snap == task[r].snap
         cum == RecoveredCumulative(snap)
     IN /\ CanRecover(snap)
        /\ store' = Persisted(store, [ch |-> snap.ch, cum |-> cum,
                                      deposit |-> escrow[snap.ch], uncertain |-> FALSE])
        /\ Pay(r, Post("voucher", r, snap.ch, cum, 0))
  /\ scope' = scope \ {r}
  /\ UNCHANGED <<replies, escrow, served, faults, charged, unserved, opened, unknown, forsaken>>

\* A limit or the chain forbids the credential.
SignNothing(r) ==
  /\ task[r].pc = "funded"
  /\ CASE PlanKind(store, task[r].snap) = "open" -> opened = MaxChannels
       [] PlanKind(store, task[r].snap) = "voucher" -> ~WithinLimit(store.cum + Price)
       [] OTHER -> ~CanRecover(task[r].snap)
  /\ FailCredential(r)
  /\ UNCHANGED <<service, store, opened, signed, unknown, forsaken>>

-----------------------------------------------------------------------------
(* The answer to the paid request.                                         *)

Paid(r, reply) ==
  /\ task[r].pc = "paying" /\ reply.by = r /\ reply.status = "ok"
  /\ Receive(reply)
  /\ Settle(r, TRUE)
  /\ End(r)
  /\ UNCHANGED <<requests, escrow, served, faults, charged, unserved, opened, signed, unknown>>

Acknowledged(r, snap) ==
  HasPendingOpen(r) /\ Acknowledges(snap, task[r].sent.ch, task[r].sent.amount)

\* Another challenge settles the credential; the next one answers it.
PayAgain(r, reply) ==
  /\ task[r].pc = "paying" /\ reply.by = r /\ AsksPayment(reply)
  /\ task[r].round < MaxRetries
  /\ Receive(reply)
  /\ Settle(r, Acknowledged(r, reply.snap))
  /\ task' = [task EXCEPT ![r] =
       [@ EXCEPT !.pc = "challenged", !.snap = reply.snap, !.sent = NoCredential]]
  /\ UNCHANGED <<requests, escrow, served, faults, charged, unserved, opened, signed, unknown>>

\* The same challenge again leaves the outcome open: the credential is
\* resent, and an open keeps the lock.
Resend(r, reply) ==
  /\ task[r].pc = "paying" /\ reply.by = r /\ AsksPayment(reply)
  /\ task[r].round < MaxRetries
  /\ reply.snap = task[r].paidFor /\ ~Acknowledged(r, reply.snap)
  /\ Receive(reply)
  /\ Send(task[r].sent)
  /\ task' = [task EXCEPT ![r].round = @ + 1]
  /\ UNCHANGED <<escrow, served, faults, charged, unserved,
                 store, scope, opened, signed, unknown, forsaken>>

\* The last 402, or another error: the caller gets the response.
Refused(r, reply) ==
  /\ task[r].pc = "paying" /\ reply.by = r
  /\ reply.status = "failed" \/ (AsksPayment(reply) /\ task[r].round = MaxRetries)
  /\ Receive(reply)
  /\ Settle(r, Acknowledged(r, reply.snap))
  /\ End(r)
  /\ UNCHANGED <<requests, escrow, served, faults, charged, unserved, opened, signed, unknown>>

\* No answer: the outcome is unknown.  Nothing is paid again for the request.
Unanswered(r) ==
  /\ task[r].pc \in {"asked", "paying"}
  /\ Settle(r, FALSE)
  /\ End(r)
  /\ UNCHANGED <<service, opened, signed, unknown>>

Fetching(r) ==
  \/ Ask(r) \/ LockScope(r) \/ NeedNoFunds(r) \/ RefuseFunds(r) \/ LearnDeposit(r)
  \/ PostTopUp(r) \/ TopUpUnknown(r)
  \/ SignOpen(r) \/ SignVoucher(r) \/ SignRecovered(r) \/ SignNothing(r) \/ Unanswered(r)
  \/ \E reply \in replies :
       \/ TakeChallenge(r, reply) \/ ToppedUp(r, reply) \/ RepeatTopUp(r, reply)
       \/ TopUpRefused(r, reply) \/ Paid(r, reply) \/ PayAgain(r, reply)
       \/ Resend(r, reply) \/ Refused(r, reply)

Next ==
  \/ \E r \in Requests : Fetching(r)
  \/ ServiceNext /\ UNCHANGED client

Spec == Init /\ [][Next]_vars

-----------------------------------------------------------------------------
(* Properties.                                                             *)

\* A step that signs a credential.
Signs(r) == task[r].pc = "funded" /\ task'[r].pc = "paying"

\* A second channel is opened only after every earlier open has failed or
\* lost its outcome: concurrent first requests share one channel.  An open that was
\* charged and then answered with a 402 is one that failed.
OneLiveChannel == Cardinality((1..opened) \ forsaken) <= 1

\* The payer never signs past the deposit it stored, nor believes in a
\* larger deposit than the chain has.
StoredDepositBacked ==
  store.ch # 0 => store.cum <= store.deposit /\ store.deposit <= escrow[store.ch]

\* While the outcome of a top-up is unknown, no other one is posted.
OneUnknownTopUp == \A c \in Channels : unknown[c] <= 1

=============================================================================
