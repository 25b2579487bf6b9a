# TLA+ models of pympp

pympp is a Python implementation of machine payments over HTTP 402: a server
challenges a request, the client answers with a payment credential, and the
server verifies it, once per request or against a *payment channel* (a session).
The models in this directory follow the source; `PROJECT.json` maps every
definition to the lines it models. Paths below are relative to
`src/mpp/methods/tempo/` unless they start with `src/`.

## The system

### The session server (`session/server/`, `session/_chain.py`)

A payer opens a channel by depositing into an escrow precompile. It then signs
*vouchers*: cumulative amounts that the payee may take from the deposit. The
server stores one record per channel and serves requests against it.

| part | state | operations |
| --- | --- | --- |
| channel record (`_store.py`) | deposit, settled, highest and retained vouchers, spent, close marker, expiry of a supervised close, finalized, pending settlement, idempotency markers, lease | pure update functions run by `update_channel`, an atomic read-modify-write of one key |
| credentials (`_verification.py`) | none of its own; what it read from chain and store lives in the handler across awaits | open, top-up, voucher, close |
| settlement (`_settlement.py`) | the pending settlement of the record | settle the largest voucher within the spend, release, record; charge a channel |
| credits (`_store.py`) | spent | return part of the spend |
| close supervision (`_close_supervisor.py`) | expiry of a supervised close in the record | answer payer close requests at the spend, finalize channels that left the escrow |
| schedule (`_schedule.py`) | a lease in the record | who runs a scheduled settlement |
| requests (`_session.py`, `_request_state.py`, `_bootstrap.py`) | per-request | choose challenge, charge, receipt |
| sponsorship limits (`_sponsorship_limit.py`) | counters per payer and day | reserve, release |

How they interact: every handler reads the chain over RPC, reads the record,
updates it once or twice, and between two updates broadcasts a transaction and
waits for a receipt. Handlers run as tasks of one process and in several
processes over one store (Redis, SQLite). The chain changes on its own: the
payer requests a close, tops up (which cancels the request) or withdraws after
a grace period, and a transaction sent earlier may land until its
`valid_before`.

What is hard: stale reads applied late; a send whose outcome nobody learns;
reservations that expire by the server's clock while the transaction expires by
the chain's; one number (`close_requested_at`) that stands for a payer's request
and for the server's own marker; crashes between broadcast and record.

What makes it correct: charges never exceed what vouchers and the deposit back;
a credit never undercuts a settlement that may still land; two settlements never
both move the escrow; a close pays the spend; no late update takes anything
back; a payer's close request is not forgotten.

### Sponsored charges (`intents.py`, `_sponsored_admission.py`, `sponsor_budget.py`)

A charge is paid by a transaction that the client signs and sends to the server
in its credential; the server may pay its fee. `_broadcast_transaction` handles
one such credential. It keeps everything in stores that other requests and
processes share:

| part | state | operations |
| --- | --- | --- |
| replay keys | one per envelope | claimed first, deleted by every attempt that is not answered with a receipt |
| broadcast marker | the envelope, until challenge and transaction have expired | written before the send, deleted on a known outcome; a retry that finds it reconciles |
| admission | what a challenge is bound to and by which attempts; the pending transaction of a payer | claim, release, retain |
| sponsor budget | one document of reservations with owner, phase, lease and expiry | reserve (waiting), transition, release, reconcile |

What is hard: a send of unknown outcome, after which a refusal would make the
client pay twice; cleanup in five store calls with other attempts between them;
reconciliation that works from an old read; two clocks.

What makes it correct: a payment is answered with one receipt; a challenge is paid
by one transaction; a payer has one transaction in flight; the fees in flight
stay within the budget; a 402 is never answered for a payment that may land.

### The session client (`session/client/`, `src/mpp/client/transport.py`)

A payer keeps one entry per payee, token and escrow: channel, cumulative amount,
deposit, and a flag for a top-up of unknown outcome. Two front ends share it. The
payment transport runs concurrent requests and creates each credential under the
lock of the entry's scope; an open keeps the lock until its outcome is known. The
manager runs one fetch at a time beside manual top-ups, stores as it signs and
rolls back when the fetch fails.

Hard: replies are lost and repeated, the server may have landed, stored or charged
what the client gives up; another task runs at each await. Correct when vouchers
only rise and stay within the deposit, one channel is live, a top-up of unknown
outcome is not repeated, and the server charges a request once.

### Stores and the channel store (`src/mpp/store.py`, `session/server/_store.py`)

Stores have put-if-absent, and some compare-and-set. `update_channel` loops over
compare-and-set, or takes a lock of its process. Charges and credits carry keys
whose markers make a retry apply once. Hard: a callback runs again after a lost
race; a reply is lost; a swap given up arrives later; a process restarts. Correct
when the loop is an atomic update and its callers are told the truth.

### Other charges (`intents.py`, `src/mpp/methods/evm/`, `src/mpp/methods/stripe/`)

A transaction that the server broadcasts, that a hosted fee payer co-signs, or
that the client broadcast; a zero-amount proof; an EIP-3009 authorization; a
Stripe token. Each has a replay key, claim, marker or idempotency key. Hard: the
same payment presented again, in another way, to a server whose clock differs,
after a crash between claim and settlement. Correct when a payment buys one thing
and a 402 does not invite a second one.

### Routes and clients of charges (`src/mpp/server/`, `client.py`, `src/mpp/runtime.py`)

A route composes offers of several methods and servers; a challenge carries a MAC
over its fields. A client builds a transaction (transfers, swap, fee token),
shares the signing between concurrent calls, pays and retries. Correct when an
issued challenge can be paid, at what was signed, into the store that knows it;
when a client's transaction is accepted by the server and its fee is covered;
and when a call pays once.

## The modules

| module | models | composes |
| --- | --- | --- |
| `ChannelRecord` | the record of a channel, one operator per update function | |
| `Escrow` | the precompile (external) | |
| `SessionChannel` | one channel: handlers, escrow, transactions that may land | both above |
| `ScheduledSettlement` | when a settlement is due; the lease around `settle` | |
| `KeyValue` | stores with expiry, compare-and-set, capacity | |
| `AtomicUpdate` | abstract: what `update_channel` promises | |
| `ChannelStore` | `update_channel` and `check_atomic_update` over a store; implements `AtomicUpdate` | `KeyValue` |
| `KeyedAccounting` | charges and credits under keys: pure plans of one update | |
| `KeyedChannel` | the channel store with those callbacks | both above |
| `SponsorPolicy` | the fee payer's envelope policy | |
| `SessionSponsorship` | sponsored opens and top-ups, daily and rolling limit | `SponsorPolicy` |
| `ClientChannel` | the payer's entry and its amounts | |
| `SessionService` | the session server and its network as payers meet them | `ClientChannel` |
| `SessionTransport` | concurrent requests through the payment transport | `SessionService` |
| `SessionManager` | fetches and manual top-ups of the manager | `SessionService` |
| `SponsorBudget` | the reservations of a fee payer | |
| `SponsoredCharge` | locally sponsored charges | `SponsorBudget` |
| `ChargeRails` | all other charges: pull, hosted, push, proof, EVM, Stripe | |
| `ChargeClient` | the client of a charge over HTTP or MCP | `ChargeRails` |
| `TransferMatching` | how calls and receipts are matched to charges: pure | |
| `PaymentBuild` | how a client funds and builds a transaction | `TransferMatching` |
| `PaymentRoute` | offers, challenges and settlement of a route | |
| `MC...` | instances for TLC: symmetry, inputs; `MCPayment` has routes and builds, `MCSessionClients` both clients | |
| `SessionChannelProofs` | theorems about the session channel | |
| `KeyedChannelProofs` | theorems about the channel store, for any callbacks, and its keyed calls | |
| `SessionClientsProofs` | theorems about both session clients | |
| `ChargeRailsProofs` | theorems about `ChargeRails` and, under a client, `ChargeClient` | |
| `ScheduledSettlementProofs`, `SessionSponsorshipProofs`, `SponsoredChargeProofs` | theorems about the module each is named for | |
| `PaymentProofs` | theorems about `PaymentRoute` and `PaymentBuild` | |

`SessionTransport` and `SessionManager` are two state machines over one service;
`MCSessionClients` has both, each on its own behaviours.

### How state and actions correspond to the code: the session server

`rec` is `ChannelState` without identity, units, idempotency markers, schedule
lease and settlement timestamps: `settled` is `settled_on_chain`, `closeReq` is
`close_requested_at`, `closeUntil` is `pending_close_valid_before`, `pending` is
`pending_settlement`, `highest` and `retained` are the vouchers. `esc` is the
escrow; `paid` is what a close or a withdrawal gave to the payee in total.
`settles` and `closes` hold the broadcast transactions that a block may still
include: `MayLand` compares the chain clock with `valid_before`.

| actions | code |
| --- | --- |
| `RecordOpen`, `TopUpMined`, `RecordTopUp`, `AbandonTopUp` | `_handle_open`, `_handle_top_up` from the mined transaction on |
| `AcceptStored` | `_accept_voucher_in_one_update` |
| `ReadVoucher`, `ReconcileVoucher`, `AcceptRead`, `RecordRequest`, `AbandonVoucher` | `_handle_voucher`, `verify_and_accept_voucher`, `_record_pending_close` |
| `ReadInBackground`, `RecordOpenState` | `_record_on_chain_read_in_background` |
| `ChargeChannel`, `CreditChannel` | `charge_session_channel`, `credit_channel` |
| `ClaimSettle`, `SendSettle`, `ReleaseSettle`, `RecordSettle`, `AbandonSettle` | `settle` with `choose`, `release`, `record` |
| `CheckClose`, `MarkClose`, `SendClose`, `ClearClose`, `FinishClose`, `AbandonClose` | `_check_close`, `_handle_close` with `mark`, `clear` |
| `ReadSupervised`, `FinalizeGone`, `ReconcileSupervised`, `MergeSupervised`, `ReserveSupervised`, `SendSupervised`, `ReleaseSupervised`, `FinishSupervised`, `AbandonSupervised` | `supervise_closes`, `_supervise_channel`, `_close_at_spend` |
| `SettleLands`, `SettleReverts`, `CloseLands`, `CloseReverts`, `RequestClose`, `Withdraw`, `Tick` | chain, payer, time |

`noted` is a history variable: the close request the store was last told of.

### How state and actions correspond to the code: sponsored charges

`claims` are the transactions with a replay key, `marker` those with a
`mpp:charge-broadcast:` record, `binding` and `payers` the admission documents,
`book` the reservations. `att` holds the local variables of the attempts:
`reconciling`, `bound` and `admitted` (the claims), `marked` (`marker_created`),
`held` (`reservation`), `sent` (`broadcast_attempted`), `unknown`
(`outcome_unknown`), `excluded` (`challenge_excluded`), `waiting`
(`reservation.waited`); `verified` is `result = "paid"`. `sweep` is the
reconciliation that a waiting attempt runs: the time of its read and the entries
it still has to act on. A transaction is `pooled` while it may still land.

| actions | code |
| --- | --- |
| `Begin`, `RefuseExpired`, `ClaimTx` | `_broadcast_transaction` up to the replay keys |
| `BindChallenge`, `ClaimPayer` | `claim_challenge`, `claim_payer` with `payer_settled` |
| `ReconcilePaid`, `ReconcileExcluded`, `Resend` | `_check_sponsored_validity(reconcile=True)` |
| `RefuseFloor`, `RefuseSimulation`, `Reserve`, `RefuseBudget` | the checks before a first submission, `reserve` |
| `StartSweep`, `SweepStale`, `SweepLookup`, `SweepSettled` | `_reconcile` |
| `Mark`, `RefuseChallenge`, `StartBroadcast`, `Send`, `SendRefused`, `Confirm`, `LoseOutcome`, `InternalError` | marker, challenge expiry, `transition`, the send and what it returns |
| `LeavePayer`, `LeaveChallenge`, `LeaveMarker`, `LeaveClaim`, `Settle` | `cleanup_admission`, `except` and `finally`, in their order |
| `Crash`, `Include`, `Tick` | process, chain, time (with the expiry of marker and binding) |

Modelling decisions of `SponsoredCharge`:

* **Attempts.** A request is an attempt that runs once; a retry is another attempt
  with the same transaction. The transaction of each is chosen initially.
* **Configuration.** A local fee payer with a store that expires keys and supports
  compare-and-set, and one sponsor and chain. The two replay keys, of the
  client's envelope and the co-signed one, are claimed and deleted together:
  one key here.
* **Binding.** A challenge is bound per payer, so transactions with one challenge
  have one payer and one expiry.
* **Waiting.** How long an attempt waits for a payer, for room or for a receipt is
  free within the limits that depend on expiry.
* **Receipts.** A receipt, once there, is found by every lookup that is answered;
  lookups that fail are `InternalError` and `LoseOutcome`. `SweepLookup` may run
  at any time: the interval between lookups is left out.
* **Store.** Each store call is atomic. `StoreErrors` lets the delete of a marker
  fail, which the code suppresses. Bindings of older versions and malformed
  records are left out.
* **Overlap.** Whether attempts with one transaction overlap is a constant: the
  runs about retries of one client have them in sequence.

Modelling decisions of `SessionChannel`:

* **Time.** Servers share one clock. The chain clock differs by a fixed
  `ChainLag`, at most the skew the code allows for. `_send_precompile_transaction`
  runs between the clock reading that fixes `valid_before` and the send; a send
  after that time adds nothing to the pool. `MaxStall` bounds how old the clock
  reading of a retried update may be where the code reads the clock outside it
  (`credit_channel`, `settle`).
* **Chain reads.** The answer of an RPC call is taken at the step that reads the
  clock: the HTTP timeout (30 s) is shorter than validity plus skew (55 s). The
  voucher handler's chain read and store load overlap in the code and are one
  step here; everything that happens afterwards is not.
* **Age of the stored state.** Whether it was verified recently enough is a free
  choice: `AcceptStored` and the stored view in `ReadVoucher` are always allowed.
* **Rejections.** `min_voucher_delta`, `require_voucher_advance`, signatures and
  descriptors only reject more: `AbandonVoucher` covers them.
* **Failures.** `Abandon...` stops a handler at any point, by crash, timeout or
  error, without any update; a sent transaction stays in the pool. A reverted
  transaction may be one the escrow refused or one that ran out of gas.
* **Retained vouchers.** One update adds at most one voucher, so the loop of
  `retain_vouchers` drops at most one.
* **Settling on a request.** `_record_pending_close` goes on to settle; that is a
  settlement worker of its own here, free to run or not.
* **Open.** The readback at the open's receipt block is always the opened
  deposit with nothing settled and no request.

### How state and actions correspond to the code: the other modules

Every definition is mapped to its lines in `PROJECT.json`; the correspondence in
short:

* `ScheduledSettlement`: `lease` is `scheduled_settlement_lease`, `record.boundary`
  `last_settlement_spent` (0: None, and progress counts from what is settled on chain),
  `record.age` the time since the last settlement. `Claim`, `Renew`, `Release`, `Complete` are the functions of
  `session/server/_schedule.py`; `Choose`, `Send`, `Confirm`, `RecordSettled`,
  `Abandon` are `settle` inside `maybe_settle_scheduled`. `Land` puts the receipt where
  its sender finds it (`captured`, `reverted`). The supervisor settles a channel without a
  close request only (`Supervise`); it records a request (`FindRequest`) and then closes,
  which is in `SessionChannel`. Times are kept as what is
  left of them, so no clock is bounded. Each charge comes with its voucher.
* `ChannelStore`: `pc` walks `check_atomic_update` (`SkipCheck`, `ProbeRead`,
  `ProbeWrite`, `ProbeClean`) and `update_channel_result` (`BeginUpdate`,
  `TakeLock`, `ReadRecord`, `Compare`, `CompareText`, `PutRecord`). `run` holds the
  outer variables of the callback. `flight` are swaps and puts whose caller gave up.
  Six stores: in memory, shared, shared returning bytes, one that refuses scripts, and
  two without compare-and-set: `Plain`, whose commands do not outlive their callers,
  and `PlainLate`, whose puts may arrive when the lock is no longer held. The run has all
  but the last, over which `UpdatesAreAtomic` fails (see the late puts among the limits).
* `SessionSponsorship`: `usage` and `rolling` are the two stored records; the steps
  of a worker are those of `session.broadcast` around `_cosign` and the send.
* `SessionService`: a message becomes `landedOpen`, `storedOpen`, `storedVoucher`,
  `landedTopUp` as its handler proceeds; `LoseRequest`, `LoseReply` and `FailRequest`
  lose it anywhere. An accepted credential is charged by a second update
  (`ChargeAccepted`), a voucher with `charge_on_acceptance` by the one that accepts it
  (`AcceptPaidVoucher`). After the charge the request is served or fails (`Serve`), or
  the settlement that is due fails for good, and the answer is a 402 (`AskAgain`). A 402
  has a fresh challenge, or the one that the credential echoes. `charged` and `unserved`
  are history variables.
* `SessionTransport`: `scope` is the scope lock, `store` the stored entry; the steps
  are those of `PaymentTransport.handle_async_request` with
  `SessionMethod.create_credential`. `SessionManager`: `mgr` is the manager's
  fields, `funding` its lock.
* `ChargeRails`: an attempt is one run of `verify_or_challenge`; `att` holds its
  local variables, `keys` and `marker` the store. `ChargeClient`: `call` is a
  request of the transport, `signing` is `TempoMethod._signing`. `Validity` is how long
  what is signed is good for: a transaction for `Window` at most, and to the challenge's
  expiry, a pushed one less, an authorization to the expiry.
* `PaymentRoute`: `conf` are the offers as configured, `held` is the challenge a
  client follows; `Pay` is `ComposedHandler.__call__` with a credential, `PayX402`
  with an x402 payment, `Broadcast` and `BroadcastFor` are `broadcast_credential`.
  `Resource` gives the URL of a scope: an x402 payment without a route binding, where
  the method takes the resource for one, is compared with the route's price and URL only.
* `PaymentBuild`: `build` is the state of `_build_tempo_transfer`: route, swap,
  what each token spends, fee, fee token. `TransferMatching` has the pure functions
  of `intents.py` that accept calls and match logs.

Further modelling decisions:

* **External parties.** A node that answers with a definite error has not
  accepted the transaction. A facilitator and Stripe answer with success, failure,
  pending or nothing, and act as they answer. Stripe repeats its answer for an
  idempotency key (`StripeLimits` would let it rate-limit the repetition, see the
  limits below). An expiring nonce lets a transaction in once.
* **Servers' clocks** agree, but for `MaxLag` where a proof is checked and for the
  chain clock.
* **Signatures and encodings** are a free refusal.
* **PaymentBuild**: the payer's balances only rise while it builds. Gas limit and gas price
  are what the node quotes; the caps of the payer (`PayerCaps`) and of the sponsor
  (`SponsorCaps`) are constants.
* **ChargeRails**: the claim cache is of one process, whose stop ends every attempt
  (`Restart`). On the other rails processes stop one by one (`Crash`).

## What is checked

| run | instance | shows |
| --- | --- | --- |
| `ChannelSettlement` | 1 open, 1 top-up, 2 settlers, 1 supervisor, payer requests; amounts and deposits to 2, time 4 | `SettlementFloor`, `OneEffectiveSettlement`, `VoucherBacked`, `RequestRemembered`, `RecordMonotonic` |
| `ChannelClose` | 1 open, 1 reader, 1 settler, 2 closers, payer requests; time 4, grace 2 | `CloseCapturesSpend`, `SettledWasPaid` |
| `ScheduledSettlement` | 1 server, 1 supervisor, 2 failures; spend to 2, settle after 2 or after 2 ticks | `NoSpendForgotten`, `OneMayCapture`, `DueIsCollected`, no deadlock |
| `ChannelStoreCalls` | 5 kinds of store; a charge and a credit, each retried under its key; or a charge and two opens; 1 failure | `AppliedOncePerKey`, `AnswersAreTrue`, `UpdatesAreAtomic`, `EveryCallEnds` |
| `SessionSponsorship` | 2 workers, 7 transactions of 2 payers, days of 2 ticks, window of 4, time 4 | `SignsWithinPolicy`, `SponsoredWithinDay`, `TopUpsCapped` |
| `SessionClients` | 3 concurrent requests of a transport, or 2 fetches and a top-up of a manager; 2 channels, deposit to 3, 1 fault, 2 retries | `TransportOneLiveChannel`, `TransportDepositBacked`, `TransportVouchersIncrease`, `ManagerKeepsStore`, `ChargedOnceByEither`, `OneUnknownTopUp` |
| `ChargedThenChallenged` | one request of a transport, 1 fault | `ChargedStaysServed` is violated (see the findings) |
| `ChargeBudget` | 2 transactions with fees 1 and 2 of 2, 3 attempts that may overlap, time 4 | `ExposureCapped`, `PaidOnce` |
| `ChargeOnePayer` | 3 transactions of one payer, 2 for one challenge, 3 attempts in sequence per transaction, failing deletes | `OnePendingPerPayer`, `OnePaymentPerChallenge`, `RefusalsAreSafe` |
| `ChargeRails` | 6 rails, 3 attempts, 1 or 2 payments, 2 challenges, 2 envelopes, time 5 | `PaymentUsedOnce`, `ReceiptMeansPaid`, `NoSecondPaymentInvited` |
| `PaidRequests` | 2 callers of one HTTP or MCP client, 5 rails, 3 payments, 3 attempts, 2 retries, challenges open to 2 and 5, transactions good for 1, time 2 for pull, else 3; hosted: from 2 callers that wait for one signing, 2 payments, time 4 | `PaidOncePerCall`, `SomeoneKnows` |
| `Payments` | 5 routes of 3 offers, 3 scopes, 2 of one URL, 2 bodies, 2 prices, challenges good for 1, time 1; or every configuration of sponsor, swap and fee token, balances to 4, gas limits and prices on both sides of the caps, 6 charges, batches of up to 4 transfers | `OneStorePerPayment`, `SettledAsSigned`, `IssuedIsPayable`, `NoSharedTransfers`, `PaymentsRecognised`, `SignedIsAccepted`, `FeeCovered` |

Why the bounds are enough:

* Each hazard needs at most two actors of a role. `Validity = Skew = ChainLag = 1` is
  the worst case of the clocks: the chain is as far behind as the skew allows, so
  that transactions outlive the server's view of them. Time 4 lets a marker or a
  reservation expire and be taken again. `MaxRetained = 1` makes the retention
  limit bind. Deposits of 1 that a top-up raises to 2 make a voucher depend on it.
* Fees 1 and 2 in a budget of 2 make either transaction wait for the other, and
  three attempts give a lost outcome, a retry and a competitor. `RetrySpec` fixes
  that all attempts but one are with one transaction.
* The store's runs have one failure of each kind between two attempts at one key;
  capacity 2 makes a bounded store full when both processes probe; a retention of 1
  lets a marker lapse.
* An open deposits 2, for two requests of price 1; the third needs a top-up, a
  retry meets the payer's limit of 3, and a second channel a lost open. The one fault is
  a lost or failed message or a failed settlement.
* A transaction is good for `Window = 1`, for at most one tick, while its challenge stays
  open for more, as 60 seconds are less than the usual minutes of a challenge. Hosted
  payments, whose refusals depend on it most, have a longer clock in `PaidRequests` and
  start from two calls that wait for one signing: their payment lapses, its lookup is
  refused late, and a second one is signed for a challenge that is still open.
* `PaymentBuild` lets others compose batches in one configuration only; what a
  batch pays does not depend on it.

Deadlock is checked for `ScheduledSettlement`. Elsewhere the clock, attempts or
calls are bounded, and a behaviour may end.

The type invariants (`TypeOK`, `ChargeTypeOK`) are not in the runs: those of
`SessionChannel` and `SponsoredCharge` are proved.

### What the checks found

* **Charged, then challenged.** A comment says of a failed scheduled settlement that "the
  charged request stays served because the payer's voucher covers the charge"
  (`session/server/_session.py:517`). Only failures of the transport or the node are
  ignored: a reverted settlement, or one that finds nothing to settle, is raised again
  (`_settlement.py:316-324`), and the charged request is answered with a 402 and the
  challenge it was paid for (`src/mpp/server/verify.py:340-350`), so that a payer pays
  for it again. `ChargedThenChallenged` shows it. `ChargedOnceByEither` therefore allows
  one more charge for each such failure (`unserved`), and no other.

### Liveness and fairness

* `EveryCallEnds`: weak fairness of each call's next step, which is what the event
  loop gives to a task that can run; nothing is assumed of failures. A lost swap is
  lost to one that took effect, and these are finitely many: the compare-and-set
  loop needs no other fairness. A lock is released by whoever ends.
* `DueIsCollected`: weak fairness of each worker's next step, of the supervisor
  looking at a due channel (`supervise_closes` is run again and again), of the chain
  including a valid transaction, and of time. Failures - stops, lost transactions,
  refused stores, a settlement that reverts, a worker that takes all of the validity to
  send - are bounded by `MaxFaults`: after the last of them, what is due is paid, unless
  a close request is found. Then the supervisor closes the channel instead of settling it,
  and what that close captures is for `SessionChannel`. No fairness is assumed of requests.

### Refinement

`UpdatesAreAtomic` says that `ChannelStore` implements `AtomicUpdate`: each call
takes effect at most once, in one step, as its callback says of the record at that
moment; its caller learns the result of that step, or only that the call failed,
and then it may still take effect. The mapping takes the record from the store
and the open calls from those between begin and effect and those with a swap on
its way. A swap applies a call, a lost race is a stutter, a late arrival applies
the call or drops it. `SessionChannel`, `ScheduledSettlement` and
`SessionService` take `update_channel` as one atomic action because of it. The run
checks it for the keyed callbacks; `StoreIsAtomic` proves it for any. Both take it that
a put over a store without compare-and-set does not outlive its caller (`NoLatePuts`);
where it may, the update is not atomic, nor is then what is built on it (see the limits).

### What the checks leave as known limits

* **Late puts.** `ChannelStore` promises "no concurrent mutation between reading
  ``current`` and writing the callback's return value"
  (`session/server/_store.py:954`). Over a store without compare-and-set a lock of the
  process keeps it, but a caller that is cancelled while it waits for `put` (1044)
  releases the lock, and the put may still reach the store. With `PlainLate` among the
  stores TLC finds the put of a charge landing over a credit that was made after it: the
  credit and its marker are gone. `NoLatePuts` names what the run and the proofs take.
* **Sponsored envelopes.** A comment says "Keep sponsored envelopes inside the server's
  default policy." (`client.py:977`), but only the priority fee is capped for them: gas
  limit and gas price are signed as the node quotes them, and the cap on the total fee
  (`client.py:1176`) is for payers who pay the fee themselves. The sponsor refuses what is
  above its limits (`_fee_payer.py:512-529`), after the client has signed. The model has
  both (`GasLimits`, `GasPrices`, `SponsorCaps`); `SignedIsAccepted` asks of a sponsored
  envelope that gas and fees are within the sponsor's caps (`WithinCaps`).
* **One second, two markers.** A close credential that fails before its send clears
  the marker if it still equals its start second
  (`session/server/_verification.py:1516`). A payer's request in that second, merged
  by another handler, is the same number and is cleared with it, although
  `session/_session.py:257` and `_close_supervisor.py:366` rely on the marker. Then
  `RequestRemembered` fails with one close credential and one handler that reads the
  escrow, and `CloseCapturesSpend` with one close credential and one supervisor,
  whose close lands below a charge made meanwhile. The runs keep close credentials
  and supervisors apart, and each property is proved without the other party.
* **Unrecorded settlement.** A settlement that landed while its receipt or record
  was lost, and whose reservation expired, no longer bounds a credit: the record
  can then say that less is spent than settled. A close captures at least what
  settled. A supervisor without new vouchers submits such a settlement again.
* **Late top-up.** Recorded after the close, it gives the finalized record its
  deposit back; handlers refuse finalized channels.
* **Overlapping sponsored attempts.** An attempt that read no marker may simulate a
  transaction that another attempt sent meanwhile, and answer 402.
  `RefusalsAreSafe` is checked for attempts of a transaction in sequence. Likewise
  `NoSecondPaymentInvited` excludes overlapping attempts on the hosted and EVM
  rails.
* **Failing deletes and the budget.** `ExposureCapped` needs deletes that succeed: a
  marker left by an attempt that never sent makes the retry send without a
  reservation. The run and the theorem have `StoreErrors = FALSE`.
* **Expiry.** After its challenge has expired, a retried credential is answered
  with a fresh challenge although its payment may have landed.
* **Short authorizations.** `src/mpp/methods/evm/intents.py:427` refuses an authorization
  whose `validBefore` has passed before the claim is looked up (line 461). One that ends
  before its challenge does, and was settled, is then answered with a fresh 402 while its
  challenge is open. Clients sign until their challenge expires (`GoodUntilExpiry`), and
  so do the payments of the run.
* **Claims without a store.** `evm.charge` without a store keeps its claims in the process
  (`_ClaimCache`, `src/mpp/methods/evm/intents.py:65`), and warns that replay protection is
  scoped to it (line 117). After a restart (`Restart`), an authorization that was
  settled passes line 461, the facilitator refuses it as used, and the client gets a
  402 for what it has paid, while the challenge is open. `forgotten` are the authorizations
  whose claim was lost so; `NoSecondPaymentInvited` leaves them out. They still buy one
  thing (`PaymentUsedOnce`), since the token lets a nonce in once. Several processes
  without a store, each with its own claims, are not modelled.
* **Stripe limits.** A call that was answered but whose answer was lost may be
  repeated and then be rate-limited (429): `src/mpp/methods/stripe/intents.py` takes
  that for a refusal, and `src/mpp/server/verify.py:340` answers 402.
* **Push.** When a paid request with a pushed payment ends in another 402, the
  client returns it without naming the hash.
* **Twins.** Two offers with resolved prices that coincide only at some time can
  both take one challenge. `PricesTellApart` excludes those with separate replay
  stores, in the run and in the theorem; x402 payments are told apart by their nonce on chain.
  `OneStorePerPayment` is about challenges that are not reusable.
* **Rolling window.** An entry is made before inclusion: the limit holds for windows
  shorter by the longest validity (`Slack`).
* **Session top-up limit.** `session/client/_session.py:764` bounds what is authorized
  by the stored deposit; it is modelled as `TopUpFor`.

## What is proved

`SessionChannelProofs`, for every set of workers, every bound and every clock lag
within the skew, from `RecordAssumption` and `ChannelAssumption`:

* `TypeCorrect`: `Spec => []TypeOK`.
* `RecordNeverRegresses`: `Spec => RecordMonotonic`.
* `CreditsStayAboveSettlements`: `Spec => []SettlementFloor`.

`SettlementFloor` is not inductive: nothing in it says that the reservation is
still there. `SettleInv` adds who owns it. Every outstanding settlement - in the
pool, claimed and not yet sent, or reverted and not yet released - is at most
the spend, and is either covered by the recorded settlement or *is* the pending
settlement of the record. Since a release removes exactly a reservation equal to
its own, the rest of the invariant says that no two owners hold an equal one.
Opens and charges only raise the spend; a credit respects the floor because
`until + Skew` on the server clock is not before `until` on the chain clock
(`ChainLag <= Skew`); a new claim is only made when the old reservation has
expired, hence when everything that relied on it can no longer land; recording a
settlement drops the reservation only once `settled` covers it.

The proof goes through two layers: first what each update function returns, then
the actions, grouped by how they touch the parts `SettleInv` speaks of, with one
lemma per group.

Under the same assumptions:

* `SettledStaysPaid`: `Spec => []SettledWasPaid`.
* `VouchersStayBacked`: `Spec => []VoucherBacked`.
* `SettlementsTakeTurns`: `Spec => []OneEffectiveSettlement`.

Their invariant says that what a handler holds of the escrow may be old and is
never wrong: a snapshot, a receipt or a prepared update never says more than the
escrow has paid or has had deposited, and every voucher a handler goes on with is
covered by such a deposit. `OneEffectiveSettlement` then follows from `SettleInv`:
two settlements that could both move the escrow would both be the pending one.

And under one more assumption each:

* `ClosesPayTheSpend`, without supervisors: `Spec => []CloseCapturesSpend`.
  `CloseInv` says that at most one close is claimed and alive, and that it is
  guarded by a marker, set with `Validity + Skew`, that outlives it: while it may
  land, no charge raises the spend. With supervisors the marker has a second way
  out, and the property is neither proved nor part of a run: besides the limit
  above, a handler that stalls for longer than the skew between its read of the
  chain and its update could clear a marker.
* `RequestsStayRemembered`, without close credentials: `Spec => []RequestRemembered`.
  `RequestInv` says that a view of the chain that could clear a marker is older than
  the request the marker stands for, that a request once gone from the record is no
  longer on the chain, and that no later request gets its number.

`SponsoredChargeProofs`, for every set of transactions, payers, challenges and
attempts and every limit and expiry, from `BudgetAssumption` and
`ChargeAssumption`:

* `ChargeTypeCorrect`: `Spec => []ChargeTypeOK`. Its content is that transitions,
  releases and late reconciliation never leave a part of a reservation behind.
* `PaysOnce`: `Spec => []PaidOnce`. `PaidOnce` speaks of answers only; `KeyInv`
  adds who owns the replay key: an attempt from its claim to its release, and for
  good once it has a receipt. An owned key is in the store and has one owner; a
  claim succeeds only when nobody owns the key, and the release by the owner
  leaves none. Overlap, crashes, failing deletes and expiry change neither.
* `PayersTakeTurns`: `Spec => []OnePendingPerPayer`. A registration is freed by any
  attempt that leaves, and overwritten once its transaction is over. `PayerInv` says
  what makes both sound: a transaction in the pool, or one that an admitted attempt
  may still send before its window ends, is the one its payer is registered with;
  an attempt that frees the payer has a receipt or has sent nothing, and then
  nobody else may send either, because the replay key is its own.
* `ChallengesPaidOnce`: `Spec => []OnePaymentPerChallenge`. `ChallengeInv` speaks of
  transactions that are paid, pooled or about to be sent: of one challenge there is
  at most one, the binding names it, and until the binding expires something keeps
  it so - it is retained, or shared by an attempt that stopped or will retain it. A
  binding expires after the inclusion window by the chain clock too
  (`ChainLag <= Grace`).
* `RefusalsStaySafe`: `Spec => RefusalsAreSafe`, for `Overlap = FALSE` as in the run
  (see the limits above). `RefusalInv` says that a transaction that may be paid
  keeps a record - its marker until it lapses, or its replay key when a receipt
  cleared the marker - and what an attempt relies on at each stage: one that found
  no record is the first, one that sends has a marker, and one that clears its
  marker or answers with a refusal sent nothing that may land. A lapsed marker is
  that of an expired challenge, for which nothing is refused.

* `FeesStayWithinBudget`: `Spec => []ExposureCapped`, for `StoreErrors = FALSE` (see
  the limits above). `ExposureInv` says that the reservations are within the limits
  (`BookInv`), and that a transaction that may be in the pool has one: it is over,
  or its reservation is firm, going only with the transaction's end, or nothing of
  it was sent and nobody is about to (`TxReserved`). What could break this is a
  reservation given back too early. An attempt that will give back its own has
  sent nothing that may land, and nobody else sends its transaction or goes on to
  (`AttemptSafe`), which follows from the replay key and the payer's registration;
  a reconciliation drops only what it read as included, or what has expired
  (`SweepInv`). Only a marker lets an attempt send without a reservation of its own,
  and a marker of what was never sent is taken away by the one attempt that holds the key
  (`Unsent`) - which is where deletes must not fail. That fewer reservations cost
  no more is a lemma about the sum of fees, a fold over a set: by induction over its
  size, as a set of numbers without a least one left out.

These but the first two rest on `FlagInv`, which says what the flags of an
attempt mean at each stage. `ChargeAssumption` includes that `"none"`, which stands for
no transaction in the records, is none of them.

`KeyedChannelProofs`, for any callbacks, any sets of calls and processes, any
stores and any number of failures, from `StoreAssumption` and the hypothesis
`NoLatePuts`, that no store without compare-and-set has puts that arrive after their
callers gave up (it is needed, see the late puts among the limits):

* `StoreInvariant`: `StoreSpec => []StoreInv`. What a call is about to write is what
  its callback makes of the record it replaces - also for the swaps in flight - a
  call has one swap in flight at most, a lock is held from read to put, and an
  answer follows from where its call is.
* `StoreIsAtomic`: `StoreSpec => UpdatesAreAtomic`. Each step maps to a begin, an
  effect, a failure or a drop of `AtomicUpdate`, or leaves its variables alone. The
  invariant is needed where a swap matches: the record it replaces is the one the
  callback saw, although the value may have been changed and changed back.

In the same module, for the callbacks of `KeyedAccounting` over the same stores, with
any number of calls and keys, from `KeyedAssumption` too:

* `KeyedCallsApplyOnce`: `StoreSpec => []AppliedOncePerKey`.
* `CallersAreToldTheTruth`: `StoreSpec => []AnswersAreTrue`.

Both follow from `KeyedInv`: a keyed call that took effect left a marker, which is in
the record until it expires, every marker is that of a call that took effect, and what
took effect has ended. It uses `StoreInv` where a swap or a put takes effect: what is
written is what the callback makes of the record as it is *then*, so a call whose key is
marked by then is replayed and not applied, however often its callback ran before.
Nothing is assumed of the clock between the runs of a callback but that a marker's
expiry counts from when its call began. The theorems' hypothesis `KeyedCallbacks` says
which callbacks `ChannelStore` is given. `KeyedAssumption` says that credits have a key
and other updates but charges none, and that the record the calls find, if there is
one, has no markers yet.

`ChargeRailsProofs`, for any sets of attempts, payments, challenges and envelopes, every
expiry, validity and limit, and all clocks within the grace periods, from
`RailsAssumption`:

* `PaymentsBuyOnce`: `RailsSpec => []PaymentUsedOnce`.
* `ReceiptsArePaid`: `RailsSpec => []ReceiptMeansPaid`.
* `RefusalsInviteSafely`: `RailsSpec /\ GoodUntilExpiry => NoSecondPaymentInvited`,
  without `StripeLimits`. `GoodUntilExpiry` says that authorizations are good for as long
  as their challenge is open, as `src/mpp/methods/evm/client.py:182` signs them.

`RefusalsInviteSafely` says nothing of authorizations whose claim was lost with the process
of the claim cache (see the limits above).

`PaymentUsedOnce` speaks of answers only. `RailsInv` adds what stands for a payment that
was used, on each rail: the key of the envelope that was included, in the store and in
nobody's hands, so that no cleanup gives it back; the key of a proof, until its challenge
has expired by every clock (`MaxLag <= ProofGrace`); for an authorization or a token,
what chain or provider say, whichever claims were given back or lapsed. A key in the
hands of an attempt is in the store and in no other hands, and the attempt has its
envelope's key from before the send to its answer. One envelope of a payment is included
- they share its nonce - so an attempt that finds its own included knows that its key
stands for the payment, by whichever of the other envelopes, or hash, it is presented.

`NoSecondPaymentInvited` needs `InviteInv`: what may have landed left a record that a
later attempt meets first. On the hosted rail that is the broadcast marker, or the key of
the client's transaction in the hands of the attempt that sends, or its challenge has
expired (`RecordOf`); on the EVM rail the claim, while the authorization is good and unless a restart
forgot it, with one attempt that settles (`OneSettles`). `HostedStage` follows the marker: the attempt that
holds the client's key is the only one that sends, or takes a marker away, and before it
sends a marker stands unless nothing can be sent any more (`Guarded`). The subtle case is
an attempt that found a marker and claims its keys only after the marker was given back:
either the client's key is claimed for good (`Spent`), so that it claims in vain, or its
challenge has expired or nothing can be included any more. If another attempt has set a
marker of its own meanwhile, only the latter is possible (`FoundFirst`), and that
attempt may give its marker back.

In the same module, about the rails with the client that signs for them, for any finite
set of callers, any number of retries and both transports, from `RailsAssumption` and
`ClientAssumption`:

* `PaymentsAreKnown`: `PaidSpec => []SomeoneKnows`.
* `CallsPayOnce`: `PaidSpec => []PaidOncePerCall`.

`PaidInv` is `RailsInv`, which the client's signatures and broadcasts keep, with
`ClientInv`. That says where each payment is: being signed, with calls that share it, or
presented by attempts (`UndeliveredOK`, `CallOK`); what is still being signed was seen by
no attempt and by no call. The argument for both properties is that every payment which may
have landed has a call of its own that stands for it (`StandFor`): one that presented
it to an attempt which may have sent it (`MaySent`), or waits for its broadcast, or has
ended and says so. A call comes to stand for a payment when it receives or submits it, and
goes on to another one only after an answer that invites it: then no attempt that it
presented the former to has sent it, and no broadcast was made. Such an invitation is a
challenge: `PaysAgain` takes no server error for one, and pays no second time after a
pushed payment, which may have landed whatever is answered. When a waiting call is cancelled or a broadcast gets no answer, the call
ends with an unknown outcome and still stands for the payment. Calls that share a
signing all stand for it, and one call stands for one payment at a time, so payments that
landed are no more than the calls they were signed for. How long a payment is good for plays
no part in it: one that lapsed has not landed.

`ScheduledSettlementProofs`, for any finite set of workers, every schedule, lease,
validity and skew, and any number of failures, from `ScheduleAssumption`:

* `ScheduleTypeCorrect`: `Spec => []TypeOK`.
* `SpendStaysCounted`: `Spec => []NoSpendForgotten`.
* `CapturesTakeTurns`: `Spec => []OneMayCapture`. The lease is not part of the argument.
  `Turns` says that a settlement which may still capture - in the pool, or in the
  hands of the worker that is about to send it - is the pending settlement of the
  record, with `Skew` more time than it has itself, and that there is one of them. A
  worker whose settlement reverted keeps its turn until it gives the reservation back.
  A reservation expires, is given back only by a worker that did not send or whose
  settlement reverted, and is dropped by a record only once the escrow has paid as much.

`SessionSponsorshipProofs`, for any finite set of workers, any set of payers and
transactions, every limit and every length of a day, from `SponsorshipAssumption`
and `PolicyAssumption`:

* `DayLimitHolds`: `Spec => []SponsoredWithinDay`. The property speaks of sends only;
  `DayInv` adds the slots that workers still hold: sent and held together are no
  more than the record counts, where a day that the record has left counts as the
  whole limit. A slot is of a day between the one on which its worker began and the
  one the record is of, so a slot that is given back - only on the worker's own day -
  is one that the record still counts. Without the comparison of the days
  (`GivesBackAnyDay`) the count of a later day would be taken for it.
* `PolicyHolds`: `Spec => []SignsWithinPolicy`. A worker goes on only with what was
  accepted, and `SimulationWithin` shows that padding, clamping and the division of
  the fee by the price leave the simulated copy within the policy.

* `WindowLimitHolds`: `Spec => []TopUpsCapped`. The property is about what was
  included; the record counts what was admitted, and forgets it after `Rolling`.
  `WindowInv` ties the two: a worker that may send a top-up, and a top-up in the pool,
  have an entry in the record until no window that counts the entry could hold
  the inclusion (`Backed`), because an entry is no older than a validity window
  before the end of its transaction (`EntriesFresh`), also when the top-up is sent again on
  its old entry. At each inclusion, then, what the window holds maps one to one to entries
  (`CoveredCount`), and costs at most the policy's maximum fee each (`CostsBounded`). The
  map is one to one because a payer's signatures prove one transaction of an
  id: an entry's key is the hash of what the payer signed
  (`session/server/_verification.py:1075`), and `SponsorshipAssumption` says so.

`SessionClientsProofs`, for every price, limit and suggestion, any number of requests,
calls, channels, retries and faults, from `ClientAssumption`, `ServiceAssumption`,
`TransportAssumption` and `ManagerAssumption`. Of the transport:

* `TransportSharesAChannel`: `Clients => []TransportOneLiveChannel`.
* `TransportStaysBacked`: `Clients => []TransportDepositBacked`.
* `TransportSignsMore`: `Clients => TransportVouchersIncrease`.
* `TransportTopsUpOnce`: `Spec => []OneUnknownTopUp`.

None is inductive, since what a reply makes the payer do depends on what was sent and what
the server has done for it meanwhile. `TransportInv` says who holds the scope's lock
(`LockInv`); that a request has one message or one reply on the way, which is
about what it signed last (`FlightOK`, `MessageOK`, `ReplyOK`); how far the record and the
escrow have come for each of them; that a snapshot the server once gave is still true
(`SnapOK`): what is accepted only grows; and that the channel of an open that is
not yet answered is in nobody else's hands (`PendingOK`), so that the entry may
still become its channel, or none.

Of the manager, and of both:

* `ManagerStaysInStep`: `Clients => []ManagerKeepsStore`. `ManagerInv` says that one
  fetch is in flight at a time (`OneFetch`), and that until a top-up of unknown outcome
  blocks the manager its channel is the stored one, which the request in flight
  created only if there was none when it began (`InStep`): so a rollback, which forgets what
  the request created, forgets the stored entry with it.
* `EitherIsChargedOnce`: `Clients => []ChargedOnceByEither`. A call has been charged as
  often as it was then asked to pay again by a failed settlement; or once more, and
  then it has no message left that the server could charge, and no reply that asks it to
  pay (`ChargeOK`, `CallFlight`).

`OneUnknownTopUp` is stated of the transport only. The manager blocks itself at the first
top-up of unknown outcome, but others may be on their way by then: with three manual
top-ups over two channels two outcomes can be unknown at once.

`PaymentProofs`, for every configuration of offers, any scopes, bodies and
prices, from `RouteAssumption`, which says that methods of one name have the same
kind of binding (`session/server/_session.py:608` fixes it for the method):

* `ReceiptsAsSigned`: `Spec => []SettledAsSigned`. Native and bound x402 payments are for
  the signed request and, at the route, its body. An x402 payment without a binding is only
  for the signed price of the product at the same URL (`x402/_server.py:258`): it may
  pay for another HTTP method, body or metadata, and the theorem says no more.
* `IssuedStaysPayable`: `Spec => []IssuedIsPayable`.
* `OneStoreSettles`: `Spec => []OneStorePerPayment`, if `PricesTellApart` (see the limits
  above).

`RouteInv` says that the challenge a client follows names what its issuer asked when
it was issued. `StoreInv` is about who else may take it: the offers that its name, server
and product do not tell apart settle in one store, or all have fixed prices, and then
the offer that it finds is always the same, whatever was resolved since.

In the same module, of the transaction that a client builds, for any charges, fee tokens,
estimates, slippage and balances, from `BuildAssumption`:

* `FeesAreCovered`: `BuildSpec => []FeeCovered`.
* `SignedFundingAccepted`: `BuildSpec => []FundingAccepted`, which is `SignedIsAccepted` but
  for the calls: the swap that is signed is one the server accepts for the charge; and the
  fee token, the validity and the priority fee of a sponsored envelope are within the
  sponsor's policy, and so is all of it if gas limit, gas price and their product are
  within its caps, which the client does not ensure.

`BuildAssumption` says that numbers are natural; that the time left which a client requires
is at most the window it signs for, and that at most what the policy allows, as with
the code's defaults of 15, 60 and 900 seconds; that swaps start from another token than
the charge's, as `_find_auto_swap_calls` filters them; and that fee tokens are tokens the
payer has a balance of. The properties speak of what is signed, after the node was asked
several times; `BuildInv` says at each point what is already settled. From the
first choice of a swap on, it buys something for what it approves (`FundingOK`). Whenever
a fee token is checked, the gas was sized for the swap the batch then has; a swap
that is chosen again, which only an unsponsored payer does, undoes that until the gas
is sized again. A batch is ready to be signed only with a fee token that affords the gas
out of what this batch leaves of it, if it spends any of it (`FeeOK`). Balances only
rise, so what was affordable remains so.

Only model-checked, in instances:

* `NoSharedTransfers`, `PaymentsRecognised` and, of `SignedIsAccepted`, that the calls are
  those of the charge: they depend on what folds over sequences compute
  (`TransferMatching`);
* liveness (`EveryCallEnds`, `DueIsCollected`), which is out of the prover's reach, as is
  `ENABLED`.

Induction principles that take an operator cannot be instantiated in the prover.
Where a proof needs induction over numbers, the numbers a claim holds of are made a
set, and a least number outside of it is refuted (`EveryNumber`, from `WFMin`).

## What is not modelled

* What `PROJECT.json` lists as `not_modelled`: wire formats, message formats and the
  fee relay have no state of their own. What is missing of a component that is
  `partly` modelled is in its note.
* Of the session server: units, callbacks, several channels, the selection of
  supervised channels and the search range of events; liveness of close supervision; how
  good the retained vouchers are.
* Of the session client: `SessionManager.close`, manual credential actions, several
  scopes, and what other processes do to the same store.
* Of charges: throttled lookups, records of older versions, stores without expiry.
* Of servers: decorators, ASGI and HTTP adapters, and the MCP server's messages.

## Plan

1. What `TransferMatching` accepts, as theorems.
2. Liveness of close supervision under weak fairness of one supervisor: a request
   is answered before the grace period ends when closes do not keep failing.
3. A reference definition for voucher retention: what the retained vouchers can
   still settle.
4. `SessionManager.close`, and streaming accounting of a session request.
