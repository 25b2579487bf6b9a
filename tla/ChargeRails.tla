------------------------------ MODULE ChargeRails ------------------------------
(***************************************************************************)
(* How a server turns a credential into a receipt, for every rail without  *)
(* a local sponsor: Tempo transactions that the server broadcasts (pull),  *)
(* that a hosted fee payer co-signs (hosted) or that the client broadcast  *)
(* (push), zero-amount proofs, EIP-3009 authorizations settled through a   *)
(* facilitator (evm, with a store or the in-process claim cache) and       *)
(* Stripe tokens.  An attempt is one presentation of a payment for a       *)
(* challenge, from the request to its answer; attempts run concurrently,   *)
(* are cancelled, and stop with their process.                             *)
(***************************************************************************)
EXTENDS Integers, FiniteSets

CONSTANTS Attempts, Payments, Challenges,
          Rails,        \* the rails an instance looks at
          Envelopes,    \* what a hosted fee payer may co-sign one transaction into
          Expires,      \* when each challenge expires
          MinValidity,  \* MIN_REMAINING_VALIDITY_SECONDS
          Grace,        \* VALID_BEFORE_GRACE
          ProofGrace,   \* _PROOF_CLAIM_GRACE
          CacheGrace,   \* how long the claim cache outlives an authorization
          CacheLimit,   \* max_entries of the claim cache
          MaxLag,       \* how far the clock of a verifier is behind
          ChainLag,     \* how far the chain clock is behind
          MaxTime,      \* bound: the last tick
          StripeLimits  \* whether Stripe may rate-limit a repeated call

ASSUME RailsAssumption ==
  /\ Expires \in [Challenges -> Nat]
  /\ MinValidity \in Nat /\ Grace \in Nat /\ ProofGrace \in Nat /\ CacheGrace \in Nat
  /\ MaxLag \in 0 .. ProofGrace /\ ChainLag \in 0 .. Grace
  /\ CacheLimit \in Nat /\ MaxTime \in Nat /\ StripeLimits \in BOOLEAN
  /\ Rails \subseteq {"pull", "hosted", "proof", "evm", "cache", "stripe"}
  /\ "none" \notin Envelopes  \* the marker of no submission

VARIABLES now,     \* the clock of the stores
          rail,    \* the rail of this route
          bound,   \* the challenge each signed payment names (memo, nonce, signature)
          until,   \* when it can no longer be included
          chain,   \* what became of each payment; pooled: it may still land
          envs,    \* the envelopes submitted for each payment, or the one included
          keys,    \* the replay keys in the store
          marker,  \* the broadcast marker of each hosted payment
          att,     \* the attempts
          forgotten \* ghost: payments whose claim went with the process

terms == <<bound, until>>
world == <<chain, envs>>
store == <<keys, marker>>
railVars == <<now, rail, bound, until, chain, envs, keys, marker, att, forgotten>>

-----------------------------------------------------------------------------
ChainNow == now - ChainLag

\* sent, unknown: broadcast_attempted and outcome_unknown.
\* overlapped: another attempt with this payment ran at the same time.
Idle ==
  [pc |-> "idle", pay |-> "none", ch |-> "none", kind |-> "none", env |-> "none",
   lag |-> 0, reconciling |-> FALSE, held |-> {}, marked |-> FALSE, sent |-> FALSE,
   unknown |-> FALSE, overlapped |-> FALSE, result |-> "none"]

RailsInit ==
  /\ now = 1
  /\ rail \in Rails
  /\ chain = [p \in Payments |-> "none"]
  /\ envs = [p \in Payments |-> {}]
  /\ keys = {}
  /\ marker = [p \in Payments |-> "none"]
  /\ att = [w \in Attempts |-> Idle]
  /\ forgotten = {}

\* A push credential names a transaction on any Tempo route; otherwise the
\* credential is of the kind of the route.
KindsOf(r) == IF r \in {"pull", "hosted"} THEN {r, "push"} ELSE {r}

Running(w) == att[w].pc \notin {"idle", "done"}

Becomes(w, a) == att' = [att EXCEPT ![w] = a]
At(w, pc) == att[w].pc = pc
Is(w, kinds) == att[w].kind \in kinds
Moves(w, pc) == Becomes(w, [att[w] EXCEPT !.pc = pc])
Answers(a, result) ==
  [Idle EXCEPT !.pc = "done", !.pay = a.pay, !.ch = a.ch, !.result = result]
\* Cleanup comes before the answer.
Fails(a, result) == [a EXCEPT !.pc = "unmarking", !.result = result]

\* The replay keys: of the transaction as the client signed it, of an
\* envelope's hash, of a proof's challenge, of an authorization.
ClientKey(a) == [of |-> "client", id |-> a.pay]
HashKey(a) == [of |-> "hash", id |-> <<a.pay, a.env>>]
ProofKey(a) == [of |-> "proof", id |-> a.ch]
ClaimKey(a) == [of |-> "claim", id |-> a.pay]

Expired(w) == Expires[att[w].ch] <= now - att[w].lag
Bound(w) == bound[att[w].pay] = att[w].ch

-----------------------------------------------------------------------------
(* The exchange: verify_or_challenge.                                      *)

\* A credential is authenticated.  On the Stripe rail a payment is a token for
\* one challenge: the idempotency key names both.
Receive(w, p, c, k) ==
  LET others == {v \in Attempts : Running(v) /\ att[v].pay = p}
  IN /\ At(w, "idle") /\ k \in KindsOf(rail)
     /\ k = "stripe" => bound[p] = c
     /\ \E lag \in 0 .. (IF k = "proof" THEN MaxLag ELSE 0),
           e \in (IF k = "hosted" THEN {"none"} ELSE IF k = "push" /\ rail = "hosted"
                  THEN Envelopes \cup {"own"} ELSE {"own"}) :
          att' = [v \in Attempts |->
            IF v = w THEN [Idle EXCEPT !.pc = "received", !.pay = p, !.ch = c, !.kind = k,
                             !.env = e, !.lag = lag, !.overlapped = others # {}]
            ELSE IF v \in others THEN [att[v] EXCEPT !.overlapped = TRUE] ELSE att[v]]
     /\ UNCHANGED <<now, rail, forgotten, terms, world, store>>

\* verify_or_challenge and _prepare_credential refuse an expired challenge.
RefuseExpired(w) ==
  /\ att[w].pc \in {"received", "validated"} /\ Expired(w)
  /\ Becomes(w, Answers(att[w], "challenge"))
  /\ UNCHANGED <<now, rail, forgotten, terms, world, store>>

\* An RPC, facilitator or store fails before anything was submitted.
InternalError(w) ==
  /\ att[w].pc \in {"received", "validated", "looking", "claiming", "preflight",
                    "reconciling", "marking", "ready"}
  /\ Becomes(w, Fails(att[w], "error"))
  /\ UNCHANGED <<now, rail, forgotten, terms, world, store>>

\* The request is cancelled: the cleanup runs, nobody is answered.
Cancel(w) ==
  /\ att[w].pc \in {"received", "validated", "looking", "claiming", "preflight",
                    "reconciling", "marking", "ready", "sending", "sent"}
  /\ att[w].kind \notin {"evm", "cache", "stripe"}
  /\ Becomes(w, Fails(att[w], "none"))
  /\ UNCHANGED <<now, rail, forgotten, terms, world, store>>

\* The process stops, and nothing is cleaned up.  A cancelled EVM or Stripe
\* request cleans nothing up either.
Crash(w) ==
  /\ Running(w)
  /\ Becomes(w, Answers(att[w], "none"))
  /\ UNCHANGED <<now, rail, forgotten, terms, world, store>>

-----------------------------------------------------------------------------
(* Tempo transactions: validate, then the keys.                            *)

\* A payment whose memo names another challenge is final: it moved, or will
\* move, money that does not pay for this one.
ValidatePull(w) ==
  /\ At(w, "received") /\ Is(w, {"pull", "hosted"}) /\ ~Expired(w)
  /\ Becomes(w, IF Bound(w) THEN [att[w] EXCEPT !.pc = "validated"]
                ELSE Answers(att[w], "replayed"))
  /\ UNCHANGED <<now, rail, forgotten, terms, world, store>>

BroadcastPull(w) ==
  /\ At(w, "validated") /\ Is(w, {"pull", "hosted"}) /\ ~Expired(w)
  /\ Moves(w, IF Is(w, {"hosted"}) THEN "looking" ELSE "claiming")
  /\ UNCHANGED <<now, rail, forgotten, terms, world, store>>

\* The envelope an earlier attempt submitted and whose outcome was lost.
Prior(w) == marker[att[w].pay]

LookUpHosted(w) ==
  LET a == att[w]
  IN /\ At(w, "looking")
     /\ \/ /\ ClientKey(a) \in keys
           /\ Becomes(w, Answers(a, "replayed"))
        \/ /\ ClientKey(a) \notin keys /\ Prior(w) # "none"
           /\ Becomes(w, [a EXCEPT !.pc = "claiming", !.env = Prior(w), !.reconciling = TRUE])
        \/ /\ ClientKey(a) \notin keys /\ Prior(w) = "none"
           /\ Moves(w, "filling")
     /\ UNCHANGED <<now, rail, forgotten, terms, world, store>>

\* The service's signature and fee token complete the envelope of the client: the
\* payment is the same, but the transaction's hash depends on them.
HostedEnvelope(a, e) == [a EXCEPT !.pc = "claiming", !.env = e]

\* The calls are simulated, then the service co-signs; it chooses the envelope.
FillHosted(w) ==
  /\ At(w, "filling")
  /\ \/ Becomes(w, Answers(att[w], "challenge"))
     \/ Becomes(w, Answers(att[w], "error"))
     \/ \E e \in Envelopes : Becomes(w, HostedEnvelope(att[w], e))
  /\ UNCHANGED <<now, rail, forgotten, terms, world, store>>

KeysOf(a) == IF a.kind = "hosted" THEN {ClientKey(a), HashKey(a)} ELSE {HashKey(a)}

\* The client's key is claimed before the envelope's.
NextKey(a) == IF a.kind = "hosted" /\ ClientKey(a) \notin a.held THEN ClientKey(a) ELSE HashKey(a)

Claim(w) ==
  LET a == att[w]
      key == NextKey(a)
      held == a.held \cup {key}
  IN /\ At(w, "claiming")
     /\ IF key \in keys
        THEN Becomes(w, Fails(a, "replayed")) /\ UNCHANGED keys
        ELSE /\ keys' = keys \cup {key}
             /\ Becomes(w, [a EXCEPT !.held = held,
                  !.pc = IF held # KeysOf(a) THEN "claiming"
                         ELSE IF a.reconciling THEN "reconciling"
                         ELSE IF a.kind = "hosted" THEN "preflight" ELSE "ready"])
     /\ UNCHANGED <<now, rail, forgotten, terms, world, marker>>

\* Once the challenge has expired its marker may be gone, so no refusal is safe.
Refusal(w) == IF Expired(w) THEN "error" ELSE "challenge"

\* The validity floor, the simulation and the budget of a first submission.
Preflight(w) ==
  LET a == att[w]
      valid == until[a.pay] >= now + MinValidity
  IN /\ At(w, "preflight")
     /\ \/ valid /\ Moves(w, "marking")
        \/ valid /\ Becomes(w, Fails(a, Refusal(w)))
        \/ ~valid /\ Becomes(w, Fails(a, IF Prior(w) # "none" THEN "error" ELSE Refusal(w)))
     /\ UNCHANGED <<now, rail, forgotten, terms, world, store>>

MarkerUntil(p, c) ==
  IF Expires[c] > until[p] + Grace THEN Expires[c] ELSE until[p] + Grace

MarkOnce(w) ==
  IF marker[att[w].pay] = "none"
  THEN /\ marker' = [marker EXCEPT ![att[w].pay] = att[w].env]
       /\ Becomes(w, [att[w] EXCEPT !.pc = "ready", !.marked = TRUE])
  ELSE Becomes(w, Fails(att[w], "error")) /\ UNCHANGED marker

\* The exact envelope is recorded before it is sent.
Mark(w) ==
  /\ At(w, "marking")
  /\ MarkOnce(w)
  /\ UNCHANGED <<now, rail, forgotten, terms, world, keys>>

\* Behind every clock, without a receipt, and the node does not hold it.
NeverLands(p) == until[p] + Grace < now /\ chain[p] = "none" /\ ChainNow >= until[p]

\* An envelope that an earlier attempt submitted is looked up, then sent again
\* unless it can no longer be included.
Reconcile(w) ==
  LET a == att[w]
      p == a.pay
      pooledOrNone == chain[p] \in {"none", "pooled"}
      paid == chain[p] = "paid" /\ a.env \in envs[p]
  IN /\ At(w, "reconciling")
     /\ \/ /\ paid
           /\ marker' = [marker EXCEPT ![p] = "none"]
           /\ Becomes(w, Answers(a, "receipt"))
        \/ /\ chain[p] = "reverted"
           /\ Becomes(w, Fails(a, Refusal(w)))
           /\ UNCHANGED marker
        \/ /\ pooledOrNone /\ until[p] >= now + MinValidity
           /\ Moves(w, "ready")
           /\ UNCHANGED marker
        \/ /\ pooledOrNone /\ until[p] < now + MinValidity /\ NeverLands(p)
           /\ marker' = [marker EXCEPT ![p] = "none"]
           /\ Becomes(w, Fails(a, Refusal(w)))
        \/ /\ pooledOrNone /\ until[p] < now + MinValidity /\ ~NeverLands(p)
           /\ Becomes(w, Fails(a, "error"))
           /\ UNCHANGED marker
     /\ UNCHANGED <<now, rail, forgotten, terms, world, keys>>

-----------------------------------------------------------------------------
(* Tempo transactions: the send and its outcome.                           *)

\* A challenge that expired meanwhile must not be settled.
Authorize(w) ==
  LET a == att[w]
  IN /\ At(w, "ready")
     /\ Becomes(w, IF ~Expired(w) THEN [a EXCEPT !.pc = "sending", !.sent = TRUE, !.unknown = TRUE]
                   ELSE Fails(a, IF a.reconciling \/ a.kind = "hosted" THEN "error" ELSE "challenge"))
     /\ UNCHANGED <<now, rail, forgotten, terms, world, store>>

\* The node takes a transaction that can still be included.  Another node may
\* take another envelope of it.
Send(w) ==
  LET p == att[w].pay
  IN /\ At(w, "sending")
     /\ IF chain[p] \in {"none", "pooled"} /\ ChainNow < until[p]
        THEN /\ chain' = [chain EXCEPT ![p] = "pooled"]
             /\ envs' = [envs EXCEPT ![p] = @ \cup {att[w].env}]
        ELSE UNCHANGED world
     /\ Moves(w, "sent")
     /\ UNCHANGED <<now, rail, forgotten, terms, store>>

\* Mutant: an error before the broadcast's answer is a plain refusal.
AfterBroadcastRefused == "challenge"

\* Once broadcast, the transaction may have landed.
AfterBroadcast == "error"

\* Never sent, or refused by the node; a lookup finds no receipt.
SendRefused(w) ==
  /\ At(w, "sending")
  /\ Becomes(w, [Fails(att[w], AfterBroadcast) EXCEPT !.unknown = FALSE])
  /\ UNCHANGED <<now, rail, forgotten, terms, world, store>>

\* The answer or a later lookup shows the receipt.
Confirm(w) ==
  LET a == att[w]
      p == a.pay
  IN /\ At(w, "sent")
     /\ \/ /\ chain[p] = "paid" /\ a.env \in envs[p]
           /\ marker' = [marker EXCEPT ![p] = IF a.kind = "hosted" THEN "none" ELSE @]
           /\ Becomes(w, Answers(a, "receipt"))
        \/ /\ chain[p] = "reverted"
           /\ Becomes(w, [Fails(a, AfterBroadcast) EXCEPT !.unknown = FALSE])
           /\ UNCHANGED marker
     /\ UNCHANGED <<now, rail, forgotten, terms, world, keys>>

\* No answer and no receipt before the deadline.
LoseOutcome(w) ==
  /\ At(w, "sent")
  /\ Becomes(w, Fails(att[w], AfterBroadcast))
  /\ UNCHANGED <<now, rail, forgotten, terms, world, store>>

\* A marker of this attempt goes unless its envelope may still land.
LeaveMarker(w) ==
  LET a == att[w]
  IN /\ At(w, "unmarking")
     /\ marker' = IF a.marked /\ ~a.unknown THEN [marker EXCEPT ![a.pay] = "none"] ELSE marker
     /\ Moves(w, "unclaiming")
     /\ UNCHANGED <<now, rail, forgotten, terms, world, keys>>

LeaveKeys(w) ==
  /\ At(w, "unclaiming")
  /\ keys' = keys \ att[w].held
  /\ Becomes(w, Answers(att[w], att[w].result))
  /\ UNCHANGED <<now, rail, forgotten, terms, world, marker>>

-----------------------------------------------------------------------------
(* Push: the client broadcast the transaction.                             *)

\* What the receipt of the hash says of this challenge.
HashVerdict(w) ==
  LET p == att[w].pay
      mined == chain[p] \in {"paid", "reverted"} /\ att[w].env \in envs[p]
  IN IF ~mined THEN "error" ELSE IF chain[p] = "reverted" THEN "challenge"
     ELSE IF Bound(w) THEN "receipt" ELSE "replayed"

ValidatePush(w) ==
  LET a == att[w]
  IN /\ At(w, "received") /\ Is(w, {"push"}) /\ ~Expired(w)
     /\ Becomes(w, IF HashKey(a) \in keys THEN Answers(a, "replayed")
                   ELSE IF HashVerdict(w) = "receipt" THEN [a EXCEPT !.pc = "validated"]
                   ELSE Answers(a, HashVerdict(w)))
     /\ UNCHANGED <<now, rail, forgotten, terms, world, store>>

\* The hash is reserved before it is verified again.
ReservePush(w) ==
  LET a == att[w]
  IN /\ At(w, "validated") /\ Is(w, {"push"}) /\ ~Expired(w)
     /\ IF HashKey(a) \in keys
        THEN Becomes(w, Answers(a, "replayed")) /\ UNCHANGED keys
        ELSE /\ keys' = keys \cup {HashKey(a)}
             /\ Becomes(w, [a EXCEPT !.pc = "verifying", !.held = {HashKey(a)}])
     /\ UNCHANGED <<now, rail, forgotten, terms, world, marker>>

VerifyPush(w) ==
  /\ At(w, "verifying")
  /\ \/ Becomes(w, IF HashVerdict(w) = "receipt" THEN Answers(att[w], "receipt")
                   ELSE Fails(att[w], HashVerdict(w)))
     \/ Becomes(w, Fails(att[w], "error"))
  /\ UNCHANGED <<now, rail, forgotten, terms, world, store>>

-----------------------------------------------------------------------------
(* Proofs of a zero amount.                                                *)

ValidateProof(w) ==
  LET a == att[w]
  IN /\ At(w, "received") /\ Is(w, {"proof"}) /\ ~Expired(w)
     /\ Becomes(w, IF ProofKey(a) \in keys THEN Answers(a, "replayed")
                   ELSE IF Bound(w) THEN [a EXCEPT !.pc = "validated"]
                   ELSE Answers(a, "challenge"))
     /\ UNCHANGED <<now, rail, forgotten, terms, world, store>>

\* The signer is checked again; an access key is looked up on the chain.
BroadcastProof(w) ==
  /\ At(w, "validated") /\ Is(w, {"proof"}) /\ ~Expired(w)
  /\ Moves(w, "claimingProof")
  /\ UNCHANGED <<now, rail, forgotten, terms, world, store>>

ClaimProof(w) ==
  LET a == att[w]
  IN /\ At(w, "claimingProof")
     /\ IF Expired(w) THEN Becomes(w, Answers(a, "challenge")) /\ UNCHANGED keys
        ELSE IF ProofKey(a) \in keys THEN Becomes(w, Answers(a, "replayed")) /\ UNCHANGED keys
        ELSE keys' = keys \cup {ProofKey(a)} /\ Becomes(w, Answers(a, "receipt"))
     /\ UNCHANGED <<now, rail, forgotten, terms, world, marker>>

-----------------------------------------------------------------------------
(* EIP-3009 authorizations, settled through a facilitator.                 *)

Evm == {"evm", "cache"}

\* Local checks come before the claim is looked up.
ValidateEvm(w) ==
  LET a == att[w]
      payable == Bound(w) /\ until[a.pay] > now
  IN /\ At(w, "received") /\ Is(w, Evm) /\ ~Expired(w)
     /\ Becomes(w, IF ~payable THEN Answers(a, "challenge")
                   ELSE IF ClaimKey(a) \in keys THEN Answers(a, "replayed")
                   ELSE [a EXCEPT !.pc = "asking"])
     /\ UNCHANGED <<now, rail, forgotten, terms, world, store>>

\* The facilitator refuses an authorization that was used or is not funded.
FacilitatorVerify(w) ==
  /\ At(w, "asking")
  /\ \/ chain[att[w].pay] = "none" /\ Moves(w, "validated")
     \/ Becomes(w, Answers(att[w], "challenge"))
     \/ Becomes(w, Answers(att[w], "error"))
  /\ UNCHANGED <<now, rail, forgotten, terms, world, store>>

Claims == {k \in keys : k.of = "claim"}

\* The claim cache refuses a claim rather than forget one.
CacheRefuses(a) == a.kind = "cache" /\ Cardinality(Claims) >= CacheLimit

ClaimEvm(w) ==
  LET a == att[w]
  IN /\ At(w, "validated") /\ Is(w, Evm)
     /\ IF ClaimKey(a) \in keys
        THEN Becomes(w, Answers(a, "replayed")) /\ UNCHANGED keys
        ELSE IF CacheRefuses(a)
        THEN Becomes(w, Answers(a, "error")) /\ UNCHANGED keys
        ELSE keys' = keys \cup {ClaimKey(a)} /\ Moves(w, "settling")
     /\ UNCHANGED <<now, rail, forgotten, terms, world, marker>>

\* A claim goes only when the facilitator says that nothing settled.
KeepsClaim(a, outcome) == outcome # "failed"

\* Mutant: a settlement that is pending is a receipt.
EvmAnswerEarly(outcome) == IF outcome = "failed" THEN "challenge" ELSE "receipt"

EvmAnswer(outcome) ==
  CASE outcome = "success" -> "receipt"
    [] outcome = "failed" -> "challenge"
    [] OTHER -> "error"

\* The facilitator: a failure means that nothing will settle; pending, or an
\* error, that something may.
SettleEvm(w) ==
  LET a == att[w]
      p == a.pay
      usable == chain[p] = "none" /\ ChainNow < until[p]
  IN /\ At(w, "settling")
     /\ \E outcome \in {"success", "failed", "pending", "error"} :
          /\ outcome \in {"success", "pending"} => usable
          /\ \E s \in (CASE outcome = "success" -> {"paid"}
                         [] outcome = "failed" -> {chain[p]}
                         [] outcome = "pending" -> {"pooled"}
                         [] OTHER -> {chain[p]} \cup (IF usable THEN {"pooled", "paid"} ELSE {})) :
               chain' = [chain EXCEPT ![p] = s]
          /\ keys' = IF KeepsClaim(a, outcome) THEN keys ELSE keys \ {ClaimKey(a)}
          /\ Becomes(w, Answers(a, EvmAnswer(outcome)))
     /\ UNCHANGED <<now, rail, forgotten, terms, envs, marker>>

\* The one process of the claim cache stops, and its claims are gone.
Restart ==
  /\ rail = "cache"
  /\ att' = [w \in Attempts |-> IF Running(w) THEN Answers(att[w], "none") ELSE att[w]]
  /\ keys' = keys \ Claims
  /\ forgotten' = forgotten \cup {k.id : k \in Claims}
  /\ UNCHANGED <<now, rail, terms, world, marker>>

-----------------------------------------------------------------------------
(* Stripe: one PaymentIntent per idempotency key (challenge and token).    *)

\* Replayed: Stripe answered from an earlier call with this key.
StripeAnswer(status, replayed) ==
  CASE status = "paid" -> IF replayed THEN "replayed" ELSE "receipt"
    [] status = "action" -> IF replayed THEN "error" ELSE "challenge"
    [] status = "failed" -> "challenge"
    [] OTHER -> "error"

CreatesIntent(p) == chain[p] = "none"

VerifyStripe(w) ==
  /\ At(w, "received") /\ Is(w, {"stripe"}) /\ ~Expired(w)
  /\ Moves(w, "creating")
  /\ UNCHANGED <<now, rail, forgotten, terms, world, store>>

\* Stripe handles the call; its answer may be lost.
CreateIntent(w) ==
  LET a == att[w]
      p == a.pay
  IN /\ At(w, "creating")
     /\ \E s \in (IF CreatesIntent(p) THEN {"paid", "action", "failed", "pooled"} ELSE {chain[p]}) :
          /\ chain' = [chain EXCEPT ![p] = s]
          /\ \E result \in {StripeAnswer(s, ~CreatesIntent(p)), "error"} :
               Becomes(w, Answers(a, result))
     /\ UNCHANGED <<now, rail, forgotten, terms, envs, store>>

\* A refusal without a PaymentIntent: no such account, or too many calls.
RefuseIntent(w) ==
  /\ At(w, "creating")
  /\ CreatesIntent(att[w].pay) \/ StripeLimits
  /\ Becomes(w, Answers(att[w], "challenge"))
  /\ UNCHANGED <<now, rail, forgotten, terms, world, store>>

-----------------------------------------------------------------------------
(* The outside world.                                                      *)

\* A client broadcasts its transaction itself.
ClientSends(p, e) ==
  /\ chain[p] = "none" /\ ChainNow < until[p]
  /\ chain' = [chain EXCEPT ![p] = "pooled"]
  /\ envs' = [envs EXCEPT ![p] = @ \cup {e}]
  /\ UNCHANGED <<now, rail, forgotten, terms, store, att>>

\* The transaction of one envelope is included; the others have its nonce.
Included(p) == IF envs[p] = {} THEN {"none"} ELSE envs[p]

\* What was submitted lands or reverts, in time.  Stripe repeats its first
\* answer, whatever becomes of the payment.
Land(p) ==
  /\ chain[p] = "pooled" /\ ChainNow < until[p] /\ rail # "stripe"
  /\ \E s \in {"paid", "reverted"} : chain' = [chain EXCEPT ![p] = s]
  /\ \E e \in Included(p) : envs' = [envs EXCEPT ![p] = @ \cap {e}]
  /\ UNCHANGED <<now, rail, forgotten, terms, store, att>>

\* Mutant: a proof is claimed only until its challenge expires.
ProofUntilExpiry(c) == Expires[c]

\* A verifier whose clock is behind must still find the claim.
ProofUntil(c) == Expires[c] + ProofGrace

Lapsed(k, t) ==
  \/ k.of = "proof" /\ t >= ProofUntil(k.id)
  \/ k.of = "claim" /\ rail = "cache" /\ t >= until[k.id] + CacheGrace

Tick ==
  /\ now < MaxTime
  /\ now' = now + 1
  /\ keys' = {k \in keys : ~Lapsed(k, now')}
  /\ marker' = [p \in Payments |->
       IF marker[p] # "none" /\ now' >= MarkerUntil(p, bound[p]) THEN "none" ELSE marker[p]]
  /\ chain' = [p \in Payments |->
       IF chain[p] = "pooled" /\ rail # "stripe" /\ ChainNow' >= until[p]
       THEN "none" ELSE chain[p]]
  /\ UNCHANGED <<rail, forgotten, terms, envs, att>>

-----------------------------------------------------------------------------
TempoNext ==
  \E w \in Attempts :
    \/ ValidatePull(w) \/ BroadcastPull(w) \/ LookUpHosted(w) \/ FillHosted(w) \/ Claim(w)
    \/ Preflight(w) \/ Mark(w) \/ Reconcile(w) \/ Authorize(w) \/ Send(w) \/ SendRefused(w)
    \/ Confirm(w) \/ LoseOutcome(w) \/ LeaveMarker(w) \/ LeaveKeys(w)
    \/ ValidatePush(w) \/ ReservePush(w) \/ VerifyPush(w)
    \/ ValidateProof(w) \/ BroadcastProof(w) \/ ClaimProof(w)

ProviderNext ==
  \E w \in Attempts :
    \/ ValidateEvm(w) \/ FacilitatorVerify(w) \/ ClaimEvm(w) \/ SettleEvm(w)
    \/ VerifyStripe(w) \/ CreateIntent(w) \/ RefuseIntent(w)

\* The steps that no client takes.
ServerNext ==
  \/ TempoNext \/ ProviderNext
  \/ \E w \in Attempts : RefuseExpired(w) \/ InternalError(w) \/ Cancel(w) \/ Crash(w)
  \/ \E p \in Payments : Land(p)
  \/ Restart \/ Tick

\* Anyone presents signed payments for any challenge.
PayerNext ==
  \E p \in Payments : bound[p] # "none"
    /\ \/ \E w \in Attempts, c \in Challenges, k \in KindsOf(rail) : Receive(w, p, c, k)
       \/ rail = "pull" /\ ClientSends(p, "own")

RailsNext == ServerNext \/ PayerNext

\* The payments, of any terms, are signed before.
RailsSpec ==
  /\ RailsInit /\ bound \in [Payments -> Challenges \cup {"none"}] /\ until \in [Payments -> Nat]
  /\ [][RailsNext]_railVars

-----------------------------------------------------------------------------
\* A payment buys one thing: of all the attempts with it, over restarts, both
\* ways of presenting a transaction, and clocks that disagree, at most one is
\* answered with a receipt (the replay keys and claims).
PaymentUsedOnce ==
  \A v, w \in Attempts :
    att[v].result = "receipt" /\ att[w].result = "receipt" /\ att[v].pay = att[w].pay => v = w

\* A receipt is given for a payment that landed, and that names the challenge
\* it was presented for.
ReceiptMeansPaid ==
  \A w \in Attempts :
    att[w].result = "receipt" =>
      Bound(w) /\ (rail = "proof" \/ chain[att[w].pay] = "paid")

\* A 402 invites the client to pay again.  While its challenge is open, no
\* payment that was made or may still be made is answered with one; of the
\* rails that look something up before they claim the payment this holds for
\* attempts that do not overlap with another of the same payment, and of the
\* claim cache until its process restarts.
NoSecondPaymentInvited ==
  [][\A w \in Attempts :
       /\ att[w].pc # "done" /\ att'[w].pc = "done" /\ att'[w].result = "challenge"
       /\ now < Expires[att[w].ch] /\ Bound(w)
       /\ att[w].kind \in {"hosted", "evm", "cache"} => ~att[w].overlapped
       /\ att[w].pay \notin forgotten
       => chain[att[w].pay] \notin {"pooled", "paid"}]_railVars
=============================================================================
