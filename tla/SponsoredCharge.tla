---------------------------- MODULE SponsoredCharge ----------------------------
(***************************************************************************)
(* Attempts to charge with a transaction whose fee the server sponsors     *)
(* (ChargeIntent._broadcast_transaction), from the first look at the store *)
(* to the answer: replay keys, the broadcast marker, the admission of      *)
(* challenge and payer, the reservation of the fee, the send, and the      *)
(* cleanup.  An attempt is one request; a retry of a credential is another *)
(* attempt with the same transaction.  Every store call is one step.       *)
(***************************************************************************)
EXTENDS SponsorBudget

CONSTANTS PayerOf, ChallengeOf,  \* of each transaction
          Expires,      \* when each transaction's challenge expires
          MinValidity,  \* MIN_REMAINING_VALIDITY_SECONDS
          ChainLag,     \* how far the chain clock is behind the server clock
          MaxTime,      \* bound: the last tick of the server clock
          Overlap,      \* whether attempts of one transaction run concurrently
          StoreErrors   \* whether a store may fail to delete a marker

ASSUME ChargeAssumption ==
  /\ "none" \notin Txs
  /\ Expires \in [Txs -> Nat]
  /\ \A t, u \in Txs : ChallengeOf[t] = ChallengeOf[u] =>
                         PayerOf[t] = PayerOf[u] /\ Expires[t] = Expires[u]
  /\ MinValidity \in Nat /\ MaxTime \in Nat
  /\ ChainLag \in Nat /\ ChainLag <= Grace
  /\ Overlap \in BOOLEAN /\ StoreErrors \in BOOLEAN

VARIABLES now,      \* the server clock
          chain,    \* what became of each transaction; pooled: it may still land
          book,     \* the sponsor's reservations
          sweep,    \* the reconciliation that each waiting attempt runs
          claims,   \* transactions with a replay key
          marker,   \* transactions with a broadcast marker
          binding,  \* what each challenge is bound to
          payers,   \* the pending transaction of each payer
          att       \* the attempts

admission == <<binding, payers>>
vars == <<now, chain, book, sweep, claims, marker, binding, payers, att>>

-----------------------------------------------------------------------------
Payers == {PayerOf[t] : t \in Txs}
Challenges == {ChallengeOf[t] : t \in Txs}

ChainNow == now - ChainLag

NoSweep == [at |-> 0, tasks |-> {}]

\* reconciling: an earlier attempt may have sent the transaction.
\* marked, held: this attempt created the marker, the reservation.
\* sent, unknown: broadcast_attempted and outcome_unknown.
Fresh(t) ==
  [pc |-> "idle", tx |-> t, reconciling |-> FALSE, waiting |-> FALSE,
   bound |-> FALSE, admitted |-> FALSE, marked |-> FALSE, held |-> FALSE,
   sent |-> FALSE, unknown |-> FALSE, excluded |-> FALSE, result |-> "none"]

Unbound == [tx |-> "none", attempts |-> {}, retained |-> FALSE]

\* A challenge's binding and a broadcast marker live until both the challenge
\* and the transaction have expired.
RecordUntil(t) == IF Expires[t] > ExpiresAt(t) THEN Expires[t] ELSE ExpiresAt(t)

Init ==
  /\ now = 1
  /\ chain = [t \in Txs |-> "none"]
  /\ book = [t \in Txs |-> NoEntry]
  /\ sweep = [w \in Attempts |-> NoSweep]
  /\ claims = {} /\ marker = {}
  /\ binding = [c \in Challenges |-> Unbound]
  /\ payers = [p \in Payers |-> "none"]
  /\ \E assigned \in [Attempts -> Txs] : att = [w \in Attempts |-> Fresh(assigned[w])]

\* The attempt's next state; a waiter that stops waiting cancels its sweep.
Becomes(w, a) ==
  /\ att' = [att EXCEPT ![w] = a]
  /\ sweep' = IF a.pc = "admitted" THEN sweep ELSE [sweep EXCEPT ![w] = NoSweep]

Moves(w, pc) == Becomes(w, [att[w] EXCEPT !.pc = pc])

\* An error inside the guarded part of the code: cleanup comes first.
Fails(a, result) == [a EXCEPT !.pc = "leaving", !.result = result]

Ends(a, result) == [a EXCEPT !.pc = "done", !.result = result]

\* A refusal (402) invites a new payment, so it must not follow a submission.
Refusal(t) == IF t \in marker THEN "internal" ELSE "refused"

-----------------------------------------------------------------------------
(* Admission.                                                              *)

\* Looks at the replay key and the marker, and co-signs.
Begin(w) ==
  LET t == att[w].tx
  IN /\ att[w].pc = "idle" /\ t \notin claims
     /\ Overlap \/ \A v \in Attempts : att[v].tx = t => att[v].pc \in {"idle", "done"}
     /\ Becomes(w, [att[w] EXCEPT !.pc = "begun", !.reconciling = t \in marker])
     /\ UNCHANGED <<now, chain, book, claims, marker, admission>>

\* The co-signer refuses an expired transaction.
RefuseExpired(w) ==
  LET t == att[w].tx
  IN /\ att[w].pc = "begun" /\ ~att[w].reconciling
     /\ ValidBefore[t] <= now
     /\ Becomes(w, Ends(att[w], IF Expires[t] <= now THEN "internal" ELSE Refusal(t)))
     /\ UNCHANGED <<now, chain, book, claims, marker, admission>>

ClaimTx(w) ==
  LET t == att[w].tx
  IN /\ att[w].pc = "begun"
     /\ claims' = claims \cup {t}
     /\ IF t \in claims THEN Becomes(w, Ends(att[w], "replayed")) ELSE Moves(w, "claimed")
     /\ UNCHANGED <<now, chain, book, marker, admission>>

BoundBy(b, t, w) == [b EXCEPT !.tx = t, !.attempts = b.attempts \cup {w}]

\* Binds the challenge to the transaction, or adopts the binding.
BindChallenge(w) ==
  LET t == att[w].tx
      c == ChallengeOf[t]
  IN /\ att[w].pc = "claimed"
     /\ IF binding[c].tx \in {"none", t}
        THEN /\ binding' = [binding EXCEPT ![c] = BoundBy(binding[c], t, w)]
             /\ Becomes(w, [att[w] EXCEPT !.pc = "bound", !.bound = TRUE])
        ELSE /\ Becomes(w, Fails(att[w], "replayed"))
             /\ UNCHANGED binding
     /\ UNCHANGED <<now, chain, book, claims, marker, payers>>

\* A receipt, or chain time past the inclusion window without one.
IsOver(t) ==
  \/ chain[t] \in {"paid", "reverted"}
  \/ chain[t] = "none" /\ ChainNow >= ValidBefore[t]

Admitted(a) == [a EXCEPT !.pc = "admitted", !.admitted = TRUE]

\* One pending transaction per payer.
ClaimPayer(w) ==
  LET t == att[w].tx
      p == PayerOf[t]
      prior == payers[p]
      again == att[w].reconciling /\ (prior = t \/ ExpiresAt(t) <= now)
  IN /\ att[w].pc = "bound"
     /\ \/ /\ again
           /\ Becomes(w, Admitted(att[w]))
           /\ UNCHANGED payers
        \/ /\ ~again /\ prior = "none"
           /\ payers' = [payers EXCEPT ![p] = t]
           /\ Becomes(w, Admitted(att[w]))
        \/ /\ ~again /\ prior # "none" /\ IsOver(prior)
           /\ payers' = [payers EXCEPT ![p] = "none"]
           /\ UNCHANGED <<att, sweep>>
        \/ /\ ~again /\ prior # "none"
           /\ Becomes(w, Fails(att[w],
                IF att[w].reconciling \/ prior = t THEN "internal" ELSE "refused"))
           /\ UNCHANGED payers
     /\ UNCHANGED <<now, chain, book, claims, marker, binding>>

-----------------------------------------------------------------------------
(* A transaction that an earlier attempt may have sent is reconciled.      *)

Reconciling(w) == att[w].pc = "admitted" /\ att[w].reconciling

ReconcilePaid(w) ==
  /\ Reconciling(w) /\ chain[att[w].tx] = "paid"
  /\ marker' = marker \ {att[w].tx}
  /\ Becomes(w, Fails(att[w], "paid"))
  /\ UNCHANGED <<now, chain, book, claims, admission>>

\* It reverted, or it is proved that it was never included.
ReconcileExcluded(w) ==
  LET t == att[w].tx
  IN /\ Reconciling(w)
     /\ \/ /\ chain[t] = "reverted"
           /\ UNCHANGED marker
        \/ /\ ExpiresAt(t) < now /\ chain[t] = "none" /\ ChainNow >= ValidBefore[t]
           /\ marker' = marker \ {t}
     /\ Becomes(w, [Fails(att[w], "refused") EXCEPT !.reconciling = FALSE, !.excluded = TRUE])
     /\ UNCHANGED <<now, chain, book, claims, admission>>

\* The same envelope may be sent again.
Resend(w) ==
  LET t == att[w].tx
  IN /\ Reconciling(w)
     /\ chain[t] \in {"none", "pooled"} /\ ValidBefore[t] >= now + MinValidity
     /\ Moves(w, "ready")
     /\ UNCHANGED <<now, chain, book, claims, marker, admission>>

-----------------------------------------------------------------------------
(* A first submission is simulated and reserved.                           *)

\* The validity floor, checked before and after the reservation.
RefuseFloor(w) ==
  LET t == att[w].tx
  IN /\ ~att[w].reconciling
     /\ att[w].pc = "reserved" \/ (att[w].pc = "admitted" /\ ~att[w].waiting)
     /\ ValidBefore[t] < now + MinValidity
     /\ Becomes(w, Fails(att[w], Refusal(t)))
     /\ UNCHANGED <<now, chain, book, claims, marker, admission>>

\* Simulated before the reservation, and after it if it had to wait.
RefuseSimulation(w) ==
  /\ ~att[w].reconciling
  /\ \/ att[w].pc = "admitted" /\ ~att[w].waiting
     \/ att[w].pc = "reserved" /\ att[w].waiting
  /\ Becomes(w, Fails(att[w], "refused"))
  /\ UNCHANGED <<now, chain, book, claims, marker, admission>>

WaitUntil(t) ==
  IF Expires[t] < ValidBefore[t] - MinValidity THEN Expires[t] ELSE ValidBefore[t] - MinValidity

Reserve(w) ==
  LET t == att[w].tx
  IN /\ att[w].pc = "admitted" /\ ~att[w].reconciling
     /\ now < WaitUntil(t) /\ Fee[t] <= MaxTotalFee
     /\ \/ /\ IsDuplicate(book, t, now)
           /\ Becomes(w, Fails(att[w], "internal"))
           /\ UNCHANGED book
        \/ /\ ~IsDuplicate(book, t, now) /\ HasRoom(book, t)
           /\ book' = [book EXCEPT ![t] = Prepared(t, w, now)]
           /\ Becomes(w, [att[w] EXCEPT !.pc = "reserved", !.held = TRUE])
        \/ /\ ~IsDuplicate(book, t, now) /\ ~HasRoom(book, t)
           /\ Becomes(w, [att[w] EXCEPT !.waiting = TRUE])
           /\ UNCHANGED book
     /\ UNCHANGED <<now, chain, claims, marker, admission>>

\* No room until the wait ends, or a fee that never fits.
RefuseBudget(w) ==
  LET t == att[w].tx
  IN /\ att[w].pc = "admitted" /\ ~att[w].reconciling
     /\ att[w].waiting \/ now >= WaitUntil(t) \/ Fee[t] > MaxTotalFee
     /\ Becomes(w, Fails(att[w], "refused"))
     /\ UNCHANGED <<now, chain, book, claims, marker, admission>>

StartSweep(w) ==
  /\ att[w].pc = "admitted" /\ att[w].waiting /\ sweep[w].tasks = {}
  /\ TasksAt(book, now) # {}
  /\ sweep' = [sweep EXCEPT ![w] = [at |-> now, tasks |-> TasksAt(book, now)]]
  /\ UNCHANGED <<now, chain, book, claims, marker, admission, att>>

SweepStale(w, k) ==
  /\ k.kind = "stale"
  /\ book' = ReleaseStale(book, k, sweep[w].at)
  /\ sweep' = [sweep EXCEPT ![w].tasks = @ \ {k}]
  /\ UNCHANGED <<now, chain, claims, marker, admission, att>>

SweepLookup(w, k) ==
  /\ k.kind = "lookup"
  /\ sweep' = [sweep EXCEPT ![w].tasks =
       (@ \ {k}) \cup (IF chain[k.tx] \in {"paid", "reverted"}
                       THEN {[k EXCEPT !.kind = "settled"]} ELSE {})]
  /\ UNCHANGED <<now, chain, book, claims, marker, admission, att>>

SweepSettled(w, k) ==
  /\ k.kind = "settled"
  /\ book' = ReleaseSettled(book, k)
  /\ sweep' = [sweep EXCEPT ![w].tasks = @ \ {k}]
  /\ UNCHANGED <<now, chain, claims, marker, admission, att>>

-----------------------------------------------------------------------------
(* Submission.                                                             *)

\* The marker is written before the send, so that a lost outcome is known.
Mark(w) ==
  LET t == att[w].tx
  IN /\ att[w].pc = "reserved"
     /\ marker' = marker \cup {t}
     /\ Becomes(w, IF t \in marker
                   THEN Fails(att[w], "internal")
                   ELSE [att[w] EXCEPT !.pc = "ready", !.marked = TRUE])
     /\ UNCHANGED <<now, chain, book, claims, admission>>

\* The challenge expired meanwhile (PaymentExpiredError).
RefuseChallenge(w) ==
  /\ att[w].pc = "ready" /\ Expires[att[w].tx] <= now
  /\ Becomes(w, Fails(att[w], IF att[w].reconciling THEN "internal" ELSE "expired"))
  /\ UNCHANGED <<now, chain, book, claims, marker, admission>>

Sending(a) == [a EXCEPT !.pc = "broadcasting", !.sent = TRUE, !.unknown = TRUE]

\* Only the owner of the reservation may go on to send.
StartBroadcast(w) ==
  LET t == att[w].tx
  IN /\ att[w].pc = "ready" /\ Expires[t] > now
     /\ IF att[w].held
        THEN /\ book' = Advance(book, t, w, "broadcasting")
             /\ Becomes(w, IF Owns(book, t, w)
                           THEN Sending(att[w])
                           ELSE Fails(att[w], "refused"))
        ELSE Becomes(w, Sending(att[w])) /\ UNCHANGED book
     /\ UNCHANGED <<now, chain, claims, marker, admission>>

\* The node takes the transaction unless it can no longer be included.
Send(w) ==
  LET t == att[w].tx
  IN /\ att[w].pc = "broadcasting"
     /\ chain' = IF chain[t] = "none" /\ ChainNow < ValidBefore[t]
                 THEN [chain EXCEPT ![t] = "pooled"]
                 ELSE chain
     /\ Moves(w, "sent")
     /\ UNCHANGED <<now, book, claims, marker, admission>>

\* Never sent, or refused by the node.
SendRefused(w) ==
  /\ att[w].pc = "broadcasting"
  /\ Becomes(w, [Fails(att[w], "internal") EXCEPT !.unknown = FALSE])
  /\ UNCHANGED <<now, chain, book, claims, marker, admission>>

\* The send or a later lookup returns the receipt.
Confirm(w) ==
  LET t == att[w].tx
  IN /\ att[w].pc = "sent"
     /\ \/ /\ chain[t] = "paid"
           /\ marker' = marker \ {t}
           /\ Becomes(w, [Fails(att[w], "paid") EXCEPT !.unknown = FALSE])
        \/ /\ chain[t] = "reverted"
           /\ Becomes(w, [Fails(att[w], "internal") EXCEPT !.unknown = FALSE, !.reconciling = FALSE])
           /\ UNCHANGED marker
     /\ UNCHANGED <<now, chain, book, claims, admission>>

\* No answer and no receipt before the deadline.
LoseOutcome(w) ==
  /\ att[w].pc = "sent"
  /\ Becomes(w, Fails(att[w], "internal"))
  /\ UNCHANGED <<now, chain, book, claims, marker, admission>>

\* A store or RPC error before the send.
InternalError(w) ==
  /\ att[w].pc \in {"claimed", "bound", "admitted", "reserved", "ready"}
  /\ Becomes(w, Fails(att[w], "internal"))
  /\ UNCHANGED <<now, chain, book, claims, marker, admission>>

-----------------------------------------------------------------------------
(* Cleanup, in the order of the code.                                      *)

\* Mutant: the payer is free although the transaction may still land.
FreesAnyPayer(a) == a.admitted

FreesPayer(a) == a.admitted /\ (a.result = "paid" \/ ~(a.unknown \/ a.reconciling))

LeavePayer(w) ==
  LET t == att[w].tx
      p == PayerOf[t]
  IN /\ att[w].pc = "leaving"
     /\ payers' = IF FreesPayer(att[w]) /\ payers[p] = t THEN [payers EXCEPT ![p] = "none"] ELSE payers
     /\ Moves(w, "unbinding")
     /\ UNCHANGED <<now, chain, book, claims, marker, binding>>

\* Mutant: an attempt that sent nothing more drops what others retained.
LeftByLast(b, a, w) == IF b.attempts = {w} THEN Unbound ELSE [b EXCEPT !.attempts = @ \ {w}]

\* A binding stays while attempts share it, or once one may have submitted.
LeftBinding(b, a, w) ==
  LET attempts == b.attempts \ {w}
      retained == \/ b.retained
                  \/ (a.sent \/ a.reconciling \/ a.result = "paid") /\ ~a.excluded
  IN IF ~a.excluded /\ (attempts # {} \/ retained)
     THEN [b EXCEPT !.attempts = attempts, !.retained = retained]
     ELSE Unbound

LeaveChallenge(w) ==
  LET t == att[w].tx
      c == ChallengeOf[t]
  IN /\ att[w].pc = "unbinding"
     /\ binding' = IF att[w].bound /\ binding[c].tx = t /\ w \in binding[c].attempts
                   THEN [binding EXCEPT ![c] = LeftBinding(@, att[w], w)]
                   ELSE binding
     /\ Moves(w, "unmarking")
     /\ UNCHANGED <<now, chain, book, claims, marker, payers>>

\* Mutant: the marker is cleared although the transaction may still land.
ClearsAnyMarker(a) == a.result # "paid" /\ a.marked

ClearsMarker(a) == a.result # "paid" /\ a.marked /\ ~a.unknown

LeaveMarker(w) ==
  /\ att[w].pc = "unmarking"
  /\ \/ marker' = IF ClearsMarker(att[w]) THEN marker \ {att[w].tx} ELSE marker
     \/ StoreErrors /\ UNCHANGED marker
  /\ Moves(w, "unclaiming")
  /\ UNCHANGED <<now, chain, book, claims, admission>>

\* Mutant: the replay key goes in any case.
KeepsNoClaim(a) == FALSE

KeepsClaim(a) == a.result = "paid"

LeaveClaim(w) ==
  /\ att[w].pc = "unclaiming"
  /\ claims' = IF KeepsClaim(att[w]) THEN claims ELSE claims \ {att[w].tx}
  /\ Moves(w, "settling")
  /\ UNCHANGED <<now, chain, book, marker, admission>>

\* A transaction that may still land keeps its fee reserved.
SettledBook(b, a, w) ==
  IF ~a.held THEN b
  ELSE IF a.unknown THEN Advance(b, a.tx, w, "pending") ELSE Release(b, a.tx, w)

\* A refusal of an expired challenge could hide an expired marker.
Settle(w) ==
  LET a == att[w]
  IN /\ a.pc = "settling"
     /\ book' = SettledBook(book, a, w)
     /\ Becomes(w, Ends(a, IF a.result = "refused" /\ Expires[a.tx] <= now
                           THEN "internal" ELSE a.result))
     /\ UNCHANGED <<now, chain, claims, marker, admission>>

\* The process stops: nothing is cleaned up.
Crash(w) ==
  /\ att[w].pc \notin {"idle", "done"}
  /\ Becomes(w, Ends(att[w], "none"))
  /\ UNCHANGED <<now, chain, book, claims, marker, admission>>

-----------------------------------------------------------------------------
(* The chain and time.                                                     *)

Include(t) ==
  /\ chain[t] = "pooled" /\ ChainNow < ValidBefore[t]
  /\ \E outcome \in {"paid", "reverted"} : chain' = [chain EXCEPT ![t] = outcome]
  /\ UNCHANGED <<now, book, sweep, claims, marker, admission, att>>

Tick ==
  /\ now < MaxTime
  /\ now' = now + 1
  /\ chain' = [t \in Txs |-> IF chain[t] = "pooled" /\ ChainNow' >= ValidBefore[t]
                             THEN "none" ELSE chain[t]]
  /\ marker' = {t \in marker : now' < RecordUntil(t)}
  /\ binding' = [c \in Challenges |->
       IF binding[c].tx # "none" /\ now' >= RecordUntil(binding[c].tx)
       THEN Unbound ELSE binding[c]]
  /\ UNCHANGED <<book, sweep, claims, payers, att>>

-----------------------------------------------------------------------------
AdmissionNext ==
  \E w \in Attempts :
    \/ Begin(w) \/ RefuseExpired(w) \/ ClaimTx(w) \/ BindChallenge(w) \/ ClaimPayer(w)
    \/ ReconcilePaid(w) \/ ReconcileExcluded(w) \/ Resend(w)

BudgetNext ==
  \E w \in Attempts :
    \/ RefuseFloor(w) \/ RefuseSimulation(w) \/ Reserve(w) \/ RefuseBudget(w)
    \/ StartSweep(w)
    \/ \E k \in sweep[w].tasks : SweepStale(w, k) \/ SweepLookup(w, k) \/ SweepSettled(w, k)

SubmissionNext ==
  \E w \in Attempts :
    \/ Mark(w) \/ RefuseChallenge(w) \/ StartBroadcast(w) \/ Send(w) \/ SendRefused(w)
    \/ Confirm(w) \/ LoseOutcome(w) \/ InternalError(w)

CleanupNext ==
  \E w \in Attempts :
    \/ LeavePayer(w) \/ LeaveChallenge(w) \/ LeaveMarker(w) \/ LeaveClaim(w)
    \/ Settle(w) \/ Crash(w)

Next ==
  \/ AdmissionNext \/ BudgetNext \/ SubmissionNext \/ CleanupNext
  \/ \E t \in Txs : Include(t)
  \/ Tick

Spec == Init /\ [][Next]_vars

-----------------------------------------------------------------------------
Attempt ==
  [pc : {"idle", "begun", "claimed", "bound", "admitted", "reserved", "ready",
         "broadcasting", "sent", "leaving", "unbinding", "unmarking",
         "unclaiming", "settling", "done"},
   tx : Txs, reconciling : BOOLEAN, waiting : BOOLEAN, bound : BOOLEAN,
   admitted : BOOLEAN, marked : BOOLEAN, held : BOOLEAN, sent : BOOLEAN,
   unknown : BOOLEAN, excluded : BOOLEAN,
   result : {"none", "paid", "refused", "expired", "replayed", "internal"}]

\* The types of the state.
ChargeTypeOK ==
  /\ now \in Nat
  /\ chain \in [Txs -> {"none", "pooled", "paid", "reverted"}]
  /\ book \in Book
  /\ sweep \in [Attempts -> [at : Nat, tasks : SUBSET Task]]
  /\ claims \in SUBSET Txs /\ marker \in SUBSET Txs
  /\ binding \in [Challenges -> [tx : Txs \cup {"none"}, attempts : SUBSET Attempts,
                                 retained : BOOLEAN]]
  /\ payers \in [Payers -> Txs \cup {"none"}]
  /\ att \in [Attempts -> Attempt]

Pooled == {t \in Txs : chain[t] = "pooled"}

\* The fees in flight stay within the budget, whatever attempts stop, lose
\* outcomes or lose their reservation to reconciliation (SponsorBudget).
ExposureCapped ==
  TotalFee(Pooled) <= MaxTotalFee /\ Cardinality(Pooled) <= MaxReservations

\* A payment serves one request: of all the attempts with one transaction, at
\* most one is answered with a receipt (the replay keys).
PaidOnce ==
  \A v, w \in Attempts :
    att[v].result = "paid" /\ att[w].result = "paid" /\ att[v].tx = att[w].tx => v = w

\* A challenge is paid by one transaction only, although attempts with others
\* fail, retry and release the binding (claim_challenge).
OnePaymentPerChallenge ==
  \A t, u \in Txs :
    ChallengeOf[t] = ChallengeOf[u] /\ chain[t] = "paid" /\ chain[u] = "paid" => t = u

\* At most one sponsored transaction of a payer is in flight (claim_payer).
OnePendingPerPayer ==
  \A t, u \in Pooled : PayerOf[t] = PayerOf[u] => t = u

\* A refusal invites the client to pay again: when one is answered, the
\* transaction neither was paid nor may still land (_broadcast_transaction).
RefusalsAreSafe ==
  [][\A w \in Attempts :
       att[w].pc # "done" /\ att'[w].pc = "done" /\ att'[w].result \in {"refused", "expired"}
         => chain[att[w].tx] \notin {"pooled", "paid"}]_vars

=============================================================================
