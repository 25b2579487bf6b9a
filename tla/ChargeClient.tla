----------------------------- MODULE ChargeClient -----------------------------
(***************************************************************************)
(* The client of a charge, on top of the server of ChargeRails: the HTTP   *)
(* transport that pays a 402 and tries again, the MCP client that does it  *)
(* once, and the signing that concurrent calls for one challenge share.    *)
(* A payer either has its transaction broadcast by the server or (push)    *)
(* broadcasts it and presents the hash.                                    *)
(***************************************************************************)
EXTENDS ChargeRails

CONSTANTS Callers,     \* concurrent requests of one client
          Window,      \* EXPIRING_NONCE_VALID_BEFORE_SECS
          MaxRetries   \* max_payment_retries

ASSUME ClientAssumption ==
  /\ Window \in Nat /\ MaxRetries \in Nat \ {0} /\ IsFiniteSet(Callers)
  /\ "none" \notin Challenges \cup Payments

VARIABLES via,      \* the transport: "http" or "mcp"
          call,     \* the requests
          signing,  \* _signing: the signing in flight for each challenge
          users     \* ghost: the calls a payment was signed for

clientVars == <<via, call, signing, users>>
paidVars == <<railVars, clientVars>>

NoCall ==
  [pc |-> "idle", ch |-> "none", kind |-> "none", pay |-> "none",
   att |-> "none", tries |-> 0, end |-> "none"]

NoSigning ==
  [pc |-> "none", kind |-> "none", pay |-> "none", submitted |-> FALSE, end |-> "none",
   waiters |-> {}]

ClientInit ==
  /\ via \in {"http", "mcp"}
  /\ users = [p \in Payments |-> {}]

In(k, pc) == call[k].pc = pc
Sets(k, r) == call' = [call EXCEPT ![k] = r]
Ends(r, end) == [NoCall EXCEPT !.pc = "ended", !.kind = r.kind, !.end = end]
Stage(c, pc) == signing[c].pc = pc
Signs(c, s) == signing' = [signing EXCEPT ![c] = s]
FailsWith(s, end) == [s EXCEPT !.pc = "over", !.end = end]

\* Payments are signed in turn; each names its challenge.
Unsigned == {p \in Payments : bound[p] = "none"}
Fresh == CHOOSE p \in Unsigned : TRUE

\* How long a signed payment is good for: an authorization as long as its
\* challenge; a transaction no longer than the window either, a pushed one less,
\* so that its hash still reaches the merchant.
ValidBefore(expiry) == IF now + Window <= expiry THEN now + Window ELSE expiry
Validity(c, k) ==
  CASE k = "push" -> ValidBefore(Expires[c] - MinValidity)
    [] k \in {"pull", "hosted"} -> ValidBefore(Expires[c] + 1)
    [] OTHER -> Expires[c]

SignPayment(c, k) ==
  /\ Unsigned # {}
  /\ bound' = [bound EXCEPT ![Fresh] = c]
  /\ until' = [until EXCEPT ![Fresh] = Validity(c, k)]

\* Tempo calls share a signing; the other methods sign for themselves.
Shared == {"pull", "hosted", "push", "proof"}

-----------------------------------------------------------------------------
(* The signing of a Tempo method.                                          *)

\* The unpaid request was answered with challenges; the client goes on with one
\* that it has a method for.
Ask(k) ==
  /\ In(k, "idle")
  /\ \E c \in Challenges :
       /\ Expires[c] > now
       /\ Sets(k, [NoCall EXCEPT !.pc = "challenged", !.ch = c])
  /\ UNCHANGED <<via, railVars, signing, users>>

\* Nothing is signed for an expired challenge, an origin or a realm that is not
\* trusted, or a body that cannot be sent twice.
RefuseToSign(k) ==
  /\ In(k, "challenged")
  /\ Sets(k, Ends(call[k], "refused"))
  /\ UNCHANGED <<via, railVars, signing, users>>

\* A call joins the signing for its challenge, or starts it.
Join(k) ==
  LET c == call[k].ch
  IN /\ In(k, "challenged") /\ Expires[c] > now
     /\ \E kind \in KindsOf(rail) \cap Shared :
          /\ Stage(c, "none") \/ kind = signing[c].kind
          /\ Signs(c, [signing[c] EXCEPT
               !.pc = IF Stage(c, "none") THEN "building" ELSE @,
               !.kind = kind, !.waiters = @ \cup {k}])
     /\ Sets(k, [call[k] EXCEPT !.pc = "signing"])
     /\ UNCHANGED <<via, railVars, users>>

\* An authorization or a token is made for one call.
SignAlone(k) ==
  LET c == call[k].ch
  IN /\ In(k, "challenged") /\ Expires[c] > now /\ rail \notin Shared
     /\ \/ /\ SignPayment(c, rail)
           /\ Sets(k, [call[k] EXCEPT !.pc = "signed", !.kind = rail, !.pay = Fresh])
           /\ users' = [users EXCEPT ![Fresh] = {k}]
        \/ /\ Sets(k, Ends(call[k], "refused"))
           /\ UNCHANGED <<terms, users>>
     /\ UNCHANGED <<via, now, rail, forgotten, world, store, att, signing>>

\* Too close to the expiry for the server to co-sign, or to deliver a hash.
TooLate(c, k) ==
  \/ k = "hosted" /\ Expires[c] < now + MinValidity
  \/ k = "push" /\ Expires[c] <= now + MinValidity

\* The transaction is built and signed, which asks the node; a check fails, or
\* there is no time left.
Build(c) ==
  LET s == signing[c]
  IN /\ Stage(c, "building")
     /\ \/ /\ ~TooLate(c, s.kind) /\ SignPayment(c, s.kind)
           /\ Signs(c, [s EXCEPT !.pc = IF s.kind = "push" THEN "built" ELSE "over", !.pay = Fresh])
           /\ users' = [users EXCEPT ![Fresh] = s.waiters]
        \/ /\ Signs(c, FailsWith(s, "refused"))
           /\ UNCHANGED <<terms, users>>
     /\ UNCHANGED <<via, now, rail, forgotten, world, store, att, call>>

\* A broadcast would pay with nobody left to receive the hash.
Wanted(s) == s.waiters # {}

Submit(c) ==
  LET s == signing[c]
  IN /\ Stage(c, "built")
     /\ Signs(c, IF ~Wanted(s) THEN FailsWith(s, "cancelled")
                 ELSE IF TooLate(c, "push")
                 THEN FailsWith([s EXCEPT !.submitted = TRUE], "refused")
                 ELSE [s EXCEPT !.pc = "submitting", !.submitted = TRUE])
     /\ users' = [users EXCEPT ![s.pay] = @ \cup s.waiters]
     /\ UNCHANGED <<via, railVars, call>>

\* The node takes the transaction, or refuses it.
SendPush(c) ==
  LET s == signing[c]
  IN /\ Stage(c, "submitting")
     /\ \/ /\ chain[s.pay] = "none" /\ ChainNow < until[s.pay]
           /\ chain' = [chain EXCEPT ![s.pay] = "pooled"]
           /\ envs' = [envs EXCEPT ![s.pay] = @ \cup {"own"}]
           /\ Signs(c, [s EXCEPT !.pc = "confirming"])
        \/ Signs(c, FailsWith(s, "refused")) /\ UNCHANGED world
     /\ UNCHANGED <<via, now, rail, forgotten, terms, store, att, call, users>>

\* Mutant: a broadcast without an answer is reported as failed.
BroadcastLostFails == "refused"

\* Any other failure than a refusal may come after the node accepted it.
BroadcastLost == "unknown"

ConfirmPush(c) ==
  LET s == signing[c]
  IN /\ s.pc \in {"submitting", "confirming"}
     /\ \/ /\ Stage(c, "confirming") /\ chain[s.pay] = "paid"
           /\ Signs(c, [s EXCEPT !.pc = "over"])
        \/ /\ Stage(c, "confirming") /\ chain[s.pay] = "reverted"
           /\ Signs(c, FailsWith(s, "refused"))
        \/ Signs(c, FailsWith(s, BroadcastLost))
     /\ UNCHANGED <<via, railVars, call, users>>

\* The signing is over: its entry goes, then everyone that waits resumes.
Deliver(c) ==
  LET s == signing[c]
  IN /\ Stage(c, "over")
     /\ call' = [k \in Callers |->
          IF k \notin s.waiters THEN call[k]
          ELSE IF s.end # "none" THEN Ends(call[k], s.end)
          ELSE [call[k] EXCEPT !.pc = "signed", !.kind = s.kind, !.pay = s.pay]]
     /\ users' = IF s.pay = "none" THEN users ELSE [users EXCEPT ![s.pay] = @ \cup s.waiters]
     /\ Signs(c, NoSigning)
     /\ UNCHANGED <<via, railVars>>

\* A caller is cancelled; what was submitted for it may land, and it is told.
CancelSigning(k) ==
  LET s == signing[call[k].ch]
  IN /\ In(k, "signing")
     /\ Signs(call[k].ch, [s EXCEPT !.waiters = @ \ {k}])
     /\ Sets(k, Ends(call[k], IF s.submitted THEN "unknown" ELSE "cancelled"))
     /\ UNCHANGED <<via, railVars, users>>

CancelSigned(k) ==
  /\ In(k, "signed")
  /\ Sets(k, Ends(call[k], IF call[k].kind = "push" THEN "unknown" ELSE "cancelled"))
  /\ UNCHANGED <<via, railVars, signing, users>>

-----------------------------------------------------------------------------
(* The paid request.                                                       *)

Present(k, w) ==
  /\ In(k, "signed")
  /\ Receive(w, call[k].pay, call[k].ch, call[k].kind)
  /\ call[k].kind = "push" => att'[w].env = "own"
  /\ Sets(k, [call[k] EXCEPT !.pc = "waiting", !.att = w, !.tries = @ + 1])
  /\ UNCHANGED <<via, signing, users>>

\* The request, or its answer, is lost; or the caller is cancelled.
LosePaidRequest(k) ==
  /\ call[k].pc \in {"signed", "waiting"}
  /\ Sets(k, Ends(call[k], "unknown"))
  /\ UNCHANGED <<via, railVars, signing, users>>

\* Mutant: a server error is paid again, like another challenge.
PaysAgainAfterError(r, result) ==
  /\ result \in {"challenge", "error"} /\ via = "http" /\ r.tries < MaxRetries
  /\ r.kind # "push" /\ (r.kind \in Evm => result # "challenge")

\* Another challenge is paid.  It is final for a pushed payment and for an
\* authorization that remains spendable; the MCP client pays once.
PaysAgain(r, result) ==
  /\ result = "challenge" /\ via = "http" /\ r.tries < MaxRetries
  /\ r.kind \notin {"push"} \cup Evm

\* What a paid answer other than another challenge says.  The MCP client takes
\* every error for an unknown outcome.
EndOf(r, result) ==
  CASE result = "receipt" -> "paid"
    [] result # "receipt" /\ (result \in {"error", "none"} \/ via = "mcp") -> "unknown"
    [] OTHER -> "refused"

Answered(k) ==
  LET r == call[k]
      result == att[r.att].result
  IN /\ In(k, "waiting") /\ att[r.att].pc = "done"
     /\ IF PaysAgain(r, result)
        THEN \E c \in Challenges :
               /\ Expires[c] > now \/ c = r.ch
               /\ Sets(k, [r EXCEPT !.pc = "challenged", !.ch = c, !.pay = "none", !.att = "none"])
        ELSE Sets(k, Ends(r, EndOf(r, result)))
     /\ UNCHANGED <<via, railVars, signing, users>>

ClientNext ==
  \/ \E k \in Callers :
       \/ Ask(k) \/ RefuseToSign(k) \/ Join(k) \/ SignAlone(k) \/ CancelSigning(k)
       \/ CancelSigned(k) \/ LosePaidRequest(k) \/ Answered(k)
       \/ \E w \in Attempts : Present(k, w)
  \/ \E c \in Challenges : Build(c) \/ Submit(c) \/ SendPush(c) \/ ConfirmPush(c) \/ Deliver(c)

-----------------------------------------------------------------------------
\* Nothing is signed yet.  A request that is never made counts as cancelled.
NothingSigned ==
  /\ RailsInit /\ ClientInit
  /\ bound = [p \in Payments |-> "none"] /\ until = [p \in Payments |-> 0]
PaidInit ==
  /\ NothingSigned
  /\ signing = [c \in Challenges |-> NoSigning]
  /\ call \in [Callers -> {NoCall, Ends(NoCall, "cancelled")}]

PaidNext == (ServerNext /\ UNCHANGED clientVars) \/ ClientNext

PaidSpec == PaidInit /\ [][PaidNext]_paidVars

-----------------------------------------------------------------------------
MayHaveLanded(p) == chain[p] \in {"pooled", "paid"}

\* However often it is retried, a request pays once: of the payments that were
\* signed for some of the calls only, no more land than there are such calls.
PaidOncePerCall ==
  \A calls \in SUBSET Callers \ {{}} :
    Cardinality({p \in Payments : users[p] # {} /\ users[p] \subseteq calls /\ MayHaveLanded(p)})
      <= Cardinality(calls)

\* No payment is made behind the client's back: of the calls that it was signed
\* for one still runs, was paid, was told that its outcome is unknown, or
\* presented the hash.
SomeoneKnows ==
  \A p \in Payments :
    users[p] # {} /\ MayHaveLanded(p) =>
      \E k \in users[p] :
        \/ call[k].pc # "ended"
        \/ call[k].end \in {"paid", "unknown"}
        \/ call[k].end = "refused" /\ call[k].kind = "push"
=============================================================================
