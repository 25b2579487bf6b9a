----------------------------- MODULE PaymentRoute -----------------------------
(***************************************************************************)
(* A protected route: the offers composed on it, the challenges they issue *)
(* and what becomes of a credential presented to it (compose.py,           *)
(* verify.py), to the server outside of a route (broadcast_credential), or *)
(* as an x402 payment.  Offers may belong to several servers, share a      *)
(* method, settle through separate replay stores, ask a price resolved for *)
(* each request, or match echoed requests by a stable binding.             *)
(*                                                                         *)
(* A client follows one challenge at a time.  A challenge's id is a MAC    *)
(* over its fields under the server's secret, so that a server recognises  *)
(* exactly what it issued: "server" stands for the realm and the secret.   *)
(***************************************************************************)
EXTENDS Integers, FiniteSetsExt

CONSTANTS Configs,   \* the routes: functions from 1..n to offers, in order
          Routes,    \* the scopes bound into requests: HTTP routes or tool names
          Resource,  \* their URLs: a function from Routes, shared by GET and POST
          Bodies,    \* request bodies
          Prices,    \* amounts a price is resolved to
          Lifetime,  \* expires_in
          MaxTime    \* bound on the clock

\* "none" stands for no digest.  Methods of one name, being of one intent, all
\* match echoed requests by a stable binding (session) or none does (charge).
ASSUME RouteAssumption ==
  /\ "none" \notin Bodies
  /\ \A cf \in Configs :
       /\ DOMAIN cf \subseteq Nat \ {0} /\ IsFiniteSet(DOMAIN cf)
       /\ \A i \in DOMAIN cf : cf[i].stable \in BOOLEAN /\ cf[i].hashes \in BOOLEAN
       /\ \A i, j \in DOMAIN cf : cf[i].name = cf[j].name => cf[i].stable = cf[j].stable

VARIABLES conf,   \* the offers
          price,  \* what resolve_request would make each offer ask
          now,    \* the clock
          held,   \* the challenge the client follows
          stores, \* ghost: the replay stores that settled its payment
          last    \* ghost: the last request and its answer

routeVars == <<conf, price, now, held, stores, last>>

\* Every method that was configured for the servers; the route has those "here".
Methods == DOMAIN conf
Offers == {i \in Methods : conf[i].here}
NoChallenge == [name |-> "none"]
NoAnswer == [how |-> "none"]

RouteInit ==
  /\ conf \in Configs
  /\ price \in [Methods -> Prices]
  /\ \A i \in Methods : conf[i].price # 0 => price[i] = conf[i].price
  /\ now = 0 /\ held = NoChallenge /\ stores = {} /\ last = NoAnswer

-----------------------------------------------------------------------------
(* What an offer asks, and the challenge for it.                           *)

\* The wire request of an offer, with the route's scope.
Asks(i, route) ==
  [product |-> conf[i].product, price |-> price[i], route |-> route]

\* A route may bind the body of the request.
DigestOf(i, body) == IF conf[i].hashes THEN body ELSE "none"

\* "by" is a ghost: several offers may issue the same challenge.
Issue(i, route, body) ==
  [server |-> conf[i].server, name |-> conf[i].name, request |-> Asks(i, route),
   meta |-> conf[i].meta, digest |-> DigestOf(i, body), expires |-> now + Lifetime, by |-> i]

Answers(how, route, body, i) ==
  last' = [how |-> how, route |-> route, body |-> body, paid |-> held, by |-> i]

\* The client goes on with one of the challenges, or keeps its own.
Offered(S, route, body) ==
  \/ UNCHANGED <<held, stores>>
  \/ \E i \in S : held' = Issue(i, route, body) /\ stores' = {}

\* The offers advertised: those their methods make available, and of the ones
\* that the server selects from, what the selection keeps.
Selectable == {i \in Offers : conf[i].selected}
Advertised(A) ==
  /\ A # {} /\ A \subseteq Offers
  /\ \E available \in SUBSET Offers :
       /\ A \ Selectable = available \ Selectable
       /\ A \cap Selectable \subseteq available
       /\ available \cap Selectable # {} => A \cap Selectable # {}

\* No credential, or one of a method that the route does not offer.
Challenge(how, route, body) ==
  \/ \E A \in SUBSET Offers : Advertised(A) /\ Offered(A, route, body) /\ Answers(how, route, body, 0)
  \/ UNCHANGED <<held, stores>> /\ Answers(how, route, body, 0)

Ask(route, body) ==
  /\ Challenge("ask", route, body)
  /\ UNCHANGED <<conf, price, now>>

\* Another handler of the same scope issued it: a route of another server, or
\* an offer since removed.
AskElsewhere(route, body) ==
  /\ Offered(Methods \ Offers, route, body)
  /\ last' = NoAnswer
  /\ UNCHANGED <<conf, price, now>>

-----------------------------------------------------------------------------
(* Presenting the credential to the route.                                 *)

First(S) == Min(S)
Named(c) == {i \in Offers : conf[i].name = c.name}
Owns(i, c) == conf[i].server = c.server

\* A stable binding compares the fields it keeps, and the scope; otherwise the
\* requests are equal.
RequestsMatch(i, c, route) ==
  IF conf[i].stable
  THEN c.request.route = route /\ c.request.product = conf[i].product
  ELSE c.request = Asks(i, route)
Bound(i, c, body) == c.digest = DigestOf(i, body) /\ c.meta = conf[i].meta

RequestMatches(c, route) == {i \in Named(c) : RequestsMatch(i, c, route)}
BindingMatches(c, route, body) == {i \in RequestMatches(c, route) : Bound(i, c, body)}
Authenticated(c, route, body) == {i \in BindingMatches(c, route, body) : Owns(i, c)}

\* Several offers issued such challenges: they cannot be told apart, unless all
\* match by a stable binding.
Ambiguous(M) == Cardinality(M) > 1 /\ \E i \in M : ~conf[i].stable

\* Of offers matched by a stable binding, the one that asks what was signed.
Preferred(M, c, route) ==
  LET exact == {i \in M : c.request = Asks(i, route)}
  IN  First(IF exact # {} THEN exact ELSE M)

FirstOf(S, T, U) == First(IF S # {} THEN S ELSE IF T # {} THEN T ELSE U)
Owned(S, c) == {i \in S : Owns(i, c)}

\* Mutant: the owner of the challenge is not looked for.
AddressedByRequest(c, route, body) ==
  FirstOf(BindingMatches(c, route, body), RequestMatches(c, route), Named(c))

\* The offer that answers the credential, even if only to refuse it.
Addressed(c, route, body) ==
  LET matches == RequestMatches(c, route)
      bound == BindingMatches(c, route, body)
      known == Authenticated(c, route, body)
  IN  IF known # {} THEN Preferred(known, c, route)
      ELSE IF Owned(Named(c), c) # {}
      THEN FirstOf(Owned(bound, c), Owned(matches, c), Owned(Named(c), c))
      ELSE FirstOf(bound, matches, Named(c))

Verifies(i, c, route, body) ==
  /\ Owns(i, c) /\ RequestsMatch(i, c, route) /\ Bound(i, c, body) /\ now < c.expires

\* Mutant: the route's request, whatever the client signed.
SettledCurrent(i, c, route) == Asks(i, route)

\* The request that the method settles: with a stable binding the client's, and
\* otherwise the route's, which is equal.
Settled(i, c, route) == IF conf[i].stable THEN c.request ELSE Asks(i, route)

\* The method settles: it returns a receipt (once from a store, unless the
\* challenge is reusable); refuses the payload or finds it expired (a new
\* challenge); refuses the payment (the same challenge); finds a valid payment
\* of something else (403, no challenge); or does not know (no challenge).
Receipt(i, how, route, body, request) ==
  /\ conf[i].stable \/ conf[i].store \notin stores
  /\ stores' = stores \cup {conf[i].store}
  /\ last' = [how |-> how, route |-> route, body |-> body, paid |-> held, by |-> i,
              settled |-> request]
  /\ UNCHANGED held
NoReceipt(i, how, route, body) ==
  /\ Answers(how, route, body, i)
  /\ Offered({i}, route, body)

Pay(route, body) ==
  /\ held # NoChallenge
  /\ LET known == Authenticated(held, route, body)
         i == Addressed(held, route, body)
     IN  \/ Named(held) = {} /\ Challenge("pay", route, body)
         \/ Ambiguous(known) /\ Offered(known, route, body) /\ Answers("pay", route, body, 0)
         \/ /\ Named(held) # {} /\ ~Ambiguous(known)
            /\ ~Verifies(i, held, route, body)
            /\ Offered({i}, route, body) /\ Answers("pay", route, body, 0)
         \/ /\ Named(held) # {} /\ ~Ambiguous(known)
            /\ Verifies(i, held, route, body)
            /\ \/ Receipt(i, "paid", route, body, Settled(i, held, route))
               \/ NoReceipt(i, "pay", route, body)
  /\ UNCHANGED <<conf, price, now>>

-----------------------------------------------------------------------------
(* Settling a credential outside of a route.                               *)

\* Mutant: methods of one name and intent are taken for copies.
SettleAlikeByName(M) == \A i, j \in M : conf[i].name = conf[j].name

\* Copies from one configuration share their hooks, and so their store.
SettleAlike(M) == \A i, j \in M : conf[i].store = conf[j].store

\* The application may name the request by the amount of its route; each method
\* fills in its defaults, or resolves its price.  Methods that cannot be told
\* apart are not guessed at, unless they settle alike.
Expected(i, amount, c) ==
  [c.request EXCEPT !.product = conf[i].product,
                    !.price = IF conf[i].price = 0 THEN price[i] ELSE amount]
BindsAlike(i, c) == conf[i].stable /\ conf[i].product = c.request.product
Candidates(c, s) == {i \in Methods : conf[i].name = c.name /\ conf[i].server = s}
Matching(c, s, amount) ==
  LET exact == {i \in Candidates(c, s) : Expected(i, amount, c) = c.request}
      bound == {i \in Candidates(c, s) : BindsAlike(i, c)}
  IN  IF exact # {} THEN exact ELSE bound
Unanimous(M) == M # {} /\ SettleAlike(M)

Settles(M) ==
  LET c == held IN
  \/ Answers("broadcast", c.request.route, c.digest, IF Unanimous(M) THEN First(M) ELSE 0)
     /\ UNCHANGED <<held, stores>>
  \/ Unanimous(M) /\ Receipt(First(M), "settled", c.request.route, c.digest, c.request)

\* Nothing is known of the route: the challenge's own fields are trusted.
Broadcast(s) ==
  /\ held # NoChallenge /\ held.server = s /\ now < held.expires
  /\ Settles(Candidates(held, s))
  /\ UNCHANGED <<conf, price, now>>

\* The route's amount, metadata and body are checked.
BroadcastFor(s, amount, meta, body) ==
  /\ held # NoChallenge /\ held.server = s /\ now < held.expires
  /\ held.meta = meta /\ held.digest = body
  /\ Settles(Matching(held, s, amount))
  /\ UNCHANGED <<conf, price, now>>

-----------------------------------------------------------------------------
(* x402 payments, made from what a challenge's offer advertised to x402    *)
(* clients: with its route binding, or as other x402 clients make them.    *)

RequirementsMatch(i, c) == conf[i].product = c.request.product /\ price[i] = c.request.price
X402Offers == {i \in Offers : conf[i].x402 # "no"}

\* An x402 payment pays only an offer that the request would be answered with.
X402Offer(c, A) == {i \in X402Offers \cap A : RequirementsMatch(i, c)}

\* Requests are scoped, so that a route binding is required, unless the method
\* takes the resource for one: then the URL is all that is compared, and a payment
\* for one scope, body and metadata may pay for others.
X402Binds(i, c, bound, route, body) ==
  IF bound THEN c.request.route = route /\ Bound(i, c, body)
  ELSE conf[i].x402 = "resource" /\ Resource[c.request.route] = Resource[route]

\* The route's request is settled; the authorization's nonce, not the challenge,
\* tells x402 payments apart.
X402Receipt(i, bound, route, body) ==
  /\ last' = [how |-> IF bound THEN "x402 paid" ELSE "resource paid", route |-> route,
              body |-> body, paid |-> held, by |-> i, settled |-> Asks(i, route)]
  /\ UNCHANGED <<held, stores>>

PayX402(bound, route, body) ==
  /\ held # NoChallenge /\ conf[held.by].x402 # "no" /\ X402Offers # {}
  /\ \/ \E A \in SUBSET Offers :
          LET S == X402Offer(held, A) IN
          /\ Advertised(A)
          /\ \/ S = {} /\ Offered(A, route, body) /\ Answers("x402", route, body, 0)
             \/ S # {} /\ NoReceipt(First(S), "x402", route, body)
             \/ /\ S # {} /\ X402Binds(First(S), held, bound, route, body)
                /\ X402Receipt(First(S), bound, route, body)
     \/ UNCHANGED <<held, stores>> /\ Answers("x402", route, body, 0)
  /\ UNCHANGED <<conf, price, now>>

-----------------------------------------------------------------------------
(* The rest of the world.                                                  *)

\* A price that is resolved for each request changes.
Reprice(i, amount) ==
  /\ conf[i].price = 0 /\ price[i] # amount
  /\ price' = [price EXCEPT ![i] = amount]
  /\ last' = NoAnswer
  /\ UNCHANGED <<conf, now, held, stores>>

Tick ==
  /\ now < MaxTime
  /\ now' = now + 1
  /\ last' = NoAnswer
  /\ UNCHANGED <<conf, price, held, stores>>

Meets(route, body) ==
  \/ Ask(route, body)
  \/ AskElsewhere(route, body)
  \/ Pay(route, body)
  \/ \E bound \in BOOLEAN : PayX402(bound, route, body)

Settlement(s, meta, body) ==
  \/ Broadcast(s)
  \/ \E amount \in Prices : BroadcastFor(s, amount, meta, body)

Next ==
  \/ \E route \in Routes, body \in Bodies : Meets(route, body)
  \/ \E i \in Methods, body \in Bodies \cup {"none"} :
       Settlement(conf[i].server, conf[i].meta, body)
  \/ \E i \in Methods, amount \in Prices : Reprice(i, amount)
  \/ Tick

Spec == RouteInit /\ [][Next]_routeVars

-----------------------------------------------------------------------------
(* Properties.                                                             *)

\* Methods that the name, the server and the product do not tell apart may have
\* separate replay stores only if their prices are fixed.
PricesTellApart ==
  \A cf \in Configs : \A i, j \in DOMAIN cf :
    /\ ~cf[i].stable /\ cf[i].price = 0
    /\ cf[i].name = cf[j].name /\ cf[i].server = cf[j].server /\ cf[i].product = cf[j].product
    => cf[i].store = cf[j].store

\* A payment is presented again, to the route and to the server outside of it,
\* while prices change: it never obtains a receipt from a second replay store,
\* which could not know that it was used.
OneStorePerPayment ==
  held # NoChallenge /\ ~conf[held.by].stable => Cardinality(stores) <= 1

\* Of one product and price, at one URL.
SameAtResource(r, q) ==
  r.product = q.product /\ r.price = q.price /\ Resource[r.route] = Resource[q.route]

\* A receipt is for the request that the client signed, although the route asks
\* another price by now; and, given by the route, for the body it was made for.
\* An x402 payment without a route binding pays the price of the product that was
\* signed, at the same URL: nothing ties it to a scope or a body.
SettledAsSigned ==
  "settled" \in DOMAIN last =>
    IF last.how = "resource paid" THEN SameAtResource(last.settled, last.paid.request)
    ELSE /\ last.settled = last.paid.request
         /\ last.how \in {"paid", "x402 paid"} => last.paid.digest \in {"none", last.body}

\* A challenge is good until it expires, whatever else the route offers and
\* however it advertises now: as long as its issuer, and no other, asks what was
\* signed the issuer settles it, and a reusable one is settled at any price.
Quotes(i, c) ==
  /\ Owns(i, c) /\ i \in Named(c) /\ conf[i].meta = c.meta
  /\ c.request = Asks(i, c.request.route)
IssuedIsPayable ==
  last.how \in {"pay", "paid"} =>
    LET c == last.paid IN
    c.by \in Offers /\ now < c.expires /\ last.route = c.request.route
      /\ c.digest \in {"none", last.body} =>
        /\ {i \in Offers : Quotes(i, c)} = {c.by} => last.by = c.by
        /\ conf[c.by].stable => last.by # 0
=============================================================================
