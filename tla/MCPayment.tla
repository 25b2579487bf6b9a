------------------------------- MODULE MCPayment -------------------------------
(* A payment at a route of three offers, and the transaction that is built for *)
(* one; each on its own behaviours, while the variables of the other rest.     *)
EXTENDS PaymentRoute, PaymentBuild, TLC

-----------------------------------------------------------------------------
(* Routes of three offers.                                                    *)

Offer(server, name, product, store) ==
  [server |-> server, name |-> name, product |-> product, store |-> store, here |-> TRUE,
   meta |-> "none", hashes |-> FALSE, stable |-> FALSE, price |-> 1, x402 |-> "no",
   selected |-> FALSE]
Plain == Offer("s1", "tempo", "tea", "st1")

\* The price is resolved for a request, the body is bound.
Resolved(o) == [o EXCEPT !.price = 0]
Hashing(o) == [o EXCEPT !.hashes = TRUE]

\* Two methods of one name, one of which another server has too.
Mixed == <<[Plain EXCEPT !.meta = "m"], Resolved(Hashing(Offer("s1", "evm", "tea", "st2"))),
           Offer("s2", "tempo", "tea", "st3")>>

\* Copies for two currencies and a separate configuration that asks more.
Copies == <<Plain, [Plain EXCEPT !.product = "usd"],
            [Offer("s1", "tempo", "tea", "st2") EXCEPT !.price = 2]>>

\* Twins that cannot be told apart, and one the route no longer has.
Twin == <<Plain, Offer("s1", "tempo", "tea", "st2"),
          [Offer("s1", "tempo", "usd", "st3") EXCEPT !.here = FALSE]>>

\* Sessions: reusable challenges at two prices, one resolved for each request.
Session == [Offer("s1", "session", "tea", "st1") EXCEPT !.stable = TRUE]
Sessions == <<Session, Resolved([Session EXCEPT !.store = "st2"]), Plain>>

\* Offers that x402 clients can pay, one selected by the server.
X402 == [Offer("s1", "evm", "tea", "st1") EXCEPT !.x402 = "required", !.selected = TRUE]
Exact == <<Hashing(X402), [Resolved(X402) EXCEPT !.x402 = "resource", !.product = "usd"], Plain>>

MCConfigs == {Mixed, Copies, Twin, Sessions, Exact}

\* Two scopes of one URL, and another.
MCResource == [r1 |-> "/tea", r2 |-> "/tea", r3 |-> "/usd"]

ASSUME SeparateStores == PricesTellApart

-----------------------------------------------------------------------------
(* Charges of one or two transfers, alike and not; two tokens to swap from.   *)

Once(id) == [id |-> id, to |-> "r1", amount |-> 1, splits |-> <<>>]
Split(id, to, memo) ==
  [id |-> id, to |-> "r1", amount |-> 2, splits |-> <<Leg(to, 1, memo)>>]

MCCharges ==
  {Once("c1"), Once("c2"), Split("c3", "r1", "none"), Split("c4", "r2", "none"),
   Split("c5", "r2", "none"), Split("c6", "r2", "other")}

Transfer(from, to, memo) == [from |-> from, to |-> to, amount |-> 1, memo |-> memo]
MCTransfers ==
  {Transfer("payer", "r1", m) : m \in Names \cup {"foreign", "none"}}
    \cup {Transfer("payer", "r2", m) : m \in {"c4", "c5", "other", "none"}}
    \cup {Transfer("else", "r1", "c1")}

MCOptions ==
  [charge : {Split("c4", "r2", "none")}, sponsored : BOOLEAN, swaps : BOOLEAN,
   trusted : {TRUE}, machine : {FALSE}, feeToken : {"none", "currency", "t1"},
   feeTokens : {{"currency", "t1"}, {"t2"}}, barred : {FALSE}]
  \cup [charge : {Once("c1")}, sponsored : {FALSE}, swaps : {FALSE}, trusted : {TRUE},
        machine : {FALSE}, feeToken : {"none"}, feeTokens : {{"t1", "t2"}}, barred : {TRUE}]
  \cup [charge : {Once("c1")}, sponsored : {FALSE}, swaps : {TRUE}, trusted : BOOLEAN,
        machine : {TRUE}, feeToken : {"none"}, feeTokens : {{"currency", "t1"}}, barred : {FALSE}]

\* Limits and prices on both sides of each cap.
MCPayerCaps == [gas |-> 2, price |-> 2, priority |-> 1, total |-> 3]
MCSponsorCaps == [gas |-> 2, price |-> 2, priority |-> 1, total |-> 1]

\* A bound: others compose batches in one configuration only.
ComposeNext ==
  /\ opts.machine /\ opts.trusted /\ bal = NoTokens
  /\ \E t \in Transfers : Compose(t)

-----------------------------------------------------------------------------
VARIABLE part

NothingBuilt ==
  /\ opts = [charge |-> Once("c1"), sponsored |-> FALSE, swaps |-> FALSE, trusted |-> TRUE,
             machine |-> FALSE, feeToken |-> "none", feeTokens |-> {"t1"}, barred |-> FALSE]
  /\ bal = NoTokens /\ clock = 0 /\ build = NotBuilt /\ batch = <<>>

NothingAsked ==
  /\ conf = Copies /\ price = <<1, 1, 2>>
  /\ now = 0 /\ held = NoChallenge /\ stores = {} /\ last = NoAnswer

PaymentInit ==
  \/ part = "route" /\ RouteInit /\ NothingBuilt
  \/ part = "build" /\ BuildInit /\ NothingAsked

PaymentNext ==
  \/ part = "route" /\ Next /\ UNCHANGED <<part, buildVars>>
  \/ part = "build" /\ UNCHANGED <<part, routeVars>>
     /\ \/ Build \/ ComposeNext
        \/ Wait \/ \E t \in Tokens : Deposit(t)

PaymentSpec == PaymentInit /\ [][PaymentNext]_<<part, routeVars, buildVars>>
=============================================================================
