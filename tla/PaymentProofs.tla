--------------------------- MODULE PaymentProofs ---------------------------
(***************************************************************************)
(* What holds of a payment to a route, for every configuration of offers,  *)
(* any scopes, bodies, prices and times; and, below, of the transaction    *)
(* that a client builds for a payment, for any charge, fee tokens,         *)
(* estimates and balances.                                                 *)
(*                                                                         *)
(* The first invariant says what a challenge in the client's hands tells   *)
(* of its issuer; and, of a challenge that is not reusable, which offers   *)
(* can still settle it: those that share the store it was settled in.  The *)
(* second says what was checked of the swap, the gas and the fee token     *)
(* that a transaction is going to be signed with.                          *)
(***************************************************************************)
EXTENDS PaymentRoute, PaymentBuild, FiniteSetTheorems, WellFoundedInduction, TLAPS

\* Fixed prices are what was configured.
ConfOK ==
  /\ conf \in Configs
  /\ DOMAIN price = Methods
  /\ \A i \in Methods : conf[i].price # 0 => price[i] = conf[i].price

\* A challenge names its issuer's server, method and product, and the price it
\* asked then.
IssuedBy(c) ==
  LET o == conf[c.by] IN
  /\ c.by \in Methods
  /\ c.server = o.server /\ c.name = o.name /\ c.meta = o.meta
  /\ c.request = [product |-> o.product, price |-> c.request.price, route |-> c.request.route]
  /\ o.price # 0 => c.request.price = o.price
  /\ c.digest \in (IF o.hashes THEN Bodies ELSE {"none"})

\* The methods that may ever ask for what c names.
Group(c) == {i \in Methods : conf[i].name = c.name /\ conf[i].server = c.server}
Peers(c) == {i \in Group(c) : conf[i].product = c.request.product}

\* At fixed prices, the offers that accept c, whatever the body it comes with.
Takers(c) ==
  {i \in Peers(c) : i \in Offers /\ conf[i].price = c.request.price /\ conf[i].meta = c.meta
                    /\ (c.digest = "none") = ~conf[i].hashes}

FixedPrices(c) == \A i \in Peers(c) : conf[i].price # 0

\* Where the payment was settled, everyone who could settle it would look.
StoresOK(c) ==
  \/ stores = {}
  \/ SettleAlike(Peers(c)) /\ stores \subseteq {conf[c.by].store}
  \/ FixedPrices(c) /\ \E k \in Methods : Takers(c) = {k} /\ stores \subseteq {conf[k].store}

StoreInv == held # NoChallenge /\ ~conf[held.by].stable => StoresOK(held)

RouteInv == ConfOK /\ (held # NoChallenge => IssuedBy(held)) /\ SettledAsSigned

-----------------------------------------------------------------------------
(* The offers that a challenge meets.                                      *)

LEMMA ConfFacts ==
  ASSUME ConfOK
  PROVE  /\ Methods \subseteq Nat \ {0} /\ IsFiniteSet(Methods)
         /\ \A i \in Methods : conf[i].stable \in BOOLEAN /\ conf[i].hashes \in BOOLEAN
         /\ \A i, j \in Methods : conf[i].name = conf[j].name => conf[i].stable = conf[j].stable
         /\ Offers \subseteq Methods
  BY RouteAssumption DEF ConfOK, Methods, Offers

\* The first of some methods is one of them.
LEMMA FirstIsOne ==
  ASSUME ConfOK, NEW S, S \subseteq Methods, S # {}
  PROVE  First(S) \in S
  <1> DEFINE below == OpToRel(<, Nat)
  <1>1. S \subseteq Nat
    BY ConfFacts
  <1>2. \A x, y \in Nat : y < x => <<y, x>> \in below
    BY DEF OpToRel
  <1>3. IsWellFoundedOn(below, Nat)
    BY NatLessThanWellFounded
  <1> HIDE DEF below
  <1>4. PICK x \in S : \A y \in S : ~ (<<y, x>> \in below)
    BY <1>1, <1>3, WFMin
  <1>5. ASSUME NEW y \in S PROVE x <= y
    <2>1. x \in Nat /\ y \in Nat
      BY <1>1
    <2>2. ~(y < x)
      BY <1>2, <1>4, <2>1
    <2>3. QED
      BY <2>1, <2>2
  <1>6. QED
    BY <1>5 DEF First, Min

\* Who answers a credential is a method of its name.
LEMMA AddressedIsNamed ==
  ASSUME ConfOK, NEW c, NEW route, NEW body, Named(c) # {}
  PROVE  /\ Addressed(c, route, body) \in Named(c)
         /\ Authenticated(c, route, body) # {} =>
              Addressed(c, route, body) = Preferred(Authenticated(c, route, body), c, route)
  <1> DEFINE known == Authenticated(c, route, body)
             bound == BindingMatches(c, route, body)
             matches == RequestMatches(c, route)
  <1>1. /\ known \subseteq bound /\ bound \subseteq matches /\ matches \subseteq Named(c)
        /\ Named(c) \subseteq Methods
    BY ConfFacts DEF Authenticated, BindingMatches, RequestMatches, Named
  <1>2. \A S, T, U : S \cup T \cup U \subseteq Named(c) /\ U # {} => FirstOf(S, T, U) \in Named(c)
    <2> SUFFICES ASSUME NEW S, NEW T, NEW U, S \cup T \cup U \subseteq Named(c), U # {}
                 PROVE  FirstOf(S, T, U) \in Named(c)
      OBVIOUS
    <2> DEFINE V == IF S # {} THEN S ELSE IF T # {} THEN T ELSE U
    <2>1. V \subseteq Methods /\ V # {} /\ V \subseteq Named(c)
      BY <1>1
    <2>2. First(V) \in V
      BY <2>1, FirstIsOne
    <2>3. QED
      BY <2>1, <2>2 DEF FirstOf
  <1>3. CASE known # {}
    <2> DEFINE exact == {i \in known : c.request = Asks(i, route)}
               V == IF exact # {} THEN exact ELSE known
    <2>1. V \subseteq known /\ V # {}
      BY <1>3
    <2>2. First(V) \in V
      BY <1>1, <2>1, FirstIsOne
    <2>3. Addressed(c, route, body) = First(V)
      BY <1>3 DEF Addressed, Preferred
    <2>4. Preferred(known, c, route) = First(V)
      BY DEF Preferred
    <2>5. QED
      BY <1>1, <2>1, <2>2, <2>3, <2>4
  <1>4. CASE known = {} /\ Owned(Named(c), c) # {}
    <2>1. Addressed(c, route, body)
            = FirstOf(Owned(bound, c), Owned(matches, c), Owned(Named(c), c))
      BY <1>4 DEF Addressed
    <2>2. Owned(bound, c) \cup Owned(matches, c) \cup Owned(Named(c), c) \subseteq Named(c)
      BY <1>1 DEF Owned
    <2>3. QED
      BY <1>2, <1>4, <2>1, <2>2
  <1>5. CASE known = {} /\ Owned(Named(c), c) = {}
    <2>1. Addressed(c, route, body) = FirstOf(bound, matches, Named(c))
      BY <1>5 DEF Addressed
    <2>2. QED
      BY <1>1, <1>2, <1>5, <2>1
  <1>6. QED
    BY <1>3, <1>4, <1>5

\* Whoever verifies a credential is one of those that issued such challenges.
LEMMA VerifierIsKnown ==
  ASSUME NEW c, NEW route, NEW body, NEW i \in Named(c), Verifies(i, c, route, body)
  PROVE  i \in Authenticated(c, route, body)
  BY DEF Verifies, Authenticated, BindingMatches, RequestMatches

\* Of challenges that are not reusable, one issuer remains unless they are ambiguous.
LEMMA OneIssuer ==
  ASSUME ConfOK, NEW c, NEW route, NEW body, NEW i \in Authenticated(c, route, body),
         ~conf[i].stable, ~Ambiguous(Authenticated(c, route, body))
  PROVE  Authenticated(c, route, body) = {i}
  <1> DEFINE M == Authenticated(c, route, body)
  <1>1. M \subseteq Methods /\ \A j \in M : conf[j].name = c.name
    BY ConfFacts DEF Authenticated, BindingMatches, RequestMatches, Named
  <1>2. \A j \in M : ~conf[j].stable
    BY <1>1, ConfFacts
  <1>3. IsFiniteSet(M) /\ Cardinality(M) \in Nat
    BY <1>1, ConfFacts, FS_Subset, FS_CardinalityType
  <1>4. ~(Cardinality(M) > 1)
    BY DEF Ambiguous
  <1>5. ASSUME NEW j \in M, j # i PROVE FALSE
    <2>1. IsFiniteSet({i}) /\ Cardinality({i}) = 1
      BY FS_Singleton
    <2>2. Cardinality({i} \cup {j}) = 2
      <3>1. j \notin {i}
        BY <1>5
      <3>2. Cardinality({i} \cup {j}) = Cardinality({i}) + 1
        BY <2>1, <3>1, FS_AddElement
      <3>3. QED
        BY <2>1, <3>2
    <2>3. Cardinality({i} \cup {j}) <= Cardinality(M)
      <3>1. {i} \cup {j} \in SUBSET M
        BY <1>5
      <3>2. QED
        BY <1>3, <3>1, FS_Subset
    <2>4. QED
      BY <1>3, <1>4, <2>2, <2>3
  <1>6. QED
    BY <1>5

-----------------------------------------------------------------------------
(* What a step does to the challenge, and says of the last request.        *)

\* The challenge is kept, with where it was settled, or another one is followed.
Follows ==
  /\ held' # NoChallenge => IssuedBy(held')
  /\ (held' = held /\ stores' = stores) \/ stores' = {}

LEMMA OfferedFollows ==
  ASSUME RouteInv, NEW S, S \subseteq Methods, NEW route, NEW body \in Bodies,
         Offered(S, route, body)
  PROVE  Follows
  <1>1. CASE UNCHANGED <<held, stores>>
    BY <1>1 DEF RouteInv, Follows
  <1>2. ASSUME NEW i \in S, held' = Issue(i, route, body), stores' = {}
        PROVE  Follows
    <2>1. PICK c : c = Issue(i, route, body)
      OBVIOUS
    <2>2. /\ c.by = i /\ i \in Methods /\ c.server = conf[i].server /\ c.name = conf[i].name
          /\ c.meta = conf[i].meta /\ c.request = Asks(i, route) /\ c.digest = DigestOf(i, body)
      BY <2>1 DEF Issue
    <2>3. c.request = [product |-> conf[i].product, price |-> c.request.price,
                       route |-> c.request.route]
          /\ c.request.price = price[i]
      BY <2>2 DEF Asks
    <2>4. conf[i].price # 0 => c.request.price = conf[i].price
      BY <2>2, <2>3 DEF RouteInv, ConfOK
    <2>5. c.digest \in (IF conf[i].hashes THEN Bodies ELSE {"none"})
      BY <2>2 DEF DigestOf
    <2>6. IssuedBy(c)
      BY <2>2, <2>3, <2>4, <2>5 DEF IssuedBy
    <2>7. QED
      BY <1>2, <2>1, <2>6 DEF Follows
  <1>3. QED
    BY <1>1, <1>2 DEF Offered

LEMMA ChallengeFollows ==
  ASSUME RouteInv, NEW route, NEW body \in Bodies, NEW how, Challenge(how, route, body)
  PROVE  Follows /\ last'.how = how /\ last'.paid = held /\ last'.route = route
         /\ last'.body = body /\ last'.by = 0 /\ DOMAIN last' = {"how", "route", "body", "paid", "by"}
  <1>1. Answers(how, route, body, 0)
    BY DEF Challenge
  <1>2. ASSUME UNCHANGED <<held, stores>> PROVE Follows
    <2>1. held' = held /\ stores' = stores
      BY <1>2
    <2>2. held # NoChallenge => IssuedBy(held)
      BY DEF RouteInv
    <2>3. QED
      BY ONLY <2>1, <2>2 DEF Follows
  <1>3. ASSUME NEW A \in SUBSET Offers, Offered(A, route, body) PROVE Follows
    <2>1. A \subseteq Methods
      BY DEF Offers
    <2>2. QED
      BY <1>3, <2>1, OfferedFollows
  <1>4. Follows
    BY <1>2, <1>3 DEF Challenge
  <1>5. QED
    BY <1>1, <1>4 DEF Answers

\* The outcomes of a credential: another challenge, a refusal or a receipt.
PayRefused(route, body) ==
  Follows /\ last'.how = "pay" /\ last'.paid = held /\ last'.route = route
  /\ last'.body = body /\ "settled" \notin DOMAIN last'

LEMMA PayCases ==
  ASSUME RouteInv, NEW route, NEW body \in Bodies, Pay(route, body)
  PROVE  LET known == Authenticated(held, route, body)
             i == Addressed(held, route, body)
         IN /\ held # NoChallenge
            /\ \/ Named(held) = {} /\ PayRefused(route, body)
               \/ Named(held) # {} /\ Ambiguous(known) /\ PayRefused(route, body)
               \/ Named(held) # {} /\ ~Ambiguous(known) /\ ~Verifies(i, held, route, body)
                  /\ PayRefused(route, body)
               \/ /\ Named(held) # {} /\ ~Ambiguous(known) /\ i \in known
                  /\ i \in Named(held) /\ Verifies(i, held, route, body)
                  /\ \/ PayRefused(route, body) /\ last'.by = i
                     \/ Receipt(i, "paid", route, body, Settled(i, held, route))
  <1> DEFINE known == Authenticated(held, route, body)
             i == Addressed(held, route, body)
  <1>1. known \subseteq Named(held) /\ Named(held) \subseteq Methods
    BY ConfFacts DEF RouteInv, Authenticated, BindingMatches, RequestMatches, Named
  <1>2. Named(held) # {} => i \in Named(held)
    BY AddressedIsNamed DEF RouteInv
  <1>3. ASSUME NEW j, Answers("pay", route, body, j), Follows
        PROVE  PayRefused(route, body) /\ last'.by = j
    BY <1>3 DEF Answers, PayRefused
  <1>4. CASE Named(held) = {} /\ Challenge("pay", route, body)
    BY <1>1, <1>4, ChallengeFollows DEF PayRefused, Pay
  <1>5. CASE Ambiguous(known) /\ Offered(known, route, body) /\ Answers("pay", route, body, 0)
    <2>1. Follows
      BY <1>1, <1>5, OfferedFollows
    <2>2. PayRefused(route, body)
      BY <1>3, <1>5, <2>1
    <2>3. QED
      BY <1>5, <2>2 DEF Pay
  <1>6. CASE /\ Named(held) # {} /\ ~Ambiguous(known) /\ ~Verifies(i, held, route, body)
             /\ Offered({i}, route, body) /\ Answers("pay", route, body, 0)
    <2>1. {i} \subseteq Methods
      BY <1>1, <1>2, <1>6
    <2>2. Follows
      BY <1>6, <2>1, OfferedFollows
    <2>3. QED
      BY <1>3, <1>6, <2>2 DEF Pay
  <1>7. CASE /\ Named(held) # {} /\ ~Ambiguous(known) /\ Verifies(i, held, route, body)
             /\ Receipt(i, "paid", route, body, Settled(i, held, route))
    BY <1>2, <1>7, VerifierIsKnown DEF Pay
  <1>8. CASE /\ Named(held) # {} /\ ~Ambiguous(known) /\ Verifies(i, held, route, body)
             /\ NoReceipt(i, "pay", route, body)
    <2>1. {i} \subseteq Methods /\ i \in known
      BY <1>1, <1>2, <1>8, VerifierIsKnown
    <2>2. Follows
      BY <1>8, <2>1, OfferedFollows DEF NoReceipt
    <2>3. PayRefused(route, body) /\ last'.by = i
      BY <1>3, <1>8, <2>2 DEF NoReceipt
    <2>4. QED
      BY <1>2, <1>8, <2>1, <2>3 DEF Pay
  <1>9. QED
    BY <1>4, <1>5, <1>6, <1>7, <1>8 DEF Pay

-----------------------------------------------------------------------------
(* Settled as signed.                                                      *)

LEMMA FollowsInv ==
  ASSUME RouteInv, UNCHANGED <<conf, price>>, Follows, SettledAsSigned'
  PROVE  RouteInv'
  <1>1. ConfOK'
    BY DEF RouteInv, ConfOK, Methods
  <1>2. held' # NoChallenge => IssuedBy(held)'
    BY DEF Follows, IssuedBy, Methods
  <1>3. QED
    BY <1>1, <1>2 DEF RouteInv

\* The challenge remains, whatever stores settled it.
LEMMA KeptInv ==
  ASSUME RouteInv, UNCHANGED <<conf, price, held>>, SettledAsSigned'
  PROVE  RouteInv'
  <1>1. ConfOK'
    BY DEF RouteInv, ConfOK, Methods
  <1>2. held # NoChallenge => IssuedBy(held)'
    BY DEF RouteInv, IssuedBy, Methods
  <1>3. QED
    BY <1>1, <1>2 DEF RouteInv

LEMMA AskInv ==
  ASSUME RouteInv, NEW route, NEW body \in Bodies, Ask(route, body) \/ AskElsewhere(route, body)
  PROVE  RouteInv' /\ Follows
  <1>1. CASE Ask(route, body)
    <2>1. Follows /\ "settled" \notin DOMAIN last'
      BY <1>1, ChallengeFollows DEF Ask
    <2>2. QED
      BY <1>1, <2>1, FollowsInv DEF Ask, SettledAsSigned
  <1>2. CASE AskElsewhere(route, body)
    <2>1. Follows
      BY <1>2, OfferedFollows DEF AskElsewhere
    <2>2. SettledAsSigned'
      BY <1>2 DEF AskElsewhere, NoAnswer, SettledAsSigned
    <2>3. QED
      BY <1>2, <2>1, <2>2, FollowsInv DEF AskElsewhere
  <1>3. QED
    BY <1>1, <1>2

LEMMA PayInv ==
  ASSUME RouteInv, NEW route, NEW body \in Bodies, Pay(route, body)
  PROVE  RouteInv'
  <1>1. PICK i : i = Addressed(held, route, body)
    OBVIOUS
  <1>2. UNCHANGED <<conf, price>>
    BY DEF Pay
  <1>3. CASE PayRefused(route, body)
    BY <1>2, <1>3, FollowsInv DEF PayRefused, SettledAsSigned
  <1>4. CASE /\ Verifies(i, held, route, body)
             /\ Receipt(i, "paid", route, body, Settled(i, held, route))
    <2>1. Settled(i, held, route) = held.request
      BY <1>4 DEF Settled, Verifies, RequestsMatch
    <2>2. held.digest \in {"none", body}
      BY <1>4 DEF Verifies, Bound, DigestOf
    <2>3. SettledAsSigned' /\ held' = held
      BY <1>4, <2>1, <2>2 DEF Receipt, SettledAsSigned
    <2>4. QED
      BY <1>2, <2>3, KeptInv
  <1>5. QED
    BY <1>1, <1>3, <1>4, PayCases

LEMMA SettlesInv ==
  ASSUME RouteInv, NEW M, Settles(M), UNCHANGED <<conf, price>>
  PROVE  /\ RouteInv' /\ held' = held
         /\ last'.how \in {"broadcast", "settled"}
         /\ stores' = stores \/ (Unanimous(M) /\ stores' = stores \cup {conf[First(M)].store})
  <1> DEFINE i == IF Unanimous(M) THEN First(M) ELSE 0
  <1>1. CASE /\ Answers("broadcast", held.request.route, held.digest, i)
             /\ UNCHANGED <<held, stores>>
    BY <1>1, KeptInv DEF Answers, SettledAsSigned
  <1>2. CASE /\ Unanimous(M)
             /\ Receipt(First(M), "settled", held.request.route, held.digest, held.request)
    BY <1>2, KeptInv DEF Receipt, SettledAsSigned
  <1>3. QED
    BY <1>1, <1>2 DEF Settles

LEMMA X402Inv ==
  ASSUME RouteInv, NEW bound \in BOOLEAN, NEW route, NEW body \in Bodies,
         PayX402(bound, route, body)
  PROVE  /\ RouteInv' /\ (Follows \/ (held' = held /\ stores' = stores))
         /\ last'.how \in {"x402", "x402 paid", "resource paid"}
  <1>1. UNCHANGED <<conf, price>> /\ held # NoChallenge /\ IssuedBy(held)
    BY DEF PayX402, RouteInv
  <1>2. ASSUME NEW j, Answers("x402", route, body, j)
        PROVE  SettledAsSigned' /\ last'.how = "x402"
    BY <1>2 DEF Answers, SettledAsSigned
  <1>3. CASE UNCHANGED <<held, stores>> /\ Answers("x402", route, body, 0)
    BY <1>1, <1>2, <1>3, KeptInv
  <1>4. ASSUME NEW A \in SUBSET Offers,
               \/ Offered(A, route, body) /\ Answers("x402", route, body, 0)
               \/ X402Offer(held, A) # {}
                  /\ NoReceipt(First(X402Offer(held, A)), "x402", route, body)
        PROVE  RouteInv' /\ Follows /\ last'.how = "x402"
    <2>1. A \subseteq Methods /\ X402Offer(held, A) \subseteq A
      BY DEF Offers, X402Offer
    <2>2. X402Offer(held, A) # {} => First(X402Offer(held, A)) \in A
      BY <2>1, FirstIsOne DEF RouteInv
    <2>3. PICK S, j : /\ S \subseteq A /\ Offered(S, route, body)
                      /\ Answers("x402", route, body, j)
      BY <1>4, <2>2 DEF NoReceipt
    <2>4. Follows
      BY <2>1, <2>3, OfferedFollows
    <2>5. QED
      BY <1>1, <1>2, <2>3, <2>4, FollowsInv
  <1>5. ASSUME NEW A \in SUBSET Offers, X402Offer(held, A) # {},
               X402Binds(First(X402Offer(held, A)), held, bound, route, body),
               X402Receipt(First(X402Offer(held, A)), bound, route, body)
        PROVE  RouteInv' /\ held' = held /\ stores' = stores
               /\ last'.how \in {"x402 paid", "resource paid"}
    <2>1. PICK i : i = First(X402Offer(held, A))
      OBVIOUS
    <2>2. X402Offer(held, A) \subseteq Methods
      BY DEF Offers, X402Offer
    <2>3. RequirementsMatch(i, held)
      <3>1. i \in X402Offer(held, A)
        BY <1>5, <2>1, <2>2, FirstIsOne DEF RouteInv
      <3>2. QED
        BY <3>1 DEF X402Offer
    <2>4. /\ held' = held /\ stores' = stores
          /\ last'.how = (IF bound THEN "x402 paid" ELSE "resource paid")
          /\ last'.body = body /\ last'.paid = held /\ last'.settled = Asks(i, route)
      BY <1>5, <2>1 DEF X402Receipt
    <2>5. CASE bound
      <3>1. held.request.route = route /\ held.digest \in {"none", body}
        BY <1>5, <2>5 DEF X402Binds, Bound, DigestOf
      <3>2. Asks(i, route) = held.request
        BY <1>1, <2>3, <3>1 DEF Asks, RequirementsMatch, IssuedBy
      <3>3. SettledAsSigned'
        BY <2>4, <2>5, <3>1, <3>2 DEF SettledAsSigned
      <3>4. QED
        BY <1>1, <2>4, <2>5, <3>3, KeptInv
    <2>6. CASE ~bound
      <3>1. Resource[held.request.route] = Resource[route]
        BY <1>5, <2>6 DEF X402Binds
      <3>2. SameAtResource(Asks(i, route), held.request)
        BY <2>3, <3>1 DEF SameAtResource, Asks, RequirementsMatch
      <3>3. SettledAsSigned'
        BY <2>4, <2>6, <3>2 DEF SettledAsSigned
      <3>4. QED
        BY <1>1, <2>4, <2>6, <3>3, KeptInv
    <2>7. QED
      BY <2>5, <2>6
  <1>6. QED
    BY <1>3, <1>4, <1>5 DEF PayX402

LEMMA WorldInv ==
  ASSUME RouteInv,
         Tick \/ \E i \in Methods, amount \in Prices : Reprice(i, amount)
  PROVE  RouteInv' /\ UNCHANGED <<conf, held, stores>> /\ last' = NoAnswer
  <1>1. UNCHANGED <<conf, held, stores>> /\ last' = NoAnswer
    BY DEF Tick, Reprice
  <1>2. ConfOK'
    BY DEF Tick, Reprice, RouteInv, ConfOK, Methods
  <1>3. SettledAsSigned'
    BY <1>1 DEF NoAnswer, SettledAsSigned
  <1>4. held # NoChallenge => IssuedBy(held)'
    BY <1>1 DEF RouteInv, IssuedBy, Methods
  <1>5. QED
    BY <1>1, <1>2, <1>3, <1>4 DEF RouteInv

LEMMA RouteInitial == RouteInit => RouteInv
  <1> SUFFICES ASSUME RouteInit PROVE RouteInv
    OBVIOUS
  <1>1. conf \in Configs /\ DOMAIN price = Methods
    BY DEF RouteInit
  <1>2. ConfOK
    BY <1>1 DEF RouteInit, ConfOK
  <1>3. QED
    BY <1>2 DEF RouteInit, RouteInv, SettledAsSigned, NoAnswer

LEMMA RouteStutters ==
  ASSUME RouteInv, UNCHANGED routeVars
  PROVE  RouteInv'
  BY KeptInv DEF routeVars, RouteInv, SettledAsSigned

LEMMA RouteStep == RouteInv /\ [Next]_routeVars => RouteInv'
  <1> SUFFICES ASSUME RouteInv, [Next]_routeVars PROVE RouteInv'
    OBVIOUS
  <1>1. ASSUME NEW route, NEW body \in Bodies, Meets(route, body) PROVE RouteInv'
    BY <1>1, AskInv, PayInv, X402Inv DEF Meets
  <1>2. ASSUME NEW s, NEW meta, NEW body, Settlement(s, meta, body) PROVE RouteInv'
    <2>1. UNCHANGED <<conf, price>> /\ \E M : Settles(M)
      BY <1>2 DEF Settlement, Broadcast, BroadcastFor
    <2>2. QED
      BY <2>1, SettlesInv
  <1>3. QED
    BY <1>1, <1>2, WorldInv, RouteStutters DEF Next

\* PaymentRoute: a receipt is for the request that the client signed, also when the
\* route asks another price by now, and for the body it was made for if the route
\* gives it; an x402 payment without a route binding pays the signed price of the
\* signed product at the same URL.
THEOREM ReceiptsAsSigned == Spec => []SettledAsSigned
  <1>1. RouteInv => SettledAsSigned
    BY DEF RouteInv
  <1>2. QED
    BY <1>1, RouteInitial, RouteStep, PTL DEF Spec

-----------------------------------------------------------------------------
(* Every issued challenge can be paid.                                     *)

\* The issuer is among those that authenticate its challenge.
LEMMA IssuerIsKnown ==
  ASSUME RouteInv, held # NoChallenge, NEW route, NEW body \in Bodies, held.by \in Offers,
         route = held.request.route, held.digest \in {"none", body},
         conf[held.by].stable \/ Quotes(held.by, held)
  PROVE  held.by \in Authenticated(held, route, body)
  <1>1. IssuedBy(held) /\ held.by \in Named(held)
    BY DEF RouteInv, IssuedBy, Named
  <1>2. RequestsMatch(held.by, held, route)
    <2>1. conf[held.by].product = held.request.product
      BY <1>1 DEF IssuedBy
    <2>2. QED
      BY <2>1 DEF RequestsMatch, Quotes
  <1>3. Bound(held.by, held, body)
    <2>1. held.digest = DigestOf(held.by, body)
      BY <1>1, RouteAssumption DEF IssuedBy, DigestOf
    <2>2. QED
      BY <1>1, <2>1 DEF IssuedBy, Bound
  <1>4. Owns(held.by, held)
    BY <1>1 DEF IssuedBy, Owns
  <1>5. QED
    BY <1>1, <1>2, <1>3, <1>4 DEF Authenticated, BindingMatches, RequestMatches

LEMMA PayIsIssued ==
  ASSUME RouteInv, NEW route, NEW body \in Bodies, Pay(route, body)
  PROVE  IssuedIsPayable'
  <1> DEFINE known == Authenticated(held, route, body)
             i == Addressed(held, route, body)
             by == held.by
  <1>1. /\ held # NoChallenge /\ UNCHANGED <<conf, price, now>>
        /\ last'.paid = held /\ last'.route = route /\ last'.body = body
    <2>1. held # NoChallenge /\ UNCHANGED <<conf, price, now>>
      BY DEF Pay
    <2>2. CASE PayRefused(route, body)
      BY <2>1, <2>2 DEF PayRefused
    <2>3. CASE Receipt(i, "paid", route, body, Settled(i, held, route))
      BY <2>1, <2>3 DEF Receipt
    <2>4. QED
      BY <2>2, <2>3, PayCases
  <1> SUFFICES ASSUME by \in Offers, now < held.expires, route = held.request.route,
                      held.digest \in {"none", body}
               PROVE  /\ {j \in Offers : Quotes(j, held)} = {by} => last'.by = by
                      /\ conf[by].stable => last'.by # 0
    BY <1>1 DEF IssuedIsPayable, Offers, Methods, Quotes, Owns, Named, Asks
  <1>2. IssuedBy(held) /\ ConfOK
    BY <1>1 DEF RouteInv
  <1>3. /\ known \subseteq Named(held) /\ Named(held) \subseteq Offers /\ Offers \subseteq Methods
        /\ \A j \in known : conf[j].name = held.name /\ conf[j].meta = held.meta
                            /\ Owns(j, held) /\ RequestsMatch(j, held, route)
                            /\ Bound(j, held, body)
    BY DEF Authenticated, BindingMatches, RequestMatches, Named, Offers, Bound
  <1>4. ASSUME by \in known, i \in known, ~Ambiguous(known) PROVE last'.by = i
    <2>1. Verifies(i, held, route, body) /\ Named(held) # {}
      BY <1>3, <1>4 DEF Verifies
    <2>2. QED
      BY <1>4, <2>1, PayCases DEF Receipt
  <1>5. ASSUME by \in known PROVE i \in known /\ i = Preferred(known, held, route)
    <2>1. Named(held) # {} /\ i = Preferred(known, held, route)
      BY <1>2, <1>3, <1>5, AddressedIsNamed
    <2> DEFINE exact == {j \in known : held.request = Asks(j, route)}
               V == IF exact # {} THEN exact ELSE known
    <2>2. V \subseteq Methods /\ V # {} /\ V \subseteq known
      BY <1>3, <1>5
    <2>3. First(V) \in V
      BY <1>2, <2>2, FirstIsOne
    <2>4. Preferred(known, held, route) = First(V)
      BY DEF Preferred
    <2>5. QED
      BY <2>1, <2>2, <2>3, <2>4
  <1>6. ASSUME {j \in Offers : Quotes(j, held)} = {by} PROVE last'.by = by
    <2>1. Quotes(by, held) /\ by \in known
      BY <1>1, <1>6, IssuerIsKnown
    <2>2. \A j \in known : held.request = Asks(j, route) => j = by
      BY <1>3, <1>6 DEF Quotes
    <2>3. {j \in known : held.request = Asks(j, route)} = {by}
      BY <2>1, <2>2 DEF Quotes
    <2>4. Preferred(known, held, route) = by
      <3>1. Preferred(known, held, route) = First({by})
        BY <2>3 DEF Preferred
      <3>2. First({by}) \in {by}
        BY <1>2, <1>3, FirstIsOne
      <3>3. QED
        BY <3>1, <3>2
    <2>5. ~Ambiguous(known)
      <3>1. CASE conf[by].stable
        BY <1>2, <1>3, <2>1, <3>1, ConfFacts DEF Ambiguous
      <3>2. CASE ~conf[by].stable
        <4>1. \A j \in known : ~conf[j].stable
          BY <1>2, <1>3, <2>1, <3>2, ConfFacts
        <4>2. \A j \in known : held.request = Asks(j, route)
          BY <1>3, <4>1 DEF RequestsMatch
        <4>3. known = {by}
          BY <2>1, <2>2, <4>2
        <4>4. Cardinality(known) = 1
          BY <4>3, FS_Singleton
        <4>5. QED
          BY <4>4 DEF Ambiguous
      <3>3. QED
        BY <3>1, <3>2
    <2>6. QED
      BY <1>4, <1>5, <2>1, <2>4, <2>5
  <1>7. ASSUME conf[by].stable PROVE last'.by # 0
    <2>1. by \in known
      BY <1>1, <1>7, IssuerIsKnown
    <2>2. ~Ambiguous(known)
      BY <1>2, <1>3, <1>7, <2>1, ConfFacts DEF Ambiguous
    <2>3. last'.by = i /\ i \in Methods
      BY <1>3, <1>4, <1>5, <2>1, <2>2
    <2>4. QED
      BY <1>2, <2>3, ConfFacts
  <1>8. QED
    BY <1>6, <1>7

LEMMA IssuedStep == RouteInv /\ IssuedIsPayable /\ [Next]_routeVars => IssuedIsPayable'
  <1> SUFFICES ASSUME RouteInv, IssuedIsPayable, [Next]_routeVars PROVE IssuedIsPayable'
    OBVIOUS
  <1>1. ASSUME NEW route, NEW body \in Bodies, Ask(route, body) \/ AskElsewhere(route, body)
        PROVE IssuedIsPayable'
    <2>1. last'.how \in {"ask", "none"}
      BY <1>1, ChallengeFollows DEF Ask, AskElsewhere, NoAnswer
    <2>2. QED
      BY <2>1 DEF IssuedIsPayable
  <1>2. ASSUME NEW route, NEW body \in Bodies, NEW bound \in BOOLEAN,
               PayX402(bound, route, body)
        PROVE  IssuedIsPayable'
    BY <1>2, X402Inv DEF IssuedIsPayable
  <1>3. ASSUME NEW s, NEW meta, NEW body, Settlement(s, meta, body) PROVE IssuedIsPayable'
    <2>1. UNCHANGED <<conf, price>> /\ \E M : Settles(M)
      BY <1>3 DEF Settlement, Broadcast, BroadcastFor
    <2>2. last'.how \in {"broadcast", "settled"}
      BY <2>1, SettlesInv
    <2>3. QED
      BY <2>2 DEF IssuedIsPayable
  <1>4. CASE Tick \/ \E i \in Methods, amount \in Prices : Reprice(i, amount)
    <2>1. last'.how = "none"
      BY <1>4, WorldInv DEF NoAnswer
    <2>2. QED
      BY <2>1 DEF IssuedIsPayable
  <1>5. CASE UNCHANGED routeVars
    BY <1>5 DEF routeVars, IssuedIsPayable, Offers, Methods, Quotes, Owns, Named, Asks
  <1>6. QED
    BY <1>1, <1>2, <1>3, <1>4, <1>5, PayIsIssued DEF Next, Meets

\* PaymentRoute: until it expires an issued challenge is settled by its issuer while
\* that alone asks what was signed, and a reusable one at any price.
THEOREM IssuedStaysPayable == Spec => []IssuedIsPayable
  <1>1. RouteInit => IssuedIsPayable
    BY DEF RouteInit, IssuedIsPayable, NoAnswer
  <1>2. QED
    BY <1>1, RouteInitial, RouteStep, IssuedStep, PTL DEF Spec

-----------------------------------------------------------------------------
(* One store per payment.                                                  *)

\* The issuer is one of the peers; where a price is resolved they share a store.
LEMMA PeerFacts ==
  ASSUME PricesTellApart, RouteInv, held # NoChallenge, ~conf[held.by].stable
  PROVE  /\ held.by \in Peers(held) /\ Peers(held) \subseteq Group(held)
         /\ Group(held) \subseteq Methods
         /\ \A j \in Group(held) : ~conf[j].stable
         /\ ~FixedPrices(held) => SettleAlike(Peers(held))
  <1>1. IssuedBy(held) /\ ConfOK
    BY DEF RouteInv
  <1>2. /\ held.by \in Peers(held) /\ Peers(held) \subseteq Group(held)
        /\ Group(held) \subseteq Methods
    BY <1>1 DEF IssuedBy, Peers, Group
  <1>3. \A j \in Group(held) : ~conf[j].stable
    BY <1>1, ConfFacts DEF IssuedBy, Group
  <1>4. ASSUME NEW k \in Peers(held), conf[k].price = 0 PROVE SettleAlike(Peers(held))
    <2>1. \A j \in Peers(held) : conf[k].store = conf[j].store
      BY <1>1, <1>2, <1>3, <1>4 DEF PricesTellApart, ConfOK, Methods, Peers, Group
    <2>2. QED
      BY <2>1 DEF SettleAlike
  <1>5. QED
    BY <1>2, <1>3, <1>4 DEF FixedPrices

\* Who verifies a payment of fixed price is its only taker.
LEMMA VerifierIsTaker ==
  ASSUME PricesTellApart, RouteInv, held # NoChallenge, ~conf[held.by].stable,
         NEW route, NEW body \in Bodies, NEW i \in Named(held),
         Verifies(i, held, route, body), ~Ambiguous(Authenticated(held, route, body))
  PROVE  i \in Peers(held) /\ (FixedPrices(held) => Takers(held) = {i})
  <1>1. /\ ConfOK /\ IssuedBy(held) /\ i \in Authenticated(held, route, body)
        /\ i \in Methods /\ i \in Offers
    BY VerifierIsKnown DEF RouteInv, Named, Offers
  <1>2. i \in Group(held) /\ ~conf[i].stable
    BY <1>1, PeerFacts DEF Verifies, Owns, Named, Group
  <1>3. held.request = Asks(i, route) /\ Bound(i, held, body)
    BY <1>2 DEF Verifies, RequestsMatch
  <1>4. i \in Peers(held) /\ held.request.route = route
    BY <1>2, <1>3 DEF Asks, Peers
  <1>5. Authenticated(held, route, body) = {i}
    BY <1>1, <1>2, OneIssuer
  <1>6. ASSUME FixedPrices(held), NEW j \in Methods
        PROVE  j \in Takers(held) <=> j \in Authenticated(held, route, body)
    <2>1. (held.digest = "none" => ~conf[i].hashes) /\ (held.digest # "none" => held.digest = body)
      BY <1>1, <1>3, RouteAssumption, ConfFacts DEF Bound, DigestOf
    <2>2. j \in Peers(held) => (Bound(j, held, body) <=>
            conf[j].meta = held.meta /\ (held.digest = "none") = ~conf[j].hashes)
      BY <1>1, <2>1, RouteAssumption, ConfFacts DEF Bound, DigestOf
    <2>3. j \in Peers(held) => (held.request = Asks(j, route) <=> conf[j].price = held.request.price)
      <3> SUFFICES ASSUME j \in Peers(held)
                   PROVE  held.request = Asks(j, route) <=> conf[j].price = held.request.price
        OBVIOUS
      <3>1. price[j] = conf[j].price
        BY <1>1, <1>6 DEF FixedPrices, ConfOK
      <3>2. conf[j].product = held.request.product
        BY DEF Peers
      <3>3. held.request = [product |-> held.request.product, price |-> held.request.price,
                            route |-> held.request.route]
        BY <1>1 DEF IssuedBy
      <3>4. QED
        BY <1>4, <3>1, <3>2, <3>3 DEF Asks
    <2>4. j \in Authenticated(held, route, body) => j \in Peers(held) /\ j \in Offers
      <3> SUFFICES ASSUME j \in Authenticated(held, route, body)
                   PROVE  j \in Peers(held) /\ j \in Offers
        OBVIOUS
      <3>1. j = i
        BY <1>5
      <3>2. QED
        BY <1>1, <1>4, <3>1
    <2>5. j \in Peers(held) => ~conf[j].stable /\ conf[j].name = held.name /\ Owns(j, held)
      BY PeerFacts DEF Peers, Group, Owns
    <2>6. QED
      BY <2>2, <2>3, <2>4, <2>5
         DEF Takers, Authenticated, BindingMatches, RequestMatches, RequestsMatch, Named
  <1>7. Takers(held) \subseteq Methods
    BY DEF Takers, Peers, Group
  <1>8. QED
    BY <1>1, <1>4, <1>5, <1>6, <1>7

\* A receipt of someone that everyone else who could give one shares the store with.
LEMMA ReceiptStays ==
  ASSUME PricesTellApart, RouteInv, StoreInv, held # NoChallenge, ~conf[held.by].stable,
         NEW i \in Peers(held), stores' \subseteq stores \cup {conf[i].store},
         UNCHANGED <<conf, held>>,
         SettleAlike(Peers(held)) \/ (FixedPrices(held) /\ Takers(held) = {i})
  PROVE  StoreInv'
  <1>1. /\ held.by \in Peers(held) /\ Peers(held) \subseteq Methods
    BY PeerFacts
  <1>2. StoresOK(held)
    BY DEF StoreInv
  <1>3. /\ Peers(held)' = Peers(held) /\ Takers(held)' = Takers(held)
        /\ FixedPrices(held)' = FixedPrices(held)
        /\ SettleAlike(Peers(held))' = SettleAlike(Peers(held))
    BY DEF Peers, Group, Takers, FixedPrices, SettleAlike, Methods, Offers
  <1>4. CASE SettleAlike(Peers(held))
    <2>1. \A j, k \in Peers(held) : conf[j].store = conf[k].store
      BY <1>4 DEF SettleAlike
    <2>2. stores \subseteq {conf[held.by].store}
      BY <1>1, <1>2, <2>1 DEF StoresOK, Takers
    <2>3. stores' \subseteq {conf[held.by].store}
      BY <1>1, <2>1, <2>2
    <2>4. QED
      BY <1>3, <1>4, <2>3 DEF StoreInv, StoresOK
  <1>5. CASE ~SettleAlike(Peers(held)) /\ FixedPrices(held) /\ Takers(held) = {i}
    <2>1. stores \subseteq {conf[i].store}
      BY <1>2, <1>5 DEF StoresOK
    <2>2. stores' \subseteq {conf[i].store}
      BY <2>1
    <2>3. QED
      BY <1>1, <1>3, <1>5, <2>2 DEF StoreInv, StoresOK, Methods
  <1>6. QED
    BY <1>4, <1>5

\* Nothing happens to the payment.
LEMMA StoresStay ==
  ASSUME StoreInv, UNCHANGED conf, Follows
  PROVE  StoreInv'
  <1>1. CASE stores' = {}
    BY <1>1 DEF StoreInv, StoresOK
  <1>2. CASE held' = held /\ stores' = stores
    BY <1>2 DEF StoreInv, StoresOK, Peers, Group, Takers, FixedPrices, SettleAlike, Methods,
                Offers
  <1>3. QED
    BY <1>1, <1>2 DEF Follows

LEMMA PayStores ==
  ASSUME PricesTellApart, RouteInv, StoreInv, NEW route, NEW body \in Bodies, Pay(route, body)
  PROVE  StoreInv'
  <1>1. PICK i : i = Addressed(held, route, body)
    OBVIOUS
  <1>2. UNCHANGED conf /\ held # NoChallenge
    BY PayCases DEF Pay
  <1>3. CASE PayRefused(route, body)
    BY <1>2, <1>3, StoresStay DEF PayRefused
  <1>4. CASE /\ i \in Named(held) /\ Verifies(i, held, route, body)
             /\ ~Ambiguous(Authenticated(held, route, body))
             /\ Receipt(i, "paid", route, body, Settled(i, held, route))
    <2>1. held' = held /\ stores' = stores \cup {conf[i].store}
      BY <1>4 DEF Receipt
    <2>2. CASE conf[held.by].stable
      BY <1>2, <2>1, <2>2 DEF StoreInv
    <2>3. CASE ~conf[held.by].stable
      <3>1. i \in Peers(held) /\ (FixedPrices(held) => Takers(held) = {i})
        BY <1>2, <1>4, <2>3, VerifierIsTaker
      <3>2. ~FixedPrices(held) => SettleAlike(Peers(held))
        BY <1>2, <2>3, PeerFacts
      <3>3. QED
        BY <1>2, <2>1, <2>3, <3>1, <3>2, ReceiptStays
    <2>4. QED
      BY <2>2, <2>3
  <1>5. QED
    BY <1>1, <1>3, <1>4, PayCases

\* Outside of a route a payment is settled only if all the methods that may be
\* meant settle alike: the issuer's peers, or those that ask its price.
LEMMA SettlementStores ==
  ASSUME PricesTellApart, RouteInv, StoreInv, NEW s, NEW meta, NEW body,
         Settlement(s, meta, body)
  PROVE  StoreInv'
  <1>1. UNCHANGED <<conf, price>> /\ held # NoChallenge /\ held.server = s
    BY DEF Settlement, Broadcast, BroadcastFor
  <1>2. PICK M : /\ Settles(M)
                 /\ M = Candidates(held, s) \/ \E amount \in Prices : M = Matching(held, s, amount)
    BY DEF Settlement, Broadcast, BroadcastFor
  <1>3. /\ held' = held
        /\ stores' = stores \/ (Unanimous(M) /\ stores' = stores \cup {conf[First(M)].store})
    BY <1>1, <1>2, SettlesInv
  <1>4. CASE stores' = stores
    <2>1. Follows
      BY <1>3, <1>4 DEF Follows, RouteInv
    <2>2. QED
      BY <1>1, <2>1, StoresStay
  <1>5. CASE conf[held.by].stable
    BY <1>1, <1>3, <1>5 DEF StoreInv
  <1>6. CASE /\ ~conf[held.by].stable /\ Unanimous(M)
             /\ stores' = stores \cup {conf[First(M)].store}
    <2>1. Candidates(held, s) = Group(held)
      BY <1>1 DEF Candidates, Group
    <2>2. /\ held.by \in Peers(held) /\ Peers(held) \subseteq Group(held)
          /\ Group(held) \subseteq Methods
          /\ \A j \in Group(held) : ~conf[j].stable
          /\ ~FixedPrices(held) => SettleAlike(Peers(held))
      BY <1>1, <1>6, PeerFacts
    <2>3. IssuedBy(held) /\ ConfOK
      BY <1>1 DEF RouteInv
    <2>4. CASE M = Candidates(held, s)
      <3>1. SettleAlike(Peers(held)) /\ First(M) \in M
        BY <1>6, <2>1, <2>2, <2>3, <2>4, FirstIsOne DEF Unanimous, SettleAlike
      <3>2. stores' \subseteq stores \cup {conf[held.by].store}
        BY <1>6, <2>1, <2>2, <2>4, <3>1 DEF Unanimous, SettleAlike
      <3>3. QED
        BY <1>1, <1>3, <1>6, <2>2, <3>1, <3>2, ReceiptStays
    <2>5. ASSUME NEW amount \in Prices, M = Matching(held, s, amount)
          PROVE  StoreInv'
      <3> DEFINE exact == {j \in Candidates(held, s) : Expected(j, amount, held) = held.request}
                 alike == {j \in Candidates(held, s) : BindsAlike(j, held)}
      <3>1. alike = {}
        BY <2>1, <2>2 DEF BindsAlike
      <3>2. M = exact /\ exact # {} /\ SettleAlike(exact)
        BY <1>6, <2>5, <3>1 DEF Matching, Unanimous
      <3>3. ASSUME NEW j \in Group(held)
            PROVE  Expected(j, amount, held) = held.request <=>
                     /\ conf[j].product = held.request.product
                     /\ (IF conf[j].price = 0 THEN price[j] ELSE amount) = held.request.price
        <4>1. held.request = [product |-> held.request.product, price |-> held.request.price,
                              route |-> held.request.route]
          BY <2>3 DEF IssuedBy
        <4> DEFINE p == IF conf[j].price = 0 THEN price[j] ELSE amount
        <4>2. Expected(j, amount, held)
                = [held.request EXCEPT !.product = conf[j].product, !.price = p]
          BY DEF Expected
        <4> HIDE DEF p
        <4>3. Expected(j, amount, held)
                = [product |-> conf[j].product, price |-> p, route |-> held.request.route]
          BY <4>1, <4>2
        <4>4. Expected(j, amount, held) = held.request <=>
                conf[j].product = held.request.product /\ p = held.request.price
          BY <4>1, <4>3
        <4>5. QED
          BY <4>4 DEF p
      <3>4. exact \subseteq Peers(held)
        BY <2>1, <3>3 DEF Peers
      <3>5. SettleAlike(Peers(held))
        <4>1. CASE FixedPrices(held)
          <5>1. PICK j : j \in exact
            BY <3>2
          <5>2. amount = held.request.price
            BY <2>1, <3>3, <3>4, <4>1, <5>1 DEF FixedPrices
          <5>3. Peers(held) \subseteq exact
            BY <2>1, <2>2, <3>3, <4>1, <5>2 DEF FixedPrices, Peers
          <5>4. QED
            BY <3>2, <5>3 DEF SettleAlike
        <4>2. QED
          BY <2>2, <4>1
      <3>6. First(M) \in Peers(held)
        BY <2>2, <2>3, <3>2, <3>4, FirstIsOne
      <3>7. QED
        BY <1>1, <1>3, <1>6, <3>5, <3>6, ReceiptStays
    <2>6. QED
      BY <1>2, <2>4, <2>5
  <1>7. QED
    BY <1>3, <1>4, <1>5, <1>6

LEMMA StoreStep ==
  ASSUME PricesTellApart, RouteInv, StoreInv, [Next]_routeVars
  PROVE  StoreInv'
  <1>1. ASSUME held' = held, stores' = stores, UNCHANGED conf PROVE StoreInv'
    <2>1. Follows
      BY <1>1 DEF Follows, RouteInv
    <2>2. QED
      BY <1>1, <2>1, StoresStay
  <1>2. ASSUME NEW route, NEW body \in Bodies, Meets(route, body) PROVE StoreInv'
    <2>1. CASE Ask(route, body) \/ AskElsewhere(route, body)
      BY <2>1, AskInv, StoresStay DEF Ask, AskElsewhere
    <2>2. ASSUME NEW bound \in BOOLEAN, PayX402(bound, route, body) PROVE StoreInv'
      BY <1>1, <2>2, X402Inv, StoresStay DEF PayX402
    <2>3. QED
      BY <1>2, <2>1, <2>2, PayStores DEF Meets
  <1>3. CASE Tick \/ \E i \in Methods, amount \in Prices : Reprice(i, amount)
    BY <1>1, <1>3, WorldInv
  <1>4. CASE UNCHANGED routeVars
    BY <1>1, <1>4 DEF routeVars
  <1>5. QED
    BY <1>2, <1>3, <1>4, SettlementStores DEF Next

LEMMA StoresOnce == RouteInv /\ StoreInv => OneStorePerPayment
  <1> SUFFICES ASSUME StoreInv, held # NoChallenge, ~conf[held.by].stable
               PROVE  Cardinality(stores) <= 1
    BY DEF OneStorePerPayment
  <1>1. PICK s : stores \subseteq {s}
    BY DEF StoreInv, StoresOK
  <1>2. IsFiniteSet({s}) /\ Cardinality({s}) = 1
    BY FS_Singleton
  <1>3. stores \in SUBSET {s}
    BY <1>1
  <1>4. Cardinality(stores) <= Cardinality({s})
    BY <1>2, <1>3, FS_Subset
  <1>5. QED
    BY <1>2, <1>4

\* PaymentRoute: a payment that is presented again, to the route or to the server
\* outside of it, while prices change, never obtains a receipt from a second replay
\* store: if methods that only a resolved price tells apart share theirs.
THEOREM OneStoreSettles == ASSUME PricesTellApart PROVE Spec => []OneStorePerPayment
  <1>1. RouteInit => StoreInv
    BY DEF RouteInit, StoreInv
  <1>2. RouteInv /\ StoreInv /\ [Next]_routeVars => StoreInv'
    BY StoreStep
  <1>3. QED
    BY <1>1, <1>2, StoresOnce, RouteInitial, RouteStep, PTL DEF Spec

-----------------------------------------------------------------------------
(***************************************************************************)
(* The building of a payment.                                              *)
(*                                                                         *)
(* What is swapped follows the charge, and the fee token was last checked  *)
(* against the batch that is signed.                                       *)
(***************************************************************************)

Swap == [from : Fallbacks \cup {"none"}, bought : Int, max : Int, approved : Int]

BuildRecord ==
  [pc : {"idle", "fund", "size", "fee", "rebuild", "freed", "resize", "recheck", "sign", "signed",
         "failed"},
   route : {"direct", "machine", "swap"}, swap : Swap, spent : [Tokens -> Int],
   limit : Nat, price : Nat, priority : Nat, gas : Nat, sized : Swap, feeToken : Tokens \cup {"none"}, valid : Int]

BuildTypeOK ==
  /\ opts \in Options /\ bal \in [Tokens -> Nat] /\ clock \in Nat /\ build \in BuildRecord

\* A swap buys something, for what it was approved.
FundingOK(b) ==
  /\ b.swap # NoSwap => /\ b.route = "swap" /\ b.swap.from \in Fallbacks
                        /\ b.swap.bought > 0 /\ b.swap.max > 0 /\ b.swap.approved = b.swap.max
  /\ b.pc \in {"idle", "fund"} => b.swap = NoSwap

\* The token has the fee of this batch left.
Affords(b, t) == bal[t] - b.spent[t] >= b.gas

FeeOK(b) ==
  /\ b.pc \in {"fee", "recheck", "sign", "signed"} => b.sized = b.swap
  /\ b.pc \in {"rebuild", "freed", "resize", "recheck"} => ~opts.sponsored
  /\ opts.sponsored => /\ b.feeToken = "none"
                       /\ b.priority <= b.price /\ b.priority <= SponsorCaps.priority
  /\ b.pc \in {"sign", "signed"} /\ ~opts.sponsored =>
       /\ b.feeToken \in Tokens
       /\ b.swap # NoSwap /\ b.spent[b.feeToken] > 0 => Affords(b, b.feeToken)
  /\ b.pc = "signed" => /\ b.swap.bought <= Charge.amount
                        /\ opts.sponsored => b.valid >= MinValidity /\ b.valid <= MaxWindow

BuildInv == BuildTypeOK /\ FundingOK(build) /\ FeeOK(build)

LEMMA BuildInitial == ASSUME BuildAssumption, BuildInit PROVE BuildInv
  <1>1. NoSwap \in Swap /\ NoTokens \in [Tokens -> Int]
    BY DEF NoSwap, NoTokens, Swap
  <1>2. /\ build \in BuildRecord /\ build.pc = "idle" /\ build.swap = NoSwap /\ build.feeToken = "none"
        /\ build.priority = 0 /\ build.price = 0 /\ SponsorCaps.priority \in Nat
    BY <1>1, BuildAssumption DEF BuildInit, NotBuilt, BuildRecord
  <1>3. opts \in Options /\ clock \in Nat /\ bal \in [Tokens -> Nat]
    BY BuildAssumption DEF BuildInit
  <1> QED BY <1>2, <1>3 DEF BuildInv, BuildTypeOK, FundingOK, FeeOK

LEMMA BuildMoves ==
  ASSUME BuildInv, NEW b \in BuildRecord, Becomes(b), FundingOK(b), FeeOK(b)
  PROVE  BuildInv'
  <1>1. build' = b /\ UNCHANGED <<opts, bal, clock>>
    BY DEF Becomes
  <1>2. BuildTypeOK'
    BY <1>1 DEF BuildInv, BuildTypeOK
  <1>3. FundingOK(build)' /\ FeeOK(build)'
    BY <1>1 DEF FundingOK, FeeOK, Affords, Charge
  <1> QED BY <1>2, <1>3 DEF BuildInv

\* Only the stage changes, and the fee token.
LEMMA StageChanges ==
  ASSUME BuildInv, NEW pc \in {"fund", "size", "rebuild", "resize", "sign", "failed"},
         NEW t \in Tokens \cup {"none"},
         Becomes([build EXCEPT !.pc = pc, !.feeToken = t]),
         pc = "fund" => build.swap = NoSwap, opts.sponsored => t = "none",
         pc \in {"rebuild", "resize"} => ~opts.sponsored,
         pc = "sign" => build.sized = build.swap,
         pc = "sign" /\ ~opts.sponsored =>
           /\ t \in Tokens
           /\ Swapping /\ build.spent[t] > 0 => Covers(t)
  PROVE  BuildInv'
  <1> DEFINE b == [build EXCEPT !.pc = pc, !.feeToken = t]
  <1>1. /\ b \in BuildRecord /\ b.pc = pc /\ b.feeToken = t /\ b.swap = build.swap
        /\ b.sized = build.sized /\ b.spent = build.spent /\ b.gas = build.gas /\ b.route = build.route
        /\ b.price = build.price /\ b.priority = build.priority
    BY DEF BuildInv, BuildTypeOK, BuildRecord
  <1> HIDE DEF b
  <1>2. FundingOK(b)
    BY <1>1 DEF BuildInv, FundingOK
  <1>3. FeeOK(b)
    BY <1>1 DEF BuildInv, FeeOK, Affords, Covers, Spare, Swapping
  <1>4. Becomes(b)
    BY DEF b
  <1> QED BY <1>1, <1>2, <1>3, <1>4, BuildMoves

LEMMA GoesOnTo ==
  ASSUME BuildInv, NEW pc \in {"fund", "size", "rebuild", "resize", "sign", "failed"}, Goes(pc),
         pc = "fund" => build.swap = NoSwap,
         pc \in {"rebuild", "resize"} => ~opts.sponsored,
         pc = "sign" => build.sized = build.swap /\ opts.sponsored
  PROVE  BuildInv'
  <1>1. build.feeToken \in Tokens \cup {"none"} /\ (opts.sponsored => build.feeToken = "none")
    BY DEF BuildInv, BuildTypeOK, BuildRecord, FeeOK
  <1>2. [build EXCEPT !.pc = pc] = [build EXCEPT !.pc = pc, !.feeToken = build.feeToken]
    BY DEF BuildInv, BuildTypeOK, BuildRecord
  <1>3. Becomes([build EXCEPT !.pc = pc, !.feeToken = build.feeToken])
    BY <1>2 DEF Goes
  <1> QED BY <1>1, <1>3, StageChanges

\* The tokens that a swap leaves.
LEMMA SpentIsNumber ==
  ASSUME BuildAssumption, opts \in Options, NEW swap \in Swap
  PROVE  SpentBy(swap) \in [Tokens -> Int]
  <1>1. Charge.amount \in Int /\ swap.bought \in Int /\ swap.max \in Int
    BY BuildAssumption DEF Charge, Swap
  <1> DEFINE d == Charge.amount - swap.bought
  <1>2. d \in Int
    BY <1>1
  <1> HIDE DEF d
  <1>3. \E x \in {0, d} : \A y \in {0, d} : x >= y
    BY <1>2
  <1>4. Max({0, d}) \in {0, d}
    BY <1>3 DEF Max
  <1>5. Max({0, d}) \in Int
    BY <1>2, <1>4
  <1>6. \A t \in Tokens : SpentBy(swap)[t] \in Int
    BY <1>1, <1>5 DEF SpentBy, d
  <1> QED BY <1>6 DEF SpentBy

\* A swap is found, or none is needed, or nothing is built.
LEMMA FindsSwapKeeps ==
  ASSUME BuildAssumption, BuildInv, NEW headroom \in Nat, NEW among \in SUBSET Fallbacks,
         NEW pc \in {"size", "freed", "resize"}, NEW known \in BOOLEAN,
         FindsSwap(headroom, among, pc, Unswapped(known)), pc # "size" => ~opts.sponsored
  PROVE  BuildInv'
  <1>1. build \in BuildRecord /\ opts \in Options /\ Charge.amount \in Nat
        /\ (opts.sponsored => /\ build.feeToken = "none"
                              /\ build.priority <= build.price /\ build.priority <= SponsorCaps.priority)
    BY BuildAssumption DEF BuildInv, BuildTypeOK, FeeOK, Charge
  <1>2. CASE Becomes([Unswapped(known) EXCEPT !.pc = pc])
    <2> DEFINE u == Unswapped(known)
               b == [u EXCEPT !.pc = pc]
               spent == IF known THEN [NoTokens EXCEPT !["currency"] = Charge.amount] ELSE NoTokens
    <2>1. NoSwap \in Swap /\ spent \in [Tokens -> Int]
      <3>1. NoSwap \in Swap
        BY DEF NoSwap, Swap
      <3>2. NoTokens \in [Tokens -> Int]
        BY DEF NoTokens
      <3>3. \A n \in Int : [NoTokens EXCEPT !["currency"] = n] \in [Tokens -> Int]
        BY <3>2
      <3> QED BY <1>1, <3>1, <3>2, <3>3
    <2>2. u = [build EXCEPT !.swap = NoSwap, !.spent = spent]
      BY DEF Unswapped
    <2> HIDE DEF u, spent
    <2>3. u \in BuildRecord /\ u.swap = NoSwap /\ u.feeToken = build.feeToken
          /\ u.price = build.price /\ u.priority = build.priority
      BY <1>1, <2>1, <2>2 DEF BuildRecord
    <2>4. b \in BuildRecord /\ b.swap = NoSwap /\ b.pc = pc /\ b.feeToken = build.feeToken
          /\ b.price = build.price /\ b.priority = build.priority
      BY <2>3 DEF BuildRecord
    <2>5. Becomes(b)
      BY <1>2 DEF u
    <2> HIDE DEF b
    <2>6. FundingOK(b) /\ FeeOK(b)
      BY <1>1, <2>4 DEF FundingOK, FeeOK
    <2> QED BY <2>4, <2>5, <2>6, BuildMoves
  <1>3. ASSUME NEW t \in Funding(headroom, among), NEW bought, bought = Deficit(headroom), bought > 0,
               Becomes([OfSwap(SwapFrom(t, bought)) EXCEPT !.pc = pc])
        PROVE  BuildInv'
    <2> DEFINE swap == SwapFrom(t, bought)
               o == OfSwap(swap)
               b == [o EXCEPT !.pc = pc]
    <2>1. t \in Fallbacks
      BY DEF Funding
    <2>2. bought \in Int
      <3>1. bal["currency"] \in Nat
        BY DEF BuildInv, BuildTypeOK, Tokens
      <3> QED BY <1>1, <1>3, <3>1 DEF Deficit
    <2>3. MaxIn(bought) \in Int /\ MaxIn(bought) > 0
      <3>1. Slippage \in Nat
        BY BuildAssumption
      <3> QED BY <1>3, <2>2, <3>1 DEF MaxIn
    <2>4. /\ swap \in Swap /\ swap.from = t /\ swap.bought = bought /\ swap.max = MaxIn(bought)
          /\ swap.approved = swap.max
      BY <2>1, <2>2, <2>3 DEF SwapFrom, Swap
    <2> HIDE DEF swap
    <2>5. SpentBy(swap) \in [Tokens -> Int]
      BY <1>1, <2>4, SpentIsNumber
    <2>6. o \in BuildRecord /\ o.swap = swap /\ o.route = "swap" /\ o.feeToken = build.feeToken
          /\ o.price = build.price /\ o.priority = build.priority
      BY <1>1, <2>4, <2>5 DEF OfSwap, BuildRecord
    <2> HIDE DEF o
    <2>7. b \in BuildRecord /\ b.swap = swap /\ b.route = "swap" /\ b.pc = pc /\ b.feeToken = build.feeToken
          /\ b.price = build.price /\ b.priority = build.priority
      BY <2>6 DEF BuildRecord
    <2>8. Becomes(b)
      BY <1>3 DEF o, swap
    <2> HIDE DEF b
    <2>9. FundingOK(b) /\ FeeOK(b)
      BY <1>1, <1>3, <2>1, <2>3, <2>4, <2>7 DEF FundingOK, FeeOK
    <2> QED BY <2>7, <2>8, <2>9, BuildMoves
  <1>4. CASE GivesUp
    BY <1>4, GoesOnTo DEF GivesUp
  <1> QED BY <1>2, <1>3, <1>4 DEF FindsSwap

\* Gas and fee are sized for the calls as they are.
LEMMA SizeFacts ==
  ASSUME BuildAssumption, BuildInv, NEW pc \in {"fee", "recheck"}, NEW limit \in GasLimits,
         NEW quote \in Nat
  PROVE  /\ Sized(pc, limit, quote) \in BuildRecord /\ Sized(pc, limit, quote).pc = pc
         /\ Sized(pc, limit, quote).sized = build.swap /\ Sized(pc, limit, quote).swap = build.swap
         /\ Sized(pc, limit, quote).route = build.route
         /\ Sized(pc, limit, quote).feeToken = build.feeToken
         /\ Sized(pc, limit, quote).price = build.price
         /\ Sized(pc, limit, quote).priority = build.priority
  <1> DEFINE fee == FeeOf(limit, quote)
  <1>1. build \in BuildRecord /\ limit \in Nat
    BY BuildAssumption DEF BuildInv, BuildTypeOK
  <1>2. Cost(limit, quote) \in Nat
    BY <1>1 DEF Cost
  <1>3. fee \in Nat
    BY <1>2 DEF FeeOf
  <1> HIDE DEF fee
  <1>4. Sized(pc, limit, quote)
          = [build EXCEPT !.pc = pc, !.limit = limit, !.gas = fee, !.sized = build.swap]
    BY DEF Sized, fee
  <1> QED BY <1>1, <1>3, <1>4 DEF BuildRecord

LEMMA ResizedKeeps ==
  ASSUME BuildAssumption, BuildInv, NEW limit \in GasLimits,
         Becomes(Sized("recheck", limit, build.price)), ~opts.sponsored
  PROVE  BuildInv'
  <1> DEFINE b == Sized("recheck", limit, build.price)
  <1>1. build.price \in Nat
    BY DEF BuildInv, BuildTypeOK, BuildRecord
  <1>2. /\ b \in BuildRecord /\ b.pc = "recheck" /\ b.sized = build.swap /\ b.swap = build.swap
        /\ b.route = build.route /\ b.feeToken = build.feeToken
    BY <1>1, SizeFacts
  <1> HIDE DEF b
  <1>3. FundingOK(b) /\ FeeOK(b)
    BY <1>2 DEF BuildInv, FundingOK, FeeOK
  <1> QED BY <1>2, <1>3, BuildMoves DEF b

\* The priority fee is capped when the price is quoted.
LEMMA PricedKeeps ==
  ASSUME BuildAssumption, BuildInv, NEW limit \in GasLimits, NEW quote \in GasPrices,
         Becomes(Priced(limit, quote))
  PROVE  BuildInv'
  <1> DEFINE o == Sized("fee", limit, quote)
             priority == PriorityFee(quote)
             b == [o EXCEPT !.price = quote, !.priority = priority]
  <1>1. quote \in Nat /\ SponsorCaps.priority \in Nat /\ PayerCaps.priority \in Nat
    BY BuildAssumption
  <1>2. /\ priority \in Nat /\ priority <= quote
        /\ opts.sponsored => priority <= SponsorCaps.priority
    BY <1>1 DEF PriorityFee, Lesser
  <1>3. /\ o \in BuildRecord /\ o.pc = "fee" /\ o.sized = build.swap /\ o.swap = build.swap
        /\ o.route = build.route /\ o.feeToken = build.feeToken
    BY <1>1, SizeFacts
  <1>4. Becomes(b)
    BY DEF Priced
  <1> HIDE DEF o, priority
  <1>5. /\ b \in BuildRecord /\ b.pc = "fee" /\ b.sized = build.swap /\ b.swap = build.swap
        /\ b.route = build.route /\ b.feeToken = build.feeToken
        /\ b.price = quote /\ b.priority = priority
    BY <1>1, <1>2, <1>3 DEF BuildRecord
  <1> HIDE DEF b
  <1>6. FundingOK(b) /\ FeeOK(b)
    BY <1>2, <1>5 DEF BuildInv, FundingOK, FeeOK
  <1> QED BY <1>4, <1>5, <1>6, BuildMoves

\* What the checks say of the tokens that can pay.
LEMMA CoverFacts ==
  ASSUME BuildAssumption, BuildInv
  PROVE  /\ opts.feeTokens \subseteq Tokens /\ opts.feeToken \in Tokens \cup {"none"}
         /\ build.feeToken \in Tokens \cup {"none"} /\ (opts.sponsored => build.feeToken = "none")
         /\ build.swap # NoSwap => build.route = "swap"
  BY BuildAssumption DEF BuildInv, BuildTypeOK, BuildRecord, FundingOK, FeeOK

LEMMA PreparesKeep ==
  ASSUME BuildAssumption, BuildInv, Prepare \/ FundByMachine \/ FundDirectly \/ FundBySwap
  PROVE  BuildInv'
  <1>1. build.pc \in {"idle", "fund"} /\ build.swap = NoSwap
    BY DEF Prepare, FundByMachine, FundDirectly, FundBySwap, At, BuildInv, FundingOK
  <1>2. CASE Prepare
    BY <1>1, <1>2, GoesOnTo DEF Prepare, GivesUp
  <1>3. CASE FundByMachine
    <2> DEFINE b == [build EXCEPT !.pc = "size", !.route = "machine"]
    <2>1. /\ b \in BuildRecord /\ b.pc = "size" /\ b.swap = NoSwap /\ b.feeToken = build.feeToken
          /\ b.price = build.price /\ b.priority = build.priority
      BY <1>1 DEF BuildInv, BuildTypeOK, BuildRecord
    <2>2. Becomes(b)
      BY <1>3 DEF FundByMachine
    <2> HIDE DEF b
    <2>3. FundingOK(b) /\ FeeOK(b)
      BY <2>1 DEF BuildInv, FundingOK, FeeOK
    <2> QED BY <2>1, <2>2, <2>3, BuildMoves
  <1>4. CASE FundDirectly
    BY <1>1, <1>4, GoesOnTo DEF FundDirectly
  <1>5. CASE FundBySwap
    <2>1. FindsSwap(0, Fallbacks, "size", Unswapped(FALSE))
      BY <1>5 DEF FundBySwap
    <2> QED BY <2>1, FindsSwapKeeps
  <1> QED BY <1>2, <1>3, <1>4, <1>5

LEMMA FirstFeeKeeps ==
  ASSUME BuildAssumption, BuildInv, Size \/ SponsorPays \/ NamedToken \/ CurrencyPays \/ AnyTokenPays
  PROVE  BuildInv'
  <1>1. CASE Size
    BY <1>1, PricedKeeps, GoesOnTo DEF Size, GivesUp
  <1>2. build.pc = "fee" => build.sized = build.swap
    BY DEF BuildInv, FeeOK
  <1>3. CASE SponsorPays
    BY <1>2, <1>3, GoesOnTo DEF SponsorPays, At
  <1>4. CASE NamedToken
    <2> DEFINE pc == IF SpendsFeeToken /\ ~Covers(opts.feeToken) THEN "rebuild" ELSE "sign"
    <2>1. /\ ~opts.sponsored /\ opts.feeToken \in Tokens /\ build.sized = build.swap
          /\ Becomes([build EXCEPT !.pc = pc, !.feeToken = opts.feeToken])
      BY <1>2, <1>4, CoverFacts DEF NamedToken, At, PayIn, Explicit
    <2>2. pc \in {"rebuild", "sign"}
      OBVIOUS
    <2>3. pc = "sign" /\ Swapping /\ build.spent[opts.feeToken] > 0 => Covers(opts.feeToken)
      BY DEF SpendsFeeToken
    <2> HIDE DEF pc
    <2> QED BY <2>1, <2>2, <2>3, StageChanges
  <1>5. CASE CurrencyPays
    <2>1. /\ ~opts.sponsored /\ build.pc = "fee" /\ build.route = "direct"
          /\ Becomes([build EXCEPT !.pc = "sign", !.feeToken = "currency"])
      BY <1>5 DEF CurrencyPays, At, PayIn
    <2>2. "currency" \in Tokens /\ build.sized = build.swap /\ ~Swapping
      BY <1>2, <2>1, CoverFacts DEF Swapping, Tokens
    <2> QED BY <2>1, <2>2, StageChanges
  <1>6. CASE AnyTokenPays
    <2>1. ~opts.sponsored /\ build.sized = build.swap
      BY <1>2, <1>6 DEF AnyTokenPays, At
    <2>2. ASSUME NEW t \in FundedFeeTokens, PayIn(t, "sign") PROVE BuildInv'
      <3>1. t \in Tokens /\ Covers(t) /\ Becomes([build EXCEPT !.pc = "sign", !.feeToken = t])
        BY <2>2, CoverFacts DEF FundedFeeTokens, PayIn
      <3> QED BY <2>1, <3>1, StageChanges
    <2>3. CASE Goes("rebuild") \/ GivesUp
      BY <2>1, <2>3, GoesOnTo DEF GivesUp
    <2> QED BY <1>6, <2>2, <2>3 DEF AnyTokenPays
  <1> QED BY <1>1, <1>3, <1>4, <1>5, <1>6

LEMMA RebuildKeeps ==
  ASSUME BuildAssumption, BuildInv, RebuildForNamed \/ RebuildForAny \/ Freed \/ Resize \/ Recheck
  PROVE  BuildInv'
  <1>1. ~opts.sponsored
    BY DEF RebuildForNamed, RebuildForAny, Freed, Resize, Recheck, At, BuildInv, FeeOK
  <1>2. build.gas \in Nat /\ 0 \in Nat
    BY DEF BuildInv, BuildTypeOK, BuildRecord
  <1>3. CASE RebuildForNamed
    <2>1. \/ FindsSwap(build.gas, Fallbacks, "resize", Unswapped(TRUE))
          \/ FindsSwap(0, Fallbacks \ {opts.feeToken}, "resize", Unswapped(TRUE))
      BY <1>3 DEF RebuildForNamed
    <2> QED BY <1>1, <1>2, <2>1, FindsSwapKeeps
  <1>4. CASE RebuildForAny
    <2>1. FindsSwap(build.gas, Fallbacks, "freed", Unswapped(TRUE))
      BY <1>4 DEF RebuildForAny
    <2> QED BY <1>1, <1>2, <2>1, FindsSwapKeeps
  <1>5. CASE Freed
    <2>1. CASE Goes("resize") \/ GivesUp
      BY <1>1, <2>1, GoesOnTo DEF GivesUp
    <2>2. CASE PayIn("currency", "resize")
      <3>1. "currency" \in Tokens /\ Becomes([build EXCEPT !.pc = "resize", !.feeToken = "currency"])
        BY <2>2 DEF PayIn, Tokens
      <3> QED BY <1>1, <3>1, StageChanges
    <2>3. CASE Swapping /\ FindsSwap(0, {build.swap.from}, "resize", Unswapped(TRUE))
      <3>1. {build.swap.from} \in SUBSET Fallbacks
        BY <2>3 DEF Swapping, BuildInv, FundingOK
      <3> QED BY <1>1, <1>2, <2>3, <3>1, FindsSwapKeeps
    <2> QED BY <1>5, <2>1, <2>2, <2>3 DEF Freed
  <1>6. CASE Resize
    BY <1>1, <1>6, ResizedKeeps DEF Resize, NewSize
  <1>7. CASE Recheck
    <2>1. build.sized = build.swap
      BY <1>7 DEF Recheck, At, BuildInv, FeeOK
    <2>2. ASSUME NEW t \in Tokens, Covers(t), PayIn(t, "sign") PROVE BuildInv'
      <3>1. Becomes([build EXCEPT !.pc = "sign", !.feeToken = t])
        BY <2>2 DEF PayIn
      <3> QED BY <1>1, <2>1, <2>2, <3>1, StageChanges
    <2>3. CASE GivesUp
      BY <2>3, GoesOnTo DEF GivesUp
    <2> QED BY <1>7, <2>2, <2>3, CoverFacts DEF Recheck, FundedFeeTokens
  <1> QED BY <1>3, <1>4, <1>5, <1>6, <1>7

\* How long a transaction is valid.
LEMMA ValidityFits ==
  ASSUME BuildAssumption, clock \in Nat
  PROVE  /\ ValidBefore - clock \in Int /\ ValidBefore - clock <= MaxWindow
         /\ TimeLeft => ValidBefore - clock >= MinValidity
  <1> DEFINE x == clock + Window
             y == Expires + 1
  <1>1. x \in Int /\ y \in Int
    BY BuildAssumption
  <1>2. x <= clock + MaxWindow /\ x >= clock + MinValidity /\ (TimeLeft => y >= clock + MinValidity)
    BY BuildAssumption DEF TimeLeft
  <1> HIDE DEF x, y
  <1>3. \E z \in {x, y} : \A v \in {x, y} : z =< v
    BY <1>1
  <1>4. ValidBefore \in {x, y} /\ \A v \in {x, y} : ValidBefore =< v
    BY <1>3 DEF ValidBefore, Min, x, y
  <1>5. ValidBefore \in Int /\ ValidBefore <= x /\ (ValidBefore = x \/ ValidBefore = y)
    BY <1>1, <1>4
  <1> QED BY <1>1, <1>2, <1>5, BuildAssumption

LEMMA SignKeeps == ASSUME BuildAssumption, BuildInv, Sign PROVE BuildInv'
  <1>1. CASE GivesUp
    BY <1>1, GoesOnTo DEF GivesUp
  <1>2. CASE /\ BuysNoMore /\ (IF opts.sponsored THEN TimeLeft ELSE WithinBudget)
             /\ Becomes([build EXCEPT !.pc = "signed", !.valid = ValidBefore - clock])
    <2> DEFINE n == ValidBefore - clock
               b == [build EXCEPT !.pc = "signed", !.valid = n]
    <2>1. n \in Int /\ n <= MaxWindow /\ (opts.sponsored => n >= MinValidity)
      BY <1>2, ValidityFits DEF BuildInv, BuildTypeOK
    <2> HIDE DEF n
    <2>2. /\ b \in BuildRecord /\ b.pc = "signed" /\ b.valid = n /\ b.feeToken = build.feeToken
          /\ b.swap = build.swap /\ b.sized = build.sized /\ b.spent = build.spent
          /\ b.gas = build.gas /\ b.route = build.route
          /\ b.price = build.price /\ b.priority = build.priority
      BY <2>1 DEF BuildInv, BuildTypeOK, BuildRecord
    <2>3. Becomes(b) /\ build.pc = "sign"
      BY <1>2 DEF n, Sign, At
    <2> HIDE DEF b
    <2>4. FundingOK(b)
      BY <2>2 DEF BuildInv, FundingOK
    <2>5. FeeOK(b)
      BY <1>2, <2>1, <2>2, <2>3 DEF BuildInv, FeeOK, Affords, BuysNoMore
    <2> QED BY <2>2, <2>3, <2>4, <2>5, BuildMoves
  <1> QED BY <1>1, <1>2 DEF Sign

\* The balances rise and time goes by: what a token had left, it still has.
LEMMA WorldKeepsBuild == ASSUME BuildAssumption, BuildInv, World \/ Mine PROVE BuildInv'
  <1>1. build' = build /\ opts' = opts
    BY DEF World, Mine, Wait, Deposit, Compose
  <1>2. clock' \in Nat
    <2>1. clock \in Nat
      BY DEF BuildInv, BuildTypeOK
    <2>2. clock' = clock \/ clock' = clock + 1
      BY DEF World, Mine, Wait, Deposit, Compose
    <2> QED BY <2>1, <2>2
  <1>3. bal' \in [Tokens -> Nat] /\ \A t \in Tokens : bal'[t] >= bal[t]
    <2>1. bal \in [Tokens -> Nat]
      BY DEF BuildInv, BuildTypeOK
    <2>2. CASE bal' = bal
      BY <2>1, <2>2
    <2>3. ASSUME NEW t \in Tokens, bal' = [bal EXCEPT ![t] = @ + 1]
          PROVE  bal' \in [Tokens -> Nat] /\ \A u \in Tokens : bal'[u] >= bal[u]
      BY <2>1, <2>3
    <2> QED BY <2>2, <2>3 DEF World, Mine, Wait, Deposit, Compose
  <1>4. ASSUME NEW t \in Tokens, Affords(build, t) PROVE Affords(build, t)'
    <2>1. build.spent[t] \in Int /\ build.gas \in Nat /\ bal[t] \in Nat /\ bal'[t] \in Nat
      BY <1>3 DEF BuildInv, BuildTypeOK, BuildRecord
    <2> QED BY <1>1, <1>3, <1>4, <2>1 DEF Affords
  <1>5. BuildTypeOK'
    BY <1>1, <1>2, <1>3 DEF BuildInv, BuildTypeOK
  <1>6. FundingOK(build)'
    BY <1>1 DEF BuildInv, FundingOK
  <1>7. FeeOK(build)'
    BY <1>1, <1>4 DEF BuildInv, FeeOK, Charge
  <1> QED BY <1>5, <1>6, <1>7 DEF BuildInv

LEMMA BuildStep == ASSUME BuildAssumption, BuildInv, [BuildNext]_buildVars PROVE BuildInv'
  <1>1. CASE UNCHANGED buildVars
    BY <1>1 DEF buildVars, BuildInv, BuildTypeOK, FundingOK, FeeOK, Affords, Charge
  <1> QED BY <1>1, PreparesKeep, FirstFeeKeeps, RebuildKeeps, SignKeeps, WorldKeepsBuild
       DEF BuildNext, Build

\* The invariant holds however a payment is funded and whatever the node answers meanwhile.
THEOREM BuildInvariant == BuildSpec => []BuildInv
  <1>1. BuildInit => BuildInv
    BY BuildAssumption, BuildInitial
  <1>2. BuildInv /\ [BuildNext]_buildVars => BuildInv'
    BY BuildAssumption, BuildStep
  <1> QED BY <1>1, <1>2, PTL DEF BuildSpec

\* A payer who swaps can pay the fee of the batch it signs out of what the batch leaves,
\* however the swap, the fee and the fee token were chosen again, and the gas was sized
\* for the swap that is signed.
THEOREM FeesAreCovered == BuildSpec => []FeeCovered
  <1>1. BuildInv => FeeCovered
    BY DEF BuildInv, FeeOK, FeeCovered, At, Swapping, Affords, Covers, Spare
  <1> QED BY <1>1, BuildInvariant, PTL

\* What a client signs is accepted, apart from how the calls are matched: the swap that
\* it adds; and the envelope of a sponsored transaction, whose fee token, priority fee
\* and validity are right, if the gas and price that the node quoted are within the
\* sponsor's policy.  The client does not keep those within it.
FundingAccepted ==
  At("signed") =>
    /\ Swapping => SwapAccepted(Charge, build.swap)
    /\ opts.sponsored /\ WithinCaps(SponsorCaps, build) => EnvelopeAccepted(build)

\* Both hold of whatever a client signs, in any configuration and whatever balance, time
\* or estimate the node answers with while the payment is built.
THEOREM SignedFundingAccepted == BuildSpec => []FundingAccepted
  <1>1. BuildInv => FundingAccepted
    BY BuildAssumption
       DEF BuildInv, FundingOK, FeeOK, FundingAccepted, At, Swapping, SwapAccepted, EnvelopeAccepted
  <1> QED BY <1>1, BuildInvariant, PTL

=============================================================================
