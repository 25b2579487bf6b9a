--------------------------- MODULE ChargeRailsProofs ---------------------------
(***************************************************************************)
(* The charges without a local sponsor, on every rail, for any number of   *)
(* attempts, payments, challenges and envelopes, whatever is presented for *)
(* what and however far the clocks are apart within the grace periods;     *)
(* then the same rails under a client that signs, retries and shares what  *)
(* it signs.                                                               *)
(***************************************************************************)
EXTENDS ChargeClient, FiniteSetTheorems, TLAPS

-----------------------------------------------------------------------------
(* The inductive invariant.                                                 *)

Kinds == {"none", "pull", "hosted", "push", "proof", "evm", "cache", "stripe"}

\* The stages of an attempt by what it presents.
TempoStages == {"looking", "filling", "claiming", "preflight", "marking", "reconciling",
                "ready", "sending", "sent"}

Stages == TempoStages \cup
  {"idle", "received", "validated", "unmarking", "unclaiming", "verifying", "claimingProof",
   "asking", "settling", "creating", "done"}

\* Those that hold the key of their envelope.
HashStages == (TempoStages \ {"looking", "filling", "claiming"}) \cup {"verifying"}

Attempt ==
  [pc : Stages, pay : Payments \cup {"none"}, ch : Challenges \cup {"none"}, kind : Kinds,
   env : Envelopes \cup {"own", "none"}, lag : Nat, reconciling : BOOLEAN,
   held : SUBSET [of : {"client", "hash"}, id : Payments \cup (Payments \X (Envelopes \cup {"own", "none"}))],
   marked : BOOLEAN, sent : BOOLEAN, unknown : BOOLEAN, overlapped : BOOLEAN,
   result : {"none", "challenge", "replayed", "error", "receipt"}]

RailsTypeOK ==
  /\ now \in Nat /\ rail \in Rails
  /\ bound \in [Payments -> Challenges \cup {"none"}] /\ until \in [Payments -> Nat]
  /\ chain \in [Payments -> {"none", "pooled", "paid", "reverted", "action", "failed"}]
  /\ envs \in [Payments -> SUBSET (Envelopes \cup {"own", "none"})]
  /\ marker \in [Payments -> Envelopes \cup {"own", "none"}]
  /\ att \in [Attempts -> Attempt]

\* What a running attempt relies on.
Runs(a) ==
  /\ a.pay \in Payments /\ a.ch \in Challenges /\ a.kind \in KindsOf(rail)
  /\ a.pc \in TempoStages => a.kind \in {"pull", "hosted"}
  /\ a.pc = "verifying" => a.kind = "push"
  /\ a.pc = "claimingProof" => a.kind = "proof"
  /\ a.pc \in {"asking", "settling"} => a.kind \in Evm
  /\ a.pc = "creating" => a.kind = "stripe"
  /\ a.kind = "proof" => a.lag <= MaxLag
  /\ a.pc \notin {"received", "unmarking", "unclaiming"} \/ a.kind = "stripe"
       => a.kind = "push" \/ bound[a.pay] = a.ch
  /\ a.pc \in HashStages => HashKey(a) \in a.held

AttemptOK(a) ==
  IF a.pc \in {"idle", "done"} THEN a.held = {} /\ (a.pc = "idle" => a.result # "receipt")
  ELSE a.result # "receipt" /\ Runs(a)

\* A key in the hands of an attempt is in the store and in no other hands.
HeldOnce ==
  /\ \A w \in Attempts : att[w].held \subseteq keys
  /\ \A v, w \in Attempts : v # w => att[v].held \cap att[w].held = {}

\* Of the envelopes of a payment one is included; the other rails have none.
OneIncluded ==
  /\ \A p \in Payments : chain[p] \in {"paid", "reverted"} => \A e, f \in envs[p] : e = f
  /\ rail \notin {"pull", "hosted"} => \A p \in Payments : envs[p] = {}

KeyOf(p, e) == [of |-> "hash", id |-> <<p, e>>]

\* What stands for a payment that was used: the key of the envelope that was included,
\* which nobody can give back; the key of a proof until its challenge has expired by
\* every clock; or else what the chain or the provider says.
Used(p) ==
  /\ rail # "proof" => chain[p] = "paid"
  /\ rail \in {"pull", "hosted"} =>
       \E e \in envs[p] : KeyOf(p, e) \in keys /\ \A w \in Attempts : KeyOf(p, e) \notin att[w].held
  /\ rail = "proof" =>
       \/ [of |-> "proof", id |-> bound[p]] \in keys
       \/ now >= Expires[bound[p]] + ProofGrace

ReceiptsAreUsed ==
  \A w \in Attempts : att[w].result = "receipt" =>
    /\ att[w].pay \in Payments /\ att[w].ch \in Challenges
    /\ Bound(w) /\ Used(att[w].pay)

RailsInv ==
  /\ RailsTypeOK /\ \A w \in Attempts : AttemptOK(att[w])
  /\ HeldOnce /\ OneIncluded /\ ReceiptsAreUsed /\ PaymentUsedOnce

-----------------------------------------------------------------------------
(* Attempts.                                                                *)

Results == {"none", "challenge", "replayed", "error", "receipt"}

LEMMA IdleFields ==
  /\ Idle \in Attempt /\ Idle.held = {} /\ Idle.result = "none" /\ Idle.lag = 0
  <1>1. "idle" \in Stages /\ "none" \in Kinds
    BY DEF Stages, Kinds
  <1> QED BY <1>1 DEF Idle, Attempt

\* An answer ends an attempt, which holds nothing any more.
LEMMA AnswersFields ==
  ASSUME NEW a \in Attempt, NEW result \in Results
  PROVE  /\ Answers(a, result) \in Attempt /\ AttemptOK(Answers(a, result))
         /\ Answers(a, result).pc = "done" /\ Answers(a, result).held = {}
         /\ Answers(a, result).result = result
         /\ Answers(a, result).pay = a.pay /\ Answers(a, result).ch = a.ch
  <1> DEFINE b == Answers(a, result)
  <1>1. "done" \in Stages /\ a.pay \in Payments \cup {"none"} /\ a.ch \in Challenges \cup {"none"}
    BY DEF Attempt, Stages
  <1>2. /\ b \in Attempt /\ b.pc = "done" /\ b.held = {} /\ b.result = result
        /\ b.pay = a.pay /\ b.ch = a.ch
    BY <1>1, IdleFields DEF Answers, Attempt, Results
  <1> HIDE DEF b
  <1>3. AttemptOK(b)
    BY <1>2 DEF AttemptOK
  <1> QED BY <1>2, <1>3 DEF b

\* An attempt that fails keeps its keys until its cleanup.
LEMMA FailsFields ==
  ASSUME NEW a \in Attempt, AttemptOK(a), a.pc \notin {"idle", "done"},
         NEW result \in Results, result # "receipt"
  PROVE  /\ Fails(a, result) \in Attempt /\ AttemptOK(Fails(a, result))
         /\ Fails(a, result).held = a.held /\ Fails(a, result).result = result
  <1> DEFINE b == Fails(a, result)
  <1>1. "unmarking" \in Stages
    BY DEF Stages
  <1>2. /\ b \in Attempt /\ b.pc = "unmarking" /\ b.result = result /\ b.held = a.held
        /\ b.pay = a.pay /\ b.ch = a.ch /\ b.kind = a.kind /\ b.lag = a.lag
    BY <1>1 DEF Fails, Attempt, Results
  <1> HIDE DEF b
  <1>3. Runs(b)
    BY <1>2 DEF AttemptOK, Runs, TempoStages, HashStages
  <1> QED BY <1>2, <1>3 DEF AttemptOK, b

LEMMA FailsUnknownFields ==
  ASSUME NEW a \in Attempt, AttemptOK(a), a.pc \notin {"idle", "done"},
         NEW result \in Results, result # "receipt", NEW u \in BOOLEAN
  PROVE  LET b == [Fails(a, result) EXCEPT !.unknown = u]
         IN b \in Attempt /\ AttemptOK(b) /\ b.held = a.held /\ b.result = result
  <1> DEFINE f == Fails(a, result)
             b == [f EXCEPT !.unknown = u]
  <1>1. f \in Attempt /\ AttemptOK(f) /\ f.held = a.held /\ f.result = result
    BY FailsFields
  <1> HIDE DEF f
  <1>2. /\ b \in Attempt /\ b.pc = f.pc /\ b.result = f.result /\ b.held = f.held
        /\ b.pay = f.pay /\ b.ch = f.ch /\ b.kind = f.kind /\ b.lag = f.lag /\ b.env = f.env
    BY <1>1 DEF Attempt
  <1> HIDE DEF b
  <1>3. AttemptOK(b)
    BY <1>1, <1>2 DEF AttemptOK, Runs, HashKey
  <1> QED BY <1>1, <1>2, <1>3 DEF b, f

\* A receipt's payment is used afterwards, if what was known as its payment is.
LEMMA ReceiptsAfter ==
  ASSUME bound' = bound,
         \A v \in Attempts : att'[v].result = "receipt" =>
           \E p \in Payments : /\ att'[v].pay = p /\ att'[v].ch \in Challenges
                              /\ bound[p] = att'[v].ch /\ Used(p)'
  PROVE  ReceiptsAreUsed'
  <1> SUFFICES ASSUME NEW v \in Attempts, att'[v].result = "receipt"
               PROVE  /\ att'[v].pay \in Payments /\ att'[v].ch \in Challenges
                      /\ Bound(v)' /\ Used(att[v].pay)'
    BY DEF ReceiptsAreUsed
  <1>1. PICK p \in Payments : /\ att'[v].pay = p /\ att'[v].ch \in Challenges
                             /\ bound[p] = att'[v].ch /\ Used(p)'
    OBVIOUS
  <1>2. Used(att[v].pay)'
    BY <1>1, Zenon DEF Used, KeyOf
  <1> QED BY <1>1, <1>2 DEF Bound

\* What the invariant says of an attempt does not depend on who overlaps with it.
Same(a, b) ==
  /\ a.pc = b.pc /\ a.pay = b.pay /\ a.ch = b.ch /\ a.kind = b.kind /\ a.env = b.env
  /\ a.lag = b.lag /\ a.held = b.held /\ a.result = b.result

LEMMA SameOK ==
  ASSUME NEW a, NEW b, Same(a, b), AttemptOK(a)
  PROVE  AttemptOK(b)
  BY DEF Same, AttemptOK, Runs, HashKey

-----------------------------------------------------------------------------
(* What a step of an attempt must respect.                                  *)

\* A payment that was used stays used.
LEMMA UsedStays ==
  ASSUME RailsInv, NEW w \in Attempts, NEW p \in Payments, Used(p),
         UNCHANGED <<now, rail, forgotten, bound>>,
         chain[p] = "paid" => chain'[p] = "paid" /\ envs'[p] = envs[p],
         \A v \in Attempts \ {w} : att'[v].held = att[v].held,
         \A k \in keys \ keys' : k \in att[w].held \/ k.of = "claim",
         att'[w].held \cap keys \subseteq att[w].held
  PROVE  Used(p)'
  <1>1. rail # "proof" => chain[p] = "paid" /\ chain'[p] = "paid" /\ envs'[p] = envs[p]
    BY DEF Used
  <1>2. ASSUME rail \in {"pull", "hosted"}
        PROVE  \E e \in envs'[p] : KeyOf(p, e) \in keys' /\ \A v \in Attempts : KeyOf(p, e) \notin att'[v].held
    <2>1. PICK e \in envs[p] : KeyOf(p, e) \in keys /\ \A v \in Attempts : KeyOf(p, e) \notin att[v].held
      BY <1>2 DEF Used
    <2>2. KeyOf(p, e) \in keys'
      BY <2>1 DEF KeyOf
    <2>3. \A v \in Attempts : KeyOf(p, e) \notin att'[v].held
      BY <2>1
    <2> QED BY <1>1, <1>2, <2>1, <2>2, <2>3
  <1>3. ASSUME rail = "proof"
        PROVE  \/ [of |-> "proof", id |-> bound[p]] \in keys'
               \/ now >= Expires[bound[p]] + ProofGrace
    <2>1. \A k \in att[w].held : k.of # "proof"
      BY DEF RailsInv, RailsTypeOK, Attempt
    <2> QED BY <1>3, <2>1 DEF Used
  <1> QED BY <1>1, <1>2, <1>3 DEF Used, KeyOf

\* A step of attempt w that keeps its own part of the invariant, takes only keys
\* that are free, gives back only its own, or claims of an authorization, and is
\* answered with a receipt only for a payment that nobody used.
LEMMA AttemptKeeps ==
  ASSUME RailsInv, NEW w \in Attempts, RailsTypeOK', UNCHANGED <<now, rail, forgotten, bound>>,
         \A v \in Attempts \ {w} : Same(att[v], att'[v]),
         AttemptOK(att'[w]),
         OneIncluded',
         \A p \in Payments : chain[p] = "paid" => chain'[p] = "paid" /\ envs'[p] = envs[p],
         att'[w].held \subseteq keys', att'[w].held \cap keys \subseteq att[w].held,
         \A k \in keys \ keys' : k \in att[w].held \/ k.of = "claim",
         att'[w].result = "receipt" =>
           \E p \in Payments :
             /\ att'[w].pay = p /\ att'[w].ch \in Challenges
             /\ bound[p] = att'[w].ch /\ Used(p)'
             /\ \A v \in Attempts : att[v].result = "receipt" => att[v].pay # p
  PROVE  RailsInv'
  <1>1. \A v \in Attempts : AttemptOK(att'[v])
    BY SameOK DEF RailsInv
  <1>2. \A v \in Attempts : AttemptOK(att[v])'
    BY <1>1 DEF AttemptOK, Runs, HashKey, KindsOf
  <1>3. \A v \in Attempts \ {w} : att'[v].held = att[v].held /\ att'[v].result = att[v].result
           /\ att'[v].pay = att[v].pay /\ att'[v].ch = att[v].ch
    BY DEF Same
  <1>4. HeldOnce'
    <2>1. \A v \in Attempts \ {w} : att[v].held \subseteq keys'
      <3>1. \A v \in Attempts : \A k \in att[v].held : k.of # "claim"
        BY DEF RailsInv, RailsTypeOK, Attempt
      <3> QED BY <3>1 DEF RailsInv, HeldOnce
    <2>2. \A v \in Attempts \ {w} : att[v].held \cap att'[w].held = {}
      BY DEF RailsInv, HeldOnce
    <2> QED BY <1>3, <2>1, <2>2 DEF RailsInv, HeldOnce
  <1>5. \A p \in Payments : Used(p) => Used(p)'
    BY <1>3, UsedStays
  <1>6. ReceiptsAreUsed'
    <2>1. SUFFICES ASSUME NEW v \in Attempts, att'[v].result = "receipt"
                   PROVE  \E p \in Payments : /\ att'[v].pay = p /\ att'[v].ch \in Challenges
                                              /\ bound[p] = att'[v].ch /\ Used(p)'
      BY ReceiptsAfter
    <2>2. CASE v = w
      BY <2>1, <2>2
    <2>3. CASE v # w
      <3>1. /\ att[v].pay \in Payments /\ att[v].ch \in Challenges
            /\ bound[att[v].pay] = att[v].ch /\ Used(att[v].pay)
        BY <1>3, <2>1, <2>3 DEF RailsInv, ReceiptsAreUsed, Bound
      <3> QED BY <1>3, <1>5, <2>3, <3>1
    <2> QED BY <2>2, <2>3
  <1>7. PaymentUsedOnce'
    BY <1>3 DEF RailsInv, PaymentUsedOnce
  <1> QED BY <1>2, <1>4, <1>6, <1>7 DEF RailsInv

\* An attempt that sees another one begin for its payment.
LEMMA OverlapFields ==
  ASSUME NEW a \in Attempt
  PROVE  LET b == [a EXCEPT !.overlapped = TRUE] IN b \in Attempt /\ Same(a, b)
  BY DEF Attempt, Same

Envs == Envelopes \cup {"own", "none"}

\* A step to a record that is not a receipt, with no keys but those it had.
LEMMA MovesKeep ==
  ASSUME RailsInv, NEW w \in Attempts, NEW a \in Attempt, Becomes(w, a), AttemptOK(a),
         a.held \subseteq att[w].held, a.result # "receipt",
         UNCHANGED <<now, rail, forgotten, bound, until, chain, envs, keys>>,
         marker' \in [Payments -> Envs]
  PROVE  RailsInv'
  <1>1. /\ att'[w] = a /\ att' \in [Attempts -> Attempt]
        /\ \A v \in Attempts \ {w} : att'[v] = att[v]
    BY DEF Becomes, RailsInv, RailsTypeOK
  <1>2. RailsTypeOK'
    BY <1>1 DEF RailsInv, RailsTypeOK, Envs
  <1>3. OneIncluded'
    BY DEF RailsInv, OneIncluded
  <1>4. \A v \in Attempts \ {w} : Same(att[v], att'[v])
    BY <1>1 DEF Same
  <1>5. a.held \subseteq keys
    BY DEF RailsInv, HeldOnce
  <1> HIDE DEF RailsInv, Becomes
  <1> QED BY <1>1, <1>2, <1>3, <1>4, <1>5, AttemptKeeps

LEMMA AnswersKeep ==
  ASSUME RailsInv, NEW w \in Attempts, NEW result \in Results, result # "receipt",
         Becomes(w, Answers(att[w], result)),
         UNCHANGED <<now, rail, forgotten, bound, until, chain, envs, keys>>,
         marker' \in [Payments -> Envs]
  PROVE  RailsInv'
  <1>1. att[w] \in Attempt
    BY DEF RailsInv, RailsTypeOK
  <1> QED BY <1>1, AnswersFields, MovesKeep

LEMMA FailsKeep ==
  ASSUME RailsInv, NEW w \in Attempts, NEW result \in Results, result # "receipt",
         att[w].pc \notin {"idle", "done"}, Becomes(w, Fails(att[w], result)),
         UNCHANGED <<now, rail, forgotten, bound, until, chain, envs, keys>>,
         marker' \in [Payments -> Envs]
  PROVE  RailsInv'
  <1>1. att[w] \in Attempt /\ AttemptOK(att[w])
    BY DEF RailsInv, RailsTypeOK
  <1> QED BY <1>1, FailsFields, MovesKeep

LEMMA FailsUnknownKeep ==
  ASSUME RailsInv, NEW w \in Attempts, NEW result \in Results, result # "receipt",
         att[w].pc \notin {"idle", "done"}, NEW u \in BOOLEAN,
         Becomes(w, [Fails(att[w], result) EXCEPT !.unknown = u]),
         UNCHANGED <<now, rail, forgotten, bound, until, chain, envs, keys>>,
         marker' \in [Payments -> Envs]
  PROVE  RailsInv'
  <1> DEFINE b == [Fails(att[w], result) EXCEPT !.unknown = u]
  <1>1. att[w] \in Attempt /\ AttemptOK(att[w])
    BY DEF RailsInv, RailsTypeOK
  <1>2. b \in Attempt /\ AttemptOK(b) /\ b.held = att[w].held /\ b.result = result
    BY <1>1, FailsUnknownFields
  <1> HIDE DEF b
  <1> QED BY <1>2, MovesKeep DEF b

\* A running attempt that only moves on.
LEMMA StageFields ==
  ASSUME NEW a \in Attempt, NEW pc \in Stages
  PROVE  LET b == [a EXCEPT !.pc = pc]
         IN /\ b \in Attempt /\ b.pc = pc /\ b.pay = a.pay /\ b.ch = a.ch /\ b.kind = a.kind
            /\ b.env = a.env /\ b.lag = a.lag /\ b.held = a.held /\ b.result = a.result
  BY DEF Attempt

LEMMA StageKeeps ==
  ASSUME RailsInv, NEW w \in Attempts, att[w].pc \notin {"idle", "done"},
         NEW pc \in Stages \ {"idle", "done"}, Becomes(w, [att[w] EXCEPT !.pc = pc]),
         UNCHANGED <<now, rail, forgotten, bound, until, chain, envs, keys>>,
         marker' \in [Payments -> Envs],
         pc \in TempoStages => att[w].kind \in {"pull", "hosted"},
         pc = "verifying" => att[w].kind = "push",
         pc = "claimingProof" => att[w].kind = "proof",
         pc \in {"asking", "settling"} => att[w].kind \in Evm,
         pc = "creating" => att[w].kind = "stripe",
         pc \notin {"received", "unmarking", "unclaiming"} =>
           att[w].kind = "push" \/ bound[att[w].pay] = att[w].ch,
         pc \in HashStages => HashKey(att[w]) \in att[w].held
  PROVE  RailsInv'
  <1> DEFINE a == att[w]
             b == [a EXCEPT !.pc = pc]
  <1>1. a \in Attempt /\ a.result # "receipt" /\ Runs(a)
    BY DEF RailsInv, RailsTypeOK, AttemptOK
  <1>2. /\ b \in Attempt /\ b.pc = pc /\ b.pay = a.pay /\ b.ch = a.ch /\ b.kind = a.kind
        /\ b.env = a.env /\ b.lag = a.lag /\ b.held = a.held /\ b.result = a.result
    BY <1>1, StageFields
  <1> HIDE DEF b
  <1>3. Runs(b)
    BY <1>1, <1>2 DEF Runs, HashKey
  <1>4. AttemptOK(b)
    BY <1>1, <1>2, <1>3 DEF AttemptOK
  <1>5. Becomes(w, b)
    BY DEF b
  <1> QED BY <1>1, <1>2, <1>4, <1>5, MovesKeep

\* What the invariant says of a running attempt.
LEMMA RunningFacts ==
  ASSUME RailsInv, NEW w \in Attempts, att[w].pc \notin {"idle", "done"}
  PROVE  /\ att[w] \in Attempt /\ AttemptOK(att[w]) /\ Runs(att[w]) /\ att[w].result # "receipt"
         /\ att[w].result \in Results
         /\ att[w].held \subseteq keys /\ marker \in [Payments -> Envs]
  BY DEF RailsInv, RailsTypeOK, AttemptOK, HeldOnce, Attempt, Results, Envs

-----------------------------------------------------------------------------
(* The steps of a request.                                                  *)

LEMMA ReceiveKeeps ==
  ASSUME RailsInv, NEW w \in Attempts, NEW p \in Payments, NEW c \in Challenges,
         NEW k \in KindsOf(rail), RailsAssumption, Receive(w, p, c, k)
  PROVE  RailsInv'
  <1> DEFINE others == {v \in Attempts : Running(v) /\ att[v].pay = p}
             o == others # {}
  <1>1. PICK lag \in 0 .. (IF k = "proof" THEN MaxLag ELSE 0),
             e \in (IF k = "hosted" THEN {"none"} ELSE IF k = "push" /\ rail = "hosted"
                    THEN Envelopes \cup {"own"} ELSE {"own"}) :
          att' = [v \in Attempts |->
            IF v = w THEN [Idle EXCEPT !.pc = "received", !.pay = p, !.ch = c, !.kind = k,
                             !.env = e, !.lag = lag, !.overlapped = o]
            ELSE IF v \in others THEN [att[v] EXCEPT !.overlapped = TRUE] ELSE att[v]]
    BY DEF Receive
  <1> DEFINE a == [Idle EXCEPT !.pc = "received", !.pay = p, !.ch = c, !.kind = k,
                     !.env = e, !.lag = lag, !.overlapped = o]
  <1>2. UNCHANGED <<now, rail, forgotten, bound, until, chain, envs, keys, marker>>
        /\ (k = "stripe" => bound[p] = c)
    BY DEF Receive, terms, world, store
  <1>3. lag \in Nat /\ (k = "proof" => lag <= MaxLag) /\ e \in Envs /\ k \in Kinds
    BY DEF RailsAssumption, Envs, KindsOf, Kinds, RailsInv, RailsTypeOK
  <1>4. "received" \in Stages /\ o \in BOOLEAN
    BY DEF Stages
  <1> HIDE DEF others, o
  <1>5. /\ a \in Attempt /\ a.pc = "received" /\ a.pay = p /\ a.ch = c /\ a.kind = k
        /\ a.lag = lag /\ a.held = {} /\ a.result = "none"
    BY <1>3, <1>4, IdleFields DEF Attempt, Envs
  <1> HIDE DEF a
  <1>6. AttemptOK(a)
    BY <1>2, <1>3, <1>5 DEF AttemptOK, Runs, TempoStages, HashStages
  <1>7. att'[w] = a
    BY <1>1 DEF a
  <1>8. \A v \in Attempts \ {w} : att'[v] \in Attempt /\ Same(att[v], att'[v])
    <2>1. SUFFICES ASSUME NEW v \in Attempts \ {w} PROVE att'[v] \in Attempt /\ Same(att[v], att'[v])
      OBVIOUS
    <2>2. att'[v] = [att[v] EXCEPT !.overlapped = TRUE] \/ att'[v] = att[v]
      BY <1>1
    <2>3. att[v] \in Attempt
      BY DEF RailsInv, RailsTypeOK
    <2>4. LET x == [att[v] EXCEPT !.overlapped = TRUE] IN x \in Attempt /\ Same(att[v], x)
      BY <2>3, OverlapFields
    <2> QED BY <2>2, <2>3, <2>4 DEF Same
  <1>9. att' \in [Attempts -> Attempt]
    BY <1>1, <1>5, <1>7, <1>8
  <1>10. RailsTypeOK' /\ OneIncluded'
    BY <1>2, <1>9 DEF RailsInv, RailsTypeOK, OneIncluded
  <1> QED BY <1>2, <1>5, <1>6, <1>7, <1>8, <1>10, AttemptKeeps

LEMMA RequestsKeep ==
  ASSUME RailsInv, NEW w \in Attempts,
         RefuseExpired(w) \/ InternalError(w) \/ Cancel(w) \/ Crash(w)
  PROVE  RailsInv'
  <1>1. /\ att[w].pc \notin {"idle", "done"}
        /\ UNCHANGED <<now, rail, forgotten, bound, until, chain, envs, keys, marker>>
    BY DEF RefuseExpired, InternalError, Cancel, Crash, Running, terms, world, store
  <1>2. marker' \in [Payments -> Envs]
    BY <1>1, RunningFacts
  <1>3. \/ \E result \in {"challenge", "none"} : Becomes(w, Answers(att[w], result))
        \/ \E result \in {"error", "none"} : Becomes(w, Fails(att[w], result))
    BY DEF RefuseExpired, InternalError, Cancel, Crash
  <1> QED BY <1>1, <1>2, <1>3, AnswersKeep, FailsKeep DEF Results

-----------------------------------------------------------------------------
(* Tempo transactions.                                                      *)

LEMMA ValidatePullKeeps ==
  ASSUME RailsInv, NEW w \in Attempts, ValidatePull(w) PROVE RailsInv'
  <1>1. /\ att[w].pc = "received" /\ att[w].kind \in {"pull", "hosted"}
        /\ UNCHANGED <<now, rail, forgotten, bound, until, chain, envs, keys, marker>>
    BY DEF ValidatePull, At, Is, terms, world, store
  <1>2. marker' \in [Payments -> Envs]
    BY <1>1, RunningFacts
  <1>3. CASE bound[att[w].pay] = att[w].ch
    <2>1. Becomes(w, [att[w] EXCEPT !.pc = "validated"])
      BY <1>3 DEF ValidatePull, Bound
    <2> QED BY <1>1, <1>2, <1>3, <2>1, StageKeeps DEF Stages, TempoStages, HashStages
  <1>4. CASE Becomes(w, Answers(att[w], "replayed"))
    BY <1>1, <1>2, <1>4, AnswersKeep DEF Results
  <1> QED BY <1>3, <1>4 DEF ValidatePull, Bound

LEMMA BroadcastPullKeeps ==
  ASSUME RailsInv, NEW w \in Attempts, BroadcastPull(w) PROVE RailsInv'
  <1>1. /\ att[w].pc = "validated" /\ att[w].kind \in {"pull", "hosted"}
        /\ UNCHANGED <<now, rail, forgotten, bound, until, chain, envs, keys, marker>>
    BY DEF BroadcastPull, At, Is, terms, world, store
  <1>2. marker' \in [Payments -> Envs] /\ bound[att[w].pay] = att[w].ch
    BY <1>1, RunningFacts DEF Runs
  <1>3. PICK pc \in {"looking", "claiming"} : Becomes(w, [att[w] EXCEPT !.pc = pc])
    BY DEF BroadcastPull, Moves
  <1> QED BY <1>1, <1>2, <1>3, StageKeeps DEF Stages, TempoStages, HashStages

\* To the claim of the keys, with the envelope to submit.
LEMMA ToClaimingKeeps ==
  ASSUME RailsInv, NEW w \in Attempts, att[w].pc \in {"looking", "filling"},
         NEW e \in Envs, NEW r \in BOOLEAN,
         Becomes(w, [att[w] EXCEPT !.pc = "claiming", !.env = e, !.reconciling = r]),
         UNCHANGED <<now, rail, forgotten, bound, until, chain, envs, keys, marker>>
  PROVE  RailsInv'
  <1> DEFINE a == att[w]
             b == [a EXCEPT !.pc = "claiming", !.env = e, !.reconciling = r]
  <1>1. a \in Attempt /\ Runs(a) /\ a.result # "receipt" /\ marker \in [Payments -> Envs]
    BY RunningFacts
  <1>2. "claiming" \in Stages
    BY DEF Stages, TempoStages
  <1>3. /\ b \in Attempt /\ b.pc = "claiming" /\ b.pay = a.pay /\ b.ch = a.ch
        /\ b.kind = a.kind /\ b.lag = a.lag /\ b.held = a.held /\ b.result = a.result
    BY <1>1, <1>2 DEF Attempt, Envs
  <1> HIDE DEF b
  <1>4. Runs(b)
    BY <1>1, <1>3 DEF Runs, TempoStages, HashStages
  <1>5. AttemptOK(b) /\ Becomes(w, b)
    BY <1>1, <1>3, <1>4 DEF AttemptOK, b
  <1> QED BY <1>1, <1>3, <1>5, MovesKeep

LEMMA LookUpHostedKeeps ==
  ASSUME RailsInv, NEW w \in Attempts, LookUpHosted(w) PROVE RailsInv'
  <1>1. /\ att[w].pc = "looking"
        /\ UNCHANGED <<now, rail, forgotten, bound, until, chain, envs, keys, marker>>
    BY DEF LookUpHosted, At, terms, world, store
  <1>2. /\ marker' \in [Payments -> Envs] /\ Runs(att[w]) /\ Prior(w) \in Envs
    BY <1>1, RunningFacts DEF Prior, Runs
  <1>3. CASE Becomes(w, Answers(att[w], "replayed"))
    BY <1>1, <1>2, <1>3, AnswersKeep DEF Results
  <1>4. CASE Becomes(w, [att[w] EXCEPT !.pc = "claiming", !.env = Prior(w), !.reconciling = TRUE])
    BY <1>1, <1>2, <1>4, ToClaimingKeeps
  <1>5. CASE Becomes(w, [att[w] EXCEPT !.pc = "filling"])
    BY <1>1, <1>2, <1>5, StageKeeps DEF Stages, TempoStages, HashStages, Runs
  <1> QED BY <1>3, <1>4, <1>5 DEF LookUpHosted, Moves

LEMMA FillHostedKeeps ==
  ASSUME RailsInv, NEW w \in Attempts, FillHosted(w) PROVE RailsInv'
  <1>1. /\ att[w].pc = "filling"
        /\ UNCHANGED <<now, rail, forgotten, bound, until, chain, envs, keys, marker>>
    BY DEF FillHosted, At, terms, world, store
  <1>2. marker' \in [Payments -> Envs] /\ att[w] \in Attempt
    BY <1>1, RunningFacts
  <1>3. CASE \E result \in {"challenge", "error"} : Becomes(w, Answers(att[w], result))
    BY <1>1, <1>2, <1>3, AnswersKeep DEF Results
  <1>4. ASSUME NEW e \in Envelopes, Becomes(w, HostedEnvelope(att[w], e)) PROVE RailsInv'
    <2>1. /\ att[w].reconciling \in BOOLEAN /\ e \in Envs
          /\ HostedEnvelope(att[w], e)
               = [att[w] EXCEPT !.pc = "claiming", !.env = e, !.reconciling = att[w].reconciling]
      BY <1>2 DEF HostedEnvelope, Envs, Attempt
    <2>2. Becomes(w, [att[w] EXCEPT !.pc = "claiming", !.env = e, !.reconciling = att[w].reconciling])
      BY <1>4, <2>1
    <2> HIDE DEF Becomes
    <2> QED BY <1>1, <2>1, <2>2, ToClaimingKeeps
  <1> QED BY <1>3, <1>4 DEF FillHosted

\* A step to a record that takes a free key.
LEMMA TakesKeep ==
  ASSUME RailsInv, NEW w \in Attempts, NEW key, key \notin keys, keys' = keys \cup {key},
         NEW a \in Attempt, Becomes(w, a), AttemptOK(a), a.held \subseteq att[w].held \cup {key},
         a.result # "receipt",
         UNCHANGED <<now, rail, forgotten, bound, until, chain, envs, marker>>
  PROVE  RailsInv'
  <1>1. /\ att'[w] = a /\ att' \in [Attempts -> Attempt]
        /\ \A v \in Attempts \ {w} : att'[v] = att[v]
    BY DEF Becomes, RailsInv, RailsTypeOK
  <1>2. RailsTypeOK' /\ OneIncluded'
    BY <1>1 DEF RailsInv, RailsTypeOK, OneIncluded
  <1>3. \A v \in Attempts \ {w} : Same(att[v], att'[v])
    BY <1>1 DEF Same
  <1>4. att[w].held \subseteq keys
    BY DEF RailsInv, HeldOnce
  <1> HIDE DEF RailsInv, Becomes
  <1> QED BY <1>1, <1>2, <1>3, <1>4, AttemptKeeps

Key == [of : {"client", "hash"}, id : Payments \cup (Payments \X Envs)]

LEMMA KeyTypes ==
  ASSUME NEW a \in Attempt, a.pay \in Payments
  PROVE  ClientKey(a) \in Key /\ HashKey(a) \in Key
  BY DEF ClientKey, HashKey, Key, Attempt, Envs

LEMMA ClaimKeeps ==
  ASSUME RailsInv, NEW w \in Attempts, Claim(w) PROVE RailsInv'
  <1> DEFINE a == att[w]
             key == NextKey(a)
             held == a.held \cup {key}
  <1>1. a.pc = "claiming" /\ UNCHANGED <<now, rail, forgotten, bound, until, chain, envs, marker>>
    BY DEF Claim, At, terms, world
  <1>2. /\ a \in Attempt /\ Runs(a) /\ a.result # "receipt" /\ marker' \in [Payments -> Envs]
        /\ a.pay \in Payments /\ a.kind \in {"pull", "hosted"} /\ bound[a.pay] = a.ch
    BY <1>1, RunningFacts DEF Runs, TempoStages
  <1>3. CASE key \in keys
    <2>1. Becomes(w, Fails(a, "replayed")) /\ UNCHANGED keys
      BY <1>3 DEF Claim
    <2> QED BY <1>1, <1>2, <2>1, FailsKeep DEF Results
  <1>4. CASE key \notin keys
    <2>1. PICK pc \in {"claiming", "reconciling", "preflight", "ready"} :
            /\ keys' = keys \cup {key} /\ Becomes(w, [a EXCEPT !.held = held, !.pc = pc])
            /\ pc # "claiming" => held = KeysOf(a)
      BY <1>4 DEF Claim
    <2> DEFINE b == [a EXCEPT !.held = held, !.pc = pc]
    <2>2. pc \in Stages /\ key \in Key
      BY <1>2, KeyTypes DEF Stages, TempoStages, NextKey
    <2>3. a.held \in SUBSET Key /\ held \in SUBSET Key
      BY <1>2, <2>2 DEF Attempt, Key, Envs
    <2> HIDE DEF held, key
    <2>4. /\ b \in Attempt /\ b.pc = pc /\ b.pay = a.pay /\ b.ch = a.ch /\ b.env = a.env
          /\ b.kind = a.kind /\ b.lag = a.lag /\ b.held = held /\ b.result = a.result
      BY <1>2, <2>2, <2>3 DEF Attempt, Key, Envs
    <2> HIDE DEF b
    <2>5. pc # "claiming" => HashKey(b) \in b.held
      BY <2>1, <2>4 DEF KeysOf, HashKey
    <2>6. Runs(b)
      BY <1>1, <1>2, <2>4, <2>5 DEF Runs, TempoStages, HashStages
    <2>7. AttemptOK(b) /\ Becomes(w, b)
      BY <1>2, <2>1, <2>4, <2>6 DEF AttemptOK, b
    <2>8. b.held \subseteq a.held \cup {key}
      BY <2>4 DEF held
    <2> QED BY <1>1, <1>2, <1>4, <2>1, <2>4, <2>7, <2>8, TakesKeep
  <1> QED BY <1>3, <1>4

LEMMA PreflightKeeps ==
  ASSUME RailsInv, NEW w \in Attempts, Preflight(w) PROVE RailsInv'
  <1>1. /\ att[w].pc = "preflight"
        /\ UNCHANGED <<now, rail, forgotten, bound, until, chain, envs, keys, marker>>
    BY DEF Preflight, At, terms, world, store
  <1>2. marker' \in [Payments -> Envs] /\ Runs(att[w])
    BY <1>1, RunningFacts
  <1>3. CASE Becomes(w, [att[w] EXCEPT !.pc = "marking"])
    BY <1>1, <1>2, <1>3, StageKeeps DEF Stages, TempoStages, HashStages, Runs
  <1>4. CASE \E result \in {"error", "challenge"} : Becomes(w, Fails(att[w], result))
    BY <1>1, <1>2, <1>4, FailsKeep DEF Results
  <1> QED BY <1>3, <1>4 DEF Preflight, Moves, Refusal

LEMMA MarkKeeps ==
  ASSUME RailsInv, NEW w \in Attempts, Mark(w) PROVE RailsInv'
  <1> DEFINE a == att[w]
             b == [a EXCEPT !.pc = "ready", !.marked = TRUE]
  <1>1. a.pc = "marking" /\ UNCHANGED <<now, rail, forgotten, bound, until, chain, envs, keys>>
    BY DEF Mark, At, terms, world
  <1>2. /\ a \in Attempt /\ Runs(a) /\ a.result # "receipt" /\ marker \in [Payments -> Envs]
        /\ a.env \in Envs
    BY <1>1, RunningFacts DEF Attempt, Envs
  <1>3. CASE Becomes(w, b) /\ marker' = [marker EXCEPT ![a.pay] = a.env]
    <2>1. "ready" \in Stages
      BY DEF Stages, TempoStages
    <2>2. /\ b \in Attempt /\ b.pc = "ready" /\ b.pay = a.pay /\ b.ch = a.ch /\ b.env = a.env
          /\ b.kind = a.kind /\ b.lag = a.lag /\ b.held = a.held /\ b.result = a.result
      BY <1>2, <2>1 DEF Attempt
    <2> HIDE DEF b
    <2>3. Runs(b)
      BY <1>1, <1>2, <2>2 DEF Runs, TempoStages, HashStages, HashKey
    <2>4. AttemptOK(b) /\ marker' \in [Payments -> Envs]
      BY <1>2, <1>3, <2>2, <2>3 DEF AttemptOK
    <2> QED BY <1>1, <1>2, <1>3, <2>2, <2>4, MovesKeep
  <1>4. CASE Becomes(w, Fails(a, "error")) /\ UNCHANGED marker
    BY <1>1, <1>2, <1>4, FailsKeep DEF Results
  <1> QED BY <1>3, <1>4 DEF Mark, MarkOnce

\* A receipt for a transaction that was included and whose hash the attempt reserved:
\* nobody else holds that key, and a payment that was used would have given it away.
LEMMA ReceiptKeeps ==
  ASSUME RailsAssumption, RailsInv, NEW w \in Attempts, att[w].pc \in HashStages,
         bound[att[w].pay] = att[w].ch,
         chain[att[w].pay] = "paid", att[w].env \in envs[att[w].pay],
         Becomes(w, Answers(att[w], "receipt")),
         UNCHANGED <<now, rail, forgotten, bound, until, chain, envs, keys>>,
         marker' \in [Payments -> Envs]
  PROVE  RailsInv'
  <1> DEFINE a == att[w]
             p == a.pay
             b == Answers(a, "receipt")
  <1>1. a.pc \notin {"idle", "done"}
    BY DEF HashStages, TempoStages
  <1>2. /\ a \in Attempt /\ Runs(a) /\ p \in Payments /\ a.ch \in Challenges
        /\ HashKey(a) \in a.held /\ a.held \subseteq keys
    BY <1>1, RunningFacts DEF Runs
  <1>3. a.kind \in {"pull", "hosted", "push"} /\ a.kind \in KindsOf(rail)
    BY <1>2 DEF Runs, HashStages
  <1>4. rail \in {"pull", "hosted"}
    BY <1>3 DEF KindsOf, RailsAssumption, RailsInv, RailsTypeOK
  <1>5. HashKey(a) = KeyOf(p, a.env)
    BY DEF HashKey, KeyOf
  <1>6. \A v \in Attempts : att[v].result = "receipt" => att[v].pay # p
    <2>1. SUFFICES ASSUME Used(p) PROVE FALSE
      BY DEF RailsInv, ReceiptsAreUsed
    <2>2. PICK e \in envs[p] : \A v \in Attempts : KeyOf(p, e) \notin att[v].held
      BY <1>4, <2>1 DEF Used
    <2>3. e = a.env
      BY <1>2, <2>2 DEF RailsInv, OneIncluded
    <2> QED BY <1>2, <1>5, <2>2, <2>3
  <1>7. /\ b \in Attempt /\ AttemptOK(b) /\ b.held = {} /\ b.pay = p /\ b.ch = a.ch
    BY <1>2, AnswersFields DEF Results
  <1> HIDE DEF b
  <1>8. /\ att'[w] = b /\ att' \in [Attempts -> Attempt]
        /\ \A v \in Attempts \ {w} : att'[v] = att[v]
    BY <1>7 DEF Becomes, RailsInv, RailsTypeOK, b
  <1>9. RailsTypeOK' /\ OneIncluded'
    BY <1>8 DEF RailsInv, RailsTypeOK, OneIncluded, Envs
  <1>10. \A v \in Attempts : KeyOf(p, a.env) \notin att'[v].held
    BY <1>2, <1>5, <1>7, <1>8 DEF RailsInv, HeldOnce
  <1>11. PICK q \in Payments : q = p
    BY <1>2
  <1>12. Used(q)'
    <2>1. KeyOf(q, a.env) \in keys' /\ \A v \in Attempts : KeyOf(q, a.env) \notin att'[v].held
      BY <1>2, <1>5, <1>10, <1>11
    <2>2. chain'[q] = "paid" /\ a.env \in envs'[q] /\ rail' \in {"pull", "hosted"}
      BY <1>4, <1>11
    <2> HIDE DEF a
    <2> QED BY <2>1, <2>2 DEF Used, KeyOf
  <1>13. \A v \in Attempts \ {w} : Same(att[v], att'[v])
    BY <1>8 DEF Same
  <1> QED BY <1>2, <1>6, <1>7, <1>8, <1>9, <1>11, <1>12, <1>13, AttemptKeeps

LEMMA ReconcileKeeps ==
  ASSUME RailsAssumption, RailsInv, NEW w \in Attempts, Reconcile(w) PROVE RailsInv'
  <1> DEFINE a == att[w]
             p == a.pay
  <1>1. a.pc = "reconciling" /\ UNCHANGED <<now, rail, forgotten, bound, until, chain, envs, keys>>
    BY DEF Reconcile, At, terms, world
  <1>2. /\ a.pc \notin {"idle", "done"} /\ a.pc \in HashStages /\ a.pc \in TempoStages
        /\ Runs(a) /\ marker \in [Payments -> Envs]
    BY <1>1, RunningFacts DEF HashStages, TempoStages
  <1>3. p \in Payments /\ bound[p] = a.ch /\ HashKey(a) \in a.held /\ a.kind \in {"pull", "hosted"}
    BY <1>1, <1>2 DEF Runs
  <1>4. marker' \in [Payments -> Envs]
    BY <1>2, <1>3 DEF Reconcile, Envs
  <1>5. \/ chain[p] = "paid" /\ a.env \in envs[p] /\ Becomes(w, Answers(a, "receipt"))
        \/ \E result \in {"error", "challenge"} : Becomes(w, Fails(a, result))
        \/ Becomes(w, [a EXCEPT !.pc = "ready"])
    BY DEF Reconcile, Moves, Refusal
  <1>6. CASE chain[p] = "paid" /\ a.env \in envs[p] /\ Becomes(w, Answers(a, "receipt"))
    BY <1>1, <1>2, <1>3, <1>4, <1>6, ReceiptKeeps
  <1>7. CASE \E result \in {"error", "challenge"} : Becomes(w, Fails(a, result))
    BY <1>1, <1>2, <1>4, <1>7, FailsKeep DEF Results
  <1>8. CASE Becomes(w, [a EXCEPT !.pc = "ready"])
    BY <1>1, <1>2, <1>3, <1>4, <1>8, StageKeeps DEF Stages, TempoStages, HashStages
  <1> QED BY <1>5, <1>6, <1>7, <1>8

LEMMA AuthorizeKeeps ==
  ASSUME RailsInv, NEW w \in Attempts, Authorize(w) PROVE RailsInv'
  <1> DEFINE a == att[w]
             b == [a EXCEPT !.pc = "sending", !.sent = TRUE, !.unknown = TRUE]
  <1>1. a.pc = "ready" /\ UNCHANGED <<now, rail, forgotten, bound, until, chain, envs, keys, marker>>
    BY DEF Authorize, At, terms, world, store
  <1>2. /\ a.pc \notin {"idle", "done"} /\ a \in Attempt /\ Runs(a) /\ a.result # "receipt"
        /\ marker' \in [Payments -> Envs] /\ HashKey(a) \in a.held
    BY <1>1, RunningFacts DEF Runs, HashStages, TempoStages
  <1>3. CASE Becomes(w, b)
    <2>1. "sending" \in Stages
      BY DEF Stages, TempoStages
    <2>2. /\ b \in Attempt /\ b.pc = "sending" /\ b.pay = a.pay /\ b.ch = a.ch /\ b.env = a.env
          /\ b.kind = a.kind /\ b.lag = a.lag /\ b.held = a.held /\ b.result = a.result
      BY <1>2, <2>1 DEF Attempt
    <2> HIDE DEF b
    <2>3. Runs(b)
      BY <1>1, <1>2, <2>2 DEF Runs, TempoStages, HashStages, HashKey
    <2>4. AttemptOK(b)
      BY <1>2, <2>2, <2>3 DEF AttemptOK
    <2> QED BY <1>1, <1>2, <1>3, <2>2, <2>4, MovesKeep
  <1>4. CASE \E result \in {"error", "challenge"} : Becomes(w, Fails(a, result))
    BY <1>1, <1>2, <1>4, FailsKeep DEF Results
  <1> QED BY <1>3, <1>4 DEF Authorize

LEMMA SendKeeps ==
  ASSUME RailsInv, NEW w \in Attempts, Send(w) PROVE RailsInv'
  <1> DEFINE a == att[w]
             b == [a EXCEPT !.pc = "sent"]
  <1>1. a.pc = "sending" /\ UNCHANGED <<now, rail, forgotten, bound, until, keys, marker>> /\ Becomes(w, b)
    BY DEF Send, At, Moves, terms, store
  <1>2. /\ a.pc \notin {"idle", "done"} /\ a \in Attempt /\ Runs(a) /\ a.result # "receipt"
        /\ HashKey(a) \in a.held /\ a.held \subseteq keys /\ a.kind \in {"pull", "hosted"}
        /\ a.env \in Envs /\ bound[a.pay] = a.ch
    BY <1>1, RunningFacts DEF Runs, HashStages, TempoStages, Attempt, Envs
  <1>3. "sent" \in Stages
    BY DEF Stages, TempoStages
  <1>4. /\ b \in Attempt /\ b.pc = "sent" /\ b.pay = a.pay /\ b.ch = a.ch /\ b.env = a.env
        /\ b.kind = a.kind /\ b.lag = a.lag /\ b.held = a.held /\ b.result = a.result
    BY <1>2, <1>3, StageFields
  <1> HIDE DEF b
  <1>5. Runs(b)
    BY <1>1, <1>2, <1>4 DEF Runs, TempoStages, HashStages, HashKey
  <1>6. AttemptOK(b)
    BY <1>2, <1>4, <1>5 DEF AttemptOK
  <1>7. /\ att'[w] = b /\ att' \in [Attempts -> Attempt]
        /\ \A v \in Attempts \ {w} : att'[v] = att[v]
    BY <1>1, <1>4 DEF Becomes, RailsInv, RailsTypeOK
  <1>8. PICK p \in Payments : p = a.pay
    BY <1>2 DEF Runs
  <1>9. \/ UNCHANGED <<chain, envs>>
        \/ /\ chain[p] # "paid" /\ chain' = [chain EXCEPT ![p] = "pooled"]
           /\ envs' = [envs EXCEPT ![p] = @ \cup {a.env}]
    BY <1>8 DEF Send, world
  <1>10. /\ chain' \in [Payments -> {"none", "pooled", "paid", "reverted", "action", "failed"}]
         /\ envs' \in [Payments -> SUBSET (Envelopes \cup {"own", "none"})]
    BY <1>2, <1>9 DEF RailsInv, RailsTypeOK, Envs
  <1>11. RailsTypeOK'
    BY <1>1, <1>7, <1>10 DEF RailsInv, RailsTypeOK
  <1>12. /\ \A q \in Payments : chain'[q] \in {"paid", "reverted"} =>
              chain'[q] = chain[q] /\ envs'[q] = envs[q]
         /\ \A q \in Payments : chain[q] = "paid" => chain'[q] = "paid" /\ envs'[q] = envs[q]
    BY <1>9 DEF RailsInv, RailsTypeOK
  <1>13. rail \in {"pull", "hosted"}
    BY <1>2 DEF Runs, KindsOf
  <1>14. OneIncluded'
    BY <1>1, <1>12, <1>13 DEF RailsInv, OneIncluded
  <1>15. \A v \in Attempts \ {w} : Same(att[v], att'[v])
    BY <1>7 DEF Same
  <1> QED BY <1>1, <1>2, <1>4, <1>6, <1>7, <1>11, <1>12, <1>14, <1>15, AttemptKeeps

LEMMA SendRefusedKeeps ==
  ASSUME RailsInv, NEW w \in Attempts, SendRefused(w) PROVE RailsInv'
  <1>1. /\ att[w].pc = "sending"
        /\ UNCHANGED <<now, rail, forgotten, bound, until, chain, envs, keys, marker>>
        /\ Becomes(w, [Fails(att[w], "error") EXCEPT !.unknown = FALSE])
    BY DEF SendRefused, AfterBroadcast, At, terms, world, store
  <1>2. marker' \in [Payments -> Envs]
    BY <1>1, RunningFacts
  <1> QED BY <1>1, <1>2, FailsUnknownKeep DEF Results

LEMMA ConfirmKeeps ==
  ASSUME RailsAssumption, RailsInv, NEW w \in Attempts, Confirm(w) PROVE RailsInv'
  <1> DEFINE a == att[w]
             p == a.pay
  <1>1. a.pc = "sent" /\ UNCHANGED <<now, rail, forgotten, bound, until, chain, envs, keys>>
    BY DEF Confirm, At, terms, world
  <1>2. /\ a.pc \notin {"idle", "done"} /\ a.pc \in HashStages /\ Runs(a)
        /\ marker \in [Payments -> Envs]
    BY <1>1, RunningFacts DEF HashStages, TempoStages
  <1>3. p \in Payments /\ bound[p] = a.ch
    BY <1>1, <1>2 DEF Runs, TempoStages
  <1>4. marker' \in [Payments -> Envs]
    BY <1>2, <1>3 DEF Confirm, Envs
  <1>5. CASE chain[p] = "paid" /\ a.env \in envs[p] /\ Becomes(w, Answers(a, "receipt"))
    BY <1>1, <1>2, <1>3, <1>4, <1>5, ReceiptKeeps
  <1>6. CASE Becomes(w, [Fails(a, "error") EXCEPT !.unknown = FALSE])
    BY <1>1, <1>2, <1>4, <1>6, FailsUnknownKeep DEF Results
  <1> QED BY <1>5, <1>6 DEF Confirm, AfterBroadcast

LEMMA LoseOutcomeKeeps ==
  ASSUME RailsInv, NEW w \in Attempts, LoseOutcome(w) PROVE RailsInv'
  <1>1. /\ att[w].pc = "sent" /\ Becomes(w, Fails(att[w], "error"))
        /\ UNCHANGED <<now, rail, forgotten, bound, until, chain, envs, keys, marker>>
    BY DEF LoseOutcome, AfterBroadcast, At, terms, world, store
  <1>2. marker' \in [Payments -> Envs]
    BY <1>1, RunningFacts
  <1> QED BY <1>1, <1>2, FailsKeep DEF Results

LEMMA LeaveMarkerKeeps ==
  ASSUME RailsInv, NEW w \in Attempts, LeaveMarker(w) PROVE RailsInv'
  <1>1. /\ att[w].pc = "unmarking" /\ Becomes(w, [att[w] EXCEPT !.pc = "unclaiming"])
        /\ UNCHANGED <<now, rail, forgotten, bound, until, chain, envs, keys>>
    BY DEF LeaveMarker, Moves, At, terms, world
  <1>2. Runs(att[w]) /\ marker \in [Payments -> Envs]
    BY <1>1, RunningFacts
  <1>3. marker' \in [Payments -> Envs]
    BY <1>2 DEF LeaveMarker, Envs
  <1> QED BY <1>1, <1>2, <1>3, StageKeeps DEF Stages, TempoStages, HashStages

\* The cleanup gives back the keys of this attempt, and no others.
LEMMA LeaveKeysKeeps ==
  ASSUME RailsInv, NEW w \in Attempts, LeaveKeys(w) PROVE RailsInv'
  <1> DEFINE a == att[w]
             b == Answers(a, a.result)
  <1>1. /\ a.pc = "unclaiming" /\ keys' = keys \ a.held /\ Becomes(w, b)
        /\ UNCHANGED <<now, rail, forgotten, bound, until, chain, envs, marker>>
    BY DEF LeaveKeys, At, terms, world
  <1>2. a \in Attempt /\ a.result \in Results /\ a.result # "receipt"
    BY <1>1, RunningFacts
  <1>3. b \in Attempt /\ AttemptOK(b) /\ b.held = {} /\ b.result # "receipt"
    BY <1>2, AnswersFields
  <1> HIDE DEF b
  <1>4. /\ att'[w] = b /\ att' \in [Attempts -> Attempt]
        /\ \A v \in Attempts \ {w} : att'[v] = att[v]
    BY <1>1, <1>3 DEF Becomes, RailsInv, RailsTypeOK
  <1>5. RailsTypeOK' /\ OneIncluded'
    BY <1>1, <1>4 DEF RailsInv, RailsTypeOK, OneIncluded
  <1>6. \A v \in Attempts \ {w} : Same(att[v], att'[v])
    BY <1>4 DEF Same
  <1> QED BY <1>1, <1>3, <1>4, <1>5, <1>6, AttemptKeeps

-----------------------------------------------------------------------------
(* Push.                                                                    *)

LEMMA ValidatePushKeeps ==
  ASSUME RailsInv, NEW w \in Attempts, ValidatePush(w) PROVE RailsInv'
  <1> DEFINE a == att[w]
  <1>1. /\ a.pc = "received" /\ a.kind = "push"
        /\ UNCHANGED <<now, rail, forgotten, bound, until, chain, envs, keys, marker>>
    BY DEF ValidatePush, At, Is, terms, world, store
  <1>2. marker' \in [Payments -> Envs] /\ Runs(a)
    BY <1>1, RunningFacts
  <1>3. \/ Becomes(w, [a EXCEPT !.pc = "validated"])
        \/ \E result \in {"replayed", "error", "challenge"} : Becomes(w, Answers(a, result))
    BY DEF ValidatePush, HashVerdict
  <1>4. CASE Becomes(w, [a EXCEPT !.pc = "validated"])
    BY <1>1, <1>2, <1>4, StageKeeps DEF Stages, TempoStages, HashStages
  <1>5. CASE \E result \in {"replayed", "error", "challenge"} : Becomes(w, Answers(a, result))
    BY <1>1, <1>2, <1>5, AnswersKeep DEF Results
  <1> QED BY <1>3, <1>4, <1>5

LEMMA ReservePushKeeps ==
  ASSUME RailsInv, NEW w \in Attempts, ReservePush(w) PROVE RailsInv'
  <1> DEFINE a == att[w]
             key == HashKey(a)
             b == [a EXCEPT !.pc = "verifying", !.held = {key}]
  <1>1. /\ a.pc = "validated" /\ a.kind = "push"
        /\ UNCHANGED <<now, rail, forgotten, bound, until, chain, envs, marker>>
    BY DEF ReservePush, At, Is, terms, world
  <1>2. /\ a \in Attempt /\ marker' \in [Payments -> Envs] /\ Runs(a) /\ a.result # "receipt"
        /\ a.pay \in Payments
    BY <1>1, RunningFacts DEF Runs
  <1>3. CASE Becomes(w, Answers(a, "replayed")) /\ UNCHANGED keys
    BY <1>1, <1>2, <1>3, AnswersKeep DEF Results
  <1>4. CASE key \notin keys /\ keys' = keys \cup {key} /\ Becomes(w, b)
    <2>1. "verifying" \in Stages /\ key \in Key
      BY <1>2, KeyTypes DEF Stages
    <2>2. key = HashKey(a) /\ {key} \in SUBSET Key
      BY <2>1
    <2> HIDE DEF key
    <2>3. /\ b \in Attempt /\ b.pc = "verifying" /\ b.pay = a.pay /\ b.ch = a.ch /\ b.env = a.env
          /\ b.kind = a.kind /\ b.lag = a.lag /\ b.held = {key} /\ b.result = a.result
      BY <1>2, <2>1, <2>2 DEF Attempt, Key, Envs
    <2> HIDE DEF b
    <2>4. HashKey(b) = key
      BY <2>2, <2>3 DEF HashKey
    <2>5. Runs(b)
      BY <1>1, <1>2, <2>3, <2>4 DEF Runs, TempoStages, HashStages
    <2>6. AttemptOK(b) /\ b.held \subseteq a.held \cup {key}
      BY <1>2, <2>3, <2>5 DEF AttemptOK
    <2> QED BY <1>1, <1>2, <1>4, <2>3, <2>6, TakesKeep
  <1> QED BY <1>3, <1>4 DEF ReservePush

LEMMA VerifyPushKeeps ==
  ASSUME RailsAssumption, RailsInv, NEW w \in Attempts, VerifyPush(w) PROVE RailsInv'
  <1> DEFINE a == att[w]
  <1>1. a.pc = "verifying" /\ UNCHANGED <<now, rail, forgotten, bound, until, chain, envs, keys, marker>>
    BY DEF VerifyPush, At, terms, world, store
  <1>2. a.pc \notin {"idle", "done"} /\ a.pc \in HashStages /\ marker' \in [Payments -> Envs]
    BY <1>1, RunningFacts DEF HashStages
  <1>3. CASE HashVerdict(w) = "receipt" /\ Becomes(w, Answers(a, "receipt"))
    <2>1. /\ chain[a.pay] = "paid" /\ a.env \in envs[a.pay] /\ bound[a.pay] = a.ch
      BY <1>3 DEF HashVerdict, Bound
    <2> QED BY <1>1, <1>2, <1>3, <2>1, ReceiptKeeps
  <1>4. CASE \E result \in {"replayed", "error", "challenge"} : Becomes(w, Fails(a, result))
    BY <1>1, <1>2, <1>4, FailsKeep DEF Results
  <1>5. HashVerdict(w) \in {"receipt", "replayed", "error", "challenge"}
    BY DEF HashVerdict
  <1> QED BY <1>3, <1>4, <1>5 DEF VerifyPush

-----------------------------------------------------------------------------
(* Proofs, authorizations and Stripe: no envelopes, and a claim at most.    *)

\* The answer after a claim, a settlement or a PaymentIntent: a receipt only when the
\* same step makes the payment a used one.
LEMMA SettledKeeps ==
  ASSUME RailsInv, NEW w \in Attempts, att[w].pc \notin {"idle", "done"},
         rail \notin {"pull", "hosted"}, NEW result \in Results,
         Becomes(w, Answers(att[w], result)),
         UNCHANGED <<now, rail, forgotten, bound, until, envs, marker>>,
         chain' \in [Payments -> {"none", "pooled", "paid", "reverted", "action", "failed"}],
         \A p \in Payments : chain[p] = "paid" => chain'[p] = "paid",
         \A k \in keys \ keys' : k.of = "claim",
         result = "receipt" => \E p \in Payments :
           p = att[w].pay /\ bound[p] = att[w].ch /\ ~Used(p) /\ Used(p)'
  PROVE  RailsInv'
  <1> DEFINE a == att[w]
             b == Answers(a, result)
  <1>1. a \in Attempt /\ a.pay \in Payments /\ a.ch \in Challenges
    BY RunningFacts DEF Runs
  <1>2. /\ b \in Attempt /\ AttemptOK(b) /\ b.held = {} /\ b.result = result
        /\ b.pay = a.pay /\ b.ch = a.ch
    BY <1>1, AnswersFields
  <1> HIDE DEF b
  <1>3. /\ att'[w] = b /\ att' \in [Attempts -> Attempt]
        /\ \A v \in Attempts \ {w} : att'[v] = att[v]
    BY <1>2 DEF Becomes, RailsInv, RailsTypeOK, b
  <1>4. RailsTypeOK'
    BY <1>3 DEF RailsInv, RailsTypeOK
  <1>5. OneIncluded'
    BY DEF RailsInv, OneIncluded
  <1>6. \A v \in Attempts \ {w} : Same(att[v], att'[v])
    BY <1>3 DEF Same
  <1>7. \A p \in Payments : ~Used(p) => \A v \in Attempts : att[v].result = "receipt" => att[v].pay # p
    BY DEF RailsInv, ReceiptsAreUsed
  <1>8. result = "receipt" => \E p \in Payments :
          /\ att'[w].pay = p /\ att'[w].ch \in Challenges /\ bound[p] = att'[w].ch /\ Used(p)'
          /\ \A v \in Attempts : att[v].result = "receipt" => att[v].pay # p
    BY <1>1, <1>2, <1>3, <1>7
  <1>9. \A p \in Payments : chain[p] = "paid" => chain'[p] = "paid" /\ envs'[p] = envs[p]
    OBVIOUS
  <1> QED BY <1>2, <1>3, <1>4, <1>5, <1>6, <1>8, <1>9, AttemptKeeps

LEMMA ValidateProofKeeps ==
  ASSUME RailsInv, NEW w \in Attempts, ValidateProof(w) PROVE RailsInv'
  <1> DEFINE a == att[w]
  <1>1. /\ a.pc = "received" /\ a.kind = "proof"
        /\ UNCHANGED <<now, rail, forgotten, bound, until, chain, envs, keys, marker>>
    BY DEF ValidateProof, At, Is, terms, world, store
  <1>2. marker' \in [Payments -> Envs]
    BY <1>1, RunningFacts
  <1>3. \/ bound[a.pay] = a.ch /\ Becomes(w, [a EXCEPT !.pc = "validated"])
        \/ \E result \in {"replayed", "challenge"} : Becomes(w, Answers(a, result))
    BY DEF ValidateProof, Bound
  <1>4. CASE bound[a.pay] = a.ch /\ Becomes(w, [a EXCEPT !.pc = "validated"])
    BY <1>1, <1>2, <1>4, StageKeeps DEF Stages, TempoStages, HashStages
  <1>5. CASE \E result \in {"replayed", "challenge"} : Becomes(w, Answers(a, result))
    BY <1>1, <1>2, <1>5, AnswersKeep DEF Results
  <1> QED BY <1>3, <1>4, <1>5

LEMMA BroadcastProofKeeps ==
  ASSUME RailsInv, NEW w \in Attempts, BroadcastProof(w) PROVE RailsInv'
  <1>1. /\ att[w].pc = "validated" /\ att[w].kind = "proof"
        /\ UNCHANGED <<now, rail, forgotten, bound, until, chain, envs, keys, marker>>
        /\ Becomes(w, [att[w] EXCEPT !.pc = "claimingProof"])
    BY DEF BroadcastProof, Moves, At, Is, terms, world, store
  <1>2. marker' \in [Payments -> Envs] /\ bound[att[w].pay] = att[w].ch
    BY <1>1, RunningFacts DEF Runs
  <1> QED BY <1>1, <1>2, StageKeeps DEF Stages, TempoStages, HashStages

\* A verifier that sees the challenge open sees every claim of it: its clock is not
\* further behind than claims outlive their challenges.
LEMMA ClaimProofKeeps ==
  ASSUME RailsAssumption, RailsInv, NEW w \in Attempts, ClaimProof(w) PROVE RailsInv'
  <1> DEFINE a == att[w]
  <1>1. a.pc = "claimingProof" /\ UNCHANGED <<now, rail, forgotten, bound, until, chain, envs, marker>>
    BY DEF ClaimProof, At, terms, world
  <1>2. /\ a \in Attempt /\ Runs(a) /\ marker' \in [Payments -> Envs]
    BY <1>1, RunningFacts
  <1>3. /\ a.pay \in Payments /\ a.ch \in Challenges /\ a.kind = "proof" /\ a.lag <= MaxLag
        /\ a.lag \in Nat /\ bound[a.pay] = a.ch
    BY <1>1, <1>2 DEF Runs, Attempt
  <1>4. rail = "proof"
    BY <1>2, <1>3 DEF Runs, KindsOf
  <1>5. CASE UNCHANGED keys /\ \E result \in {"challenge", "replayed"} : Becomes(w, Answers(a, result))
    BY <1>1, <1>2, <1>5, AnswersKeep DEF Results
  <1>6. CASE /\ ~Expired(w) /\ ProofKey(a) \notin keys
             /\ keys' = keys \cup {ProofKey(a)} /\ Becomes(w, Answers(a, "receipt"))
    <2>1. PICK p \in Payments : p = a.pay
      BY <1>3
    <2>2. ProofKey(a) = [of |-> "proof", id |-> bound[p]]
      BY <1>3, <2>1 DEF ProofKey
    <2>3. ~(now >= Expires[bound[p]] + ProofGrace)
      <3>1. ~(Expires[a.ch] <= now - a.lag) /\ bound[p] = a.ch
        BY <1>3, <1>6, <2>1 DEF Expired
      <3>2. Expires[a.ch] \in Nat /\ now \in Nat /\ MaxLag \in Nat /\ ProofGrace \in Nat /\ MaxLag <= ProofGrace
        BY <1>3 DEF RailsAssumption, RailsInv, RailsTypeOK
      <3> HIDE DEF a
      <3> QED BY <1>3, <3>1, <3>2
    <2>4. ~Used(p)
      BY <1>4, <1>6, <2>2, <2>3 DEF Used
    <2>5. [of |-> "proof", id |-> bound[p]] \in keys'
      BY <1>6, <2>2
    <2>6. Used(p)'
      BY <1>1, <1>4, <2>5 DEF Used
    <2>7. chain' \in [Payments -> {"none", "pooled", "paid", "reverted", "action", "failed"}]
      BY <1>1 DEF RailsInv, RailsTypeOK
    <2> QED BY <1>1, <1>3, <1>4, <1>6, <2>1, <2>4, <2>6, <2>7, SettledKeeps DEF Results
  <1> QED BY <1>5, <1>6 DEF ClaimProof

LEMMA ValidateEvmKeeps ==
  ASSUME RailsInv, NEW w \in Attempts, ValidateEvm(w) PROVE RailsInv'
  <1> DEFINE a == att[w]
  <1>1. /\ a.pc = "received" /\ a.kind \in Evm
        /\ UNCHANGED <<now, rail, forgotten, bound, until, chain, envs, keys, marker>>
    BY DEF ValidateEvm, At, Is, terms, world, store
  <1>2. marker' \in [Payments -> Envs]
    BY <1>1, RunningFacts
  <1>3. \/ bound[a.pay] = a.ch /\ Becomes(w, [a EXCEPT !.pc = "asking"])
        \/ \E result \in {"replayed", "challenge"} : Becomes(w, Answers(a, result))
    BY DEF ValidateEvm, Bound
  <1>4. CASE bound[a.pay] = a.ch /\ Becomes(w, [a EXCEPT !.pc = "asking"])
    BY <1>1, <1>2, <1>4, StageKeeps DEF Stages, TempoStages, HashStages
  <1>5. CASE \E result \in {"replayed", "challenge"} : Becomes(w, Answers(a, result))
    BY <1>1, <1>2, <1>5, AnswersKeep DEF Results
  <1> QED BY <1>3, <1>4, <1>5

LEMMA FacilitatorVerifyKeeps ==
  ASSUME RailsInv, NEW w \in Attempts, FacilitatorVerify(w) PROVE RailsInv'
  <1>1. /\ att[w].pc = "asking"
        /\ UNCHANGED <<now, rail, forgotten, bound, until, chain, envs, keys, marker>>
    BY DEF FacilitatorVerify, At, terms, world, store
  <1>2. marker' \in [Payments -> Envs] /\ Runs(att[w])
    BY <1>1, RunningFacts
  <1>3. CASE Becomes(w, [att[w] EXCEPT !.pc = "validated"])
    BY <1>1, <1>2, <1>3, StageKeeps DEF Stages, TempoStages, HashStages, Runs
  <1>4. CASE \E result \in {"error", "challenge"} : Becomes(w, Answers(att[w], result))
    BY <1>1, <1>2, <1>4, AnswersKeep DEF Results
  <1> QED BY <1>3, <1>4 DEF FacilitatorVerify, Moves

LEMMA ClaimEvmKeeps ==
  ASSUME RailsInv, NEW w \in Attempts, ClaimEvm(w) PROVE RailsInv'
  <1> DEFINE a == att[w]
             b == [a EXCEPT !.pc = "settling"]
  <1>1. /\ a.pc = "validated" /\ a.kind \in Evm
        /\ UNCHANGED <<now, rail, forgotten, bound, until, chain, envs, marker>>
    BY DEF ClaimEvm, At, Is, terms, world
  <1>2. a \in Attempt /\ Runs(a) /\ a.result # "receipt" /\ marker' \in [Payments -> Envs]
    BY <1>1, RunningFacts
  <1>3. CASE UNCHANGED keys /\ \E result \in {"replayed", "error"} : Becomes(w, Answers(a, result))
    BY <1>1, <1>2, <1>3, AnswersKeep DEF Results
  <1>4. CASE ClaimKey(a) \notin keys /\ keys' = keys \cup {ClaimKey(a)} /\ Becomes(w, b)
    <2>1. "settling" \in Stages
      BY DEF Stages
    <2>2. /\ b \in Attempt /\ b.pc = "settling" /\ b.pay = a.pay /\ b.ch = a.ch /\ b.env = a.env
          /\ b.kind = a.kind /\ b.lag = a.lag /\ b.held = a.held /\ b.result = a.result
      BY <1>2, <2>1, StageFields
    <2> HIDE DEF b
    <2>3. Runs(b)
      BY <1>1, <1>2, <2>2 DEF Runs, TempoStages, HashStages
    <2>4. AttemptOK(b)
      BY <1>2, <2>2, <2>3 DEF AttemptOK
    <2> QED BY <1>1, <1>2, <1>4, <2>2, <2>4, TakesKeep
  <1> QED BY <1>3, <1>4 DEF ClaimEvm, Moves

LEMMA SettleEvmKeeps ==
  ASSUME RailsInv, NEW w \in Attempts, SettleEvm(w) PROVE RailsInv'
  <1> DEFINE a == att[w]
  <1>1. a.pc = "settling" /\ UNCHANGED <<now, rail, forgotten, bound, until, envs, marker>>
    BY DEF SettleEvm, At, terms
  <1>2. a.pay \in Payments /\ bound[a.pay] = a.ch /\ a.kind \in Evm /\ rail = a.kind
    BY <1>1, RunningFacts DEF Runs, Evm, KindsOf
  <1>3. PICK p \in Payments : p = a.pay
    BY <1>2
  <1>4. rail \notin {"pull", "hosted", "proof"}
    BY <1>2 DEF Evm
  <1>5. PICK outcome \in {"success", "failed", "pending", "error"}, s \in {chain[p], "paid", "pooled"} :
          /\ s # chain[p] => chain[p] = "none"
          /\ outcome = "success" => s = "paid" /\ chain[p] = "none"
          /\ chain' = [chain EXCEPT ![p] = s]
          /\ keys' = IF KeepsClaim(a, outcome) THEN keys ELSE keys \ {ClaimKey(a)}
          /\ Becomes(w, Answers(a, EvmAnswer(outcome)))
    BY <1>3 DEF SettleEvm
  <1>6. \A k \in keys \ keys' : k.of = "claim"
    BY <1>5 DEF ClaimKey
  <1>7. /\ chain' \in [Payments -> {"none", "pooled", "paid", "reverted", "action", "failed"}]
        /\ \A q \in Payments : chain[q] = "paid" => chain'[q] = "paid"
        /\ outcome = "success" => chain[p] # "paid" /\ chain'[p] = "paid"
    BY <1>5 DEF RailsInv, RailsTypeOK
  <1>8. EvmAnswer(outcome) \in Results /\ (EvmAnswer(outcome) = "receipt" => outcome = "success")
    BY DEF EvmAnswer, Results
  <1>9. outcome = "success" => ~Used(p) /\ Used(p)'
    BY <1>1, <1>4, <1>7 DEF Used
  <1> QED BY <1>1, <1>2, <1>3, <1>4, <1>5, <1>6, <1>7, <1>8, <1>9, SettledKeeps

LEMMA VerifyStripeKeeps ==
  ASSUME RailsInv, NEW w \in Attempts, VerifyStripe(w) PROVE RailsInv'
  <1>1. /\ att[w].pc = "received" /\ att[w].kind = "stripe"
        /\ UNCHANGED <<now, rail, forgotten, bound, until, chain, envs, keys, marker>>
        /\ Becomes(w, [att[w] EXCEPT !.pc = "creating"])
    BY DEF VerifyStripe, Moves, At, Is, terms, world, store
  <1>2. marker' \in [Payments -> Envs] /\ bound[att[w].pay] = att[w].ch
    BY <1>1, RunningFacts DEF Runs
  <1> QED BY <1>1, <1>2, StageKeeps DEF Stages, TempoStages, HashStages

LEMMA CreateIntentKeeps ==
  ASSUME RailsInv, NEW w \in Attempts, CreateIntent(w) PROVE RailsInv'
  <1> DEFINE a == att[w]
  <1>1. a.pc = "creating" /\ UNCHANGED <<now, rail, forgotten, bound, until, envs, keys, marker>>
    BY DEF CreateIntent, At, terms, store
  <1>2. a.pay \in Payments /\ bound[a.pay] = a.ch /\ rail = "stripe"
    BY <1>1, RunningFacts DEF Runs, KindsOf
  <1>3. PICK p \in Payments : p = a.pay
    BY <1>2
  <1>4. PICK s \in {chain[p], "paid", "action", "failed", "pooled"} :
          /\ s # chain[p] => chain[p] = "none"
          /\ chain' = [chain EXCEPT ![p] = s]
          /\ \E result \in {StripeAnswer(s, ~CreatesIntent(p)), "error"} : Becomes(w, Answers(a, result))
    BY <1>3 DEF CreateIntent, CreatesIntent
  <1>5. PICK result \in {StripeAnswer(s, ~CreatesIntent(p)), "error"} : Becomes(w, Answers(a, result))
    BY <1>4
  <1>6. result \in Results /\ (result = "receipt" => s = "paid" /\ chain[p] = "none")
    BY DEF StripeAnswer, CreatesIntent, Results
  <1>7. /\ chain' \in [Payments -> {"none", "pooled", "paid", "reverted", "action", "failed"}]
        /\ \A q \in Payments : chain[q] = "paid" => chain'[q] = "paid"
        /\ s = "paid" => chain'[p] = "paid"
    BY <1>4 DEF RailsInv, RailsTypeOK
  <1>8. result = "receipt" => ~Used(p) /\ Used(p)'
    BY <1>1, <1>2, <1>6, <1>7 DEF Used
  <1> QED BY <1>1, <1>2, <1>3, <1>5, <1>6, <1>7, <1>8, SettledKeeps

LEMMA RefuseIntentKeeps ==
  ASSUME RailsInv, NEW w \in Attempts, RefuseIntent(w) PROVE RailsInv'
  <1>1. /\ att[w].pc = "creating" /\ Becomes(w, Answers(att[w], "challenge"))
        /\ UNCHANGED <<now, rail, forgotten, bound, until, chain, envs, keys, marker>>
    BY DEF RefuseIntent, At, terms, world, store
  <1>2. marker' \in [Payments -> Envs]
    BY <1>1, RunningFacts
  <1> QED BY <1>1, <1>2, AnswersKeep DEF Results

-----------------------------------------------------------------------------
(* The world and the invariant.                                             *)

\* A step that no attempt takes: what was paid stays paid, and no key lapses but claims
\* of authorizations and those of proofs whose challenge has expired by every clock.
LEMMA WorldKeeps ==
  ASSUME RailsAssumption, RailsInv, UNCHANGED <<rail, bound, until, att>>,
         now' \in Nat, now <= now', RailsTypeOK', OneIncluded',
         \A p \in Payments : chain[p] = "paid" => chain'[p] = "paid" /\ envs'[p] = envs[p],
         \A k \in keys \ keys' :
           \/ k.of = "claim"
           \/ k.of = "proof" /\ now' >= Expires[k.id] + ProofGrace
  PROVE  RailsInv'
  <1>1. \A w \in Attempts : AttemptOK(att[w])'
    BY DEF RailsInv, AttemptOK, Runs, HashKey, KindsOf
  <1>2. HeldOnce'
    <2>1. \A w \in Attempts : \A k \in att[w].held : k.of \in {"client", "hash"}
      BY DEF RailsInv, RailsTypeOK, Attempt
    <2> QED BY <2>1 DEF RailsInv, HeldOnce
  <1>3. ASSUME NEW p \in Payments, bound[p] \in Challenges, Used(p) PROVE Used(p)'
    <2>1. rail # "proof" => chain'[p] = "paid" /\ envs'[p] = envs[p]
      BY <1>3 DEF Used
    <2>2. ASSUME rail \in {"pull", "hosted"}
          PROVE  \E e \in envs'[p] : KeyOf(p, e) \in keys' /\ \A w \in Attempts : KeyOf(p, e) \notin att'[w].held
      <3>1. PICK e \in envs[p] : KeyOf(p, e) \in keys /\ \A w \in Attempts : KeyOf(p, e) \notin att[w].held
        BY <1>3, <2>2 DEF Used
      <3>2. KeyOf(p, e) \in keys'
        BY <3>1 DEF KeyOf
      <3> QED BY <2>1, <2>2, <3>1, <3>2
    <2>3. ASSUME rail = "proof"
          PROVE  \/ [of |-> "proof", id |-> bound[p]] \in keys'
                 \/ now' >= Expires[bound[p]] + ProofGrace
      <3>1. CASE [of |-> "proof", id |-> bound[p]] \in keys
        BY <3>1
      <3>2. CASE now >= Expires[bound[p]] + ProofGrace
        <4>1. Expires[bound[p]] \in Nat /\ ProofGrace \in Nat /\ now \in Nat
          BY <1>3 DEF RailsAssumption, RailsInv, RailsTypeOK
        <4> QED BY <3>2, <4>1
      <3> QED BY <1>3, <2>3, <3>1, <3>2 DEF Used
    <2> QED BY <2>1, <2>2, <2>3 DEF Used, KeyOf
  <1>4. ReceiptsAreUsed'
    <2>1. SUFFICES ASSUME NEW w \in Attempts, att[w].result = "receipt"
                   PROVE  \E p \in Payments : /\ att[w].pay = p /\ att[w].ch \in Challenges
                                              /\ bound[p] = att[w].ch /\ Used(p)'
      BY ReceiptsAfter
    <2> QED BY <1>3, <2>1 DEF RailsInv, ReceiptsAreUsed, Bound
  <1>5. PaymentUsedOnce'
    BY DEF RailsInv, PaymentUsedOnce
  <1> QED BY <1>1, <1>2, <1>4, <1>5 DEF RailsInv

LEMMA ClientSendsKeeps ==
  ASSUME RailsAssumption, RailsInv, NEW p \in Payments, rail = "pull", ClientSends(p, "own")
  PROVE  RailsInv'
  <1>1. /\ UNCHANGED <<now, rail, forgotten, bound, until, keys, marker, att>>
        /\ chain[p] = "none" /\ chain' = [chain EXCEPT ![p] = "pooled"]
        /\ envs' = [envs EXCEPT ![p] = @ \cup {"own"}]
    BY DEF ClientSends, terms, store
  <1>2. RailsTypeOK' /\ now' \in Nat /\ now <= now'
    BY <1>1 DEF RailsInv, RailsTypeOK
  <1>3. /\ \A q \in Payments : chain'[q] \in {"paid", "reverted"} =>
             chain[q] = chain'[q] /\ envs'[q] = envs[q]
        /\ \A q \in Payments : chain[q] = "paid" => chain'[q] = "paid" /\ envs'[q] = envs[q]
    BY <1>1 DEF RailsInv, RailsTypeOK
  <1>4. OneIncluded'
    BY <1>1, <1>3 DEF RailsInv, OneIncluded
  <1> QED BY <1>1, <1>2, <1>3, <1>4, WorldKeeps

LEMMA LandKeeps ==
  ASSUME RailsAssumption, RailsInv, NEW p \in Payments, Land(p) PROVE RailsInv'
  <1>1. UNCHANGED <<now, rail, forgotten, bound, until, keys, marker, att>> /\ chain[p] = "pooled"
    BY DEF Land, terms, store
  <1>2. PICK s \in {"paid", "reverted"}, e \in Included(p) :
          chain' = [chain EXCEPT ![p] = s] /\ envs' = [envs EXCEPT ![p] = @ \cap {e}]
    BY DEF Land
  <1>3. RailsTypeOK' /\ now' \in Nat /\ now <= now'
    BY <1>1, <1>2 DEF RailsInv, RailsTypeOK
  <1>4. /\ envs'[p] = envs[p] \cap {e}
        /\ \A q \in Payments \ {p} : chain'[q] = chain[q] /\ envs'[q] = envs[q]
    BY <1>2 DEF RailsInv, RailsTypeOK
  <1>5. \A q \in Payments : chain[q] = "paid" => chain'[q] = "paid" /\ envs'[q] = envs[q]
    BY <1>1, <1>4
  <1>6. OneIncluded'
    <2>1. \A q \in Payments : envs'[q] \subseteq envs[q]
      BY <1>4
    <2>2. ASSUME NEW q \in Payments, chain'[q] \in {"paid", "reverted"}
          PROVE  \A f, g \in envs'[q] : f = g
      BY <1>4, <2>2 DEF RailsInv, OneIncluded
    <2>3. rail \notin {"pull", "hosted"} => \A q \in Payments : envs'[q] = {}
      BY <2>1 DEF RailsInv, OneIncluded
    <2> QED BY <1>1, <2>2, <2>3 DEF OneIncluded
  <1> QED BY <1>1, <1>3, <1>5, <1>6, WorldKeeps

LEMMA TickKeeps ==
  ASSUME RailsAssumption, RailsInv, Tick PROVE RailsInv'
  <1>1. UNCHANGED <<rail, forgotten, bound, until, envs, att>> /\ now' = now + 1
    BY DEF Tick, terms
  <1>2. now \in Nat /\ now' \in Nat /\ now <= now'
    BY <1>1 DEF RailsInv, RailsTypeOK
  <1>3. /\ chain' \in [Payments -> {"none", "pooled", "paid", "reverted", "action", "failed"}]
        /\ \A q \in Payments : chain'[q] \in {"paid", "reverted"} => chain'[q] = chain[q]
        /\ \A q \in Payments : chain[q] = "paid" => chain'[q] = "paid"
    BY DEF Tick, RailsInv, RailsTypeOK
  <1>4. marker' \in [Payments -> Envelopes \cup {"own", "none"}]
    BY DEF Tick, RailsInv, RailsTypeOK
  <1>5. RailsTypeOK' /\ OneIncluded'
    BY <1>1, <1>2, <1>3, <1>4 DEF RailsInv, RailsTypeOK, OneIncluded
  <1>6. \A k \in keys \ keys' : Lapsed(k, now')
    BY DEF Tick
  <1>7. \A k \in keys \ keys' :
          k.of = "claim" \/ (k.of = "proof" /\ now' >= Expires[k.id] + ProofGrace)
    BY <1>6 DEF Lapsed, ProofUntil
  <1> QED BY <1>1, <1>2, <1>3, <1>5, <1>7, WorldKeeps

\* The claims go, and every attempt with them.
LEMMA RestartKeeps ==
  ASSUME RailsInv, Restart PROVE RailsInv'
  <1>1. /\ UNCHANGED <<now, rail, bound, until, chain, envs, marker>> /\ rail = "cache"
        /\ keys' = keys \ Claims
    BY DEF Restart, terms, world
  <1>2. \A w \in Attempts :
          /\ att'[w] \in Attempt /\ att'[w].held = {} /\ att'[w].pc \in {"idle", "done"}
          /\ att'[w].result = "receipt" => att'[w] = att[w]
          /\ att'[w].pc = "idle" => att'[w].result # "receipt"
    <2> SUFFICES ASSUME NEW w \in Attempts
                 PROVE  /\ att'[w] \in Attempt /\ att'[w].held = {} /\ att'[w].pc \in {"idle", "done"}
                        /\ att'[w].result = "receipt" => att'[w] = att[w]
                        /\ att'[w].pc = "idle" => att'[w].result # "receipt"
      OBVIOUS
    <2> DEFINE b == Answers(att[w], "none")
    <2>1. att[w] \in Attempt /\ AttemptOK(att[w])
      BY DEF RailsInv, RailsTypeOK
    <2>2. b \in Attempt /\ b.pc = "done" /\ b.held = {} /\ b.result = "none"
      BY <2>1, AnswersFields DEF Results
    <2> HIDE DEF b
    <2>3. att'[w] = IF Running(w) THEN b ELSE att[w]
      BY DEF Restart, b
    <2> QED BY <2>1, <2>2, <2>3 DEF Running, AttemptOK
  <1>3. RailsTypeOK'
    <2>1. att' \in [Attempts -> Attempt]
      BY <1>2 DEF Restart
    <2> QED BY <1>1, <2>1 DEF RailsInv, RailsTypeOK
  <1>4. \A w \in Attempts : AttemptOK(att[w])'
    BY <1>2 DEF AttemptOK
  <1>5. HeldOnce' /\ OneIncluded'
    BY <1>1, <1>2 DEF HeldOnce, RailsInv, OneIncluded
  <1>6. \A p \in Payments : Used(p) => Used(p)'
    BY <1>1 DEF Used
  <1>7. ReceiptsAreUsed'
    <2>1. SUFFICES ASSUME NEW w \in Attempts, att'[w].result = "receipt"
                   PROVE  \E p \in Payments : /\ att'[w].pay = p /\ att'[w].ch \in Challenges
                                              /\ bound[p] = att'[w].ch /\ Used(p)'
      BY <1>1, ReceiptsAfter
    <2>2. att'[w] = att[w]
      BY <1>2, <2>1
    <2> QED BY <1>1, <1>6, <2>1, <2>2 DEF RailsInv, ReceiptsAreUsed, Bound
  <1>8. PaymentUsedOnce'
    BY <1>2 DEF RailsInv, PaymentUsedOnce
  <1> QED BY <1>3, <1>4, <1>5, <1>7, <1>8 DEF RailsInv

LEMMA RailsInitial ==
  ASSUME RailsInit, bound \in [Payments -> Challenges \cup {"none"}], until \in [Payments -> Nat]
  PROVE  RailsInv
  <1>1. Idle \in Attempt /\ Idle.held = {} /\ Idle.result = "none" /\ Idle.pc = "idle"
    BY IdleFields DEF Idle
  <1>2. \A w \in Attempts : att[w] = Idle
    BY DEF RailsInit
  <1>3. RailsTypeOK
    BY <1>1 DEF RailsInit, RailsTypeOK
  <1>4. \A w \in Attempts : AttemptOK(att[w])
    BY <1>1, <1>2 DEF AttemptOK
  <1>5. HeldOnce /\ ReceiptsAreUsed /\ PaymentUsedOnce
    BY <1>1, <1>2 DEF HeldOnce, ReceiptsAreUsed, PaymentUsedOnce
  <1>6. OneIncluded
    BY DEF RailsInit, OneIncluded
  <1> QED BY <1>3, <1>4, <1>5, <1>6 DEF RailsInv

LEMMA RailsStep ==
  ASSUME RailsAssumption, RailsInv, [RailsNext]_railVars PROVE RailsInv'
  <1>1. CASE UNCHANGED railVars
    <2>1. UNCHANGED <<now, rail, forgotten, bound, until, chain, envs, keys, marker, att>>
      BY <1>1 DEF railVars
    <2>2. RailsTypeOK' /\ OneIncluded' /\ now' \in Nat /\ now <= now'
      BY <2>1 DEF RailsInv, RailsTypeOK, OneIncluded
    <2> QED BY <2>1, <2>2, WorldKeeps
  <1>2. CASE TempoNext
    <2> USE <1>2 DEF TempoNext
    <2>1. ASSUME NEW w \in Attempts,
                 \/ ValidatePull(w) \/ BroadcastPull(w) \/ LookUpHosted(w) \/ FillHosted(w) \/ Claim(w)
                 \/ Preflight(w) \/ Mark(w) \/ Reconcile(w) \/ Authorize(w)
          PROVE  RailsInv'
      BY <2>1, ValidatePullKeeps, BroadcastPullKeeps, LookUpHostedKeeps, FillHostedKeeps, ClaimKeeps,
         PreflightKeeps, MarkKeeps, ReconcileKeeps, AuthorizeKeeps
    <2>2. ASSUME NEW w \in Attempts,
                 Send(w) \/ SendRefused(w) \/ Confirm(w) \/ LoseOutcome(w) \/ LeaveMarker(w) \/ LeaveKeys(w)
          PROVE  RailsInv'
      BY <2>2, SendKeeps, SendRefusedKeeps, ConfirmKeeps, LoseOutcomeKeeps, LeaveMarkerKeeps, LeaveKeysKeeps
    <2>3. ASSUME NEW w \in Attempts,
                 \/ ValidatePush(w) \/ ReservePush(w) \/ VerifyPush(w)
                 \/ ValidateProof(w) \/ BroadcastProof(w) \/ ClaimProof(w)
          PROVE  RailsInv'
      BY <2>3, ValidatePushKeeps, ReservePushKeeps, VerifyPushKeeps,
         ValidateProofKeeps, BroadcastProofKeeps, ClaimProofKeeps
    <2> QED BY <2>1, <2>2, <2>3
  <1>3. CASE ProviderNext
    BY <1>3, ValidateEvmKeeps, FacilitatorVerifyKeeps, ClaimEvmKeeps, SettleEvmKeeps,
       VerifyStripeKeeps, CreateIntentKeeps, RefuseIntentKeeps DEF ProviderNext
  <1>4. CASE \E w \in Attempts : RefuseExpired(w) \/ InternalError(w) \/ Cancel(w) \/ Crash(w)
    BY <1>4, RequestsKeep
  <1>5. CASE (\E p \in Payments : Land(p)) \/ Restart \/ Tick
    BY <1>5, LandKeeps, RestartKeeps, TickKeeps
  <1>6. CASE PayerNext
    BY <1>6, ReceiveKeeps, ClientSendsKeeps DEF PayerNext
  <1> QED BY <1>1, <1>2, <1>3, <1>4, <1>5, <1>6 DEF RailsNext, ServerNext

\* The invariant above holds in every state of the rails: the keys, the attempts that
\* hold them, what became of the payments and the receipts that were given.
THEOREM RailsInvariant == RailsSpec => []RailsInv
  <1>1. RailsInit /\ bound \in [Payments -> Challenges \cup {"none"}] /\ until \in [Payments -> Nat] => RailsInv
    BY RailsInitial
  <1>2. RailsInv /\ [RailsNext]_railVars => RailsInv'
    BY RailsAssumption, RailsStep
  <1> QED BY <1>1, <1>2, PTL DEF RailsSpec

\* A payment buys one thing: however its attempts interleave, stop and start again, by
\* whichever way it is presented and however the clocks disagree within the grace periods,
\* at most one of them is answered with a receipt.
THEOREM PaymentsBuyOnce == RailsSpec => []PaymentUsedOnce
  <1>1. RailsInv => PaymentUsedOnce
    BY DEF RailsInv
  <1> QED BY <1>1, RailsInvariant, PTL

\* A receipt is only given for a payment that landed and that names the challenge it was
\* presented for.
THEOREM ReceiptsArePaid == RailsSpec => []ReceiptMeansPaid
  <1>1. RailsInv => ReceiptMeansPaid
    BY DEF RailsInv, ReceiptsAreUsed, Used, ReceiptMeansPaid, Bound
  <1> QED BY <1>1, RailsInvariant, PTL

-----------------------------------------------------------------------------
(* No second payment.                                                       *)

MayLand(p) == chain[p] \in {"pooled", "paid"}

\* The challenge of the payment has expired.
Closed(p) == bound[p] \in Challenges /\ now >= Expires[bound[p]]

\* A 402 for its challenge takes back nothing.
Refusable(p) == MayLand(p) => Closed(p)

ClientKeyOf(p) == [of |-> "client", id |-> p]
ClaimKeyOf(p) == [of |-> "claim", id |-> p]

HoldsClient(a) == ClientKey(a) \in a.held

\* No node takes the transaction any more.
Dead(p) == ChainNow >= until[p]

\* Its key is claimed for good.
Spent(p) == ClientKeyOf(p) \in keys /\ \A v \in Attempts : ClientKeyOf(p) \notin att[v].held

\* A submission is on record, or cannot be, or does not matter any more.
Guarded(p) == marker[p] # "none" \/ Closed(p) \/ Dead(p)

\* An attempt to have a transaction co-signed.  One with the key of the client's
\* transaction is the only one that sends, or gives the marker back.
HostedStage(a) ==
  /\ a.pc \in HashStages => HoldsClient(a)
  /\ HoldsClient(a) => Refusable(a.pay) \/ marker[a.pay] # "none"
  /\ a.marked /\ (~a.unknown \/ a.pc = "sending") => Refusable(a.pay)
  /\ a.unknown => a.pc \in {"sending", "sent", "unmarking", "unclaiming"}
  /\ a.pc \in {"sending", "sent"} => a.unknown
  /\ a.pc \in {"claiming", "preflight", "marking"} => a.env # "none"
  /\ a.pc \in {"received", "validated", "looking", "filling", "preflight"} => ~a.reconciling
  /\ a.pc = "claiming" /\ a.reconciling => Guarded(a.pay) \/ Spent(a.pay)
  /\ a.pc \in {"reconciling", "ready", "sending"} => Guarded(a.pay)
  /\ ~a.overlapped /\ ~a.reconciling /\ a.pc \in {"filling", "claiming", "preflight"} =>
       Refusable(a.pay)
  /\ ~a.overlapped /\ a.result = "challenge" => Refusable(a.pay)

\* No authorization of which the claim was lost.
Unspent(p) == MayLand(p) => p \in forgotten

\* An attempt with an authorization.
EvmStage(a) ==
  /\ a.pc = "settling" /\ now < until[a.pay] => Unspent(a.pay) /\ ClaimKeyOf(a.pay) \in keys
  /\ a.pc = "asking" /\ ~a.overlapped /\ now < until[a.pay] => Unspent(a.pay)

\* A running attempt, of any kind.
StageOK(a) ==
  /\ a.kind # "proof" => a.lag = 0
  /\ \A k \in a.held : k.of = "client" => k = ClientKey(a)
  /\ HoldsClient(a) \/ a.marked => a.kind = "hosted"
  /\ a.marked => HoldsClient(a)
  /\ a.pc \in {"looking", "filling", "preflight", "marking", "reconciling"} \/ a.reconciling =>
       a.kind = "hosted"
  /\ a.kind = "hosted" => HostedStage(a)
  /\ a.kind \in Evm => EvmStage(a)
  /\ a.result = "challenge" => a.pc \in {"unmarking", "unclaiming"}
  /\ a.result = "challenge" =>
       \/ a.kind = "push" /\ chain[a.pay] = "reverted"
       \/ a.kind = "pull" /\ now >= Expires[a.ch]
       \/ a.kind = "hosted"

\* Attempts that overlap know.
OverlapNoted ==
  \A v, w \in Attempts :
    v # w /\ Running(v) /\ Running(w) /\ att[v].pay = att[w].pay => att[w].overlapped

\* What may have been submitted left a record.
RecordOf(p) ==
  MayLand(p) =>
    /\ rail # "proof"
    /\ rail = "hosted" =>
         /\ bound[p] \in Challenges
         /\ Closed(p) \/ marker[p] # "none" \/ ClientKeyOf(p) \in keys
    /\ rail \in Evm => now >= until[p] \/ ClaimKeyOf(p) \in keys \/ p \in forgotten

OneSettles ==
  \A v, w \in Attempts :
    /\ att[v].pc = "settling" /\ att[w].pc = "settling" /\ att[v].pay = att[w].pay
    /\ now < until[att[w].pay]
    => v = w

\* One that found a marker claims in vain, or nothing can be sent, when another marks.
FoundFirst ==
  \A v, w \in Attempts :
    /\ Running(v) /\ Running(w) /\ att[v].pay = att[w].pay
    /\ att[v].marked /\ att[w].reconciling /\ att[w].pc = "claiming"
    => Closed(att[v].pay) \/ Dead(att[v].pay)

\* An authorization is good for as long as its challenge is open.
GoodUntilExpiry ==
  rail \in Evm => \A p \in Payments : bound[p] \in Challenges => until[p] >= Expires[bound[p]]

InviteInv ==
  /\ \A w \in Attempts : Running(w) => StageOK(att[w])
  /\ OverlapNoted /\ \A p \in Payments : RecordOf(p)
  /\ OneSettles /\ FoundFirst /\ GoodUntilExpiry

-----------------------------------------------------------------------------
(* What a step must leave to the other attempts.                            *)

\* The attempt b is a, but for who overlaps with it.
Like(a, b) ==
  /\ Same(a, b) /\ (a.overlapped => b.overlapped)
  /\ a.reconciling = b.reconciling /\ a.marked = b.marked /\ a.unknown = b.unknown

\* An attempt that does not move keeps its part of the invariant: a payment lands behind its
\* back only when they overlap and it has no key of it, its marker stays unless it has
\* lapsed, and its claim stays.
LEMMA StageStays ==
  ASSUME RailsAssumption, NEW v \in Attempts, NEW p \in Payments, att[v].pay = p,
         att[v].ch \in Challenges, StageOK(att[v]), Like(att[v], att'[v]),
         UNCHANGED <<bound, until, forgotten>>, now \in Nat, now' \in Nat, now <= now', until[p] \in Nat,
         MayLand(p)' => \/ MayLand(p) \/ att[v].kind \notin {"hosted", "evm", "cache"}
                        \/ /\ att[v].overlapped /\ ~HoldsClient(att[v])
                           /\ att[v].pc = "settling" => now' >= until[p],
         HoldsClient(att[v]) /\ marker'[p] = "none" => marker[p] = "none" \/ Refusable(p)',
         att[v].pc = "settling" /\ now' < until[p] /\ ClaimKeyOf(p) \in keys => ClaimKeyOf(p) \in keys',
         att[v].pc = "claiming" /\ att[v].reconciling /\ (Guarded(p) \/ Spent(p)) =>
           Guarded(p)' \/ Spent(p)',
         att[v].pc \in {"reconciling", "ready", "sending"} /\ HoldsClient(att[v]) /\ Guarded(p) =>
           Guarded(p)',
         chain[p] = "reverted" => chain'[p] = "reverted"
  PROVE  StageOK(att[v])'
  <1> DEFINE a == att[v]
             b == att'[v]
  <1>1. /\ b.pc = a.pc /\ b.pay = p /\ a.pay = p /\ b.ch = a.ch /\ b.kind = a.kind /\ b.lag = a.lag
        /\ b.held = a.held /\ b.result = a.result /\ (a.overlapped => b.overlapped) /\ b.env = a.env
        /\ b.reconciling = a.reconciling /\ b.marked = a.marked /\ b.unknown = a.unknown
    BY DEF Like, Same
  <1>2. Expires \in [Challenges -> Nat]
    BY DEF RailsAssumption
  <1>3. Closed(p) => Closed(p)'
    BY <1>2 DEF Closed
  <1>4. ClientKey(b) = ClientKey(a)
    BY <1>1 DEF ClientKey
  <1>5. Refusable(p) /\ (MayLand(p)' => MayLand(p)) => Refusable(p)'
    BY <1>3 DEF Refusable
  <1>7. a.marked => HoldsClient(a)
    BY DEF StageOK
  <1>8. a.kind = "hosted" => HostedStage(a)'
    <2>1. SUFFICES ASSUME a.kind = "hosted", HostedStage(a) PROVE HostedStage(a)'
      BY DEF StageOK
    <2>2. HoldsClient(a)' <=> HoldsClient(a)
      BY <1>1, <1>4 DEF HoldsClient
    <2>3. HoldsClient(a) \/ ~a.overlapped => (Refusable(p) => Refusable(p)')
      BY <1>5, <2>1
    <2>4. HoldsClient(a) => Refusable(p)' \/ marker'[p] # "none"
      BY <2>1, <2>3 DEF HostedStage
    <2>5. a.marked /\ (~a.unknown \/ a.pc = "sending") => Refusable(p)'
      BY <1>7, <2>1, <2>3 DEF HostedStage
    <2>6. /\ ~a.overlapped /\ ~a.reconciling /\ a.pc \in {"filling", "claiming", "preflight"} =>
               Refusable(p)'
          /\ ~a.overlapped /\ a.result = "challenge" => Refusable(p)'
      BY <2>1, <2>3 DEF HostedStage
    <2>7. a.pc \in HashStages => HoldsClient(a)
      BY <2>1 DEF HostedStage
    <2>8. /\ a.unknown => a.pc \in {"sending", "sent", "unmarking", "unclaiming"}
          /\ a.pc \in {"sending", "sent"} => a.unknown
          /\ a.pc \in {"claiming", "preflight", "marking"} => a.env # "none"
          /\ a.pc \in {"received", "validated", "looking", "filling", "preflight"} => ~a.reconciling
      BY <2>1 DEF HostedStage
    <2>9. /\ a.pc = "claiming" /\ a.reconciling => Guarded(p)' \/ Spent(p)'
          /\ a.pc \in {"reconciling", "ready", "sending"} => Guarded(p)'
      BY <2>1, <2>7 DEF HostedStage, HashStages, TempoStages
    <2>10. b.pay = p /\ b.pc = a.pc /\ b.env = a.env /\ b.unknown = a.unknown /\ b.reconciling = a.reconciling
           /\ b.marked = a.marked /\ b.result = a.result /\ (a.overlapped => b.overlapped)
      BY <1>1
    <2>11. /\ b.pc \in HashStages => HoldsClient(a)'
           /\ HoldsClient(a)' => Refusable(p)' \/ marker'[p] # "none"
           /\ b.marked /\ (~b.unknown \/ b.pc = "sending") => Refusable(p)'
           /\ ~b.overlapped /\ ~b.reconciling /\ b.pc \in {"filling", "claiming", "preflight"} => Refusable(p)'
           /\ ~b.overlapped /\ b.result = "challenge" => Refusable(p)'
      BY <2>2, <2>4, <2>5, <2>6, <2>7, <2>10
    <2> QED BY <2>8, <2>9, <2>10, <2>11 DEF HostedStage
  <1>9. a.kind \in Evm => EvmStage(a)'
    <2>1. SUFFICES ASSUME a.kind \in Evm, EvmStage(a) PROVE EvmStage(a)'
      BY DEF StageOK
    <2>2. now' < until[p] => now < until[p]
      OBVIOUS
    <2>3. a.pc = "settling" /\ now' < until[p] => Unspent(p)' /\ ClaimKeyOf(p) \in keys'
      BY <2>1, <2>2 DEF EvmStage, Evm, Unspent
    <2>4. a.pc = "asking" /\ ~a.overlapped /\ now' < until[p] => Unspent(p)'
      BY <2>1, <2>2 DEF EvmStage, Evm, Unspent
    <2> QED BY <1>1, <2>3, <2>4 DEF EvmStage, Unspent, MayLand, ClaimKeyOf
  <1>10. a.result = "challenge" =>
           \/ a.kind = "push" /\ chain'[p] = "reverted"
           \/ a.kind = "pull" /\ now' >= Expires[a.ch]
           \/ a.kind = "hosted"
    <2>1. now >= Expires[a.ch] => now' >= Expires[a.ch]
      BY <1>2
    <2> QED BY <2>1 DEF StageOK
  <1>11. /\ a.kind # "proof" => a.lag = 0
         /\ a.result = "challenge" => a.pc \in {"unmarking", "unclaiming"}
         /\ \A k \in a.held : k.of = "client" => k = ClientKey(a)
         /\ HoldsClient(a) \/ a.marked => a.kind = "hosted"
         /\ a.pc \in {"looking", "filling", "preflight", "marking", "reconciling"} \/ a.reconciling =>
              a.kind = "hosted"
    BY DEF StageOK
  <1> QED BY <1>1, <1>4, <1>7, <1>8, <1>9, <1>10, <1>11 DEF StageOK, HoldsClient

\* A step of attempt w, with a payment p, that keeps its own part of the invariant: the
\* others see no change but what the keys of w entitle it to.
LEMMA InviteKeeps ==
  ASSUME RailsAssumption, RailsInv, InviteInv, NEW w \in Attempts, NEW p \in Payments,
         Running(w), att[w].pay = p,
         \A v \in Attempts \ {w} : att'[v] = att[v],
         UNCHANGED <<now, rail, forgotten, bound, until>>,
         \/ att'[w].pc = "done"
         \/ att'[w].pay = p /\ att'[w].overlapped = att[w].overlapped /\ StageOK(att[w])',
         \A q \in Payments \ {p} : chain'[q] = chain[q] /\ marker'[q] = marker[q],
         chain[p] = "reverted" => chain'[p] = "reverted",
         \A k \in keys \ keys' : k \in att[w].held \/ k = ClaimKeyOf(p),
         att'[w].held \cap keys \subseteq att[w].held,
         ClaimKeyOf(p) \in keys \ keys' => att[w].pc = "settling",
         MayLand(p)' => \/ MayLand(p) \/ HoldsClient(att[w]) \/ att[w].pc = "settling"
                        \/ rail \in {"pull", "stripe"},
         marker[p] # "none" /\ marker'[p] = "none" =>
           HoldsClient(att[w]) /\ (att[w].marked \/ Closed(p) \/ Dead(p) \/ Spent(p)'),
         att'[w].pc # "done" /\ att'[w].marked /\ ~att[w].marked =>
           HoldsClient(att[w]) /\ marker[p] = "none",
         att'[w].pc = "claiming" /\ att'[w].reconciling =>
           (att[w].pc = "claiming" /\ att[w].reconciling) \/ ClientKeyOf(p) \notin keys,
         att'[w].pc = "settling" => \A v \in Attempts \ {w} :
           att[v].pc = "settling" /\ att[v].pay = p => now >= until[p],
         RecordOf(p)'
  PROVE  InviteInv'
  <1>1. /\ now \in Nat /\ until \in [Payments -> Nat] /\ rail \in Rails
        /\ \A v \in Attempts : Running(v) =>
             /\ att[v].pay \in Payments /\ att[v].ch \in Challenges /\ att[v].kind \in KindsOf(rail)
             /\ StageOK(att[v])
    BY DEF RailsInv, RailsTypeOK, AttemptOK, Runs, Running, InviteInv
  <1>2. \A v \in Attempts \ {w} : Running(v) =>
          /\ att[v].pay = p => att[v].overlapped
          /\ HoldsClient(att[v]) /\ HoldsClient(att[w]) => att[v].pay # p
    BY DEF InviteInv, OverlapNoted, RailsInv, HeldOnce, HoldsClient, ClientKey
  <1>9. \A k \in keys \ keys' : k.of \in {"client", "claim"} => k.id = p
    <2>1. \A k \in att[w].held : k.of # "claim"
      BY DEF RailsInv, RailsTypeOK, Attempt
    <2> QED BY <1>1, <2>1 DEF StageOK, ClientKey, ClaimKeyOf
  <1>10. \A q \in Payments : (Guarded(q) /\ (marker[q] # "none" => marker'[q] # "none") => Guarded(q)')
                             /\ (Closed(q) => Closed(q)') /\ (Dead(q) => Dead(q)')
    BY DEF Guarded, Closed, Dead, ChainNow
  <1>11. \A q \in Payments : Spent(q) => Spent(q)'
    <2>1. SUFFICES ASSUME NEW q \in Payments, Spent(q) PROVE Spent(q)'
      OBVIOUS
    <2>2. ClientKeyOf(q) \in keys' /\ \A v \in Attempts : ClientKeyOf(q) \notin att'[v].held
      BY <2>1 DEF Spent, ClientKeyOf, ClaimKeyOf
    <2> QED BY <2>2 DEF Spent, ClientKeyOf
  <1>3. ASSUME NEW v \in Attempts \ {w}, Running(v) PROVE StageOK(att[v])'
    <2>1. PICK q \in Payments : att[v].pay = q
      BY <1>1, <1>3
    <2>2. Like(att[v], att'[v])
      BY DEF Like, Same
    <2>3. CASE q # p
      <3>1. chain'[q] = chain[q] /\ marker'[q] = marker[q]
        BY <2>3
      <3>2. ClaimKeyOf(q) \in keys => ClaimKeyOf(q) \in keys'
        BY <1>9, <2>3 DEF ClaimKeyOf
      <3>3. MayLand(q)' => MayLand(q)
        BY <3>1 DEF MayLand
      <3>4. (Guarded(q) => Guarded(q)') /\ (Spent(q) => Spent(q)')
        BY <1>10, <1>11, <3>1
      <3> QED BY <1>1, <1>3, <2>1, <2>2, <3>1, <3>2, <3>3, <3>4, StageStays
    <2>4. CASE q = p
      <3>1. att[v].overlapped
        BY <1>2, <1>3, <2>1, <2>4
      <3>2. att[v].pc = "settling" => att[v].kind \in Evm /\ rail \in Evm
        BY <1>1, <1>3 DEF RailsInv, AttemptOK, Runs, Running, KindsOf, Evm
      <3>3. att[v].pc = "settling" /\ att[w].pc = "settling" => now >= until[p]
        BY <1>1, <2>1, <2>4 DEF InviteInv, OneSettles
      <3>4. HoldsClient(att[v]) => att[v].kind = "hosted" /\ rail = "hosted"
        BY <1>1, <1>3 DEF StageOK, KindsOf
      <3>5. HoldsClient(att[w]) => att[w].kind = "hosted" /\ rail = "hosted"
        BY <1>1 DEF StageOK, KindsOf
      <3>6. att[w].pc = "settling" => att[w].kind \in Evm /\ rail \in Evm
        BY DEF RailsInv, AttemptOK, Runs, Running, KindsOf, Evm
      <3>7. MayLand(q)' => \/ MayLand(q)
                           \/ /\ att[v].overlapped /\ ~HoldsClient(att[v])
                              /\ att[v].pc = "settling" => now' >= until[q]
        BY <1>2, <1>3, <2>1, <2>4, <3>1, <3>2, <3>3, <3>4, <3>5, <3>6 DEF Evm
      <3>8. HoldsClient(att[v]) /\ marker'[q] = "none" => marker[q] = "none" \/ Refusable(q)'
        BY <1>2, <1>3, <2>1, <2>4
      <3>10. /\ att[v].pc \in {"reconciling", "ready", "sending"} /\ HoldsClient(att[v])
                  /\ Guarded(q) => Guarded(q)'
             /\ Spent(q) => Spent(q)'
        BY <1>2, <1>3, <1>10, <1>11, <2>1, <2>4
      <3>11. att[v].pc = "claiming" /\ att[v].reconciling /\ Guarded(q) => Guarded(q)' \/ Spent(q)'
        <4>1. Closed(p) \/ Dead(p) => Guarded(p)'
          BY <1>10 DEF Guarded
        <4>2. att[v].pc = "claiming" /\ att[v].reconciling /\ att[w].marked => Closed(p) \/ Dead(p)
          BY <1>3, <2>1, <2>4 DEF InviteInv, FoundFirst
        <4> QED BY <1>10, <2>4, <4>1, <4>2
      <3>9. att[v].pc = "settling" /\ now' < until[q] /\ ClaimKeyOf(q) \in keys => ClaimKeyOf(q) \in keys'
        BY <1>1, <2>4, <3>3
      <3> QED BY <1>1, <1>3, <2>1, <2>2, <2>4, <3>7, <3>8, <3>9, <3>10, <3>11, StageStays
    <2> QED BY <2>3, <2>4
  <1>4. \A v \in Attempts : Running(v)' => Running(v) /\ att'[v].pay = att[v].pay /\ StageOK(att[v])'
    BY <1>3 DEF Running
  <1>5. OverlapNoted'
    BY <1>4 DEF InviteInv, OverlapNoted, Running
  <1>6. \A q \in Payments : RecordOf(q)'
    <2>1. SUFFICES ASSUME NEW q \in Payments \ {p} PROVE RecordOf(q)'
      OBVIOUS
    <2>2. chain'[q] = chain[q] /\ marker'[q] = marker[q] /\ RecordOf(q)
      BY DEF InviteInv
    <2>3. /\ ClaimKeyOf(q) \in keys => ClaimKeyOf(q) \in keys'
          /\ ClientKeyOf(q) \in keys => ClientKeyOf(q) \in keys'
      BY <1>9 DEF ClaimKeyOf, ClientKeyOf
    <2> QED BY <2>2, <2>3 DEF RecordOf, MayLand, Closed, ClaimKeyOf, ClientKeyOf
  <1>7. OneSettles'
    <2>1. \A v \in Attempts \ {w} : att'[v].pc = att[v].pc /\ att'[v].pay = att[v].pay
      OBVIOUS
    <2>2. att'[w].pc = "settling" => att'[w].pay = p
      OBVIOUS
    <2> QED BY <1>1, <2>1, <2>2 DEF InviteInv, OneSettles
  <1>8. FoundFirst'
    <2>1. SUFFICES ASSUME NEW u \in Attempts, NEW v \in Attempts, NEW q \in Payments,
                          Running(u)', Running(v)', att'[u].pay = q, att'[v].pay = q,
                          att'[u].marked, att'[v].reconciling, att'[v].pc = "claiming"
                   PROVE  Closed(q)' \/ Dead(q)'
      <3>1. \A u \in Attempts : Running(u)' => att'[u].pay \in Payments
        BY <1>1, <1>4
      <3> QED BY <3>1 DEF FoundFirst, Closed, Dead
    <2>2. SUFFICES Closed(q) \/ Dead(q)
      BY <1>10
    <2>3. /\ Running(u) /\ Running(v) /\ att[u].pay = q /\ att[v].pay = q
          /\ u # w => att[u].marked
          /\ v # w => att[v].reconciling /\ att[v].pc = "claiming"
      BY <1>4, <2>1
    <2>4. u = w => q = p
      BY <2>3
    <2>5. v = w => q = p
      BY <2>3
    <2>6. att[u].marked => HoldsClient(att[u])
      BY <1>1, <2>3 DEF StageOK
    <2>7. HoldsClient(att[u]) => ClientKeyOf(q) \in att[u].held /\ ClientKeyOf(q) \in keys /\ ~Spent(q)
      BY <2>3 DEF RailsInv, HeldOnce, HoldsClient, ClientKey, ClientKeyOf, Spent
    <2>8. att[u].marked \/ (HoldsClient(att[u]) /\ marker[q] = "none")
      BY <2>1, <2>3, <2>4 DEF Running
    <2>9. att[v].pc = "claiming" /\ att[v].reconciling
      BY <2>1, <2>3, <2>5, <2>6, <2>7, <2>8
    <2>10. CASE att[u].marked
      BY <2>3, <2>9, <2>10 DEF InviteInv, FoundFirst
    <2>11. CASE HoldsClient(att[u]) /\ marker[q] = "none"
      <3>1. HostedStage(att[v])
        BY <1>1, <2>3, <2>9 DEF StageOK
      <3> QED BY <2>3, <2>7, <2>9, <2>11, <3>1 DEF HostedStage, Guarded
    <2> QED BY <2>8, <2>10, <2>11
  <1> QED BY <1>4, <1>5, <1>6, <1>7, <1>8 DEF InviteInv, GoodUntilExpiry

\* What the invariant says of a running attempt and its payment.
LEMMA InviteFacts ==
  ASSUME RailsInv, InviteInv, NEW w \in Attempts, Running(w)
  PROVE  /\ att[w] \in Attempt /\ att[w].pc \notin {"idle", "done"} /\ StageOK(att[w]) /\ Runs(att[w])
         /\ att[w].pay \in Payments /\ att[w].ch \in Challenges /\ att[w].kind \in KindsOf(rail)
         /\ att[w].result # "receipt" /\ att[w].held \subseteq keys
         /\ RecordOf(att[w].pay) /\ now \in Nat /\ until[att[w].pay] \in Nat
         /\ \A v \in Attempts \ {w} : att[v].pay = att[w].pay /\ Running(v) => att[w].overlapped
         /\ marker \in [Payments -> Envs]
         /\ chain \in [Payments -> {"none", "pooled", "paid", "reverted", "action", "failed"}]
  BY DEF RailsInv, RailsTypeOK, AttemptOK, Runs, Running, InviteInv, HeldOnce, OverlapNoted, Envs

\* A step that changes nothing but its attempt.
LEMMA InvitePlain ==
  ASSUME RailsAssumption, RailsInv, InviteInv, NEW w \in Attempts, NEW b, Running(w), Becomes(w, b),
         UNCHANGED <<now, rail, forgotten, bound, until, chain, keys, marker>>,
         b.pc = "done" \/ (b.pay = att[w].pay /\ b.overlapped = att[w].overlapped /\ StageOK(b)
                           /\ b.marked = att[w].marked),
         b.held \subseteq att[w].held,
         b.pc = "settling" => att[w].pc = "settling",
         b.pc = "claiming" /\ b.reconciling =>
           (att[w].pc = "claiming" /\ att[w].reconciling) \/ ClientKey(att[w]) \notin keys
  PROVE  InviteInv'
  <1>1. PICK p \in Payments : att[w].pay = p
    BY InviteFacts
  <1>2. att'[w] = b /\ \A v \in Attempts \ {w} : att'[v] = att[v]
    BY DEF Becomes, RailsInv, RailsTypeOK
  <1>3. b.pc # "done" => att'[w].pay = p /\ att'[w].overlapped = att[w].overlapped /\ StageOK(att[w])'
    <2>1. SUFFICES ASSUME b.pc # "done" PROVE StageOK(att[w])'
      BY <1>1, <1>2
    <2>2. \A q \in Payments : Spent(q) => Spent(q)'
      BY <1>2 DEF Spent, ClientKeyOf
    <2>3. HostedStage(b) => HostedStage(att[w])'
      BY <1>1, <1>2, <2>1, <2>2 DEF HostedStage, HoldsClient, ClientKey, MayLand, Refusable, Closed,
         Guarded, Dead, ChainNow
    <2>4. EvmStage(b) => EvmStage(att[w])'
      BY <1>2 DEF EvmStage, Unspent, MayLand, ClaimKeyOf
    <2> QED BY <1>2, <2>1, <2>3, <2>4 DEF StageOK, HoldsClient, ClientKey
  <1>4. RecordOf(p) /\ (RecordOf(p) => RecordOf(p)') /\ (MayLand(p)' => MayLand(p))
    BY DEF InviteInv, RecordOf, MayLand, Closed, ClientKeyOf, ClaimKeyOf
  <1>5. att'[w].pc = "settling" => \A v \in Attempts \ {w} :
          att[v].pc = "settling" /\ att[v].pay = p => now >= until[p]
    <2>1. now \in Nat /\ until[p] \in Nat
      BY DEF RailsInv, RailsTypeOK
    <2> QED BY <1>1, <1>2, <2>1 DEF InviteInv, OneSettles
  <1>6. ClientKey(att[w]) = ClientKeyOf(p)
    BY <1>1 DEF ClientKey, ClientKeyOf
  <1> QED BY <1>1, <1>2, <1>3, <1>4, <1>5, <1>6, InviteKeeps

LEMMA InviteEnds ==
  ASSUME RailsAssumption, RailsInv, InviteInv, NEW w \in Attempts, Running(w),
         NEW result \in Results, Becomes(w, Answers(att[w], result)),
         UNCHANGED <<now, rail, forgotten, bound, until, chain, keys, marker>>
  PROVE  InviteInv'
  <1> DEFINE b == Answers(att[w], result)
  <1>1. b.pc = "done" /\ b.held = {}
    BY InviteFacts, AnswersFields
  <1> HIDE DEF b
  <1>2. b.pc # "settling" /\ b.pc # "claiming" /\ Becomes(w, b)
    BY <1>1 DEF b
  <1> QED BY <1>1, <1>2, InvitePlain

\* When an attempt may be answered with another challenge.
Invites(a) ==
  /\ a.kind = "push" => chain[a.pay] = "reverted"
  /\ a.kind = "pull" => now >= Expires[a.ch]
  /\ a.kind = "hosted" => a.overlapped \/ Refusable(a.pay)
  /\ a.kind \in {"pull", "push", "hosted"}

\* The fields of an attempt that fails; it goes on to its cleanup.
LEMMA FailsStage ==
  ASSUME NEW a \in Attempt, StageOK(a), NEW result \in Results,
         result = "challenge" => Invites(a), NEW u \in BOOLEAN,
         a.marked /\ ~u /\ a.unknown => Refusable(a.pay)
  PROVE  LET b == [Fails(a, result) EXCEPT !.unknown = u]
         IN /\ b.pc = "unmarking" /\ b.pay = a.pay /\ b.overlapped = a.overlapped /\ StageOK(b)
            /\ b.held = a.held /\ b.marked = a.marked
            /\ [Fails(a, result) EXCEPT !.unknown = a.unknown] = Fails(a, result)
  <1> DEFINE b == [Fails(a, result) EXCEPT !.unknown = u]
  <1>1. /\ b.pc = "unmarking" /\ b.pay = a.pay /\ b.ch = a.ch /\ b.kind = a.kind /\ b.lag = a.lag
        /\ b.held = a.held /\ b.overlapped = a.overlapped /\ b.reconciling = a.reconciling
        /\ b.marked = a.marked /\ b.unknown = u /\ b.result = result
    BY DEF Fails, Attempt
  <1>2. [Fails(a, result) EXCEPT !.unknown = a.unknown] = Fails(a, result)
    BY DEF Fails, Attempt
  <1> HIDE DEF b
  <1>3. a.kind = "hosted" => HostedStage(b)
    <2>1. SUFFICES ASSUME a.kind = "hosted", HostedStage(a) PROVE HostedStage(b)
      BY DEF StageOK
    <2>2. HoldsClient(b) <=> HoldsClient(a)
      BY <1>1 DEF HoldsClient, ClientKey
    <2> QED BY <1>1, <2>1, <2>2 DEF HostedStage, HashStages, TempoStages, Invites
  <1>4. a.kind \in Evm => EvmStage(b)
    BY <1>1 DEF EvmStage
  <1>5. StageOK(b)
    BY <1>1, <1>3, <1>4 DEF StageOK, HoldsClient, ClientKey, Invites
  <1> QED BY <1>1, <1>2, <1>5 DEF b

LEMMA InviteFails ==
  ASSUME RailsAssumption, RailsInv, InviteInv, NEW w \in Attempts, Running(w),
         NEW result \in Results, Becomes(w, Fails(att[w], result)),
         result = "challenge" => Invites(att[w]),
         UNCHANGED <<now, rail, forgotten, bound, until, chain, keys, marker>>
  PROVE  InviteInv'
  <1> DEFINE a == att[w]
             b == [Fails(a, result) EXCEPT !.unknown = a.unknown]
  <1>1. a \in Attempt /\ StageOK(a) /\ a.unknown \in BOOLEAN
    BY InviteFacts DEF Attempt
  <1>2. /\ b.pc = "unmarking" /\ b.pay = a.pay /\ b.overlapped = a.overlapped /\ StageOK(b)
        /\ b.held = a.held /\ b.marked = a.marked /\ Becomes(w, b)
    BY <1>1, FailsStage
  <1> HIDE DEF b
  <1> QED BY <1>2, InvitePlain

LEMMA MoveStage ==
  ASSUME NEW a \in Attempt, StageOK(a),
         NEW pc \in Stages \ {"received", "preflight", "reconciling", "sending", "sent", "settling"},
         a.kind = "hosted" /\ pc \in HashStages => HoldsClient(a),
         pc \in {"looking", "filling", "marking"} => a.kind = "hosted",
         a.kind = "hosted" /\ ~a.overlapped /\ pc = "filling" => Refusable(a.pay),
         a.kind = "hosted" => pc # "claiming" /\ (pc = "ready" => Guarded(a.pay)),
         a.pc \in {"sending", "sent", "unmarking", "unclaiming"} => pc = "unclaiming",
         pc = "marking" => a.pc = "preflight",
         a.kind = "hosted" /\ pc \in {"validated", "looking", "filling"} =>
           a.pc \in {"received", "validated", "looking"},
         pc = "asking" /\ ~a.overlapped /\ now < until[a.pay] => Unspent(a.pay)
  PROVE  LET b == [a EXCEPT !.pc = pc]
         IN /\ b.pc = pc /\ b.pay = a.pay /\ b.overlapped = a.overlapped /\ StageOK(b)
            /\ b.held = a.held /\ b.marked = a.marked /\ b.reconciling = a.reconciling
  <1> DEFINE b == [a EXCEPT !.pc = pc]
  <1>1. /\ b.pc = pc /\ b.pay = a.pay /\ b.ch = a.ch /\ b.kind = a.kind /\ b.lag = a.lag
        /\ b.held = a.held /\ b.overlapped = a.overlapped /\ b.reconciling = a.reconciling
        /\ b.env = a.env /\ b.marked = a.marked /\ b.unknown = a.unknown /\ b.result = a.result
    BY DEF Attempt
  <1> HIDE DEF b
  <1>2. a.kind = "hosted" => HostedStage(b)
    <2>1. SUFFICES ASSUME a.kind = "hosted", HostedStage(a) PROVE HostedStage(b)
      BY DEF StageOK
    <2>2. HoldsClient(b) <=> HoldsClient(a)
      BY <1>1 DEF HoldsClient, ClientKey
    <2> QED BY <1>1, <2>1, <2>2 DEF HostedStage
  <1>3. a.kind \in Evm => EvmStage(b)
    BY <1>1 DEF EvmStage
  <1>4. StageOK(b)
    BY <1>1, <1>2, <1>3 DEF StageOK, HoldsClient, ClientKey
  <1> QED BY <1>1, <1>4 DEF b

LEMMA InviteMoves ==
  ASSUME RailsAssumption, RailsInv, InviteInv, NEW w \in Attempts, Running(w),
         NEW pc \in Stages \ {"received", "preflight", "reconciling", "sending", "sent", "settling"},
         Becomes(w, [att[w] EXCEPT !.pc = pc]),
         att[w].kind = "hosted" /\ pc \in HashStages => HoldsClient(att[w]),
         pc \in {"looking", "filling", "marking"} => att[w].kind = "hosted",
         att[w].kind = "hosted" /\ ~att[w].overlapped /\ pc = "filling" => Refusable(att[w].pay),
         att[w].kind = "hosted" => pc # "claiming" /\ (pc = "ready" => Guarded(att[w].pay)),
         att[w].pc \in {"sending", "sent", "unmarking", "unclaiming"} => pc = "unclaiming",
         pc = "marking" => att[w].pc = "preflight",
         att[w].kind = "hosted" /\ pc \in {"validated", "looking", "filling"} =>
           att[w].pc \in {"received", "validated", "looking"},
         pc = "asking" /\ ~att[w].overlapped /\ now < until[att[w].pay] => Unspent(att[w].pay),
         UNCHANGED <<now, rail, forgotten, bound, until, chain, keys, marker>>
  PROVE  InviteInv'
  <1> DEFINE a == att[w]
             b == [a EXCEPT !.pc = pc]
  <1>1. /\ b.pc = pc /\ b.pay = a.pay /\ b.overlapped = a.overlapped /\ StageOK(b) /\ Becomes(w, b)
        /\ b.held = a.held /\ b.marked = a.marked /\ b.reconciling = a.reconciling
    BY InviteFacts, MoveStage
  <1>2. pc = "claiming" => ~a.reconciling
    BY InviteFacts DEF StageOK
  <1> HIDE DEF b
  <1> QED BY <1>1, <1>2, InvitePlain

-----------------------------------------------------------------------------
(* The steps, once more.                                                    *)

LEMMA ReceiveInvites ==
  ASSUME RailsAssumption, RailsInv, InviteInv, NEW w \in Attempts, NEW p \in Payments,
         NEW c \in Challenges, NEW k \in KindsOf(rail), Receive(w, p, c, k)
  PROVE  InviteInv'
  <1> DEFINE others == {v \in Attempts : Running(v) /\ att[v].pay = p}
             o == others # {}
  <1>1. PICK lag \in 0 .. (IF k = "proof" THEN MaxLag ELSE 0),
             e \in (IF k = "hosted" THEN {"none"} ELSE IF k = "push" /\ rail = "hosted"
                    THEN Envelopes \cup {"own"} ELSE {"own"}) :
          att' = [v \in Attempts |->
            IF v = w THEN [Idle EXCEPT !.pc = "received", !.pay = p, !.ch = c, !.kind = k,
                             !.env = e, !.lag = lag, !.overlapped = o]
            ELSE IF v \in others THEN [att[v] EXCEPT !.overlapped = TRUE] ELSE att[v]]
    BY DEF Receive
  <1> DEFINE a == [Idle EXCEPT !.pc = "received", !.pay = p, !.ch = c, !.kind = k,
                     !.env = e, !.lag = lag, !.overlapped = o]
  <1>2. UNCHANGED <<now, rail, forgotten, bound, until, chain, envs, keys, marker>> /\ att[w].pc = "idle"
    BY DEF Receive, At, terms, world, store
  <1>3. lag \in Nat /\ (k # "proof" => lag = 0)
    BY DEF RailsAssumption
  <1>4. w \notin others /\ \A v \in others : Running(v) /\ att[v].pay = p
    BY <1>2 DEF Running
  <1>5. \A v \in Attempts : Running(v) /\ att[v].pay = p => v \in others
    OBVIOUS
  <1>6. o <=> \E v \in others : TRUE
    OBVIOUS
  <1> HIDE DEF others, o
  <1>7. /\ a.pc = "received" /\ a.pay = p /\ a.ch = c /\ a.kind = k /\ a.lag = lag /\ a.held = {}
        /\ a.result = "none" /\ ~a.reconciling /\ ~a.marked /\ ~a.unknown /\ a.overlapped = o
    BY DEF Idle
  <1> HIDE DEF a
  <1>8. StageOK(a)
    BY <1>3, <1>7 DEF StageOK, HostedStage, EvmStage, HoldsClient, HashStages, TempoStages
  <1>9. att'[w] = a
    BY <1>1 DEF a
  <1>10. StageOK(att[w])'
    BY <1>3, <1>7, <1>9 DEF StageOK, HostedStage, EvmStage, HoldsClient, HashStages, TempoStages
  <1>11. \A v \in Attempts \ {w} :
           /\ Like(att[v], att'[v]) /\ (v \in others => att'[v].overlapped)
    <2>1. SUFFICES ASSUME NEW v \in Attempts \ {w}
                   PROVE  Like(att[v], att'[v]) /\ (v \in others => att'[v].overlapped)
      OBVIOUS
    <2>2. /\ v \in others => att'[v] = [att[v] EXCEPT !.overlapped = TRUE]
          /\ v \notin others => att'[v] = att[v]
      BY <1>1
    <2>3. att[v] \in Attempt
      BY DEF RailsInv, RailsTypeOK
    <2> QED BY <2>2, <2>3 DEF Attempt, Like, Same
  <1>12. ASSUME NEW v \in Attempts \ {w}, Running(v) PROVE StageOK(att[v])'
    <2>1. PICK q \in Payments : att[v].pay = q
      BY <1>12, InviteFacts
    <2>2. now \in Nat /\ now <= now' /\ until[q] \in Nat /\ att[v].ch \in Challenges /\ StageOK(att[v])
      BY <1>2, <1>12, <2>1, InviteFacts
    <2>3. (MayLand(q)' => MayLand(q)) /\ (ClaimKeyOf(q) \in keys => ClaimKeyOf(q) \in keys')
      BY <1>2 DEF MayLand
    <2>4. Guarded(q) => Guarded(q)'
      BY <1>2 DEF Guarded, Closed, Dead, ChainNow
    <2>5. Spent(q) => Spent(q)'
      <3>1. \A u \in Attempts : att'[u].held \subseteq att[u].held
        BY <1>7, <1>9, <1>11 DEF Like, Same
      <3> QED BY <1>2, <3>1 DEF Spent, ClientKeyOf
    <2> QED BY <1>2, <1>11, <2>1, <2>2, <2>3, <2>4, <2>5, StageStays
  <1>13. \A v \in Attempts : Running(v)' => StageOK(att[v])'
    BY <1>10, <1>11, <1>12 DEF Running, Like, Same
  <1>14. OverlapNoted'
    <2>1. SUFFICES ASSUME NEW u \in Attempts, NEW v \in Attempts, u # v, Running(u)', Running(v)',
                          att'[u].pay = att'[v].pay
                   PROVE  att'[v].overlapped
      BY DEF OverlapNoted
    <2>2. CASE v = w
      <3>1. u \in others
        BY <1>5, <1>7, <1>9, <1>11, <2>1, <2>2 DEF Running, Like, Same
      <3> QED BY <1>6, <1>7, <1>9, <2>2, <3>1
    <2>3. CASE u = w
      BY <1>5, <1>7, <1>9, <1>11, <2>1, <2>3 DEF Running, Like, Same
    <2>4. CASE u # w /\ v # w
      BY <1>11, <2>1, <2>4 DEF InviteInv, OverlapNoted, Running, Like, Same
    <2> QED BY <2>2, <2>3, <2>4
  <1>15. OneSettles'
    BY <1>2, <1>7, <1>9, <1>11 DEF InviteInv, OneSettles, Like, Same
  <1>16. \A q \in Payments : RecordOf(q)'
    BY <1>2 DEF InviteInv, RecordOf, MayLand, Closed, ClientKeyOf, ClaimKeyOf
  <1>17. FoundFirst'
    <2>1. \A v \in Attempts : v = w => ~att'[v].marked /\ ~att'[v].reconciling
      BY <1>7, <1>9
    <2>2. \A v \in Attempts \ {w} :
            /\ Running(v)' => Running(v)
            /\ att'[v].pay = att[v].pay /\ att'[v].pc = att[v].pc
            /\ att'[v].marked = att[v].marked /\ att'[v].reconciling = att[v].reconciling
      BY <1>11 DEF Running, Like, Same
    <2> QED BY <1>2, <2>1, <2>2 DEF InviteInv, FoundFirst, Closed, Dead, ChainNow
  <1> QED BY <1>2, <1>13, <1>14, <1>15, <1>16, <1>17 DEF InviteInv, GoodUntilExpiry

LEMMA RequestsInvite ==
  ASSUME RailsAssumption, RailsInv, InviteInv, NEW w \in Attempts,
         RefuseExpired(w) \/ InternalError(w) \/ Cancel(w) \/ Crash(w)
  PROVE  InviteInv'
  <1>1. /\ Running(w) /\ UNCHANGED <<now, rail, forgotten, bound, until, chain, envs, keys, marker>>
    BY DEF RefuseExpired, InternalError, Cancel, Crash, Running, terms, world, store
  <1>2. \/ \E result \in {"challenge", "none"} : Becomes(w, Answers(att[w], result))
        \/ \E result \in {"error", "none"} : Becomes(w, Fails(att[w], result))
    BY DEF RefuseExpired, InternalError, Cancel, Crash
  <1> QED BY <1>1, <1>2, InviteEnds, InviteFails DEF Results

LEMMA ValidatePullInvites ==
  ASSUME RailsAssumption, RailsInv, InviteInv, NEW w \in Attempts, ValidatePull(w) PROVE InviteInv'
  <1>1. /\ att[w].pc = "received" /\ Running(w)
        /\ UNCHANGED <<now, rail, forgotten, bound, until, chain, envs, keys, marker>>
    BY DEF ValidatePull, At, Running, terms, world, store
  <1>2. CASE Becomes(w, [att[w] EXCEPT !.pc = "validated"])
    BY <1>1, <1>2, InviteMoves DEF Stages, TempoStages, HashStages
  <1>3. CASE Becomes(w, Answers(att[w], "replayed"))
    BY <1>1, <1>3, InviteEnds DEF Results
  <1> QED BY <1>2, <1>3 DEF ValidatePull

LEMMA BroadcastPullInvites ==
  ASSUME RailsAssumption, RailsInv, InviteInv, NEW w \in Attempts, BroadcastPull(w) PROVE InviteInv'
  <1>1. /\ att[w].pc = "validated" /\ Running(w)
        /\ UNCHANGED <<now, rail, forgotten, bound, until, chain, envs, keys, marker>>
    BY DEF BroadcastPull, At, Running, terms, world, store
  <1>2. CASE att[w].kind = "hosted" /\ Becomes(w, [att[w] EXCEPT !.pc = "looking"])
    BY <1>1, <1>2, InviteMoves DEF Stages, TempoStages, HashStages
  <1>3. CASE att[w].kind # "hosted" /\ Becomes(w, [att[w] EXCEPT !.pc = "claiming"])
    BY <1>1, <1>3, InviteMoves DEF Stages, TempoStages, HashStages
  <1> QED BY <1>2, <1>3 DEF BroadcastPull, Moves, Is

\* To the claim of the keys: again, or with a payment of which nothing may have landed.
LEMMA ToClaimingInvites ==
  ASSUME RailsAssumption, RailsInv, InviteInv, NEW w \in Attempts,
         att[w].pc \in {"looking", "filling"}, NEW e, e # "none", NEW r \in BOOLEAN,
         ~r => att[w].overlapped \/ Refusable(att[w].pay),
         r => marker[att[w].pay] # "none" /\ ClientKey(att[w]) \notin keys,
         Becomes(w, [att[w] EXCEPT !.pc = "claiming", !.env = e, !.reconciling = r]),
         UNCHANGED <<now, rail, forgotten, bound, until, chain, envs, keys, marker>>
  PROVE  InviteInv'
  <1> DEFINE a == att[w]
             b == [a EXCEPT !.pc = "claiming", !.env = e, !.reconciling = r]
  <1>1. Running(w) /\ a \in Attempt /\ StageOK(a) /\ a.kind = "hosted"
    BY InviteFacts DEF Running, StageOK
  <1>2. /\ b.pc = "claiming" /\ b.pay = a.pay /\ b.ch = a.ch /\ b.kind = a.kind /\ b.lag = a.lag
        /\ b.held = a.held /\ b.overlapped = a.overlapped /\ b.reconciling = r
        /\ b.env = e /\ b.marked = a.marked /\ b.unknown = a.unknown /\ b.result = a.result
    BY <1>1 DEF Attempt
  <1> HIDE DEF b
  <1>3. HoldsClient(b) <=> HoldsClient(a)
    BY <1>2 DEF HoldsClient, ClientKey
  <1>4. HostedStage(b)
    BY <1>1, <1>2, <1>3 DEF StageOK, HostedStage, HashStages, TempoStages, Guarded
  <1>5. StageOK(b) /\ Becomes(w, b)
    BY <1>1, <1>2, <1>3, <1>4 DEF StageOK, Evm, ClientKey, b
  <1> QED BY <1>1, <1>2, <1>5, InvitePlain

LEMMA LookUpHostedInvites ==
  ASSUME RailsAssumption, RailsInv, InviteInv, NEW w \in Attempts, LookUpHosted(w) PROVE InviteInv'
  <1> DEFINE a == att[w]
  <1>1. /\ a.pc = "looking" /\ Running(w)
        /\ UNCHANGED <<now, rail, forgotten, bound, until, chain, envs, keys, marker>>
    BY DEF LookUpHosted, At, Running, terms, world, store
  <1>2. a.kind = "hosted" /\ rail = "hosted" /\ RecordOf(a.pay)
    BY <1>1, InviteFacts DEF StageOK, KindsOf
  <1>3. CASE Becomes(w, Answers(a, "replayed"))
    BY <1>1, <1>3, InviteEnds DEF Results
  <1>4. CASE /\ ClientKey(a) \notin keys /\ Prior(w) # "none"
             /\ Becomes(w, [a EXCEPT !.pc = "claiming", !.env = Prior(w), !.reconciling = TRUE])
    BY <1>1, <1>4, ToClaimingInvites DEF Prior
  <1>5. CASE /\ ClientKey(a) \notin keys /\ Prior(w) = "none"
             /\ Becomes(w, [a EXCEPT !.pc = "filling"])
    <2>1. Refusable(a.pay)
      BY <1>2, <1>5 DEF RecordOf, Refusable, Prior, ClientKey, ClientKeyOf
    <2> QED BY <1>1, <1>2, <1>5, <2>1, InviteMoves DEF Stages, TempoStages, HashStages
  <1> QED BY <1>3, <1>4, <1>5 DEF LookUpHosted, Moves

LEMMA FillHostedInvites ==
  ASSUME RailsAssumption, RailsInv, InviteInv, NEW w \in Attempts, FillHosted(w) PROVE InviteInv'
  <1> DEFINE a == att[w]
  <1>1. /\ a.pc = "filling" /\ Running(w)
        /\ UNCHANGED <<now, rail, forgotten, bound, until, chain, envs, keys, marker>>
    BY DEF FillHosted, At, Running, terms, world, store
  <1>2. a \in Attempt /\ StageOK(a) /\ a.kind = "hosted"
    BY <1>1, InviteFacts DEF StageOK
  <1>3. CASE \E result \in {"challenge", "error"} : Becomes(w, Answers(a, result))
    BY <1>1, <1>3, InviteEnds DEF Results
  <1>4. ASSUME NEW e \in Envelopes, Becomes(w, HostedEnvelope(a, e)) PROVE InviteInv'
    <2>1. ~a.reconciling /\ (a.overlapped \/ Refusable(a.pay))
      BY <1>1, <1>2 DEF StageOK, HostedStage
    <2>2. HostedEnvelope(a, e) = [a EXCEPT !.pc = "claiming", !.env = e, !.reconciling = FALSE]
      BY <1>2, <2>1 DEF HostedEnvelope, Attempt
    <2>3. Becomes(w, [a EXCEPT !.pc = "claiming", !.env = e, !.reconciling = FALSE])
      BY <1>4, <2>2
    <2>4. e # "none"
      BY <1>4 DEF RailsAssumption
    <2> HIDE DEF Becomes
    <2> QED BY <1>1, <2>1, <2>2, <2>3, <2>4, ToClaimingInvites
  <1> QED BY <1>3, <1>4 DEF FillHosted

\* A step whose attempt stays in its stage, in the same world but for the keys.
LEMMA InviteTakes ==
  ASSUME RailsAssumption, RailsInv, InviteInv, NEW w \in Attempts, Running(w), NEW b, Becomes(w, b),
         keys \subseteq keys', UNCHANGED <<now, rail, forgotten, bound, until, chain, marker>>,
         b.held \cap keys \subseteq att[w].held,
         \/ b.pc = "done"
         \/ /\ b.pay = att[w].pay /\ b.overlapped = att[w].overlapped /\ StageOK(b)
            /\ b.pc # "settling" /\ b.marked = att[w].marked
            /\ b.pc = "claiming" /\ b.reconciling => att[w].pc = "claiming" /\ att[w].reconciling
  PROVE  InviteInv'
  <1>1. PICK p \in Payments : att[w].pay = p
    BY InviteFacts
  <1>2. att'[w] = b /\ \A v \in Attempts \ {w} : att'[v] = att[v]
    BY DEF Becomes, RailsInv, RailsTypeOK
  <1>3. b.pc # "done" => att'[w].pay = p /\ att'[w].overlapped = att[w].overlapped /\ StageOK(att[w])'
    <2>1. SUFFICES ASSUME b.pc # "done" PROVE StageOK(att[w])'
      BY <1>1, <1>2
    <2>2. \A q \in Payments : Spent(q) => Spent(q)'
      BY <1>2 DEF Spent, ClientKeyOf
    <2>3. HostedStage(b) => HostedStage(att[w])'
      BY <1>1, <1>2, <2>1, <2>2 DEF HostedStage, HoldsClient, ClientKey, MayLand, Refusable, Closed,
         Guarded, Dead, ChainNow
    <2>4. EvmStage(b) => EvmStage(att[w])'
      BY <1>2 DEF EvmStage, Unspent, MayLand, ClaimKeyOf
    <2> QED BY <1>2, <2>1, <2>3, <2>4 DEF StageOK, HoldsClient, ClientKey
  <1>4. RecordOf(p)' /\ (MayLand(p)' => MayLand(p))
    BY DEF InviteInv, RecordOf, MayLand, Closed, ClientKeyOf, ClaimKeyOf
  <1>5. att'[w].pc # "settling"
    BY <1>2
  <1> QED BY <1>1, <1>2, <1>3, <1>4, <1>5, InviteKeeps

\* Whoever gets the key of the client's transaction finds the record of what was sent.
LEMMA ClaimInvites ==
  ASSUME RailsAssumption, RailsInv, InviteInv, NEW w \in Attempts, Claim(w) PROVE InviteInv'
  <1> DEFINE a == att[w]
             key == NextKey(a)
             held == a.held \cup {key}
  <1>1. a.pc = "claiming" /\ Running(w) /\ UNCHANGED <<now, rail, forgotten, bound, until, chain, envs, marker>>
    BY DEF Claim, At, Running, terms, world
  <1>2. /\ a \in Attempt /\ StageOK(a) /\ a.kind \in {"pull", "hosted"} /\ RecordOf(a.pay)
        /\ a.kind = "hosted" => rail = "hosted"
    BY <1>1, InviteFacts DEF Runs, TempoStages, KindsOf
  <1>3. CASE key \in keys
    <2>1. Becomes(w, Fails(a, "replayed")) /\ UNCHANGED keys
      BY <1>3 DEF Claim
    <2> QED BY <1>1, <2>1, InviteFails DEF Results
  <1>4. CASE key \notin keys
    <2>1. PICK pc \in {"claiming", "reconciling", "preflight", "ready"} :
            /\ keys' = keys \cup {key} /\ Becomes(w, [a EXCEPT !.held = held, !.pc = pc])
            /\ pc # "claiming" => held = KeysOf(a)
            /\ pc = "reconciling" => a.reconciling
            /\ pc = "preflight" => ~a.reconciling /\ a.kind = "hosted"
            /\ pc = "ready" => a.kind # "hosted"
      BY <1>4 DEF Claim
    <2> DEFINE b == [a EXCEPT !.held = held, !.pc = pc]
    <2>2. /\ b.pc = pc /\ b.pay = a.pay /\ b.ch = a.ch /\ b.kind = a.kind /\ b.lag = a.lag
          /\ b.held = held /\ b.overlapped = a.overlapped /\ b.reconciling = a.reconciling
          /\ b.env = a.env /\ b.marked = a.marked /\ b.unknown = a.unknown /\ b.result = a.result
      BY <1>2 DEF Attempt
    <2>3. key = HashKey(a) \/ (key = ClientKey(a) /\ a.kind = "hosted")
      BY DEF NextKey
    <2> HIDE DEF b, held
    <2>4. HoldsClient(b) <=> ClientKey(a) \in held
      BY <2>2 DEF HoldsClient, ClientKey
    <2>5. HoldsClient(b) => HoldsClient(a) \/ (key = ClientKey(a) /\ a.kind = "hosted")
      BY <2>3, <2>4 DEF held, HoldsClient, ClientKey, HashKey
    <2>6. \A k \in held : k.of = "client" => k = ClientKey(a)
      BY <1>2, <2>3 DEF held, StageOK, HashKey
    <2>7. key = ClientKey(a) /\ a.kind = "hosted" => Refusable(a.pay) \/ marker[a.pay] # "none"
      BY <1>2, <1>4 DEF RecordOf, Refusable, ClientKey, ClientKeyOf
    <2>8. HoldsClient(a) => HoldsClient(b)
      BY <2>4 DEF held, HoldsClient
    <2>9. a.kind = "hosted" /\ pc # "claiming" => HoldsClient(b)
      BY <2>1, <2>4 DEF KeysOf
    <2>10. a.kind = "hosted" => HostedStage(b)
      <3>1. SUFFICES ASSUME a.kind = "hosted", HostedStage(a) PROVE HostedStage(b)
        BY <1>2 DEF StageOK
      <3>2. pc \in HashStages => HoldsClient(b)
        BY <2>9, <3>1 DEF HashStages
      <3>3. pc = "claiming" /\ a.reconciling => Guarded(a.pay) \/ Spent(a.pay)
        BY <1>1, <3>1 DEF HostedStage
      <3>4. ~Spent(a.pay)
        <4>1. HoldsClient(a) => ~Spent(a.pay)
          BY DEF HoldsClient, ClientKey, ClientKeyOf, Spent
        <4>2. key = ClientKey(a) \/ HoldsClient(a)
          BY <3>1 DEF NextKey, HoldsClient
        <4> QED BY <1>4, <4>1, <4>2 DEF ClientKey, ClientKeyOf, Spent
      <3>5. a.reconciling => Guarded(a.pay)
        BY <1>1, <3>1, <3>4 DEF HostedStage
      <3>6. pc # "ready" /\ ~a.unknown
        BY <1>1, <2>1, <3>1 DEF HostedStage
      <3> QED BY <1>1, <2>1, <2>2, <2>5, <2>7, <3>1, <3>2, <3>3, <3>5, <3>6 DEF HostedStage
    <2>11. StageOK(b)
      BY <1>1, <1>2, <2>1, <2>2, <2>5, <2>6, <2>8, <2>10 DEF StageOK, ClientKey, Evm
    <2>12. Becomes(w, b) /\ b.pc # "settling" /\ b.held \cap keys \subseteq a.held
      BY <1>4, <2>1, <2>2 DEF b, held
    <2> QED BY <1>1, <2>1, <2>2, <2>11, <2>12, InviteTakes
  <1> QED BY <1>3, <1>4

LEMMA PreflightInvites ==
  ASSUME RailsAssumption, RailsInv, InviteInv, NEW w \in Attempts, Preflight(w) PROVE InviteInv'
  <1> DEFINE a == att[w]
  <1>1. /\ a.pc = "preflight" /\ Running(w)
        /\ UNCHANGED <<now, rail, forgotten, bound, until, chain, envs, keys, marker>>
    BY DEF Preflight, At, Running, terms, world, store
  <1>2. StageOK(a) /\ a.kind = "hosted" /\ HostedStage(a)
    BY <1>1, InviteFacts DEF StageOK
  <1>3. HoldsClient(a) /\ (~a.overlapped => Refusable(a.pay))
    BY <1>1, <1>2 DEF HostedStage, HashStages, TempoStages
  <1>4. CASE Becomes(w, [a EXCEPT !.pc = "marking"])
    BY <1>1, <1>2, <1>3, <1>4, InviteMoves DEF Stages, TempoStages
  <1>5. CASE \E result \in {"error", "challenge"} : Becomes(w, Fails(a, result))
    <2>1. Invites(a)
      BY <1>2, <1>3 DEF Invites
    <2> QED BY <1>1, <1>5, <2>1, InviteFails DEF Results
  <1> QED BY <1>4, <1>5 DEF Preflight, Moves, Refusal

LEMMA MarkInvites ==
  ASSUME RailsAssumption, RailsInv, InviteInv, NEW w \in Attempts, Mark(w) PROVE InviteInv'
  <1> DEFINE a == att[w]
             b == [a EXCEPT !.pc = "ready", !.marked = TRUE]
  <1>1. a.pc = "marking" /\ Running(w) /\ UNCHANGED <<now, rail, forgotten, bound, until, chain, envs, keys>>
    BY DEF Mark, At, Running, terms, world
  <1>2. /\ a \in Attempt /\ StageOK(a) /\ a.kind = "hosted" /\ HostedStage(a) /\ rail = "hosted"
        /\ marker \in [Payments -> Envs]
    BY <1>1, InviteFacts DEF StageOK, KindsOf
  <1>3. HoldsClient(a) /\ ClientKey(a) \in keys
    BY <1>1, <1>2, InviteFacts DEF HostedStage, HashStages, TempoStages, HoldsClient
  <1>4. PICK p \in Payments : a.pay = p
    BY <1>1, InviteFacts
  <1>5. CASE Becomes(w, b) /\ marker[p] = "none" /\ marker' = [marker EXCEPT ![p] = a.env]
    <2>1. /\ b.pc = "ready" /\ b.pay = p /\ b.ch = a.ch /\ b.kind = a.kind /\ b.lag = a.lag
          /\ b.held = a.held /\ b.overlapped = a.overlapped /\ b.reconciling = a.reconciling
          /\ b.marked /\ b.unknown = a.unknown /\ b.result = a.result
      BY <1>2, <1>4 DEF Attempt
    <2> HIDE DEF b
    <2>2. att'[w] = b /\ \A v \in Attempts \ {w} : att'[v] = att[v]
      BY <1>5 DEF Becomes, RailsInv, RailsTypeOK
    <2>3. Refusable(p)
      BY <1>2, <1>3, <1>4, <1>5 DEF HostedStage
    <2>4. HoldsClient(b) /\ ClientKey(b) = ClientKey(a)
      BY <1>3, <1>4, <2>1 DEF HoldsClient, ClientKey
    <2>5. StageOK(att[w])'
      <3>1. /\ HoldsClient(att[w])' /\ Refusable(p)' /\ att'[w].pay = p
        BY <1>1, <2>1, <2>2, <2>3, <2>4 DEF HoldsClient, ClientKey, Refusable, MayLand, Closed
      <3>2. HostedStage(att[w])'
        <4>1. marker'[p] # "none" \/ Closed(p)' => Guarded(p)'
          BY DEF Guarded
        <4>2. marker'[p] = a.env /\ a.env # "none" /\ ~a.unknown
          BY <1>1, <1>2, <1>5 DEF HostedStage
        <4> QED BY <2>1, <2>2, <3>1, <4>1, <4>2 DEF HostedStage, Refusable, MayLand, Closed
      <3>3. att'[w].result # "challenge"
        BY <1>1, <1>2, <2>1, <2>2 DEF StageOK
      <3> HIDE DEF a
      <3>4. \A k \in b.held : k.of = "client" => k = ClientKey(b)
        BY <1>2, <2>1, <2>4 DEF StageOK
      <3> QED BY <1>2, <2>1, <2>2, <2>4, <3>1, <3>2, <3>3, <3>4 DEF StageOK, Evm, ClientKey
    <2>6. \A q \in Payments \ {p} : marker'[q] = marker[q]
      BY <1>2, <1>5
    <2>7. RecordOf(p)' /\ (MayLand(p)' => MayLand(p))
      <3>1. ClientKeyOf(p) \in keys'
        BY <1>1, <1>3, <1>4 DEF ClientKey, ClientKeyOf
      <3>2. MayLand(p) => bound[p] \in Challenges
        BY <1>2 DEF InviteInv, RecordOf
      <3> QED BY <1>1, <1>2, <3>1, <3>2 DEF RecordOf, MayLand, Evm, ClientKeyOf
    <2>8. marker[p] = "none" /\ HoldsClient(att[w])
      BY <1>3, <1>5
    <2>9. /\ att'[w].pc = "ready" /\ att'[w].pay = p /\ att'[w].overlapped = att[w].overlapped
          /\ att'[w].held = att[w].held
      BY <2>1, <2>2
    <2> HIDE DEF a
    <2> QED BY <1>1, <1>4, <2>2, <2>5, <2>6, <2>7, <2>8, <2>9, InviteKeeps DEF a
  <1>6. CASE Becomes(w, Fails(a, "error")) /\ UNCHANGED marker
    BY <1>1, <1>6, InviteFails DEF Results
  <1> QED BY <1>4, <1>5, <1>6 DEF Mark, MarkOnce

\* A step that gives a marker back: the payment did not land and will not, or its key
\* stays claimed.
LEMMA InviteUnmarks ==
  ASSUME RailsAssumption, RailsInv, InviteInv, NEW w \in Attempts, NEW p \in Payments,
         Running(w), att[w].pay = p, HoldsClient(att[w]), NEW b, Becomes(w, b), b.held \subseteq att[w].held,
         UNCHANGED <<now, rail, forgotten, bound, until, chain, keys>>, marker' = [marker EXCEPT ![p] = "none"],
         att[w].marked \/ Dead(p) \/ b.held = {},
         \/ b.pc = "done"
         \/ /\ b.pc \in {"unmarking", "unclaiming"} /\ b.pay = p /\ b.overlapped = att[w].overlapped
            /\ b.marked = att[w].marked /\ StageOK(b) /\ Refusable(p)
  PROVE  InviteInv'
  <1>1. att'[w] = b /\ \A v \in Attempts \ {w} : att'[v] = att[v]
    BY DEF Becomes, RailsInv, RailsTypeOK
  <1>2. ClientKeyOf(p) \in keys /\ ClientKeyOf(p) \in att[w].held
    BY DEF HoldsClient, ClientKey, ClientKeyOf, RailsInv, HeldOnce
  <1>3. b.held = {} => Spent(p)'
    BY <1>1, <1>2 DEF RailsInv, HeldOnce, Spent, ClientKeyOf
  <1>4. b.pc # "done" => StageOK(att[w])'
    <2>1. SUFFICES ASSUME b.pc # "done" PROVE StageOK(att[w])'
      OBVIOUS
    <2>2. Refusable(p)'
      BY <2>1 DEF Refusable, MayLand, Closed
    <2>3. HostedStage(b) => HostedStage(att[w])'
      BY <1>1, <2>1, <2>2 DEF HostedStage, HoldsClient, ClientKey, HashStages, TempoStages
    <2>4. EvmStage(b) => EvmStage(att[w])'
      BY <1>1 DEF EvmStage, Unspent, MayLand, ClaimKeyOf
    <2> QED BY <1>1, <2>1, <2>3, <2>4 DEF StageOK, HoldsClient, ClientKey
  <1>5. att[w].kind = "hosted" /\ rail = "hosted"
    BY InviteFacts DEF StageOK, KindsOf
  <1>6. RecordOf(p)' /\ (MayLand(p)' => MayLand(p))
    BY <1>2, <1>5 DEF InviteInv, RecordOf, MayLand, ClientKeyOf, Evm
  <1>7. \A q \in Payments \ {p} : marker'[q] = marker[q]
    BY DEF RailsInv, RailsTypeOK
  <1>8. att'[w].pc \notin {"settling", "claiming"} /\ att'[w].held \subseteq att[w].held
    BY <1>1
  <1>9. att'[w].pc # "done" => att'[w].pay = p /\ att'[w].overlapped = att[w].overlapped
                               /\ att'[w].marked = att[w].marked
    BY <1>1
  <1> QED BY <1>1, <1>3, <1>4, <1>6, <1>7, <1>8, <1>9, InviteKeeps

LEMMA ReconcileInvites ==
  ASSUME RailsAssumption, RailsInv, InviteInv, NEW w \in Attempts, Reconcile(w) PROVE InviteInv'
  <1> DEFINE a == att[w]
  <1>1. a.pc = "reconciling" /\ Running(w) /\ UNCHANGED <<now, rail, forgotten, bound, until, chain, envs, keys>>
    BY DEF Reconcile, At, Running, terms, world
  <1>2. /\ a \in Attempt /\ StageOK(a) /\ a.kind = "hosted" /\ HostedStage(a) /\ HoldsClient(a)
        /\ Guarded(a.pay) /\ a.unknown \in BOOLEAN
    BY <1>1, InviteFacts DEF StageOK, HostedStage, HashStages, TempoStages, Attempt
  <1>3. PICK p \in Payments : a.pay = p
    BY <1>1, InviteFacts
  <1>4. CASE marker' = [marker EXCEPT ![p] = "none"] /\ Becomes(w, Answers(a, "receipt"))
    <2> DEFINE b == Answers(a, "receipt")
    <2>1. b.pc = "done" /\ b.held = {} /\ Becomes(w, b)
      BY <1>2, <1>4, AnswersFields DEF Results
    <2> HIDE DEF b
    <2> QED BY <1>1, <1>2, <1>3, <1>4, <2>1, InviteUnmarks
  <1>5. ASSUME NEW result \in {"challenge", "error"}, Becomes(w, Fails(a, result)), UNCHANGED marker,
               result = "challenge" => chain[p] = "reverted"
        PROVE  InviteInv'
    <2>1. result = "challenge" => Invites(a)
      BY <1>2, <1>3, <1>5 DEF Invites, Refusable, MayLand
    <2> QED BY <1>1, <1>5, <2>1, InviteFails DEF Results
  <1>6. CASE Becomes(w, [a EXCEPT !.pc = "ready"]) /\ UNCHANGED marker
    BY <1>1, <1>2, <1>6, InviteMoves DEF Stages, TempoStages
  <1>7. ASSUME NEW result \in {"challenge", "error"}, Becomes(w, Fails(a, result)),
               marker' = [marker EXCEPT ![p] = "none"], chain[p] = "none", Dead(p)
        PROVE  InviteInv'
    <2> DEFINE b == [Fails(a, result) EXCEPT !.unknown = a.unknown]
    <2>1. Refusable(p) /\ Invites(a)
      BY <1>2, <1>3, <1>7 DEF Invites, Refusable, MayLand
    <2>2. /\ b.pc = "unmarking" /\ b.pay = p /\ b.overlapped = a.overlapped /\ StageOK(b)
          /\ b.held = a.held /\ b.marked = a.marked /\ b = Fails(a, result)
      BY <1>2, <1>3, <2>1, FailsStage DEF Results
    <2>3. Becomes(w, b)
      BY <1>7, <2>2
    <2> HIDE DEF b
    <2> QED BY <1>1, <1>2, <1>3, <1>7, <2>1, <2>2, <2>3, InviteUnmarks
  <1> QED BY <1>3, <1>4, <1>5, <1>6, <1>7 DEF Reconcile, Moves, Refusal, NeverLands, Dead

LEMMA AuthorizeInvites ==
  ASSUME RailsAssumption, RailsInv, InviteInv, NEW w \in Attempts, Authorize(w) PROVE InviteInv'
  <1> DEFINE a == att[w]
             b == [a EXCEPT !.pc = "sending", !.sent = TRUE, !.unknown = TRUE]
  <1>1. /\ a.pc = "ready" /\ Running(w)
        /\ UNCHANGED <<now, rail, forgotten, bound, until, chain, envs, keys, marker>>
    BY DEF Authorize, At, Running, terms, world, store
  <1>2. a \in Attempt /\ StageOK(a) /\ a.kind \in {"pull", "hosted"} /\ Runs(a)
    BY <1>1, InviteFacts DEF Runs, TempoStages
  <1>3. CASE Becomes(w, b)
    <2>1. /\ b.pc = "sending" /\ b.pay = a.pay /\ b.ch = a.ch /\ b.kind = a.kind /\ b.lag = a.lag
          /\ b.held = a.held /\ b.overlapped = a.overlapped /\ b.reconciling = a.reconciling
          /\ b.marked = a.marked /\ b.unknown /\ b.result = a.result
      BY <1>2 DEF Attempt
    <2> HIDE DEF b
    <2>2. HoldsClient(b) <=> HoldsClient(a)
      BY <2>1 DEF HoldsClient, ClientKey
    <2>3. a.kind = "hosted" => HostedStage(b)
      BY <1>1, <1>2, <2>1, <2>2 DEF StageOK, HostedStage, HashStages, TempoStages
    <2>4. StageOK(b)
      BY <1>1, <1>2, <2>1, <2>2, <2>3 DEF StageOK, Evm, ClientKey
    <2> QED BY <1>1, <1>3, <2>1, <2>4, InvitePlain
  <1>4. CASE Becomes(w, Fails(a, "error"))
    BY <1>1, <1>4, InviteFails DEF Results
  <1>5. CASE Expired(w) /\ a.kind = "pull" /\ Becomes(w, Fails(a, "challenge"))
    <2>1. a.lag = 0 /\ now \in Nat /\ a.ch \in Challenges
      BY <1>1, <1>2, <1>5, InviteFacts DEF StageOK
    <2>2. now >= Expires[a.ch]
      BY <1>5, <2>1 DEF Expired, RailsAssumption
    <2>3. Invites(a)
      BY <1>5, <2>2 DEF Invites
    <2> QED BY <1>1, <1>5, <2>3, InviteFails DEF Results
  <1> QED BY <1>2, <1>3, <1>4, <1>5 DEF Authorize

\* What is sent is on record: its key is in the hands of the attempt, and its marker stands
\* unless its challenge has expired.
LEMMA SendInvites ==
  ASSUME RailsAssumption, RailsInv, InviteInv, NEW w \in Attempts, Send(w) PROVE InviteInv'
  <1> DEFINE a == att[w]
             b == [a EXCEPT !.pc = "sent"]
  <1>1. /\ a.pc = "sending" /\ Running(w) /\ UNCHANGED <<now, rail, forgotten, bound, until, keys, marker>>
        /\ Becomes(w, b)
    BY DEF Send, At, Moves, Running, terms, store
  <1>2. /\ a \in Attempt /\ StageOK(a) /\ Runs(a) /\ a.kind \in {"pull", "hosted"}
        /\ a.kind = rail /\ now \in Nat /\ until[a.pay] \in Nat
        /\ chain \in [Payments -> {"none", "pooled", "paid", "reverted", "action", "failed"}]
    BY <1>1, InviteFacts DEF Runs, TempoStages, KindsOf
  <1>3. PICK p \in Payments : a.pay = p
    BY <1>1, InviteFacts
  <1>4. /\ b.pc = "sent" /\ b.pay = p /\ b.ch = a.ch /\ b.kind = a.kind /\ b.lag = a.lag
        /\ b.held = a.held /\ b.overlapped = a.overlapped /\ b.reconciling = a.reconciling
        /\ b.marked = a.marked /\ b.unknown = a.unknown /\ b.result = a.result
    BY <1>2, <1>3 DEF Attempt
  <1> HIDE DEF b
  <1>5. att'[w] = b /\ \A v \in Attempts \ {w} : att'[v] = att[v]
    BY <1>1 DEF Becomes, RailsInv, RailsTypeOK
  <1>6. \/ chain' = chain
        \/ chain[p] \in {"none", "pooled"} /\ ~Dead(p) /\ chain' = [chain EXCEPT ![p] = "pooled"]
    BY <1>2, <1>3 DEF Send, world, Dead, ChainNow, RailsAssumption
  <1>7. HoldsClient(b) <=> HoldsClient(a)
    BY <1>3, <1>4 DEF HoldsClient, ClientKey
  <1>8. a.kind = "hosted" => HostedStage(a) /\ HoldsClient(a) /\ a.unknown
    BY <1>1, <1>2 DEF StageOK, HostedStage, HashStages, TempoStages
  <1>9. a.kind = "hosted" => Refusable(p)' \/ marker[p] # "none"
    <2>1. Closed(p) => Refusable(p)'
      BY <1>1 DEF Refusable, Closed
    <2>2. chain' = chain /\ Refusable(p) => Refusable(p)'
      BY <1>1 DEF Refusable, MayLand, Closed
    <2> QED BY <1>1, <1>3, <1>6, <1>8, <2>1, <2>2 DEF HostedStage, Guarded
  <1>10. StageOK(att[w])'
    <2>1. a.result # "challenge"
      BY <1>1, <1>2 DEF StageOK
    <2>2. a.kind = "hosted" => HostedStage(att[w])'
      BY <1>1, <1>4, <1>5, <1>7, <1>8, <1>9, <2>1 DEF HostedStage, HoldsClient, ClientKey, Refusable, MayLand, Closed
    <2> QED BY <1>2, <1>3, <1>4, <1>5, <1>7, <2>1, <2>2 DEF StageOK, HoldsClient, ClientKey, Evm
  <1>11. \A q \in Payments \ {p} : chain'[q] = chain[q] /\ marker'[q] = marker[q]
    BY <1>1, <1>2, <1>6
  <1>12. chain[p] = "reverted" => chain'[p] = "reverted"
    BY <1>6
  <1>13. MayLand(p)' => MayLand(p) \/ HoldsClient(att[w]) \/ rail = "pull"
    BY <1>2, <1>8
  <1>14. RecordOf(p)'
    <2>1. rail = "hosted" => bound[p] \in Challenges /\ ClientKeyOf(p) \in keys
      BY <1>1, <1>2, <1>3, <1>8, InviteFacts DEF Runs, HoldsClient, ClientKey, ClientKeyOf
    <2> QED BY <1>1, <1>2, <2>1 DEF RecordOf, Evm, ClientKeyOf
  <1>15. /\ att'[w].pc = "sent" /\ att'[w].held = a.held /\ att'[w].pay = p
         /\ att'[w].overlapped = a.overlapped /\ att'[w].marked = a.marked
    BY <1>4, <1>5
  <1> HIDE DEF a
  <1> QED BY <1>1, <1>3, <1>5, <1>10, <1>11, <1>12, <1>13, <1>14, <1>15, InviteKeeps DEF a

\* A refused or never sent transaction, or one that reverted, leaves no outcome open.
LEMMA InviteFailsKnown ==
  ASSUME RailsAssumption, RailsInv, InviteInv, NEW w \in Attempts, Running(w),
         Becomes(w, [Fails(att[w], "error") EXCEPT !.unknown = FALSE]),
         att[w].marked /\ att[w].unknown => Refusable(att[w].pay),
         UNCHANGED <<now, rail, forgotten, bound, until, chain, keys, marker>>
  PROVE  InviteInv'
  <1> DEFINE a == att[w]
             b == [Fails(a, "error") EXCEPT !.unknown = FALSE]
  <1>1. a \in Attempt /\ StageOK(a)
    BY InviteFacts
  <1>2. /\ b.pc = "unmarking" /\ b.pay = a.pay /\ b.overlapped = a.overlapped /\ StageOK(b)
        /\ b.held = a.held /\ b.marked = a.marked /\ Becomes(w, b)
    BY <1>1, FailsStage DEF Results
  <1> HIDE DEF b
  <1> QED BY <1>2, InvitePlain

LEMMA SendRefusedInvites ==
  ASSUME RailsAssumption, RailsInv, InviteInv, NEW w \in Attempts, SendRefused(w) PROVE InviteInv'
  <1>1. /\ att[w].pc = "sending" /\ Running(w)
        /\ UNCHANGED <<now, rail, forgotten, bound, until, chain, envs, keys, marker>>
        /\ Becomes(w, [Fails(att[w], "error") EXCEPT !.unknown = FALSE])
    BY DEF SendRefused, AfterBroadcast, At, Running, terms, world, store
  <1>2. att[w].marked => Refusable(att[w].pay)
    BY <1>1, InviteFacts DEF StageOK, HostedStage
  <1> QED BY <1>1, <1>2, InviteFailsKnown

LEMMA ConfirmInvites ==
  ASSUME RailsAssumption, RailsInv, InviteInv, NEW w \in Attempts, Confirm(w) PROVE InviteInv'
  <1> DEFINE a == att[w]
  <1>1. a.pc = "sent" /\ Running(w) /\ UNCHANGED <<now, rail, forgotten, bound, until, chain, envs, keys>>
    BY DEF Confirm, At, Running, terms, world
  <1>2. a \in Attempt /\ StageOK(a) /\ (a.kind = "hosted" => HoldsClient(a)) /\ marker \in [Payments -> Envs]
    BY <1>1, InviteFacts DEF StageOK, HostedStage, HashStages, TempoStages
  <1>3. PICK p \in Payments : a.pay = p
    BY <1>1, InviteFacts
  <1>4. CASE Becomes(w, Answers(a, "receipt"))
             /\ marker' = [marker EXCEPT ![p] = IF a.kind = "hosted" THEN "none" ELSE @]
    <2>1. CASE a.kind = "hosted"
      <3> DEFINE b == Answers(a, "receipt")
      <3>1. b.pc = "done" /\ b.held = {} /\ Becomes(w, b)
        BY <1>2, <1>4, AnswersFields DEF Results
      <3> HIDE DEF b
      <3> QED BY <1>1, <1>2, <1>3, <1>4, <2>1, <3>1, InviteUnmarks
    <2>2. CASE a.kind # "hosted"
      <3>1. marker' = marker
        BY <1>2, <1>4, <2>2
      <3> QED BY <1>1, <1>4, <3>1, InviteEnds DEF Results
    <2> QED BY <2>1, <2>2
  <1>5. CASE /\ chain[p] = "reverted" /\ UNCHANGED marker
             /\ Becomes(w, [Fails(a, "error") EXCEPT !.unknown = FALSE])
    <2>1. Refusable(p)
      BY <1>5 DEF Refusable, MayLand
    <2> QED BY <1>1, <1>3, <1>5, <2>1, InviteFailsKnown
  <1> QED BY <1>3, <1>4, <1>5 DEF Confirm, AfterBroadcast

LEMMA LoseOutcomeInvites ==
  ASSUME RailsAssumption, RailsInv, InviteInv, NEW w \in Attempts, LoseOutcome(w) PROVE InviteInv'
  <1>1. /\ Running(w) /\ Becomes(w, Fails(att[w], "error"))
        /\ UNCHANGED <<now, rail, forgotten, bound, until, chain, envs, keys, marker>>
    BY DEF LoseOutcome, AfterBroadcast, At, Running, terms, world, store
  <1> QED BY <1>1, InviteFails DEF Results

\* A marker only goes with the attempt that set it, when nothing of it may land.
LEMMA LeaveMarkerInvites ==
  ASSUME RailsAssumption, RailsInv, InviteInv, NEW w \in Attempts, LeaveMarker(w) PROVE InviteInv'
  <1> DEFINE a == att[w]
             b == [a EXCEPT !.pc = "unclaiming"]
  <1>1. /\ a.pc = "unmarking" /\ Running(w) /\ Becomes(w, b)
        /\ UNCHANGED <<now, rail, forgotten, bound, until, chain, envs, keys>>
    BY DEF LeaveMarker, At, Moves, Running, terms, world
  <1>2. a \in Attempt /\ StageOK(a)
    BY <1>1, InviteFacts
  <1>3. PICK p \in Payments : a.pay = p
    BY <1>1, InviteFacts
  <1>4. CASE a.marked /\ ~a.unknown /\ marker' = [marker EXCEPT ![p] = "none"]
    <2>1. Refusable(p) /\ HoldsClient(a)
      BY <1>2, <1>3, <1>4 DEF StageOK, HostedStage
    <2>2. /\ b.pc = "unclaiming" /\ b.pay = p /\ b.overlapped = a.overlapped /\ StageOK(b)
          /\ b.held = a.held /\ b.marked = a.marked
      BY <1>1, <1>2, <1>3, MoveStage DEF Stages, TempoStages, HashStages
    <2> HIDE DEF b
    <2> QED BY <1>1, <1>3, <1>4, <2>1, <2>2, InviteUnmarks
  <1>5. CASE marker' = marker
    BY <1>1, <1>5, InviteMoves DEF Stages, TempoStages, HashStages
  <1> QED BY <1>3, <1>4, <1>5 DEF LeaveMarker

\* The keys go back only when the marker stands or nothing may land.
LEMMA LeaveKeysInvites ==
  ASSUME RailsAssumption, RailsInv, InviteInv, NEW w \in Attempts, LeaveKeys(w) PROVE InviteInv'
  <1> DEFINE a == att[w]
             b == Answers(a, a.result)
  <1>1. /\ a.pc = "unclaiming" /\ Running(w) /\ Becomes(w, b) /\ keys' = keys \ a.held
        /\ UNCHANGED <<now, rail, forgotten, bound, until, chain, envs, marker>>
    BY DEF LeaveKeys, At, Running, terms, world
  <1>2. a \in Attempt /\ StageOK(a) /\ a.result \in Results /\ RecordOf(a.pay)
    BY <1>1, InviteFacts DEF Attempt, Results
  <1>3. PICK p \in Payments : a.pay = p
    BY <1>1, InviteFacts
  <1>4. b.pc = "done" /\ b.held = {}
    BY <1>2, AnswersFields
  <1> HIDE DEF b
  <1>5. att'[w] = b /\ \A v \in Attempts \ {w} : att'[v] = att[v]
    BY <1>1 DEF Becomes, RailsInv, RailsTypeOK
  <1>6. HoldsClient(a) => Refusable(p) \/ marker[p] # "none"
    BY <1>2, <1>3 DEF StageOK, HostedStage
  <1>7. ~HoldsClient(a) /\ ClientKeyOf(p) \in keys => ClientKeyOf(p) \in keys'
    BY <1>1, <1>3 DEF HoldsClient, ClientKey, ClientKeyOf
  <1>8. ClaimKeyOf(p) \notin a.held
    BY <1>2 DEF Attempt, ClaimKeyOf
  <1>9. RecordOf(p)' /\ (MayLand(p)' => MayLand(p))
    BY <1>1, <1>2, <1>3, <1>6, <1>7, <1>8 DEF RecordOf, Refusable, MayLand, Closed, ClientKeyOf, ClaimKeyOf
  <1>10. att'[w].pc = "done" /\ att'[w].held = {} /\ \A k \in keys \ keys' : k \in a.held
    BY <1>1, <1>4, <1>5
  <1> HIDE DEF a
  <1> QED BY <1>1, <1>3, <1>5, <1>8, <1>9, <1>10, InviteKeeps DEF a

LEMMA ValidatePushInvites ==
  ASSUME RailsAssumption, RailsInv, InviteInv, NEW w \in Attempts, ValidatePush(w) PROVE InviteInv'
  <1> DEFINE a == att[w]
  <1>1. /\ a.pc = "received" /\ a.kind = "push" /\ Running(w)
        /\ UNCHANGED <<now, rail, forgotten, bound, until, chain, envs, keys, marker>>
    BY DEF ValidatePush, At, Is, Running, terms, world, store
  <1>2. CASE \E result \in Results : Becomes(w, Answers(a, result))
    BY <1>1, <1>2, InviteEnds
  <1>3. CASE Becomes(w, [a EXCEPT !.pc = "validated"])
    BY <1>1, <1>3, InviteMoves DEF Stages, TempoStages
  <1> QED BY <1>2, <1>3 DEF ValidatePush, HashVerdict, Results

LEMMA ReservePushInvites ==
  ASSUME RailsAssumption, RailsInv, InviteInv, NEW w \in Attempts, ReservePush(w) PROVE InviteInv'
  <1> DEFINE a == att[w]
             b == [a EXCEPT !.pc = "verifying", !.held = {HashKey(a)}]
  <1>1. /\ a.pc = "validated" /\ a.kind = "push" /\ Running(w)
        /\ UNCHANGED <<now, rail, forgotten, bound, until, chain, envs, marker>>
    BY DEF ReservePush, At, Is, Running, terms, world
  <1>2. a \in Attempt /\ StageOK(a)
    BY <1>1, InviteFacts
  <1>3. CASE Becomes(w, Answers(a, "replayed")) /\ UNCHANGED keys
    BY <1>1, <1>3, InviteEnds DEF Results
  <1>4. CASE HashKey(a) \notin keys /\ keys' = keys \cup {HashKey(a)} /\ Becomes(w, b)
    <2>1. /\ b.pc = "verifying" /\ b.pay = a.pay /\ b.ch = a.ch /\ b.kind = a.kind /\ b.lag = a.lag
          /\ b.held = {HashKey(a)} /\ b.overlapped = a.overlapped /\ b.reconciling = a.reconciling
          /\ b.marked = a.marked /\ b.unknown = a.unknown /\ b.result = a.result
      BY <1>2 DEF Attempt
    <2> HIDE DEF b
    <2>2. ~HoldsClient(b) /\ ~b.marked /\ b.result # "challenge"
      BY <1>1, <1>2, <2>1 DEF StageOK, HoldsClient, ClientKey, HashKey
    <2>3. \A k \in b.held : k.of # "client"
      BY <2>1 DEF HashKey
    <2>4. StageOK(b)
      BY <1>1, <1>2, <2>1, <2>2, <2>3 DEF StageOK, Evm
    <2>5. b.held \cap keys \subseteq a.held
      BY <1>4, <2>1
    <2> QED BY <1>1, <1>4, <2>1, <2>4, <2>5, InviteTakes
  <1> QED BY <1>3, <1>4 DEF ReservePush

LEMMA VerifyPushInvites ==
  ASSUME RailsAssumption, RailsInv, InviteInv, NEW w \in Attempts, VerifyPush(w) PROVE InviteInv'
  <1> DEFINE a == att[w]
  <1>1. /\ a.pc = "verifying" /\ Running(w)
        /\ UNCHANGED <<now, rail, forgotten, bound, until, chain, envs, keys, marker>>
    BY DEF VerifyPush, At, Running, terms, world, store
  <1>2. a.kind = "push"
    BY <1>1, InviteFacts DEF Runs
  <1>3. CASE Becomes(w, Answers(a, "receipt"))
    BY <1>1, <1>3, InviteEnds DEF Results
  <1>4. ASSUME NEW result \in {"error", "challenge", "replayed"}, Becomes(w, Fails(a, result)),
               result = "challenge" => chain[a.pay] = "reverted"
        PROVE  InviteInv'
    <2>1. result = "challenge" => Invites(a)
      BY <1>2, <1>4 DEF Invites
    <2> QED BY <1>1, <1>4, <2>1, InviteFails DEF Results
  <1> QED BY <1>3, <1>4 DEF VerifyPush, HashVerdict

LEMMA ValidateProofInvites ==
  ASSUME RailsAssumption, RailsInv, InviteInv, NEW w \in Attempts, ValidateProof(w) PROVE InviteInv'
  <1>1. /\ att[w].pc = "received" /\ Running(w)
        /\ UNCHANGED <<now, rail, forgotten, bound, until, chain, envs, keys, marker>>
    BY DEF ValidateProof, At, Running, terms, world, store
  <1>2. CASE \E result \in Results : Becomes(w, Answers(att[w], result))
    BY <1>1, <1>2, InviteEnds
  <1>3. CASE Becomes(w, [att[w] EXCEPT !.pc = "validated"])
    BY <1>1, <1>3, InviteMoves DEF Stages, TempoStages, HashStages
  <1> QED BY <1>2, <1>3 DEF ValidateProof, Results

LEMMA BroadcastProofInvites ==
  ASSUME RailsAssumption, RailsInv, InviteInv, NEW w \in Attempts, BroadcastProof(w) PROVE InviteInv'
  <1>1. /\ att[w].pc = "validated" /\ Running(w) /\ Becomes(w, [att[w] EXCEPT !.pc = "claimingProof"])
        /\ UNCHANGED <<now, rail, forgotten, bound, until, chain, envs, keys, marker>>
    BY DEF BroadcastProof, At, Moves, Running, terms, world, store
  <1> QED BY <1>1, InviteMoves DEF Stages, TempoStages, HashStages

LEMMA ClaimProofInvites ==
  ASSUME RailsAssumption, RailsInv, InviteInv, NEW w \in Attempts, ClaimProof(w) PROVE InviteInv'
  <1>1. /\ att[w].pc = "claimingProof" /\ Running(w)
        /\ UNCHANGED <<now, rail, forgotten, bound, until, chain, envs, marker>>
    BY DEF ClaimProof, At, Running, terms, world
  <1>2. PICK result \in Results : keys \subseteq keys' /\ Becomes(w, Answers(att[w], result))
    BY DEF ClaimProof, Results
  <1> DEFINE b == Answers(att[w], result)
  <1>3. b.pc = "done" /\ b.held = {} /\ Becomes(w, b)
    BY <1>1, <1>2, InviteFacts, AnswersFields
  <1> HIDE DEF b
  <1> QED BY <1>1, <1>2, <1>3, InviteTakes

-----------------------------------------------------------------------------
(* Authorizations and Stripe, once more.                                    *)

\* Nothing settled that has no claim, while the authorization is good.
LEMMA ValidateEvmInvites ==
  ASSUME RailsAssumption, RailsInv, InviteInv, NEW w \in Attempts, ValidateEvm(w) PROVE InviteInv'
  <1> DEFINE a == att[w]
  <1>1. /\ a.pc = "received" /\ a.kind \in Evm /\ Running(w)
        /\ UNCHANGED <<now, rail, forgotten, bound, until, chain, envs, keys, marker>>
    BY DEF ValidateEvm, At, Is, Running, terms, world, store
  <1>2. CASE \E result \in Results : Becomes(w, Answers(a, result))
    BY <1>1, <1>2, InviteEnds
  <1>3. CASE /\ ClaimKey(a) \notin keys /\ until[a.pay] > now
             /\ Becomes(w, [a EXCEPT !.pc = "asking"])
    <2>1. RecordOf(a.pay) /\ rail \in Evm /\ now \in Nat /\ until[a.pay] \in Nat
      BY <1>1, InviteFacts DEF KindsOf, Evm
    <2>2. Unspent(a.pay)
      BY <1>3, <2>1 DEF RecordOf, Unspent, ClaimKey, ClaimKeyOf
    <2> QED BY <1>1, <1>3, <2>2, InviteMoves DEF Stages, TempoStages, HashStages, Evm
  <1> QED BY <1>2, <1>3 DEF ValidateEvm, Results

LEMMA FacilitatorVerifyInvites ==
  ASSUME RailsAssumption, RailsInv, InviteInv, NEW w \in Attempts, FacilitatorVerify(w)
  PROVE  InviteInv'
  <1>1. /\ att[w].pc = "asking" /\ Running(w)
        /\ UNCHANGED <<now, rail, forgotten, bound, until, chain, envs, keys, marker>>
    BY DEF FacilitatorVerify, At, Running, terms, world, store
  <1>2. att[w].kind \in Evm
    BY <1>1, InviteFacts DEF Runs
  <1>3. CASE \E result \in Results : Becomes(w, Answers(att[w], result))
    BY <1>1, <1>3, InviteEnds
  <1>4. CASE Becomes(w, [att[w] EXCEPT !.pc = "validated"])
    <2>1. att[w].kind # "hosted"
      BY <1>2 DEF Evm
    <2> QED BY <1>1, <1>4, <2>1, InviteMoves DEF Stages, TempoStages, HashStages
  <1> QED BY <1>3, <1>4 DEF FacilitatorVerify, Moves, Results

\* Only one attempt has the claim of an authorization that is still good, and nothing
\* settled before.
LEMMA ClaimEvmInvites ==
  ASSUME RailsAssumption, RailsInv, InviteInv, NEW w \in Attempts, ClaimEvm(w) PROVE InviteInv'
  <1> DEFINE a == att[w]
             b == [a EXCEPT !.pc = "settling"]
  <1>1. /\ a.pc = "validated" /\ a.kind \in Evm /\ Running(w)
        /\ UNCHANGED <<now, rail, forgotten, bound, until, chain, envs, marker>>
    BY DEF ClaimEvm, At, Is, Running, terms, world
  <1>2. /\ a \in Attempt /\ StageOK(a) /\ RecordOf(a.pay) /\ rail \in Evm /\ now \in Nat
        /\ until[a.pay] \in Nat
    BY <1>1, InviteFacts DEF KindsOf, Evm
  <1>3. PICK p \in Payments : a.pay = p
    BY <1>1, InviteFacts
  <1>4. CASE \E result \in Results : Becomes(w, Answers(a, result)) /\ UNCHANGED keys
    BY <1>1, <1>4, InviteEnds
  <1>5. CASE ClaimKeyOf(p) \notin keys /\ keys' = keys \cup {ClaimKeyOf(p)} /\ Becomes(w, b)
    <2>1. /\ b.pc = "settling" /\ b.pay = p /\ b.ch = a.ch /\ b.kind = a.kind /\ b.lag = a.lag
          /\ b.held = a.held /\ b.overlapped = a.overlapped /\ b.reconciling = a.reconciling
          /\ b.marked = a.marked /\ b.unknown = a.unknown /\ b.result = a.result
      BY <1>2, <1>3 DEF Attempt
    <2> HIDE DEF b
    <2>2. att'[w] = b /\ \A v \in Attempts \ {w} : att'[v] = att[v]
      BY <1>5 DEF Becomes, RailsInv, RailsTypeOK
    <2>3. now < until[p] => Unspent(p)
      BY <1>2, <1>3, <1>5 DEF RecordOf, Unspent
    <2>4. EvmStage(att[w])'
      BY <1>1, <1>5, <2>1, <2>2, <2>3 DEF EvmStage, Unspent, MayLand, ClaimKeyOf
    <2>5. ~HoldsClient(a) /\ ~a.marked /\ a.result # "challenge" /\ ~a.reconciling
      BY <1>1, <1>2 DEF StageOK, Evm
    <2>6. ~HoldsClient(b) /\ \A k \in b.held : k.of = "client" => k = ClientKey(b)
      BY <1>2, <1>3, <2>1, <2>5 DEF StageOK, HoldsClient, ClientKey
    <2>7. StageOK(att[w])'
      BY <1>1, <1>2, <2>1, <2>2, <2>4, <2>5, <2>6 DEF StageOK, HoldsClient, ClientKey, Evm
    <2>8. \A v \in Attempts \ {w} : att[v].pc = "settling" /\ att[v].pay = p => now >= until[p]
      <3>1. SUFFICES ASSUME NEW v \in Attempts \ {w}, att[v].pc = "settling", att[v].pay = p, now < until[p]
                     PROVE  FALSE
        BY <1>2, <1>3
      <3>2. Running(v)
        BY <3>1 DEF Running
      <3>3. StageOK(att[v]) /\ att[v].kind \in Evm
        BY <3>1, <3>2, InviteFacts DEF Runs
      <3> QED BY <1>5, <3>1, <3>3 DEF StageOK, EvmStage
    <2>9. RecordOf(p)' /\ (MayLand(p)' => MayLand(p))
      BY <1>1, <1>2, <1>3, <1>5 DEF RecordOf, MayLand, Closed, ClientKeyOf, ClaimKeyOf, Evm
    <2>10. /\ att'[w].pay = p /\ att'[w].overlapped = a.overlapped /\ att'[w].held = a.held
           /\ att'[w].marked = a.marked /\ att'[w].pc = "settling"
      BY <2>1, <2>2
    <2> HIDE DEF a
    <2> QED BY <1>1, <1>3, <1>5, <2>2, <2>7, <2>8, <2>9, <2>10, InviteKeeps DEF a
  <1> QED BY <1>3, <1>4, <1>5 DEF ClaimEvm, Moves, Results, ClaimKey, ClaimKeyOf

\* A claim goes only when nothing settled, and what settles has a claim.
LEMMA SettleEvmInvites ==
  ASSUME RailsAssumption, RailsInv, InviteInv, NEW w \in Attempts, SettleEvm(w) PROVE InviteInv'
  <1> DEFINE a == att[w]
  <1>1. a.pc = "settling" /\ Running(w) /\ UNCHANGED <<now, rail, forgotten, bound, until, envs, marker>>
    BY DEF SettleEvm, At, Running, terms
  <1>2. PICK p \in Payments : a.pay = p
    BY <1>1, InviteFacts
  <1>3. /\ a \in Attempt /\ StageOK(a) /\ RecordOf(p) /\ now \in Nat /\ until[p] \in Nat /\ a.kind \in Evm
        /\ rail \in Evm /\ chain \in [Payments -> {"none", "pooled", "paid", "reverted", "action", "failed"}]
    BY <1>1, <1>2, InviteFacts DEF Runs, KindsOf, Evm
  <1>4. PICK outcome \in {"success", "failed", "pending", "error"} :
          /\ \E s \in {chain[p], "pooled", "paid"} :
               /\ chain' = [chain EXCEPT ![p] = s]
               /\ outcome = "failed" => s = chain[p]
               /\ s # chain[p] => chain[p] = "none"
          /\ keys' = IF outcome = "failed" THEN keys \ {ClaimKeyOf(p)} ELSE keys
          /\ Becomes(w, Answers(a, EvmAnswer(outcome)))
    BY <1>2, <1>3 DEF SettleEvm, KeepsClaim, ClaimKey, ClaimKeyOf
  <1>5. EvmAnswer(outcome) \in Results
    BY DEF EvmAnswer, Results
  <1> DEFINE b == Answers(a, EvmAnswer(outcome))
  <1>6. b.pc = "done" /\ b.held = {}
    BY <1>3, <1>5, AnswersFields
  <1> HIDE DEF b
  <1>7. att'[w] = b /\ \A v \in Attempts \ {w} : att'[v] = att[v]
    BY <1>4 DEF Becomes, RailsInv, RailsTypeOK, b
  <1>8. /\ \A q \in Payments \ {p} : chain'[q] = chain[q] /\ marker'[q] = marker[q]
        /\ chain[p] = "reverted" => chain'[p] = "reverted"
        /\ outcome = "failed" => chain'[p] = chain[p]
    BY <1>1, <1>3, <1>4
  <1>9. now < until[p] => Unspent(p) /\ ClaimKeyOf(p) \in keys
    BY <1>1, <1>2, <1>3 DEF StageOK, EvmStage
  <1>10. RecordOf(p)'
    <2>1. now' < until'[p] /\ MayLand(p)' => ClaimKeyOf(p) \in keys' \/ p \in forgotten'
      BY <1>1, <1>4, <1>8, <1>9 DEF Unspent, MayLand
    <2>2. rail' \in Evm /\ rail' \notin {"proof", "hosted"}
      BY <1>1, <1>3 DEF Evm
    <2>3. now' >= until'[p] \/ now' < until'[p]
      BY <1>1, <1>3
    <2> QED BY <2>1, <2>2, <2>3 DEF RecordOf, ClaimKeyOf
  <1>11. att'[w].pc = "done" /\ att'[w].held = {} /\ \A k \in keys \ keys' : k = ClaimKeyOf(p)
    BY <1>4, <1>6, <1>7
  <1> HIDE DEF a
  <1> QED BY <1>1, <1>2, <1>7, <1>8, <1>10, <1>11, InviteKeeps DEF a

LEMMA VerifyStripeInvites ==
  ASSUME RailsAssumption, RailsInv, InviteInv, NEW w \in Attempts, VerifyStripe(w) PROVE InviteInv'
  <1>1. /\ att[w].pc = "received" /\ att[w].kind = "stripe" /\ Running(w)
        /\ Becomes(w, [att[w] EXCEPT !.pc = "creating"])
        /\ UNCHANGED <<now, rail, forgotten, bound, until, chain, envs, keys, marker>>
    BY DEF VerifyStripe, At, Is, Moves, Running, terms, world, store
  <1> QED BY <1>1, InviteMoves DEF Stages, TempoStages, HashStages

LEMMA CreateIntentInvites ==
  ASSUME RailsAssumption, RailsInv, InviteInv, NEW w \in Attempts, CreateIntent(w) PROVE InviteInv'
  <1> DEFINE a == att[w]
  <1>1. a.pc = "creating" /\ Running(w) /\ UNCHANGED <<now, rail, forgotten, bound, until, envs, keys, marker>>
    BY DEF CreateIntent, At, Running, terms, store
  <1>2. PICK p \in Payments : a.pay = p
    BY <1>1, InviteFacts
  <1>3. /\ a \in Attempt /\ rail = "stripe"
        /\ chain \in [Payments -> {"none", "pooled", "paid", "reverted", "action", "failed"}]
    BY <1>1, InviteFacts DEF Runs, KindsOf
  <1>4. PICK s \in {chain[p], "paid", "action", "failed", "pooled"}, result \in Results :
          /\ chain' = [chain EXCEPT ![p] = s] /\ (chain[p] # "none" => s = chain[p])
          /\ Becomes(w, Answers(a, result))
    BY <1>2 DEF CreateIntent, CreatesIntent, StripeAnswer, Results
  <1> DEFINE b == Answers(a, result)
  <1>5. b.pc = "done" /\ b.held = {}
    BY <1>3, AnswersFields
  <1> HIDE DEF b
  <1>6. att'[w] = b /\ \A v \in Attempts \ {w} : att'[v] = att[v]
    BY <1>4 DEF Becomes, RailsInv, RailsTypeOK, b
  <1>7. /\ \A q \in Payments \ {p} : chain'[q] = chain[q] /\ marker'[q] = marker[q]
        /\ chain[p] = "reverted" => chain'[p] = "reverted"
    BY <1>1, <1>3, <1>4
  <1>8. RecordOf(p)'
    BY <1>1, <1>3 DEF RecordOf, Evm
  <1>9. att'[w].pc = "done" /\ att'[w].held = {} /\ keys' = keys
    BY <1>1, <1>5, <1>6
  <1> HIDE DEF a
  <1> QED BY <1>1, <1>2, <1>3, <1>6, <1>7, <1>8, <1>9, InviteKeeps DEF a

LEMMA RefuseIntentInvites ==
  ASSUME RailsAssumption, RailsInv, InviteInv, NEW w \in Attempts, RefuseIntent(w) PROVE InviteInv'
  <1>1. /\ Running(w) /\ Becomes(w, Answers(att[w], "challenge"))
        /\ UNCHANGED <<now, rail, forgotten, bound, until, chain, envs, keys, marker>>
    BY DEF RefuseIntent, At, Running, terms, world, store
  <1> QED BY <1>1, InviteEnds DEF Results

-----------------------------------------------------------------------------
(* The outside world, once more.                                            *)

\* A step of no attempt: claims and markers go only when they are not needed any more.
LEMMA WorldInvites ==
  ASSUME RailsAssumption, RailsInv, InviteInv, UNCHANGED <<rail, forgotten, bound, until, att>>,
         now' \in Nat, now <= now',
         \A p \in Payments : MayLand(p)' => MayLand(p) \/ rail = "pull",
         \A p \in Payments : chain[p] = "reverted" => chain'[p] = "reverted",
         \A k \in keys \ keys' : \/ k.of = "proof"
                                 \/ k.of = "claim" /\ \A p \in Payments : k.id = p => now' >= until[p],
         \A p \in Payments : bound[p] \in Challenges /\ marker[p] # "none" /\ marker'[p] = "none" =>
           Closed(p)'
  PROVE  InviteInv'
  <1>1. now \in Nat /\ \A p \in Payments : until[p] \in Nat
    BY DEF RailsInv, RailsTypeOK
  <1>2. Expires \in [Challenges -> Nat] /\ ChainLag \in Nat
    BY DEF RailsAssumption
  <1>3. \A p \in Payments : (Closed(p) => Closed(p)') /\ (Dead(p) => Dead(p)')
    BY <1>1, <1>2 DEF Closed, Dead, ChainNow
  <1>4. \A p \in Payments : /\ ClientKeyOf(p) \in keys => ClientKeyOf(p) \in keys'
                            /\ ClaimKeyOf(p) \in keys => ClaimKeyOf(p) \in keys' \/ now' >= until[p]
    BY DEF ClientKeyOf, ClaimKeyOf
  <1>5. \A p \in Payments : Spent(p) => Spent(p)'
    BY <1>4 DEF Spent, ClientKeyOf
  <1>6. \A p \in Payments : RecordOf(p)'
    <2>1. SUFFICES ASSUME NEW p \in Payments PROVE RecordOf(p)'
      OBVIOUS
    <2>2. CASE rail = "pull"
      BY <2>2 DEF RecordOf, Evm
    <2>3. CASE rail # "pull" /\ MayLand(p)
      <3>1. RecordOf(p)
        BY DEF InviteInv
      <3>2. rail = "hosted" => bound[p] \in Challenges
               /\ (Closed(p)' \/ marker'[p] # "none" \/ ClientKeyOf(p) \in keys')
        BY <1>3, <1>4, <2>3, <3>1 DEF RecordOf
      <3>3. rail \in Evm => now' >= until[p] \/ ClaimKeyOf(p) \in keys' \/ p \in forgotten
        BY <1>1, <1>4, <2>3, <3>1 DEF RecordOf
      <3> QED BY <2>3, <3>1, <3>2, <3>3 DEF RecordOf, ClientKeyOf, ClaimKeyOf
    <2>4. CASE rail # "pull" /\ ~MayLand(p)
      BY <2>4 DEF RecordOf
    <2> QED BY <2>2, <2>3, <2>4
  <1>7. ASSUME NEW v \in Attempts, Running(v) PROVE StageOK(att[v])'
    <2>1. PICK p \in Payments : att[v].pay = p
      BY <1>7, InviteFacts
    <2>2. /\ StageOK(att[v]) /\ Runs(att[v]) /\ att[v].ch \in Challenges /\ att[v].kind \in KindsOf(rail)
          /\ RecordOf(p) /\ Like(att[v], att'[v])
      BY <1>7, <2>1, InviteFacts DEF Like, Same
    <2>3. MayLand(p)' => MayLand(p) \/ att[v].kind \notin {"hosted", "evm", "cache"}
      BY <2>2 DEF KindsOf
    <2>4. HoldsClient(att[v]) /\ marker'[p] = "none" => marker[p] = "none" \/ Refusable(p)'
      <3>1. SUFFICES ASSUME HoldsClient(att[v]), marker[p] # "none", marker'[p] = "none", MayLand(p)'
                     PROVE  Closed(p)'
        BY DEF Refusable
      <3>2. att[v].kind = "hosted" /\ rail = "hosted"
        BY <2>2, <3>1 DEF StageOK, KindsOf
      <3>3. bound[p] \in Challenges
        BY <2>2, <2>3, <3>1, <3>2 DEF RecordOf
      <3> QED BY <3>1, <3>3
    <2>5. att[v].pc \in {"claiming", "reconciling", "ready", "sending"} /\ att[v].kind = "hosted" =>
            (Guarded(p) => Guarded(p)')
      <3>1. SUFFICES ASSUME att[v].pc \in {"claiming", "reconciling", "ready", "sending"},
                            att[v].kind = "hosted", Guarded(p)
                     PROVE  Guarded(p)'
        OBVIOUS
      <3>2. bound[p] \in Challenges
        BY <2>1, <2>2, <3>1 DEF Runs
      <3> QED BY <1>3, <3>1, <3>2 DEF Guarded
    <2>6. /\ HoldsClient(att[v]) => att[v].kind = "hosted"
          /\ att[v].reconciling => att[v].kind = "hosted"
      BY <2>2 DEF StageOK
    <2>7. att[v].pc = "settling" /\ now' < until[p] /\ ClaimKeyOf(p) \in keys => ClaimKeyOf(p) \in keys'
      BY <1>1, <1>4
    <2>8. /\ att[v].pc = "claiming" /\ att[v].reconciling /\ (Guarded(p) \/ Spent(p)) =>
               Guarded(p)' \/ Spent(p)'
          /\ att[v].pc \in {"reconciling", "ready", "sending"} /\ HoldsClient(att[v]) /\ Guarded(p) =>
               Guarded(p)'
      BY <1>5, <2>5, <2>6
    <2> QED BY <1>1, <2>1, <2>2, <2>3, <2>4, <2>7, <2>8, StageStays
  <1>8. \A v \in Attempts : Running(v)' => StageOK(att[v])'
    BY <1>7 DEF Running
  <1>9. OverlapNoted'
    BY DEF InviteInv, OverlapNoted, Running
  <1>10. OneSettles'
    <2>1. \A v \in Attempts : att[v].pc = "settling" => att[v].pay \in Payments
      BY DEF RailsInv, AttemptOK, Runs
    <2>2. \A p \in Payments : now' < until[p] => now < until[p]
      BY <1>1
    <2> QED BY <2>1, <2>2 DEF InviteInv, OneSettles
  <1>11. FoundFirst'
    <2>1. SUFFICES ASSUME NEW u \in Attempts, NEW v \in Attempts, Running(u), Running(v),
                          att[u].pay = att[v].pay,
                          att[u].marked, att[v].reconciling, att[v].pc = "claiming"
                   PROVE  Closed(att[u].pay)' \/ Dead(att[u].pay)'
      BY DEF FoundFirst, Running, Closed, Dead
    <2>2. PICK p \in Payments : att[u].pay = p
      BY <2>1, InviteFacts
    <2>3. Closed(p) \/ Dead(p)
      BY <2>1, <2>2 DEF InviteInv, FoundFirst
    <2> QED BY <1>3, <2>2, <2>3 DEF Closed, Dead
  <1> QED BY <1>6, <1>8, <1>9, <1>10, <1>11 DEF InviteInv, GoodUntilExpiry

LEMMA ClientSendsInvites ==
  ASSUME RailsAssumption, RailsInv, InviteInv, NEW p \in Payments, rail = "pull",
         ClientSends(p, "own")
  PROVE  InviteInv'
  <1>1. UNCHANGED <<now, rail, forgotten, bound, until, keys, marker, att>> /\ now \in Nat
    BY DEF ClientSends, terms, store, RailsInv, RailsTypeOK
  <1>2. \A q \in Payments : chain[q] = "reverted" => chain'[q] = "reverted"
    BY DEF ClientSends, RailsInv, RailsTypeOK
  <1> QED BY <1>1, <1>2, WorldInvites

LEMMA LandInvites ==
  ASSUME RailsAssumption, RailsInv, InviteInv, NEW p \in Payments, Land(p)
  PROVE  InviteInv'
  <1>1. UNCHANGED <<now, rail, forgotten, bound, until, keys, marker, att>> /\ now \in Nat
    BY DEF Land, terms, store, RailsInv, RailsTypeOK
  <1>2. \A q \in Payments : /\ chain[q] = "reverted" => chain'[q] = "reverted"
                            /\ MayLand(q)' => MayLand(q)
    BY DEF Land, MayLand, RailsInv, RailsTypeOK
  <1> QED BY <1>1, <1>2, WorldInvites

\* A marker lasts as long as its challenge, a claim as long as its authorization.
LEMMA TickInvites ==
  ASSUME RailsAssumption, RailsInv, InviteInv, Tick
  PROVE  InviteInv'
  <1>1. UNCHANGED <<rail, forgotten, bound, until, envs, att>> /\ now' = now + 1
    BY DEF Tick, terms
  <1>2. now \in Nat /\ now' \in Nat /\ now <= now' /\ until \in [Payments -> Nat]
    BY <1>1 DEF RailsInv, RailsTypeOK
  <1>3. \A q \in Payments : /\ chain[q] = "reverted" => chain'[q] = "reverted"
                            /\ MayLand(q)' => MayLand(q)
    BY DEF Tick, MayLand
  <1>4. ASSUME NEW k \in keys \ keys'
        PROVE  \/ k.of = "proof"
               \/ k.of = "claim" /\ \A p \in Payments : k.id = p => now' >= until[p]
    <2>1. Lapsed(k, now')
      BY <1>4 DEF Tick
    <2>2. CacheGrace \in Nat
      BY DEF RailsAssumption
    <2> QED BY <1>2, <2>1, <2>2 DEF Lapsed
  <1>5. ASSUME NEW p \in Payments, bound[p] \in Challenges, marker[p] # "none", marker'[p] = "none"
        PROVE  Closed(p)'
    <2>1. now' >= MarkerUntil(p, bound[p])
      BY <1>5 DEF Tick
    <2>2. Expires[bound[p]] \in Nat /\ Grace \in Nat /\ until[p] \in Nat
      BY <1>2, <1>5 DEF RailsAssumption
    <2>3. now' >= Expires[bound[p]]
      BY <1>2, <2>1, <2>2 DEF MarkerUntil
    <2> QED BY <1>1, <1>5, <2>3 DEF Closed
  <1> QED BY <1>1, <1>2, <1>3, <1>4, <1>5, WorldInvites

\* What the process forgot is known to be forgotten, and nobody is in the middle of it.
LEMMA RestartInvites ==
  ASSUME RailsInv, InviteInv, Restart
  PROVE  InviteInv'
  <1>1. /\ UNCHANGED <<now, rail, bound, until, chain, marker>> /\ rail = "cache"
        /\ keys' = keys \ Claims /\ forgotten' = forgotten \cup {k.id : k \in Claims}
    BY DEF Restart, terms, world
  <1>2. \A w \in Attempts : att'[w].pc \in {"idle", "done"}
    BY DEF Restart, Running, Answers, Idle
  <1>3. ASSUME NEW p \in Payments PROVE RecordOf(p)'
    <2>1. SUFFICES ASSUME MayLand(p), now < until[p]
                   PROVE  ClaimKeyOf(p) \in keys' \/ p \in forgotten'
      BY <1>1 DEF RecordOf, MayLand, ClaimKeyOf, RailsInv, RailsTypeOK
    <2>2. RecordOf(p) /\ now \in Nat /\ until[p] \in Nat
      BY DEF InviteInv, RailsInv, RailsTypeOK
    <2>3. ClaimKeyOf(p) \in keys \/ p \in forgotten
      BY <1>1, <2>1, <2>2 DEF RecordOf, Evm
    <2>4. ClaimKeyOf(p) \in keys => ClaimKeyOf(p) \in Claims /\ ClaimKeyOf(p).id = p
      BY DEF Claims, ClaimKeyOf
    <2> QED BY <1>1, <2>3, <2>4
  <1>4. \A w \in Attempts : ~Running(w)' /\ att'[w].pc # "settling"
    BY <1>2 DEF Running
  <1>5. OverlapNoted' /\ OneSettles' /\ FoundFirst'
    BY <1>4 DEF OverlapNoted, OneSettles, FoundFirst
  <1> QED BY <1>1, <1>3, <1>4, <1>5 DEF InviteInv, GoodUntilExpiry

LEMMA InviteInitial ==
  ASSUME RailsInit, GoodUntilExpiry
  PROVE  InviteInv
  <1>1. \A w \in Attempts : att[w].pc = "idle"
    BY DEF RailsInit, Idle
  <1>2. \A p \in Payments : chain[p] = "none"
    BY DEF RailsInit
  <1> QED BY <1>1, <1>2 DEF InviteInv, Running, OverlapNoted, RecordOf, MayLand, OneSettles, FoundFirst

LEMMA InviteStep ==
  ASSUME RailsAssumption, RailsInv, InviteInv, [RailsNext]_railVars PROVE InviteInv'
  <1>1. CASE UNCHANGED railVars
    <2>1. UNCHANGED <<now, rail, forgotten, bound, until, chain, envs, keys, marker, att>>
      BY <1>1 DEF railVars
    <2>2. /\ now' \in Nat /\ now <= now'
          /\ \A p \in Payments : MayLand(p)' => MayLand(p)
      BY <2>1 DEF RailsInv, RailsTypeOK, MayLand
    <2> QED BY <2>1, <2>2, WorldInvites
  <1>2. CASE TempoNext
    <2> USE <1>2 DEF TempoNext
    <2>1. ASSUME NEW w \in Attempts,
                 \/ ValidatePull(w) \/ BroadcastPull(w) \/ LookUpHosted(w) \/ FillHosted(w) \/ Claim(w)
                 \/ Preflight(w) \/ Mark(w) \/ Reconcile(w) \/ Authorize(w)
          PROVE  InviteInv'
      BY <2>1, ValidatePullInvites, BroadcastPullInvites, LookUpHostedInvites, FillHostedInvites,
         ClaimInvites, PreflightInvites, MarkInvites, ReconcileInvites, AuthorizeInvites
    <2>2. ASSUME NEW w \in Attempts,
                 Send(w) \/ SendRefused(w) \/ Confirm(w) \/ LoseOutcome(w) \/ LeaveMarker(w) \/ LeaveKeys(w)
          PROVE  InviteInv'
      BY <2>2, SendInvites, SendRefusedInvites, ConfirmInvites, LoseOutcomeInvites, LeaveMarkerInvites,
         LeaveKeysInvites
    <2>3. ASSUME NEW w \in Attempts,
                 \/ ValidatePush(w) \/ ReservePush(w) \/ VerifyPush(w)
                 \/ ValidateProof(w) \/ BroadcastProof(w) \/ ClaimProof(w)
          PROVE  InviteInv'
      BY <2>3, ValidatePushInvites, ReservePushInvites, VerifyPushInvites,
         ValidateProofInvites, BroadcastProofInvites, ClaimProofInvites
    <2> QED BY <2>1, <2>2, <2>3
  <1>3. CASE ProviderNext
    BY <1>3, ValidateEvmInvites, FacilitatorVerifyInvites, ClaimEvmInvites, SettleEvmInvites,
       VerifyStripeInvites, CreateIntentInvites, RefuseIntentInvites DEF ProviderNext
  <1>4. CASE \E w \in Attempts : RefuseExpired(w) \/ InternalError(w) \/ Cancel(w) \/ Crash(w)
    BY <1>4, RequestsInvite
  <1>5. CASE (\E p \in Payments : Land(p)) \/ Restart \/ Tick
    BY <1>5, LandInvites, RestartInvites, TickInvites
  <1>6. CASE PayerNext
    BY <1>6, ReceiveInvites, ClientSendsInvites DEF PayerNext
  <1> QED BY <1>1, <1>2, <1>3, <1>4, <1>5, <1>6 DEF RailsNext, ServerNext

-----------------------------------------------------------------------------
(* The refusals.                                                            *)

Refuses(w) == att[w].pc # "done" /\ att'[w].pc = "done" /\ att'[w].result = "challenge"

\* What an attempt may be answered with another challenge for.
Grounds(w) ==
  \/ Expired(w) \/ ~Bound(w) \/ ~MayLand(att[w].pay)
  \/ att[w].kind = "proof"
  \/ att[w].kind = "pull" /\ now >= Expires[att[w].ch]
  \/ att[w].kind = "hosted" /\ (att[w].overlapped \/ Refusable(att[w].pay))
  \/ att[w].kind \in Evm /\ (att[w].overlapped \/ now >= until[att[w].pay] \/ att[w].pay \in forgotten)

LEMMA AnswerOf ==
  ASSUME RailsInv, NEW u \in Attempts, NEW w \in Attempts, Refuses(w),
         NEW result \in Results, Becomes(u, Answers(att[u], result))
  PROVE  u = w /\ result = "challenge"
  <1> DEFINE b == Answers(att[u], result)
  <1>1. att[u] \in Attempt
    BY DEF RailsInv, RailsTypeOK
  <1>2. b.pc = "done" /\ b.result = result
    BY <1>1, AnswersFields
  <1> HIDE DEF b
  <1>3. att'[u] = b /\ \A v \in Attempts \ {u} : att'[v] = att[v]
    BY DEF Becomes, RailsInv, RailsTypeOK, b
  <1> QED BY <1>2, <1>3 DEF Refuses

\* An attempt that goes on is not answered.
LEMMA GoesOn ==
  ASSUME RailsInv, NEW u \in Attempts, NEW w \in Attempts, Refuses(w),
         NEW b, b.pc # "done", Becomes(u, b)
  PROVE  FALSE
  <1>1. att'[u] = b /\ \A v \in Attempts \ {u} : att'[v] = att[v]
    BY DEF Becomes, RailsInv, RailsTypeOK
  <1> QED BY <1>1 DEF Refuses

LEMMA FailsOn ==
  ASSUME RailsInv, NEW u \in Attempts
  PROVE  /\ \A result \in Results, x \in BOOLEAN :
              /\ Fails(att[u], result).pc # "done"
              /\ [Fails(att[u], result) EXCEPT !.unknown = x].pc # "done"
         /\ \A pc \in Stages \ {"done"} : [att[u] EXCEPT !.pc = pc].pc # "done"
  <1>1. att[u] \in Attempt
    BY DEF RailsInv, RailsTypeOK
  <1> QED BY <1>1 DEF Fails, Attempt

LEMMA RequestsRefuse ==
  ASSUME RailsAssumption, RailsInv, InviteInv, NEW u \in Attempts, NEW w \in Attempts, Refuses(w),
         RefuseExpired(u) \/ InternalError(u) \/ Cancel(u) \/ Crash(u)
  PROVE  Running(w) /\ Grounds(w)
  <1>1. CASE RefuseExpired(u)
    <2>1. u = w
      BY <1>1, AnswerOf DEF RefuseExpired, Results
    <2> QED BY <1>1, <2>1 DEF RefuseExpired, Running, Grounds
  <1>2. CASE InternalError(u) \/ Cancel(u)
    <2>1. PICK result \in {"error", "none"} : Becomes(u, Fails(att[u], result))
      BY <1>2 DEF InternalError, Cancel
    <2> QED BY <2>1, FailsOn, GoesOn DEF Results
  <1>3. CASE Crash(u)
    BY <1>3, AnswerOf DEF Crash, Results
  <1> QED BY <1>1, <1>2, <1>3

LEMMA HostedRefuses ==
  ASSUME RailsAssumption, RailsInv, InviteInv, NEW u \in Attempts, NEW w \in Attempts, Refuses(w),
         ValidatePull(u) \/ BroadcastPull(u) \/ LookUpHosted(u) \/ FillHosted(u) \/ Claim(u)
  PROVE  Running(w) /\ Grounds(w)
  <1> DEFINE a == att[u]
  <1>1. a \in Attempt
    BY DEF RailsInv, RailsTypeOK
  <1>2. CASE ValidatePull(u) \/ BroadcastPull(u)
    <2>1. \/ Becomes(u, Answers(a, "replayed"))
          \/ \E pc \in {"validated", "looking", "claiming"} : Becomes(u, [a EXCEPT !.pc = pc])
      BY <1>2 DEF ValidatePull, BroadcastPull, Moves
    <2> QED BY <2>1, FailsOn, GoesOn, AnswerOf DEF Results, Stages, TempoStages
  <1>3. CASE LookUpHosted(u)
    <2>1. \/ Becomes(u, Answers(a, "replayed"))
          \/ Becomes(u, [a EXCEPT !.pc = "claiming", !.env = Prior(u), !.reconciling = TRUE])
          \/ Becomes(u, [a EXCEPT !.pc = "filling"])
      BY <1>3 DEF LookUpHosted, Moves
    <2>2. [a EXCEPT !.pc = "claiming", !.env = Prior(u), !.reconciling = TRUE].pc # "done"
      BY <1>1 DEF Attempt
    <2> QED BY <2>1, <2>2, FailsOn, GoesOn, AnswerOf DEF Results, Stages, TempoStages
  <1>4. CASE FillHosted(u)
    <2>1. CASE \E e \in Envelopes : Becomes(u, HostedEnvelope(a, e))
      <3>1. \A e : HostedEnvelope(a, e).pc # "done"
        BY <1>1 DEF HostedEnvelope, Attempt
      <3> QED BY <2>1, <3>1, GoesOn
    <2>2. CASE Becomes(u, Answers(a, "error"))
      BY <2>2, AnswerOf DEF Results
    <2>3. CASE Becomes(u, Answers(a, "challenge"))
      <3>1. u = w /\ a.pc = "filling" /\ Running(w)
        BY <1>4, <2>3, AnswerOf DEF Results, FillHosted, At, Running
      <3>2. a.kind = "hosted" /\ (a.overlapped \/ Refusable(a.pay))
        BY <3>1, InviteFacts DEF StageOK, HostedStage
      <3> QED BY <3>1, <3>2 DEF Grounds
    <2> QED BY <1>4, <2>1, <2>2, <2>3 DEF FillHosted
  <1>5. CASE Claim(u)
    <2>1. CASE Becomes(u, Fails(a, "replayed"))
      BY <2>1, FailsOn, GoesOn DEF Results
    <2>2. ASSUME NEW pc \in {"claiming", "reconciling", "preflight", "ready"}, NEW held,
                 Becomes(u, [a EXCEPT !.held = held, !.pc = pc])
          PROVE  FALSE
      <3>1. [a EXCEPT !.held = held, !.pc = pc].pc # "done"
        BY <1>1 DEF Attempt
      <3> QED BY <2>2, <3>1, GoesOn
    <2> QED BY <1>5, <2>1, <2>2 DEF Claim
  <1> QED BY <1>2, <1>3, <1>4, <1>5

LEMMA SubmissionsRefuse ==
  ASSUME RailsAssumption, RailsInv, InviteInv, NEW u \in Attempts, NEW w \in Attempts, Refuses(w),
         \/ Preflight(u) \/ Mark(u) \/ Reconcile(u) \/ Authorize(u) \/ Send(u) \/ SendRefused(u)
         \/ Confirm(u) \/ LoseOutcome(u) \/ LeaveMarker(u) \/ LeaveKeys(u)
  PROVE  Running(w) /\ Grounds(w)
  <1> DEFINE a == att[u]
  <1>1. a \in Attempt
    BY DEF RailsInv, RailsTypeOK
  <1>2. /\ [a EXCEPT !.pc = "ready", !.marked = TRUE].pc # "done"
        /\ [a EXCEPT !.pc = "sending", !.sent = TRUE, !.unknown = TRUE].pc # "done"
    BY <1>1 DEF Attempt
  <1>3. CASE Preflight(u) \/ Mark(u) \/ Reconcile(u)
    <2>1. \/ Becomes(u, Answers(a, "receipt"))
          \/ \E result \in {"error", "challenge"} : Becomes(u, Fails(a, result))
          \/ \E pc \in {"marking", "ready"} : Becomes(u, [a EXCEPT !.pc = pc])
          \/ Becomes(u, [a EXCEPT !.pc = "ready", !.marked = TRUE])
      BY <1>3 DEF Preflight, Mark, MarkOnce, Reconcile, Moves, Refusal
    <2> QED BY <1>2, <2>1, FailsOn, GoesOn, AnswerOf DEF Results, Stages, TempoStages
  <1>4. CASE Authorize(u) \/ Send(u) \/ SendRefused(u)
    <2>1. \/ \E result \in {"error", "challenge"} : Becomes(u, Fails(a, result))
          \/ Becomes(u, [a EXCEPT !.pc = "sent"])
          \/ Becomes(u, [a EXCEPT !.pc = "sending", !.sent = TRUE, !.unknown = TRUE])
          \/ Becomes(u, [Fails(a, "error") EXCEPT !.unknown = FALSE])
      BY <1>4 DEF Authorize, Send, SendRefused, AfterBroadcast, Moves
    <2> QED BY <1>2, <2>1, FailsOn, GoesOn DEF Results, Stages, TempoStages
  <1>5. CASE Confirm(u) \/ LoseOutcome(u) \/ LeaveMarker(u)
    <2>1. \/ Becomes(u, Answers(a, "receipt"))
          \/ Becomes(u, Fails(a, "error"))
          \/ Becomes(u, [a EXCEPT !.pc = "unclaiming"])
          \/ Becomes(u, [Fails(a, "error") EXCEPT !.unknown = FALSE])
      BY <1>5 DEF Confirm, LoseOutcome, LeaveMarker, AfterBroadcast, Moves
    <2> QED BY <2>1, FailsOn, GoesOn, AnswerOf DEF Results, Stages, TempoStages
  <1>6. CASE LeaveKeys(u)
    <2>1. u = w /\ a.result = "challenge" /\ Running(w)
      BY <1>1, <1>6, AnswerOf DEF LeaveKeys, At, Running, Attempt, Results
    <2>2. StageOK(a)
      BY <2>1, InviteFacts
    <2>3. \/ chain[a.pay] = "reverted"
          \/ a.kind = "pull" /\ now >= Expires[a.ch]
          \/ a.kind = "hosted" /\ (a.overlapped \/ Refusable(a.pay))
      BY <2>1, <2>2 DEF StageOK, HostedStage
    <2> QED BY <2>1, <2>3 DEF Grounds, MayLand
  <1> QED BY <1>3, <1>4, <1>5, <1>6

LEMMA HashesRefuse ==
  ASSUME RailsAssumption, RailsInv, InviteInv, NEW u \in Attempts, NEW w \in Attempts, Refuses(w),
         \/ ValidatePush(u) \/ ReservePush(u) \/ VerifyPush(u)
         \/ ValidateProof(u) \/ BroadcastProof(u) \/ ClaimProof(u)
  PROVE  Running(w) /\ Grounds(w)
  <1> DEFINE a == att[u]
  <1>1. a \in Attempt
    BY DEF RailsInv, RailsTypeOK
  <1>2. CASE ValidatePush(u)
    <2>1. CASE HashVerdict(u) = "challenge" /\ Becomes(u, Answers(a, "challenge"))
      <3>1. u = w /\ Running(w) /\ chain[a.pay] = "reverted"
        BY <1>2, <2>1, AnswerOf DEF ValidatePush, HashVerdict, Results, At, Running
      <3> QED BY <3>1 DEF Grounds, MayLand
    <2>2. CASE \E result \in {"replayed", "error"} : Becomes(u, Answers(a, result))
      BY <2>2, AnswerOf DEF Results
    <2>3. CASE Becomes(u, [a EXCEPT !.pc = "validated"])
      BY <2>3, FailsOn, GoesOn DEF Stages
    <2> QED BY <1>2, <2>1, <2>2, <2>3 DEF ValidatePush, HashVerdict
  <1>3. CASE ReservePush(u)
    <2>1. [a EXCEPT !.pc = "verifying", !.held = {HashKey(a)}].pc # "done"
      BY <1>1 DEF Attempt
    <2> QED BY <1>3, <2>1, GoesOn, AnswerOf DEF ReservePush, Results
  <1>4. CASE VerifyPush(u)
    <2>1. \/ Becomes(u, Answers(a, "receipt"))
          \/ \E result \in {"error", "challenge", "replayed"} : Becomes(u, Fails(a, result))
      BY <1>4 DEF VerifyPush, HashVerdict
    <2> QED BY <2>1, FailsOn, GoesOn, AnswerOf DEF Results
  <1>5. CASE ValidateProof(u)
    <2>1. CASE Becomes(u, [a EXCEPT !.pc = "validated"])
      BY <2>1, FailsOn, GoesOn DEF Stages
    <2>2. CASE \E result \in Results : Becomes(u, Answers(a, result))
      <3>1. u = w
        BY <2>2, AnswerOf
      <3> QED BY <1>5, <3>1 DEF ValidateProof, At, Is, Running, Grounds
    <2> QED BY <1>5, <2>1, <2>2 DEF ValidateProof, Results
  <1>6. CASE BroadcastProof(u)
    BY <1>6, FailsOn, GoesOn DEF BroadcastProof, Moves, Stages
  <1>7. CASE ClaimProof(u)
    <2>1. PICK result \in Results : Becomes(u, Answers(a, result))
      BY <1>7 DEF ClaimProof, Results
    <2>2. u = w /\ a.pc = "claimingProof" /\ Running(w)
      BY <1>7, <2>1, AnswerOf DEF ClaimProof, At, Running
    <2>3. a.kind = "proof"
      BY <2>2, InviteFacts DEF Runs
    <2> QED BY <2>2, <2>3 DEF Grounds
  <1> QED BY <1>2, <1>3, <1>4, <1>5, <1>6, <1>7

LEMMA ProvidersRefuse ==
  ASSUME RailsAssumption, RailsInv, InviteInv, ~StripeLimits, NEW u \in Attempts, NEW w \in Attempts,
         Refuses(w),
         \/ ValidateEvm(u) \/ FacilitatorVerify(u) \/ ClaimEvm(u) \/ SettleEvm(u)
         \/ VerifyStripe(u) \/ CreateIntent(u) \/ RefuseIntent(u)
  PROVE  Running(w) /\ Grounds(w)
  <1> DEFINE a == att[u]
  <1>1. a \in Attempt /\ now \in Nat /\ \A p \in Payments : until[p] \in Nat
    BY DEF RailsInv, RailsTypeOK
  <1>2. CASE ValidateEvm(u)
    <2>1. CASE Becomes(u, [a EXCEPT !.pc = "asking"])
      BY <2>1, FailsOn, GoesOn DEF Stages
    <2>2. CASE Becomes(u, Answers(a, "replayed"))
      BY <2>2, AnswerOf DEF Results
    <2>3. CASE ~(Bound(u) /\ until[a.pay] > now) /\ Becomes(u, Answers(a, "challenge"))
      <3>1. u = w /\ Running(w) /\ a.kind \in Evm
        BY <1>2, <2>3, AnswerOf DEF ValidateEvm, At, Is, Running, Results
      <3>2. a.pay \in Payments
        BY <3>1, InviteFacts
      <3>3. ~Bound(w) \/ now >= until[a.pay]
        BY <1>1, <2>3, <3>1, <3>2
      <3> QED BY <3>1, <3>3 DEF Grounds
    <2> QED BY <1>2, <2>1, <2>2, <2>3 DEF ValidateEvm
  <1>3. CASE FacilitatorVerify(u)
    <2>1. CASE Becomes(u, [a EXCEPT !.pc = "validated"])
      BY <2>1, FailsOn, GoesOn DEF Stages
    <2>2. CASE Becomes(u, Answers(a, "error"))
      BY <2>2, AnswerOf DEF Results
    <2>3. CASE Becomes(u, Answers(a, "challenge"))
      <3>1. u = w /\ Running(w) /\ a.pc = "asking"
        BY <1>3, <2>3, AnswerOf DEF FacilitatorVerify, At, Running, Results
      <3>2. a.kind \in Evm /\ StageOK(a) /\ a.pay \in Payments
        BY <3>1, InviteFacts DEF Runs
      <3>3. a.overlapped \/ ~MayLand(a.pay) \/ now >= until[a.pay] \/ a.pay \in forgotten
        BY <1>1, <3>1, <3>2 DEF StageOK, EvmStage, Unspent
      <3> QED BY <3>1, <3>2, <3>3 DEF Grounds
    <2> QED BY <1>3, <2>1, <2>2, <2>3 DEF FacilitatorVerify, Moves
  <1>4. CASE ClaimEvm(u)
    <2>1. \/ Becomes(u, [a EXCEPT !.pc = "settling"])
          \/ \E result \in {"replayed", "error"} : Becomes(u, Answers(a, result))
      BY <1>4 DEF ClaimEvm, Moves
    <2> QED BY <2>1, FailsOn, GoesOn, AnswerOf DEF Results, Stages
  <1>5. CASE SettleEvm(u)
    <2>1. PICK outcome \in {"success", "failed", "pending", "error"} :
            Becomes(u, Answers(a, EvmAnswer(outcome)))
      BY <1>5 DEF SettleEvm
    <2>2. EvmAnswer(outcome) \in Results
      BY DEF EvmAnswer, Results
    <2>3. u = w /\ Running(w) /\ a.pc = "settling"
      BY <1>5, <2>1, <2>2, AnswerOf DEF SettleEvm, At, Running
    <2>4. a.kind \in Evm /\ StageOK(a) /\ a.pay \in Payments
      BY <2>3, InviteFacts DEF Runs
    <2>5. ~MayLand(a.pay) \/ now >= until[a.pay] \/ a.pay \in forgotten
      BY <1>1, <2>3, <2>4 DEF StageOK, EvmStage, Unspent
    <2> QED BY <2>3, <2>4, <2>5 DEF Grounds
  <1>6. CASE VerifyStripe(u)
    BY <1>6, FailsOn, GoesOn DEF VerifyStripe, Moves, Stages
  <1>7. CASE CreateIntent(u)
    <2>1. PICK s \in {chain[a.pay], "paid", "action", "failed", "pooled"},
               result \in Results :
            /\ Becomes(u, Answers(a, result)) /\ (chain[a.pay] # "none" => s = chain[a.pay])
            /\ result = StripeAnswer(s, ~CreatesIntent(a.pay)) \/ result = "error"
      BY <1>7 DEF CreateIntent, CreatesIntent, StripeAnswer, Results
    <2>3. u = w /\ Running(w) /\ result = "challenge"
      BY <1>7, <2>1, AnswerOf DEF CreateIntent, At, Running
    <2>4. ~MayLand(a.pay)
      BY <2>1, <2>3 DEF StripeAnswer, MayLand, CreatesIntent
    <2> QED BY <2>3, <2>4 DEF Grounds
  <1>8. CASE RefuseIntent(u)
    <2>1. u = w /\ Running(w) /\ chain[a.pay] = "none"
      BY <1>8, AnswerOf DEF RefuseIntent, CreatesIntent, At, Running, Results
    <2> QED BY <2>1 DEF Grounds, MayLand
  <1> QED BY <1>2, <1>3, <1>4, <1>5, <1>6, <1>7, <1>8

\* A step of nobody, or the first of an attempt, answers nobody.
LEMMA OthersRefuse ==
  ASSUME RailsInv, NEW w \in Attempts, Refuses(w),
         \/ UNCHANGED att
         \/ \E u \in Attempts, p \in Payments, c \in Challenges, k \in KindsOf(rail) : Receive(u, p, c, k)
  PROVE  FALSE
  <1>1. CASE UNCHANGED att
    BY <1>1 DEF Refuses
  <1>2. ASSUME NEW u \in Attempts, NEW p \in Payments, NEW c \in Challenges, NEW k \in KindsOf(rail),
               Receive(u, p, c, k)
        PROVE  FALSE
    <2>1. att[w] \in Attempt
      BY DEF RailsInv, RailsTypeOK
    <2> DEFINE others == {v \in Attempts : Running(v) /\ att[v].pay = p}
               o == others # {}
    <2>2. PICK lag \in 0 .. (IF k = "proof" THEN MaxLag ELSE 0),
               e \in (IF k = "hosted" THEN {"none"} ELSE IF k = "push" /\ rail = "hosted"
                      THEN Envelopes \cup {"own"} ELSE {"own"}) :
            att' = [v \in Attempts |->
              IF v = u THEN [Idle EXCEPT !.pc = "received", !.pay = p, !.ch = c, !.kind = k,
                               !.env = e, !.lag = lag, !.overlapped = o]
              ELSE IF v \in others THEN [att[v] EXCEPT !.overlapped = TRUE] ELSE att[v]]
      BY <1>2 DEF Receive
    <2> HIDE DEF others, o
    <2>3. CASE u = w
      <3>1. att'[w] = [Idle EXCEPT !.pc = "received", !.pay = p, !.ch = c, !.kind = k,
                        !.env = e, !.lag = lag, !.overlapped = o]
        BY <2>2, <2>3
      <3> QED BY <3>1 DEF Refuses, Idle
    <2>4. CASE u # w
      <3>1. att'[w] = att[w] \/ att'[w] = [att[w] EXCEPT !.overlapped = TRUE]
        BY <2>2, <2>4
      <3> QED BY <2>1, <3>1 DEF Refuses, Attempt
    <2> QED BY <2>3, <2>4
  <1> QED BY <1>1, <1>2

LEMMA RefusesOnGrounds ==
  ASSUME RailsAssumption, RailsInv, InviteInv, ~StripeLimits, RailsNext, NEW w \in Attempts, Refuses(w)
  PROVE  Running(w) /\ Grounds(w)
  <1>1. CASE TempoNext
    BY <1>1, HostedRefuses, SubmissionsRefuse, HashesRefuse DEF TempoNext
  <1>2. CASE ProviderNext
    BY <1>2, ProvidersRefuse DEF ProviderNext
  <1>3. CASE \E u \in Attempts : RefuseExpired(u) \/ InternalError(u) \/ Cancel(u) \/ Crash(u)
    BY <1>3, RequestsRefuse
  <1>4. CASE (\E p \in Payments : Land(p)) \/ Tick
    BY <1>4, OthersRefuse DEF Land, Tick
  <1>5. CASE PayerNext
    BY <1>5, OthersRefuse DEF PayerNext, ClientSends
  <1>6. CASE Restart
    BY <1>6 DEF Restart, Refuses, Answers, Idle
  <1> QED BY <1>1, <1>2, <1>3, <1>4, <1>5, <1>6 DEF RailsNext, ServerNext

\* While the challenge is open, and no other attempt interferes, no ground is left but that
\* nothing was paid and nothing may land.
LEMMA OpenGrounds ==
  ASSUME RailsAssumption, RailsInv, InviteInv, NEW w \in Attempts, Running(w), Grounds(w),
         now < Expires[att[w].ch], Bound(w),
         att[w].kind \in {"hosted", "evm", "cache"} => ~att[w].overlapped,
         att[w].pay \notin forgotten
  PROVE  ~MayLand(att[w].pay)
  <1>1. PICK p \in Payments : att[w].pay = p
    BY InviteFacts
  <1>2. /\ StageOK(att[w]) /\ att[w].ch \in Challenges /\ RecordOf(p) /\ now \in Nat /\ until[p] \in Nat
        /\ att[w].kind \in KindsOf(rail) /\ bound[p] = att[w].ch /\ Expires[att[w].ch] \in Nat
    BY <1>1, InviteFacts DEF Bound, RailsAssumption
  <1>3. att[w].kind = "proof" => rail = "proof"
    BY <1>2 DEF KindsOf
  <1>4. Expired(w) => att[w].kind = "proof"
    BY <1>2 DEF Expired, StageOK
  <1>5. ~Closed(p)
    BY <1>2 DEF Closed
  <1>6. att[w].kind \in Evm => now < until[p]
    <2>1. att[w].kind \in Evm => rail \in Evm
      BY <1>2 DEF KindsOf, Evm
    <2>2. rail \in Evm => until[p] >= Expires[bound[p]]
      BY <1>2 DEF InviteInv, GoodUntilExpiry
    <2> QED BY <1>2, <2>1, <2>2
  <1>7. att[w].kind \in Evm => ~att[w].overlapped
    BY DEF Evm
  <1>8. att[w].kind = "pull" => ~(now >= Expires[att[w].ch])
    BY <1>2
  <1>9. att[w].kind = "proof" => ~MayLand(p)
    BY <1>2, <1>3 DEF RecordOf
  <1> QED BY <1>1, <1>2, <1>4, <1>5, <1>6, <1>7, <1>8, <1>9 DEF Grounds, Refusable

\* A 402 never invites to pay a second time: as long as its challenge is open, no payment
\* that was made, or that may still land, is answered with one, whatever was lost, stopped
\* or tried again before.  Authorizations are signed to be good until their challenge
\* expires, as the clients do; Stripe is taken not to limit repeated calls.  It says
\* nothing of an authorization whose claim was lost with the process that kept it.
THEOREM RefusalsInviteSafely ==
  ASSUME ~StripeLimits
  PROVE  RailsSpec /\ GoodUntilExpiry => NoSecondPaymentInvited
  <1>1. RailsInit /\ GoodUntilExpiry => InviteInv
    BY InviteInitial
  <1>2. RailsInv /\ InviteInv /\ [RailsNext]_railVars => InviteInv'
    BY RailsAssumption, InviteStep
  <1>3. RailsInv /\ InviteInv /\ [RailsNext]_railVars =>
          [\A w \in Attempts :
             /\ att[w].pc # "done" /\ att'[w].pc = "done" /\ att'[w].result = "challenge"
             /\ now < Expires[att[w].ch] /\ Bound(w)
             /\ att[w].kind \in {"hosted", "evm", "cache"} => ~att[w].overlapped
             /\ att[w].pay \notin forgotten
             => chain[att[w].pay] \notin {"pooled", "paid"}]_railVars
    BY RailsAssumption, RefusesOnGrounds, OpenGrounds DEF Refuses, MayLand
  <1> QED BY <1>1, <1>2, <1>3, RailsInvariant, PTL DEF RailsSpec, NoSecondPaymentInvited

-----------------------------------------------------------------------------
(***************************************************************************)
(* The client.                                                             *)
(*                                                                         *)
(* Its invariant says which payment is where: being signed, in the hands   *)
(* of calls, or presented by an attempt; and that a call stands for each   *)
(* payment that may have landed, and for no other one: it presented the    *)
(* payment to an attempt that sent it, or waits for its broadcast, or has  *)
(* ended and says so.  "last" is what each call stands for.                *)
(***************************************************************************)

Endings == {"none", "refused", "cancelled", "unknown", "paid"}

CallRecord ==
  [pc : {"idle", "challenged", "signing", "signed", "waiting", "ended"},
   ch : Challenges \cup {"none"}, kind : Kinds, pay : Payments \cup {"none"},
   att : Attempts \cup {"none"}, tries : Nat, end : Endings]

SigningRecord ==
  [pc : {"none", "building", "built", "submitting", "confirming", "over"}, kind : Kinds,
   pay : Payments \cup {"none"}, submitted : BOOLEAN, end : Endings, waiters : SUBSET Callers]

ClientTypeOK ==
  /\ via \in {"http", "mcp"} /\ call \in [Callers -> CallRecord]
  /\ signing \in [Challenges -> SigningRecord] /\ users \in [Payments -> SUBSET Callers]

\* A payment in the hands of calls.
InHand(r) == r.pc \in {"signed", "waiting"}

\* What is being signed has been nowhere else.
SigningOK(c) ==
  LET s == signing[c] IN
  /\ s.pc = "none" => s = NoSigning
  /\ s.pc # "none" => s.kind \in KindsOf(rail)
  /\ s.pc = "building" => s.pay = "none"
  /\ s.pc # "over" => s.end = "none"
  /\ s.pay = "none" => /\ ~s.submitted /\ s.pc \notin {"built", "submitting", "confirming"}
                       /\ s.pc = "over" => s.end # "none"
  /\ s.submitted => s.kind = "push" /\ s.pc \notin {"built", "building"}
  /\ s.pc = "built" => s.kind = "push"
  /\ s.pc \in {"submitting", "confirming"} => s.submitted

\* A payment that was not broadcast, or was refused, has not landed.
Unlanded(s) == s.pc \in {"built", "submitting"} \/ s.end \in {"refused", "cancelled"}

UndeliveredOK(c) ==
  LET s == signing[c] IN
  s.pay # "none" =>
    /\ bound[s.pay] # "none"
    /\ Unlanded(s) => ~MayHaveLanded(s.pay)
    /\ \A w \in Attempts : Running(w) => att[w].pay # s.pay
    /\ \A k \in Callers : InHand(call[k]) => call[k].pay # s.pay
    /\ \A d \in Challenges : signing[d].pay = s.pay => d = c

CallOK(k) ==
  LET r == call[k] IN
  /\ InHand(r) => r.pay \in Payments /\ bound[r.pay] # "none" /\ k \in users[r.pay]
  /\ r.pc = "waiting" => /\ r.att \in Attempts
                         /\ att[r.att].pc # "idle" /\ att[r.att].pay = r.pay
  /\ \A c \in Challenges : k \in signing[c].waiters <=> r.pc = "signing" /\ r.ch = c
  /\ r.pc \in {"challenged", "signing", "signed"} => r.ch \in Challenges

\* What landed, or may land, was signed.
SignedOK ==
  /\ \A p \in Payments : MayHaveLanded(p) => bound[p] # "none"
  /\ \A w \in Attempts : Running(w) => bound[att[w].pay] # "none"

\* The attempt may have sent the payment; then its answer is no other challenge.
MaySent(a) ==
  \/ a.pc = "sent"
  \/ a.pc \in {"unmarking", "unclaiming", "done"} /\ a.result \in {"receipt", "error", "none"}

Broadcasts(k) == call[k].pc = "signing" /\ signing[call[k].ch].submitted

\* The call knows, or will know, that its payment may have landed.
EndsKnowing(r) == r.pc = "ended" /\ (r.end \in {"paid", "unknown"} \/ (r.end = "refused" /\ r.kind = "push"))
Knows(k) ==
  \/ EndsKnowing(call[k])
  \/ InHand(call[k]) /\ call[k].kind = "push"
  \/ call[k].pc = "waiting" /\ MaySent(att[call[k].att])
  \/ Broadcasts(k)

\* It presented the payment to this attempt, or gave up on it.
Presents(k, w) ==
  \/ call[k].pc = "waiting" /\ call[k].att = w
  \/ call[k].pc = "ended" /\ call[k].end = "unknown"

Landing(p) ==
  MayHaveLanded(p) \/ \E c \in Challenges : signing[c].pc = "submitting" /\ signing[c].pay = p

StandFor(last) ==
  /\ last \in [Callers -> Payments \cup {"none"}]
  /\ \A k \in Callers : /\ InHand(call[k]) => last[k] = call[k].pay
                        /\ Broadcasts(k) => last[k] = signing[call[k].ch].pay
  /\ \A w \in Attempts : Running(w) =>
       \E k \in users[att[w].pay] : last[k] = att[w].pay /\ Presents(k, w)
  /\ \A p \in Payments : Landing(p) => \E k \in users[p] : last[k] = p /\ Knows(k)

ClientInv ==
  /\ ClientTypeOK /\ SignedOK
  /\ \A c \in Challenges : SigningOK(c) /\ UndeliveredOK(c)
  /\ \A k \in Callers : CallOK(k)
  /\ \E last \in [Callers -> Payments \cup {"none"}] : StandFor(last)

PaidInv == RailsInv /\ ClientInv

-----------------------------------------------------------------------------
(* The steps of the server.                                                 *)

\* One attempt moves on, which may have sent its payment.
Moved(w) ==
  /\ Running(w) /\ \A v \in Attempts \ {w} : att'[v] = att[v]
  /\ att'[w].pay = att[w].pay /\ att'[w].pc # "idle"
  /\ MaySent(att[w]) => MaySent(att'[w])
  /\ \A p \in Payments :
       MayHaveLanded(p)' => MayHaveLanded(p) \/ (p = att[w].pay /\ MaySent(att'[w]))

\* No attempt moves on, though they may all stop.
Rested ==
  /\ \A w \in Attempts :
       \/ att'[w] = att[w]
       \/ /\ Running(w) /\ att'[w].pc = "done" /\ att'[w].pay = att[w].pay
          /\ att'[w].result = "none"
  /\ \A p \in Payments : MayHaveLanded(p)' => MayHaveLanded(p)

LEMMA RecordMoves ==
  ASSUME RailsInv, NEW w \in Attempts, NEW a, Becomes(w, a), Running(w),
         a.pay = att[w].pay, a.pc # "idle", MaySent(att[w]) => MaySent(a),
         \A p \in Payments :
           MayHaveLanded(p)' => MayHaveLanded(p) \/ (p = att[w].pay /\ MaySent(a))
  PROVE  Moved(w)
  <1>1. att'[w] = a /\ \A v \in Attempts \ {w} : att'[v] = att[v]
    BY DEF Becomes, RailsInv, RailsTypeOK
  <1> QED BY <1>1 DEF Moved

\* A move to another stage, with no outcome yet.
LEMMA StageMoves ==
  ASSUME RailsInv, NEW w \in Attempts, NEW a, Becomes(w, a), Running(w),
         a.pay = att[w].pay, a.pc # "idle", ~MaySent(att[w]), chain' = chain
  PROVE  Moved(w)
  BY RecordMoves DEF MayHaveLanded

\* An answer, or the way to it.
LEMMA AnswerMoves ==
  ASSUME RailsInv, NEW w \in Attempts, NEW result, Running(w), chain' = chain,
         MaySent(att[w]) => result \in {"receipt", "error", "none"},
         NEW a, a \in {Answers(att[w], result), Fails(att[w], result)}, Becomes(w, a)
  PROVE  Moved(w)
  <1>1. att[w] \in Attempt
    BY DEF RailsInv, RailsTypeOK
  <1>2. a.pc \in {"done", "unmarking"} /\ a.result = result /\ a.pay = att[w].pay
    BY <1>1 DEF Answers, Fails, Idle, Attempt
  <1> QED BY <1>2, RecordMoves DEF MaySent, MayHaveLanded

LEMMA FailsKnownMoves ==
  ASSUME RailsInv, NEW w \in Attempts, NEW result \in {"receipt", "error", "none"}, Running(w),
         chain' = chain, Becomes(w, [Fails(att[w], result) EXCEPT !.unknown = FALSE])
  PROVE  Moved(w)
  <1> DEFINE a == [Fails(att[w], result) EXCEPT !.unknown = FALSE]
  <1>1. att[w] \in Attempt
    BY DEF RailsInv, RailsTypeOK
  <1>2. a.pc = "unmarking" /\ a.result = result /\ a.pay = att[w].pay
    BY <1>1 DEF Fails, Attempt
  <1> HIDE DEF a
  <1>3. Moved(w)
    BY <1>2, RecordMoves DEF MaySent, MayHaveLanded, a
  <1> QED BY <1>3

LEMMA TransactionsMove ==
  ASSUME RailsInv, NEW w \in Attempts,
         \/ ValidatePull(w) \/ BroadcastPull(w) \/ LookUpHosted(w) \/ FillHosted(w) \/ Claim(w)
         \/ Preflight(w) \/ Mark(w) \/ Reconcile(w) \/ Authorize(w)
  PROVE  Moved(w) /\ bound' = bound
  <1> DEFINE a == att[w]
  <1>1. a \in Attempt
    BY DEF RailsInv, RailsTypeOK
  <1>2. /\ Running(w) /\ ~MaySent(a) /\ chain' = chain /\ bound' = bound
    BY DEF ValidatePull, BroadcastPull, LookUpHosted, FillHosted, Claim, Preflight, Mark, Reconcile,
           Authorize, At, Running, MaySent, terms, world
  <1>3. \A b : b.pay = a.pay /\ b.pc # "idle" /\ Becomes(w, b) => Moved(w)
    BY <1>2, StageMoves
  <1>4. \A r : Becomes(w, Answers(a, r)) \/ Becomes(w, Fails(a, r)) => Moved(w)
    BY <1>2, AnswerMoves
  <1>5. ASSUME NEW x, x # "idle", NEW h, NEW e
        PROVE  /\ Becomes(w, [a EXCEPT !.pc = x]) => Moved(w)
               /\ Becomes(w, [a EXCEPT !.held = h, !.pc = x]) => Moved(w)
               /\ Becomes(w, [a EXCEPT !.pc = x, !.env = e, !.reconciling = TRUE]) => Moved(w)
               /\ Becomes(w, [a EXCEPT !.pc = x, !.sent = TRUE, !.unknown = TRUE]) => Moved(w)
               /\ Becomes(w, [a EXCEPT !.pc = x, !.marked = TRUE]) => Moved(w)
    <2>1. [a EXCEPT !.pc = x].pay = a.pay /\ [a EXCEPT !.pc = x].pc = x
      BY <1>1 DEF Attempt
    <2>2. [a EXCEPT !.held = h, !.pc = x].pay = a.pay /\ [a EXCEPT !.held = h, !.pc = x].pc = x
      BY <1>1 DEF Attempt
    <2>3. LET b == [a EXCEPT !.pc = x, !.env = e, !.reconciling = TRUE] IN b.pay = a.pay /\ b.pc = x
      BY <1>1 DEF Attempt
    <2>4. LET b == [a EXCEPT !.pc = x, !.sent = TRUE, !.unknown = TRUE] IN b.pay = a.pay /\ b.pc = x
      BY <1>1 DEF Attempt
    <2>5. LET b == [a EXCEPT !.pc = x, !.marked = TRUE] IN b.pay = a.pay /\ b.pc = x
      BY <1>1 DEF Attempt
    <2> QED BY <1>3, <1>5, <2>1, <2>2, <2>3, <2>4, <2>5
  <1>6. CASE ValidatePull(w)
    BY <1>2, <1>4, <1>5, <1>6 DEF ValidatePull
  <1>7. CASE BroadcastPull(w)
    <2>1. Becomes(w, [a EXCEPT !.pc = "looking"]) \/ Becomes(w, [a EXCEPT !.pc = "claiming"])
      BY <1>7 DEF BroadcastPull, Moves
    <2> QED BY <1>2, <1>5, <2>1
  <1>8. CASE LookUpHosted(w) \/ FillHosted(w)
    <2>1. \/ \E r : Becomes(w, Answers(a, r))
          \/ \E e : Becomes(w, [a EXCEPT !.pc = "claiming", !.env = e, !.reconciling = TRUE])
          \/ Becomes(w, [a EXCEPT !.pc = "filling"])
          \/ \E e : Becomes(w, HostedEnvelope(a, e))
      BY <1>8 DEF LookUpHosted, FillHosted, Moves
    <2>2. ASSUME NEW e, Becomes(w, [a EXCEPT !.pc = "claiming", !.env = e, !.reconciling = TRUE])
          PROVE  Moved(w)
      BY <1>5, <2>2
    <2>3. ASSUME NEW e, Becomes(w, HostedEnvelope(a, e)) PROVE Moved(w)
      <3>1. HostedEnvelope(a, e).pay = a.pay /\ HostedEnvelope(a, e).pc = "claiming"
        BY <1>1 DEF Attempt, HostedEnvelope
      <3> QED BY <1>3, <2>3, <3>1
    <2>4. Becomes(w, [a EXCEPT !.pc = "filling"]) => Moved(w)
      BY <1>5
    <2> QED BY <1>2, <1>4, <2>1, <2>2, <2>3, <2>4
  <1>9. CASE Claim(w)
    <2> DEFINE h == a.held \cup {NextKey(a)}
               x == IF h # KeysOf(a) THEN "claiming" ELSE IF a.reconciling THEN "reconciling"
                    ELSE IF a.kind = "hosted" THEN "preflight" ELSE "ready"
    <2>1. \/ Becomes(w, Fails(a, "replayed"))
          \/ Becomes(w, [a EXCEPT !.held = h, !.pc = x])
      BY <1>9 DEF Claim
    <2>2. x # "idle"
      OBVIOUS
    <2> HIDE DEF x, h
    <2> QED BY <1>2, <1>4, <1>5, <2>1, <2>2
  <1>10. CASE Preflight(w) \/ Mark(w)
    BY <1>2, <1>4, <1>5, <1>10 DEF Preflight, Mark, MarkOnce, Moves
  <1>11. CASE Reconcile(w)
    BY <1>2, <1>4, <1>5, <1>11 DEF Reconcile, Moves
  <1>12. CASE Authorize(w)
    BY <1>2, <1>4, <1>5, <1>12 DEF Authorize
  <1> QED BY <1>2, <1>6, <1>7, <1>8, <1>9, <1>10, <1>11, <1>12

LEMMA SubmissionsMove ==
  ASSUME RailsInv, NEW w \in Attempts,
         Send(w) \/ SendRefused(w) \/ Confirm(w) \/ LoseOutcome(w) \/ LeaveMarker(w) \/ LeaveKeys(w)
  PROVE  Moved(w) /\ bound' = bound
  <1> DEFINE a == att[w]
             b(pc) == [a EXCEPT !.pc = pc]
  <1>1. a \in Attempt
    BY DEF RailsInv, RailsTypeOK
  <1>2. Running(w) /\ bound' = bound
    BY DEF Send, SendRefused, Confirm, LoseOutcome, LeaveMarker, LeaveKeys, At, Running, terms
  <1>3. \A pc : b(pc).pay = a.pay /\ b(pc).pc = pc /\ b(pc).result = a.result
    BY <1>1 DEF Attempt
  <1>4. CASE Send(w)
    <2>1. Becomes(w, b("sent")) /\ MaySent(b("sent"))
      BY <1>3, <1>4 DEF Send, Moves, MaySent
    <2>2. \A p \in Payments : MayHaveLanded(p)' => MayHaveLanded(p) \/ p = a.pay
      BY <1>4 DEF Send, MayHaveLanded, world, RailsInv, RailsTypeOK
    <2> HIDE DEF b
    <2>3. Moved(w)
      BY <1>2, <1>3, <2>1, <2>2, RecordMoves
    <2> QED BY <1>2, <2>3
  <1>5. CASE SendRefused(w)
    BY <1>2, <1>5, FailsKnownMoves DEF SendRefused, AfterBroadcast, world
  <1>6. CASE Confirm(w)
    BY <1>2, <1>6, FailsKnownMoves, AnswerMoves DEF Confirm, AfterBroadcast, world
  <1>7. CASE LoseOutcome(w)
    BY <1>2, <1>7, AnswerMoves DEF LoseOutcome, AfterBroadcast, world
  <1>8. CASE LeaveMarker(w)
    <2>1. Becomes(w, b("unclaiming")) /\ a.pc = "unmarking" /\ chain' = chain
      BY <1>8 DEF LeaveMarker, Moves, At, world
    <2>2. MaySent(a) => MaySent(b("unclaiming"))
      BY <1>3, <2>1 DEF MaySent
    <2> HIDE DEF b
    <2>3. Moved(w)
      BY <1>2, <1>3, <2>1, <2>2, RecordMoves DEF MayHaveLanded
    <2> QED BY <1>2, <2>3
  <1>9. CASE LeaveKeys(w)
    <2>1. MaySent(a) => a.result \in {"receipt", "error", "none"}
      BY <1>9 DEF LeaveKeys, At, MaySent
    <2> QED BY <1>2, <1>9, <2>1, AnswerMoves DEF LeaveKeys, world
  <1> QED BY <1>4, <1>5, <1>6, <1>7, <1>8, <1>9

LEMMA HashesMove ==
  ASSUME RailsInv, NEW w \in Attempts,
         \/ ValidatePush(w) \/ ReservePush(w) \/ VerifyPush(w)
         \/ ValidateProof(w) \/ BroadcastProof(w) \/ ClaimProof(w)
  PROVE  Moved(w) /\ bound' = bound
  <1> DEFINE a == att[w]
  <1>1. a \in Attempt
    BY DEF RailsInv, RailsTypeOK
  <1>2. Running(w) /\ ~MaySent(a) /\ chain' = chain /\ bound' = bound
    BY DEF ValidatePush, ReservePush, VerifyPush, ValidateProof, BroadcastProof, ClaimProof,
           At, Running, MaySent, terms, world
  <1>3. \A b : b.pay = a.pay /\ b.pc # "idle" /\ Becomes(w, b) => Moved(w)
    BY <1>2, StageMoves
  <1>4. \A r : Becomes(w, Answers(a, r)) \/ Becomes(w, Fails(a, r)) => Moved(w)
    BY <1>2, AnswerMoves
  <1>5. ASSUME NEW x, x # "idle", NEW h
        PROVE  /\ Becomes(w, [a EXCEPT !.pc = x]) => Moved(w)
               /\ Becomes(w, [a EXCEPT !.pc = x, !.held = h]) => Moved(w)
    <2>1. [a EXCEPT !.pc = x].pay = a.pay /\ [a EXCEPT !.pc = x].pc = x
      BY <1>1 DEF Attempt
    <2>2. [a EXCEPT !.pc = x, !.held = h].pay = a.pay /\ [a EXCEPT !.pc = x, !.held = h].pc = x
      BY <1>1 DEF Attempt
    <2> QED BY <1>3, <1>5, <2>1, <2>2
  <1>6. CASE ValidatePush(w)
    BY <1>2, <1>4, <1>5, <1>6 DEF ValidatePush
  <1>7. CASE ReservePush(w)
    BY <1>2, <1>4, <1>5, <1>7 DEF ReservePush
  <1>8. CASE VerifyPush(w)
    <2>1. PICK r : Becomes(w, Answers(a, r)) \/ Becomes(w, Fails(a, r))
      BY <1>8 DEF VerifyPush
    <2> QED BY <1>2, <1>4, <2>1
  <1>9. CASE ValidateProof(w) \/ BroadcastProof(w)
    BY <1>2, <1>4, <1>5, <1>9 DEF ValidateProof, BroadcastProof, Moves
  <1>10. CASE ClaimProof(w)
    BY <1>2, <1>4, <1>10 DEF ClaimProof
  <1> QED BY <1>2, <1>6, <1>7, <1>8, <1>9, <1>10

\* A facilitator or Stripe that may have taken the payment is not answered with another
\* challenge.
LEMMA ProvidersMove ==
  ASSUME RailsInv, NEW w \in Attempts,
         \/ ValidateEvm(w) \/ FacilitatorVerify(w) \/ ClaimEvm(w) \/ SettleEvm(w)
         \/ VerifyStripe(w) \/ CreateIntent(w) \/ RefuseIntent(w)
  PROVE  Moved(w) /\ bound' = bound
  <1> DEFINE a == att[w]
  <1>1. a \in Attempt
    BY DEF RailsInv, RailsTypeOK
  <1>2. Running(w) /\ ~MaySent(a) /\ bound' = bound
    BY DEF ValidateEvm, FacilitatorVerify, ClaimEvm, SettleEvm, VerifyStripe, CreateIntent,
           RefuseIntent, At, Running, MaySent, terms
  <1>3. ASSUME chain' = chain
        PROVE  /\ \A pc : pc # "idle" /\ Moves(w, pc) => Moved(w)
               /\ \A r : Becomes(w, Answers(a, r)) => Moved(w)
    <2>1. \A x : [a EXCEPT !.pc = x].pay = a.pay /\ [a EXCEPT !.pc = x].pc = x
      BY <1>1 DEF Attempt
    <2> QED BY <1>2, <1>3, <2>1, StageMoves, AnswerMoves DEF Moves
  <1>4. CASE ValidateEvm(w) \/ FacilitatorVerify(w) \/ ClaimEvm(w) \/ VerifyStripe(w) \/ RefuseIntent(w)
    <2>1. chain' = chain
      BY <1>4 DEF ValidateEvm, FacilitatorVerify, ClaimEvm, VerifyStripe, RefuseIntent, world
    <2> QED BY <1>2, <1>3, <1>4, <2>1
         DEF ValidateEvm, FacilitatorVerify, ClaimEvm, VerifyStripe, RefuseIntent, Moves
  <1>5. ASSUME NEW s, NEW result, chain' = [chain EXCEPT ![a.pay] = s], Becomes(w, Answers(a, result)),
               \/ s \notin {"pooled", "paid"}
               \/ s = chain[a.pay] \/ result \in {"receipt", "error"}
        PROVE  Moved(w)
    <2> DEFINE b == Answers(a, result)
    <2>1. b.pc = "done" /\ b.pay = a.pay /\ b.result = result
      BY <1>1 DEF Answers, Idle, Attempt
    <2>2. \A p \in Payments :
            MayHaveLanded(p)' => MayHaveLanded(p) \/ (p = a.pay /\ result \in {"receipt", "error"})
      BY <1>5 DEF MayHaveLanded, RailsInv, RailsTypeOK
    <2> HIDE DEF b
    <2> QED BY <1>2, <1>5, <2>1, <2>2, RecordMoves DEF MaySent, b
  <1>6. CASE SettleEvm(w)
    <2>1. PICK outcome \in {"success", "failed", "pending", "error"},
               s \in {"pooled", "paid", chain[a.pay]} :
            /\ chain' = [chain EXCEPT ![a.pay] = s]
            /\ outcome = "failed" => s = chain[a.pay]
            /\ Becomes(w, Answers(a, EvmAnswer(outcome)))
      BY <1>6 DEF SettleEvm
    <2>2. outcome = "failed" \/ EvmAnswer(outcome) \in {"receipt", "error"}
      BY DEF EvmAnswer
    <2> QED BY <1>2, <1>5, <2>1, <2>2
  <1>7. CASE CreateIntent(w)
    <2>1. PICK s \in {"paid", "action", "failed", "pooled", chain[a.pay]} :
          \E result \in {StripeAnswer(s, ~CreatesIntent(a.pay)), "error"} :
            /\ chain' = [chain EXCEPT ![a.pay] = s]
            /\ ~CreatesIntent(a.pay) => s = chain[a.pay]
            /\ Becomes(w, Answers(a, result))
      BY <1>7 DEF CreateIntent
    <2>2. CreatesIntent(a.pay) /\ s \in {"pooled", "paid"} =>
            StripeAnswer(s, ~CreatesIntent(a.pay)) \in {"receipt", "error"}
      BY DEF StripeAnswer
    <2>3. Moved(w)
      BY <1>5, <2>1, <2>2
    <2> QED BY <1>2, <2>3
  <1> QED BY <1>2, <1>4, <1>6, <1>7

LEMMA RequestsMove ==
  ASSUME RailsInv, NEW w \in Attempts, RefuseExpired(w) \/ InternalError(w) \/ Cancel(w) \/ Crash(w)
  PROVE  Moved(w) /\ bound' = bound
  <1>1. Running(w) /\ bound' = bound /\ chain' = chain
    BY DEF RefuseExpired, InternalError, Cancel, Crash, Running, terms, world
  <1>2. CASE RefuseExpired(w) \/ InternalError(w)
    <2>1. ~MaySent(att[w])
      BY <1>2 DEF RefuseExpired, InternalError, MaySent
    <2> QED BY <1>1, <1>2, <2>1, AnswerMoves DEF RefuseExpired, InternalError
  <1>3. CASE Cancel(w) \/ Crash(w)
    BY <1>1, <1>3, AnswerMoves DEF Cancel, Crash
  <1> QED BY <1>1, <1>2, <1>3

LEMMA ServerMoves ==
  ASSUME RailsInv, ServerNext
  PROVE  bound' = bound /\ (Rested \/ \E w \in Attempts : Moved(w))
  <1>1. CASE TempoNext
    BY <1>1, TransactionsMove, SubmissionsMove, HashesMove DEF TempoNext
  <1>2. CASE ProviderNext
    BY <1>2, ProvidersMove DEF ProviderNext
  <1>3. CASE \E w \in Attempts : RefuseExpired(w) \/ InternalError(w) \/ Cancel(w) \/ Crash(w)
    BY <1>3, RequestsMove
  <1>4. ASSUME NEW p \in Payments, Land(p) PROVE Rested /\ bound' = bound
    BY <1>4 DEF Land, Rested, terms, MayHaveLanded, RailsInv, RailsTypeOK
  <1>5. CASE Tick
    BY <1>5 DEF Tick, Rested, terms, MayHaveLanded
  <1>6. CASE Restart
    <2>1. UNCHANGED <<bound, chain>>
      BY <1>6 DEF Restart, terms, world
    <2>2. \A w \in Attempts : att'[w] = att[w] \/ (Running(w) /\ att'[w] = Answers(att[w], "none"))
      BY <1>6 DEF Restart
    <2>3. \A w \in Attempts : LET b == Answers(att[w], "none")
                              IN b.pc = "done" /\ b.pay = att[w].pay /\ b.result = "none"
      BY DEF Answers, Idle
    <2> QED BY <2>1, <2>2, <2>3 DEF Rested, MayHaveLanded
  <1> QED BY <1>1, <1>2, <1>3, <1>4, <1>5, <1>6 DEF ServerNext

\* What the client's part of the invariant says of an attempt depends on the payment,
\* on whether it runs and on what it may have sent.
LEMMA ServerKeepsClient ==
  ASSUME PaidInv, ServerNext, UNCHANGED clientVars
  PROVE  ClientInv'
  <1>1. UNCHANGED <<via, call, signing, users, bound, rail>>
    <2>1. rail' = rail
      BY DEF ServerNext, TempoNext, ProviderNext, ValidatePull, BroadcastPull, LookUpHosted, FillHosted,
             Claim, Preflight, Mark, Reconcile, Authorize, Send, SendRefused, Confirm, LoseOutcome,
             LeaveMarker, LeaveKeys, ValidatePush, ReservePush, VerifyPush, ValidateProof,
             BroadcastProof, ClaimProof, ValidateEvm, FacilitatorVerify, ClaimEvm, SettleEvm,
             VerifyStripe, CreateIntent, RefuseIntent, RefuseExpired, InternalError, Cancel, Crash,
             Land, Restart, Tick
    <2> QED BY <2>1, ServerMoves DEF clientVars, PaidInv
  <1>2. Rested \/ \E w \in Attempts : Moved(w)
    BY ServerMoves DEF PaidInv
  <1>3. \A w \in Attempts : /\ Running(w)' => Running(w) /\ att'[w].pay = att[w].pay
                            /\ MaySent(att[w]) => MaySent(att'[w])
                            /\ att[w].pc # "idle" => att'[w].pc # "idle" /\ att'[w].pay = att[w].pay
    BY <1>2 DEF Rested, Moved, Running, MaySent
  <1>4. ASSUME NEW p \in Payments, MayHaveLanded(p)', ~MayHaveLanded(p)
        PROVE  \E w \in Attempts : Running(w) /\ p = att[w].pay /\ MaySent(att'[w])
    BY <1>2, <1>4 DEF Rested, Moved
  <1>5. ClientTypeOK'
    BY <1>1 DEF PaidInv, ClientInv, ClientTypeOK
  <1>6. SignedOK'
    BY <1>1, <1>3, <1>4 DEF PaidInv, ClientInv, SignedOK
  <1>7. \A c \in Challenges : SigningOK(c)'
    BY <1>1 DEF PaidInv, ClientInv, SigningOK, KindsOf
  <1>8. ASSUME NEW c \in Challenges PROVE UndeliveredOK(c)'
    <2>1. UndeliveredOK(c) /\ signing[c].pay \in Payments \cup {"none"}
      BY DEF PaidInv, ClientInv, ClientTypeOK, SigningRecord
    <2>2. ASSUME NEW p \in Payments, p = signing[c].pay, p # "none", MayHaveLanded(p)'
          PROVE  MayHaveLanded(p)
      BY <1>4, <2>1, <2>2 DEF UndeliveredOK
    <2> QED BY <1>1, <1>3, <2>1, <2>2 DEF UndeliveredOK, Unlanded, InHand
  <1>9. \A k \in Callers : CallOK(k)'
    BY <1>1, <1>3 DEF PaidInv, ClientInv, CallOK, InHand
  <1>10. \E last \in [Callers -> Payments \cup {"none"}] : StandFor(last)'
    <2>1. PICK last \in [Callers -> Payments \cup {"none"}] : StandFor(last)
      BY DEF PaidInv, ClientInv
    <2>2. \A k \in Callers : /\ InHand(call[k])' => last[k] = call'[k].pay
                             /\ Broadcasts(k)' => last[k] = signing'[call'[k].ch].pay
      BY <1>1, <2>1 DEF StandFor, InHand, Broadcasts
    <2>3. \A w \in Attempts : Running(w)' =>
            \E k \in users'[att'[w].pay] : last[k] = att'[w].pay /\ Presents(k, w)'
      BY <1>1, <1>3, <2>1 DEF StandFor, Presents
    <2>4. ASSUME NEW k \in Callers, Knows(k) PROVE Knows(k)'
      <3>1. call[k].pc = "waiting" => call[k].att \in Attempts
        BY DEF PaidInv, ClientInv, CallOK
      <3> QED BY <1>1, <1>3, <2>4, <3>1 DEF Knows, EndsKnowing, InHand, Broadcasts
    <2>5. ASSUME NEW p \in Payments, Landing(p)'
          PROVE  \E k \in users'[p] : last[k] = p /\ Knows(k)'
      <3>1. users[p] \subseteq Callers
        BY DEF PaidInv, ClientInv, ClientTypeOK
      <3>2. CASE Landing(p)
        <4>1. PICK k \in users[p] : last[k] = p /\ Knows(k)
          BY <2>1, <3>2 DEF StandFor
        <4> QED BY <1>1, <2>4, <3>1, <4>1
      <3>3. CASE ~Landing(p)
        <4>1. PICK w \in Attempts : Running(w) /\ p = att[w].pay /\ MaySent(att'[w])
          BY <1>1, <1>4, <2>5, <3>3 DEF Landing
        <4>2. PICK k \in users[p] : last[k] = p /\ Presents(k, w)
          BY <2>1, <4>1 DEF StandFor
        <4>3. Knows(k)'
          BY <1>1, <4>1, <4>2 DEF Presents, Knows, EndsKnowing
        <4> QED BY <1>1, <4>2, <4>3
      <3> QED BY <3>2, <3>3
    <2> QED BY <2>1, <2>2, <2>3, <2>5 DEF StandFor
  <1> QED BY <1>5, <1>6, <1>7, <1>8, <1>9, <1>10 DEF ClientInv

-----------------------------------------------------------------------------
(* The payments that the client signs and broadcasts.                       *)

LEMMA RailsStay == ASSUME RailsInv, UNCHANGED railVars PROVE RailsInv'
  BY RailsAssumption, RailsStep

\* Nothing of a payment that is signed was used before.
LEMMA SigningKeeps ==
  ASSUME RailsInv, NEW p \in Payments, NEW c \in Challenges,
         bound[p] = "none", bound' = [bound EXCEPT ![p] = c], until' \in [Payments -> Nat],
         \A w \in Attempts : Running(w) => att[w].pay # p,
         UNCHANGED <<now, rail, forgotten, chain, envs, keys, marker, att>>
  PROVE  RailsInv'
  <1>1. \A q \in Payments \ {p} : bound'[q] = bound[q]
    BY DEF RailsInv, RailsTypeOK
  <1>2. RailsTypeOK'
    BY DEF RailsInv, RailsTypeOK
  <1>3. HeldOnce' /\ OneIncluded' /\ PaymentUsedOnce'
    BY DEF RailsInv, HeldOnce, OneIncluded, PaymentUsedOnce
  <1>4. ASSUME NEW w \in Attempts PROVE AttemptOK(att[w])'
    <2>1. AttemptOK(att[w])
      BY DEF RailsInv
    <2>2. CASE att[w].pc \in {"idle", "done"}
      BY <2>1, <2>2 DEF AttemptOK
    <2>3. CASE att[w].pc \notin {"idle", "done"}
      <3>1. Runs(att[w]) /\ att[w].pay # p
        BY <2>1, <2>3 DEF AttemptOK, Running
      <3>2. Runs(att[w])'
        BY <1>1, <3>1 DEF Runs, HashKey, KindsOf
      <3> QED BY <2>1, <2>3, <3>2 DEF AttemptOK
    <2> QED BY <2>2, <2>3
  <1>5. ASSUME NEW w \in Attempts, att[w].result = "receipt"
        PROVE  att[w].pay \in Payments /\ att[w].ch \in Challenges /\ Bound(w)' /\ Used(att[w].pay)'
    <2>1. att[w].pay \in Payments /\ att[w].ch \in Challenges /\ Bound(w) /\ Used(att[w].pay)
      BY <1>5 DEF RailsInv, ReceiptsAreUsed
    <2>2. att[w].pay # p
      BY <2>1, ClientAssumption DEF Bound
    <2>3. bound'[att[w].pay] = bound[att[w].pay]
      BY <1>1, <2>1, <2>2
    <2>4. ASSUME NEW q \in Payments, Used(q), bound'[q] = bound[q] PROVE Used(q)'
      <3>1. rail = "proof" => \/ [of |-> "proof", id |-> bound'[q]] \in keys'
                              \/ now' >= Expires[bound'[q]] + ProofGrace
        BY <2>4 DEF Used
      <3>2. /\ rail # "proof" => chain'[q] = "paid"
            /\ rail \in {"pull", "hosted"} =>
                 \E e \in envs'[q] : KeyOf(q, e) \in keys' /\ \A v \in Attempts : KeyOf(q, e) \notin att'[v].held
        BY <2>4 DEF Used
      <3> QED BY <3>1, <3>2 DEF Used, KeyOf
    <2> QED BY <2>1, <2>3, <2>4 DEF Bound
  <1>6. ReceiptsAreUsed'
    BY <1>5 DEF ReceiptsAreUsed
  <1> QED BY <1>2, <1>3, <1>4, <1>6 DEF RailsInv

LEMMA PushKeeps ==
  ASSUME RailsInv, NEW p \in Payments, rail \in {"pull", "hosted"}, chain[p] = "none",
         chain' = [chain EXCEPT ![p] = "pooled"], envs' = [envs EXCEPT ![p] = @ \cup {"own"}],
         UNCHANGED <<now, rail, forgotten, bound, until, keys, marker, att>>
  PROVE  RailsInv'
  <1>2. RailsTypeOK' /\ now' \in Nat /\ now <= now'
    BY DEF RailsInv, RailsTypeOK
  <1>3. /\ \A q \in Payments : chain'[q] \in {"paid", "reverted"} =>
             chain[q] = chain'[q] /\ envs'[q] = envs[q]
        /\ \A q \in Payments : chain[q] = "paid" => chain'[q] = "paid" /\ envs'[q] = envs[q]
    BY DEF RailsInv, RailsTypeOK
  <1>4. OneIncluded'
    BY <1>3 DEF RailsInv, OneIncluded
  <1> QED BY <1>2, <1>3, <1>4, RailsAssumption, WorldKeeps

LEMMA PaidInitial ==
  ASSUME RailsAssumption, ClientAssumption, PaidInit
  PROVE  PaidInv
  <1>1. RailsInv
    <2>1. bound \in [Payments -> Challenges \cup {"none"}] /\ until \in [Payments -> Nat]
      BY DEF PaidInit, NothingSigned
    <2> QED BY <2>1, RailsInitial DEF PaidInit, NothingSigned
  <1>2. \A k \in Callers : call[k] \in CallRecord /\ call[k].pc \in {"idle", "ended"}
                           /\ call[k].end # "unknown"
    <2>1. NoCall \in CallRecord /\ NoCall.pc = "idle" /\ NoCall.end = "none"
      BY DEF NoCall, CallRecord, Kinds, Endings
    <2>2. LET e == Ends(NoCall, "cancelled")
          IN e \in CallRecord /\ e.pc = "ended" /\ e.end = "cancelled"
      BY DEF NoCall, Ends, CallRecord, Kinds, Endings
    <2> QED BY <2>1, <2>2 DEF PaidInit
  <1>3. \A c \in Challenges : signing[c] = NoSigning
    BY DEF PaidInit
  <1>4. \A w \in Attempts : ~Running(w)
    BY DEF PaidInit, NothingSigned, RailsInit, Running, Idle
  <1>5. \A p \in Payments : ~MayHaveLanded(p)
    BY DEF PaidInit, NothingSigned, RailsInit, MayHaveLanded
  <1>6. ClientTypeOK
    <2>1. NoSigning \in SigningRecord
      BY DEF NoSigning, SigningRecord, Kinds, Endings
    <2>2. call \in [Callers -> CallRecord]
      BY <1>2 DEF PaidInit
    <2> QED BY <2>1, <2>2 DEF PaidInit, NothingSigned, ClientInit, ClientTypeOK
  <1>7. SignedOK
    BY <1>4, <1>5 DEF SignedOK
  <1>8. \A c \in Challenges : SigningOK(c) /\ UndeliveredOK(c)
    BY <1>3 DEF SigningOK, UndeliveredOK, NoSigning
  <1>9. \A k \in Callers : CallOK(k)
    BY <1>2, <1>3 DEF CallOK, InHand, NoSigning
  <1>10. \E last \in [Callers -> Payments \cup {"none"}] : StandFor(last)
    <2> DEFINE last == [k \in Callers |-> "none"]
    <2>1. last \in [Callers -> Payments \cup {"none"}]
      OBVIOUS
    <2>2. StandFor(last)
      BY <1>2, <1>3, <1>4, <1>5, <2>1 DEF StandFor, InHand, Broadcasts, Landing, NoSigning
    <2> QED BY <2>1, <2>2
  <1> QED BY <1>1, <1>6, <1>7, <1>8, <1>9, <1>10 DEF PaidInv, ClientInv

-----------------------------------------------------------------------------
(* The steps of the client.                                                 *)

LEMMA CallFields ==
  ASSUME PaidInv, NEW k \in Callers
  PROVE  /\ call \in [Callers -> CallRecord] /\ call[k] \in CallRecord /\ CallOK(k)
         /\ \A e \in Endings : /\ Ends(call[k], e) \in CallRecord
                               /\ Ends(call[k], e).pc = "ended" /\ Ends(call[k], e).end = e
                               /\ Ends(call[k], e).kind = call[k].kind
  <1>1. call \in [Callers -> CallRecord] /\ call[k] \in CallRecord /\ CallOK(k)
    BY DEF PaidInv, ClientInv, ClientTypeOK
  <1>2. call[k].kind \in Kinds
    BY <1>1 DEF CallRecord
  <1> QED BY <1>1, <1>2 DEF Ends, NoCall, CallRecord

LEMMA SigningFields ==
  ASSUME PaidInv, NEW c \in Challenges
  PROVE  /\ signing \in [Challenges -> SigningRecord] /\ signing[c] \in SigningRecord
         /\ SigningOK(c) /\ UndeliveredOK(c)
         /\ \A k \in Callers : k \in signing[c].waiters <=> call[k].pc = "signing" /\ call[k].ch = c
  BY DEF PaidInv, ClientInv, ClientTypeOK, CallOK

\* A call goes on that no signing and no attempt depends on.
LEMMA CallMovesOn ==
  ASSUME RailsAssumption, PaidInv, NEW k \in Callers, NEW r \in CallRecord, Sets(k, r),
         UNCHANGED <<via, railVars, signing, users>>,
         call[k].pc # "signing", r.pc \in {"idle", "challenged", "ended"},
         r.pc = "challenged" => r.ch \in Challenges,
         Knows(k) => EndsKnowing(r),
         \A w \in Attempts : Running(w) /\ Presents(k, w) => r.pc = "ended" /\ r.end = "unknown"
  PROVE  PaidInv'
  <1>1. call'[k] = r /\ (\A j \in Callers \ {k} : call'[j] = call[j]) /\ call' \in [Callers -> CallRecord]
    BY CallFields DEF Sets
  <1>2. UNCHANGED <<rail, bound, chain, att>>
    BY DEF railVars
  <1>3. RailsInv'
    BY RailsStay DEF PaidInv
  <1>4. ClientTypeOK' /\ SignedOK' /\ \A c \in Challenges : SigningOK(c)'
    BY <1>1, <1>2 DEF PaidInv, ClientInv, ClientTypeOK, SignedOK, MayHaveLanded, Running, SigningOK, KindsOf
  <1>5. \A c \in Challenges : UndeliveredOK(c)'
    BY <1>1, <1>2 DEF PaidInv, ClientInv, UndeliveredOK, MayHaveLanded, Running, Unlanded, InHand
  <1>6. \A j \in Callers : CallOK(j)'
    BY <1>1, <1>2 DEF PaidInv, ClientInv, CallOK, InHand
  <1>7. \E last \in [Callers -> Payments \cup {"none"}] : StandFor(last)'
    <2>1. PICK last \in [Callers -> Payments \cup {"none"}] : StandFor(last)
      BY DEF PaidInv, ClientInv
    <2>2. \A j \in Callers : /\ InHand(call[j])' => last[j] = call'[j].pay
                             /\ Broadcasts(j)' => last[j] = signing'[call'[j].ch].pay
      BY <1>1, <2>1 DEF StandFor, InHand, Broadcasts
    <2>3. \A w \in Attempts, j \in Callers : Running(w) /\ Presents(j, w) => Presents(j, w)'
      BY <1>1 DEF Presents
    <2>4. \A w \in Attempts : Running(w)' =>
            \E j \in users'[att'[w].pay] : last[j] = att'[w].pay /\ Presents(j, w)'
      <3> SUFFICES ASSUME NEW w \in Attempts, Running(w)
                   PROVE  \E j \in users[att[w].pay] : last[j] = att[w].pay /\ Presents(j, w)'
        BY <1>2 DEF Running
      <3>1. att[w].pay \in Payments
        BY RunningFacts DEF PaidInv, Running, Runs
      <3>2. users[att[w].pay] \subseteq Callers
        BY <3>1 DEF PaidInv, ClientInv, ClientTypeOK
      <3> QED BY <2>1, <2>3, <3>2 DEF StandFor
    <2>5. \A j \in Callers : Knows(j) => Knows(j)'
      BY <1>1, <1>2 DEF Knows, EndsKnowing, InHand, Broadcasts
    <2>6. \A p \in Payments : Landing(p)' => \E j \in users'[p] : last[j] = p /\ Knows(j)'
      <3>1. \A p \in Payments : users[p] \subseteq Callers
        BY DEF PaidInv, ClientInv, ClientTypeOK
      <3> QED BY <1>2, <2>1, <2>5, <3>1 DEF StandFor, Landing, MayHaveLanded
    <2> QED BY <2>1, <2>2, <2>4, <2>6 DEF StandFor
  <1> QED BY <1>3, <1>4, <1>5, <1>6, <1>7 DEF PaidInv, ClientInv

LEMMA PaymentFacts ==
  ASSUME PaidInv
  PROVE  /\ users \in [Payments -> SUBSET Callers]
         /\ \A w \in Attempts : Running(w) => att[w].pay \in Payments /\ bound[att[w].pay] # "none"
         /\ \A p \in Payments : Landing(p) => bound[p] # "none"
         /\ \A k \in Callers : InHand(call[k]) =>
              call[k].pay \in Payments /\ bound[call[k].pay] # "none"
         /\ \A c \in Challenges : signing[c].pay # "none" =>
              signing[c].pay \in Payments /\ bound[signing[c].pay] # "none"
         /\ \A k \in Callers : call[k].pc = "signing" => call[k].ch \in Challenges
  <1>1. \A w \in Attempts : Running(w) => att[w].pay \in Payments
    BY RunningFacts DEF PaidInv, Running, Runs
  <1>2. \A c \in Challenges : signing[c].pay # "none" =>
          signing[c].pay \in Payments /\ bound[signing[c].pay] # "none"
    BY SigningFields DEF SigningRecord, UndeliveredOK
  <1>3. \A p \in Payments : Landing(p) => bound[p] # "none"
    <2>1. \A c \in Challenges : signing[c].pc = "submitting" => signing[c].pay # "none"
      BY SigningFields DEF SigningOK
    <2> QED BY <1>2, <2>1 DEF Landing, PaidInv, ClientInv, SignedOK
  <1> QED BY <1>1, <1>2, <1>3 DEF PaidInv, ClientInv, ClientTypeOK, SignedOK, CallOK

LEMMA AskKeeps ==
  ASSUME RailsAssumption, PaidInv, NEW k \in Callers, Ask(k) PROVE PaidInv'
  <1>1. PICK c \in Challenges : Sets(k, [NoCall EXCEPT !.pc = "challenged", !.ch = c])
    BY DEF Ask
  <1> DEFINE r == [NoCall EXCEPT !.pc = "challenged", !.ch = c]
  <1>2. r \in CallRecord /\ r.pc = "challenged" /\ r.ch = c
    BY DEF NoCall, CallRecord, Kinds, Endings
  <1>3. call[k].pc = "idle" /\ Sets(k, r) /\ UNCHANGED <<via, railVars, signing, users>>
    BY <1>1 DEF Ask, In
  <1> HIDE DEF r
  <1>4. ~Knows(k) /\ \A w \in Attempts : ~Presents(k, w)
    BY <1>3 DEF Knows, EndsKnowing, InHand, Broadcasts, Presents
  <1> QED BY <1>2, <1>3, <1>4, CallMovesOn

LEMMA RefuseToSignKeeps ==
  ASSUME RailsAssumption, PaidInv, NEW k \in Callers, In(k, "challenged"),
         Sets(k, Ends(call[k], "refused")), UNCHANGED <<via, railVars, signing, users>>
  PROVE  PaidInv'
  <1>1. Ends(call[k], "refused") \in CallRecord /\ Ends(call[k], "refused").pc = "ended"
    BY CallFields DEF Endings
  <1>2. ~Knows(k) /\ (\A w \in Attempts : ~Presents(k, w)) /\ call[k].pc # "signing"
    BY DEF Knows, EndsKnowing, InHand, Broadcasts, Presents, In
  <1> QED BY <1>1, <1>2, CallMovesOn

LEMMA CancelSignedKeeps ==
  ASSUME RailsAssumption, PaidInv, NEW k \in Callers, CancelSigned(k) PROVE PaidInv'
  <1> DEFINE e == IF call[k].kind = "push" THEN "unknown" ELSE "cancelled"
             r == Ends(call[k], e)
  <1>1. r \in CallRecord /\ r.pc = "ended" /\ r.end = e
    BY CallFields DEF Endings
  <1>2. /\ call[k].pc = "signed" /\ Sets(k, r) /\ UNCHANGED <<via, railVars, signing, users>>
    BY DEF CancelSigned, In
  <1>3. Knows(k) => EndsKnowing(r)
    BY <1>1, <1>2 DEF Knows, EndsKnowing, InHand, Broadcasts
  <1>4. \A w \in Attempts : ~Presents(k, w)
    BY <1>2 DEF Presents
  <1> HIDE DEF r
  <1> QED BY <1>1, <1>2, <1>3, <1>4, CallMovesOn

LEMMA LosePaidRequestKeeps ==
  ASSUME RailsAssumption, PaidInv, NEW k \in Callers, LosePaidRequest(k) PROVE PaidInv'
  <1> DEFINE r == Ends(call[k], "unknown")
  <1>1. r \in CallRecord /\ r.pc = "ended" /\ r.end = "unknown"
    BY CallFields DEF Endings
  <1>2. /\ call[k].pc # "signing" /\ Sets(k, r) /\ UNCHANGED <<via, railVars, signing, users>>
    BY DEF LosePaidRequest
  <1> HIDE DEF r
  <1>3. EndsKnowing(r)
    BY <1>1 DEF EndsKnowing
  <1> QED BY <1>1, <1>2, <1>3, CallMovesOn

LEMMA AnsweredKeeps ==
  ASSUME RailsAssumption, PaidInv, NEW k \in Callers, Answered(k) PROVE PaidInv'
  <1> DEFINE r == call[k]
             result == att[r.att].result
             again(c) == [r EXCEPT !.pc = "challenged", !.ch = c, !.pay = "none", !.att = "none"]
             final == Ends(r, EndOf(r, result))
  <1>1. /\ r.pc = "waiting" /\ att[r.att].pc = "done" /\ UNCHANGED <<via, railVars, signing, users>>
    BY DEF Answered, In
  <1>2. r \in CallRecord /\ CallOK(k)
    BY CallFields
  <1>3. \A w \in Attempts : ~(Running(w) /\ Presents(k, w))
    BY <1>1 DEF Running, Presents
  <1>4. Knows(k) => r.kind = "push" \/ result \in {"receipt", "error", "none"}
    BY <1>1 DEF Knows, EndsKnowing, InHand, Broadcasts, MaySent
  <1>5. CASE PaysAgain(r, result)
    <2>1. PICK c \in Challenges : Sets(k, again(c))
      BY <1>5 DEF Answered
    <2>2. again(c) \in CallRecord /\ again(c).pc = "challenged" /\ again(c).ch = c
      BY <1>2 DEF CallRecord
    <2>3. ~Knows(k)
      BY <1>4, <1>5 DEF PaysAgain
    <2> HIDE DEF again, r, result
    <2>4. call[k].pc # "signing"
      BY <1>1 DEF r
    <2> QED BY <1>1, <1>3, <2>1, <2>2, <2>3, <2>4, CallMovesOn
  <1>6. CASE ~PaysAgain(r, result)
    <2>1. EndOf(r, result) \in {"paid", "unknown", "refused"}
      BY DEF EndOf
    <2>2. final \in CallRecord /\ final.pc = "ended" /\ final.end = EndOf(r, result) /\ final.kind = r.kind
      BY <2>1, CallFields DEF Endings
    <2>3. Sets(k, final)
      BY <1>6 DEF Answered
    <2>4. result \in {"receipt", "error", "none"} => EndOf(r, result) \in {"paid", "unknown"}
      BY DEF EndOf
    <2> HIDE DEF final, result
    <2>5. Knows(k) => EndsKnowing(final)
      BY <1>4, <2>1, <2>2, <2>4 DEF EndsKnowing
    <2> QED BY <1>1, <1>3, <2>2, <2>3, <2>5, CallMovesOn
  <1> QED BY <1>5, <1>6

\* The payments stay where they are: only the calls and a signing's waiters change.
LEMMA JoinKeeps ==
  ASSUME RailsAssumption, PaidInv, NEW k \in Callers, Join(k) PROVE PaidInv'
  <1>10. PICK c \in Challenges : c = call[k].ch
    BY CallFields DEF Join, In, CallOK
  <1> DEFINE r == [call[k] EXCEPT !.pc = "signing"]
  <1>1. call[k].pc = "challenged" /\ call[k].ch = c /\ call[k] \in CallRecord
    BY <1>10, CallFields DEF Join, In
  <1>2. PICK kind \in KindsOf(rail) \cap Shared :
          /\ signing[c].pc = "none" \/ kind = signing[c].kind
          /\ Signs(c, [signing[c] EXCEPT
               !.pc = IF signing[c].pc = "none" THEN "building" ELSE @,
               !.kind = kind, !.waiters = @ \cup {k}])
    BY <1>10 DEF Join, Stage
  <1> DEFINE s == signing[c]
             t == [s EXCEPT !.pc = IF s.pc = "none" THEN "building" ELSE @,
                            !.kind = kind, !.waiters = @ \cup {k}]
  <1>3. s \in SigningRecord /\ SigningOK(c) /\ UndeliveredOK(c)
    BY <1>1, SigningFields
  <1>4. /\ t \in SigningRecord /\ t.kind = kind /\ t.waiters = s.waiters \cup {k}
        /\ t.pc = (IF s.pc = "none" THEN "building" ELSE s.pc)
        /\ t.pay = s.pay /\ t.submitted = s.submitted /\ t.end = s.end
    <2>1. kind \in Kinds
      BY DEF Shared, Kinds
    <2> QED BY <1>3, <2>1 DEF SigningRecord
  <1>5. r \in CallRecord /\ r.pc = "signing" /\ r.ch = c
    BY <1>1 DEF CallRecord
  <1>6. /\ call' \in [Callers -> CallRecord] /\ call'[k] = r
        /\ \A j \in Callers \ {k} : call'[j] = call[j]
    BY <1>1, <1>5, CallFields DEF Join, Sets
  <1>7. /\ signing' \in [Challenges -> SigningRecord] /\ signing'[c] = t
        /\ \A d \in Challenges \ {c} : signing'[d] = signing[d]
    <2>1. signing' = [signing EXCEPT ![c] = t]
      BY <1>2 DEF Signs
    <2> HIDE DEF t
    <2> QED BY <1>1, <1>4, <2>1, SigningFields
  <1>8. /\ UNCHANGED <<via, railVars, users>> /\ UNCHANGED <<rail, bound, chain, att>>
        /\ call[k].pc = "challenged"
    BY <1>1 DEF Join, railVars
  <1>17. kind \in KindsOf(rail) /\ (s.pc = "none" \/ kind = s.kind) /\ KindsOf(rail)' = KindsOf(rail)
    BY <1>2, <1>8 DEF KindsOf
  <1>9. s.pc = "none" => s.pay = "none" /\ ~s.submitted /\ s.end = "none"
    BY <1>3 DEF SigningOK, NoSigning
  <1> HIDE DEF r, s, t
  <1>11. RailsInv'
    BY <1>8, RailsStay DEF PaidInv
  <1>12. ClientTypeOK' /\ SignedOK'
    BY <1>6, <1>7, <1>8 DEF PaidInv, ClientInv, ClientTypeOK, SignedOK, MayHaveLanded, Running
  <1>13. \A d \in Challenges : SigningOK(d)'
    <2>1. SigningOK(c)'
      BY <1>3, <1>4, <1>7, <1>9, <1>17 DEF SigningOK, s
    <2>2. \A d \in Challenges \ {c} : SigningOK(d)'
      BY <1>7, <1>17 DEF PaidInv, ClientInv, SigningOK
    <2> QED BY <2>1, <2>2
  <1>14. \A d \in Challenges : UndeliveredOK(d)'
    <2>1. \A d \in Challenges : signing'[d].pay = signing[d].pay
      BY <1>4, <1>7 DEF s
    <2>2. \A d \in Challenges : signing[d].pay # "none" =>
            (signing'[d].pc = signing[d].pc /\ signing'[d].end = signing[d].end)
      BY <1>4, <1>7, <1>9 DEF s
    <2>3. \A j \in Callers : InHand(call[j])' => InHand(call[j]) /\ call'[j].pay = call[j].pay
      BY <1>5, <1>6 DEF InHand
    <2> QED BY <1>8, <2>1, <2>2, <2>3
          DEF PaidInv, ClientInv, UndeliveredOK, MayHaveLanded, Running, Unlanded
  <1>15. \A j \in Callers : CallOK(j)'
    <2>1. \A d \in Challenges : k \notin signing[d].waiters
      BY <1>8 DEF PaidInv, ClientInv, CallOK
    <2>2. CallOK(k)'
      BY <1>4, <1>5, <1>6, <1>7, <1>10, <2>1 DEF CallOK, InHand
    <2>3. \A j \in Callers \ {k} : CallOK(j)'
      BY <1>4, <1>6, <1>7, <1>8 DEF PaidInv, ClientInv, CallOK, InHand, s
    <2> QED BY <2>2, <2>3
  <1>16. \E last \in [Callers -> Payments \cup {"none"}] : StandFor(last)'
    <2>1. PICK last \in [Callers -> Payments \cup {"none"}] : StandFor(last)
      BY DEF PaidInv, ClientInv
    <2>2. s.pay \in Payments \cup {"none"}
      BY <1>3 DEF SigningRecord
    <2>3. PICK new \in [Callers -> Payments \cup {"none"}] :
            \A j \in Callers : new[j] = IF j \in {k} THEN s.pay ELSE last[j]
      <3>1. [j \in Callers |-> IF j \in {k} THEN s.pay ELSE last[j]] \in [Callers -> Payments \cup {"none"}]
        BY <2>2
      <3> QED BY <3>1
    <2>4. \A j \in Callers : /\ InHand(call[j])' => new[j] = call'[j].pay
                             /\ Broadcasts(j)' => new[j] = signing'[call'[j].ch].pay
      <3>1. \A j \in Callers \ {k} : /\ InHand(call[j])' => new[j] = call'[j].pay
        BY <1>6, <2>1, <2>3 DEF StandFor, InHand
      <3>2. ASSUME NEW j \in Callers \ {k}, Broadcasts(j)'
            PROVE  new[j] = signing'[call'[j].ch].pay
        <4>1. call[j].pc = "signing" /\ call[j].ch \in Challenges
          BY <1>6, <3>2 DEF Broadcasts, PaidInv, ClientInv, CallOK
        <4>2. Broadcasts(j)
          BY <1>4, <1>6, <1>7, <3>2, <4>1 DEF Broadcasts, s
        <4> QED BY <1>4, <1>6, <1>7, <2>1, <2>3, <4>1, <4>2 DEF StandFor, s
      <3>3. ~InHand(call[k])' /\ new[k] = signing'[call'[k].ch].pay
        BY <1>4, <1>5, <1>6, <1>7, <2>3 DEF InHand
      <3> QED BY <3>1, <3>2, <3>3
    <2>5. ~Knows(k) /\ \A w \in Attempts : ~Presents(k, w)
      BY <1>8 DEF Knows, EndsKnowing, InHand, Broadcasts, Presents
    <2>6. ASSUME NEW w \in Attempts, Running(w)'
          PROVE  \E j \in users'[att'[w].pay] : new[j] = att'[w].pay /\ Presents(j, w)'
      <3>1. Running(w) /\ att[w].pay \in Payments /\ att'[w] = att[w]
        BY <1>8, <2>6, PaymentFacts DEF Running
      <3>2. PICK j \in users[att[w].pay] : last[j] = att[w].pay /\ Presents(j, w)
        BY <2>1, <3>1 DEF StandFor
      <3>3. j \in Callers /\ j # k
        BY <2>5, <3>1, <3>2, PaymentFacts
      <3> QED BY <1>6, <1>8, <2>3, <3>1, <3>2, <3>3 DEF Presents
    <2>7. ASSUME NEW p \in Payments, Landing(p)'
          PROVE  \E j \in users'[p] : new[j] = p /\ Knows(j)'
      <3>1. Landing(p)
        BY <1>4, <1>7, <1>8, <2>7 DEF Landing, MayHaveLanded, s
      <3>2. PICK j \in users[p] : last[j] = p /\ Knows(j)
        BY <2>1, <3>1 DEF StandFor
      <3>3. j \in Callers /\ j # k
        BY <2>5, <3>2, PaymentFacts
      <3>4. Broadcasts(j) => Broadcasts(j)'
        BY <1>4, <1>6, <1>7, <3>3, PaymentFacts DEF Broadcasts, s
      <3>5. Knows(j)'
        BY <1>6, <1>8, <3>2, <3>3, <3>4 DEF Knows, EndsKnowing, InHand
      <3> QED BY <1>8, <2>3, <3>2, <3>3, <3>5
    <2> QED BY <2>3, <2>4, <2>6, <2>7 DEF StandFor
  <1> QED BY <1>11, <1>12, <1>13, <1>14, <1>15, <1>16 DEF PaidInv, ClientInv

LEMMA CancelSigningKeeps ==
  ASSUME RailsAssumption, PaidInv, NEW k \in Callers, CancelSigning(k) PROVE PaidInv'
  <1>1. PICK c \in Challenges : c = call[k].ch
    BY PaymentFacts DEF CancelSigning, In
  <1> DEFINE s == signing[c]
             t == [s EXCEPT !.waiters = @ \ {k}]
             e == IF s.submitted THEN "unknown" ELSE "cancelled"
             r == Ends(call[k], e)
  <1>2. s \in SigningRecord /\ SigningOK(c) /\ UndeliveredOK(c)
    BY SigningFields
  <1>3. /\ t \in SigningRecord /\ t.kind = s.kind /\ t.waiters = s.waiters \ {k} /\ t.pc = s.pc
        /\ t.pay = s.pay /\ t.submitted = s.submitted /\ t.end = s.end
    BY <1>2 DEF SigningRecord
  <1>4. r \in CallRecord /\ r.pc = "ended" /\ r.end = e
    BY CallFields DEF Endings
  <1>5. call' = [call EXCEPT ![k] = r] /\ signing' = [signing EXCEPT ![c] = t]
    BY <1>1 DEF CancelSigning, Sets, Signs
  <1>6. /\ UNCHANGED <<via, railVars, users>> /\ UNCHANGED <<rail, bound, chain, att>>
        /\ call[k].pc = "signing" /\ call[k].ch = c
    BY <1>1 DEF CancelSigning, In, railVars
  <1>7. k \in s.waiters /\ s.pc # "none"
    BY <1>2, <1>6, SigningFields DEF SigningOK, NoSigning
  <1> HIDE DEF r, s, t, e
  <1>8. /\ call' \in [Callers -> CallRecord] /\ call'[k] = r
        /\ \A j \in Callers \ {k} : call'[j] = call[j]
    BY <1>4, <1>5, CallFields
  <1>9. /\ signing' \in [Challenges -> SigningRecord] /\ signing'[c] = t
        /\ \A d \in Challenges \ {c} : signing'[d] = signing[d]
    BY <1>3, <1>5, SigningFields
  <1>10. \A d \in Challenges : /\ signing'[d].pc = signing[d].pc /\ signing'[d].pay = signing[d].pay
                               /\ signing'[d].kind = signing[d].kind
                               /\ signing'[d].end = signing[d].end
                               /\ signing'[d].submitted = signing[d].submitted
    BY <1>3, <1>9 DEF s
  <1>11. RailsInv'
    BY <1>6, RailsStay DEF PaidInv
  <1>12. ClientTypeOK' /\ SignedOK'
    BY <1>6, <1>8, <1>9 DEF PaidInv, ClientInv, ClientTypeOK, SignedOK, MayHaveLanded, Running
  <1>13. \A d \in Challenges : SigningOK(d)'
    <2>1. KindsOf(rail)' = KindsOf(rail)
      BY <1>6 DEF KindsOf
    <2>2. SigningOK(c)'
      BY <1>2, <1>7, <1>10, <2>1 DEF SigningOK, s
    <2>3. \A d \in Challenges \ {c} : SigningOK(d)'
      BY <1>9, <2>1 DEF PaidInv, ClientInv, SigningOK
    <2> QED BY <2>2, <2>3
  <1>14. \A d \in Challenges : UndeliveredOK(d)'
    <2>1. \A j \in Callers : InHand(call[j])' => InHand(call[j]) /\ call'[j].pay = call[j].pay
      BY <1>4, <1>8 DEF InHand
    <2> QED BY <1>6, <1>10, <2>1
          DEF PaidInv, ClientInv, UndeliveredOK, MayHaveLanded, Running, Unlanded
  <1>15. \A j \in Callers : CallOK(j)'
    <2>1. \A d \in Challenges : k \in signing[d].waiters => d = c
      BY <1>6, SigningFields
    <2>2. CallOK(k)'
      BY <1>3, <1>4, <1>8, <1>9, <2>1 DEF CallOK, InHand
    <2>3. \A j \in Callers \ {k} : CallOK(j)'
      BY <1>3, <1>6, <1>8, <1>9 DEF PaidInv, ClientInv, CallOK, InHand, s
    <2> QED BY <2>2, <2>3
  <1>16. \E last \in [Callers -> Payments \cup {"none"}] : StandFor(last)'
    <2>1. PICK last \in [Callers -> Payments \cup {"none"}] : StandFor(last)
      BY DEF PaidInv, ClientInv
    <2>2. \A j \in Callers : /\ InHand(call[j])' => last[j] = call'[j].pay
                             /\ Broadcasts(j)' => last[j] = signing'[call'[j].ch].pay
      <3>1. \A j \in Callers : (InHand(call[j])' \/ Broadcasts(j)') => j # k
        BY <1>4, <1>8 DEF InHand, Broadcasts
      <3>2. \A j \in Callers \ {k} : Broadcasts(j)' => Broadcasts(j) /\ call[j].ch \in Challenges
        BY <1>8, <1>10, PaymentFacts DEF Broadcasts
      <3> QED BY <1>8, <1>10, <2>1, <3>1, <3>2 DEF StandFor, InHand
    <2>3. ASSUME NEW w \in Attempts, Running(w)'
          PROVE  \E j \in users'[att'[w].pay] : last[j] = att'[w].pay /\ Presents(j, w)'
      <3>1. Running(w) /\ att[w].pay \in Payments /\ att'[w] = att[w]
        BY <1>6, <2>3, PaymentFacts DEF Running
      <3>2. PICK j \in users[att[w].pay] : last[j] = att[w].pay /\ Presents(j, w)
        BY <2>1, <3>1 DEF StandFor
      <3>3. j \in Callers /\ j # k
        BY <1>6, <3>1, <3>2, PaymentFacts DEF Presents
      <3> QED BY <1>6, <1>8, <3>1, <3>2, <3>3 DEF Presents
    <2>4. ASSUME NEW j \in Callers, Knows(j) PROVE Knows(j)'
      <3>1. CASE j = k
        <4>1. s.submitted
          BY <1>6, <2>4, <3>1 DEF Knows, EndsKnowing, InHand, Broadcasts, s
        <4> QED BY <1>4, <1>8, <3>1, <4>1 DEF Knows, EndsKnowing, e
      <3>2. CASE j # k
        <4>1. Broadcasts(j) => Broadcasts(j)'
          BY <1>8, <1>10, <3>2, PaymentFacts DEF Broadcasts
        <4> QED BY <1>6, <1>8, <2>4, <3>2, <4>1 DEF Knows, EndsKnowing, InHand
      <3> QED BY <3>1, <3>2
    <2>5. \A p \in Payments : Landing(p)' => Landing(p)
      BY <1>6, <1>10 DEF Landing, MayHaveLanded
    <2>6. \A p \in Payments : Landing(p)' => \E j \in users'[p] : last[j] = p /\ Knows(j)'
      BY <1>6, <2>1, <2>4, <2>5, PaymentFacts DEF StandFor
    <2> QED BY <2>1, <2>2, <2>3, <2>6 DEF StandFor
  <1> QED BY <1>11, <1>12, <1>13, <1>14, <1>15, <1>16 DEF PaidInv, ClientInv

\* The payment that is signed next is new to everyone.
LEMMA FreshFacts ==
  ASSUME ClientAssumption, PaidInv, Unsigned # {}
  PROVE  /\ Fresh \in Payments /\ bound[Fresh] = "none" /\ ~Landing(Fresh)
         /\ \A w \in Attempts : Running(w) => att[w].pay # Fresh
         /\ \A k \in Callers : InHand(call[k]) => call[k].pay # Fresh
         /\ \A c \in Challenges : signing[c].pay # Fresh
  <1>1. Fresh \in Unsigned
    BY DEF Fresh
  <1>2. Fresh \in Payments /\ bound[Fresh] = "none"
    BY <1>1 DEF Unsigned
  <1> QED BY <1>2, PaymentFacts, ClientAssumption

LEMMA SignAloneKeeps ==
  ASSUME RailsAssumption, ClientAssumption, PaidInv, NEW k \in Callers, SignAlone(k) PROVE PaidInv'
  <1>1. PICK c \in Challenges : c = call[k].ch
    BY CallFields DEF SignAlone, In, CallOK
  <1>2. /\ call[k].pc = "challenged" /\ call[k].ch = c /\ rail \notin Shared
        /\ UNCHANGED <<via, now, rail, forgotten, chain, envs, keys, marker, att, signing>>
    BY <1>1 DEF SignAlone, In, world, store
  <1>3. CASE Sets(k, Ends(call[k], "refused")) /\ UNCHANGED <<terms, users>>
    <2>1. UNCHANGED railVars
      BY <1>2, <1>3 DEF railVars, terms
    <2> QED BY <1>2, <1>3, <2>1, RefuseToSignKeeps DEF In
  <1>4. ASSUME NEW p, p = Fresh, SignPayment(c, rail),
               Sets(k, [call[k] EXCEPT !.pc = "signed", !.kind = rail, !.pay = p]),
               users' = [users EXCEPT ![p] = {k}]
        PROVE  PaidInv'
    <2> DEFINE r == [call[k] EXCEPT !.pc = "signed", !.kind = rail, !.pay = p]
    <2>1. /\ p \in Payments /\ bound[p] = "none" /\ ~Landing(p)
          /\ \A w \in Attempts : Running(w) => att[w].pay # p
          /\ \A j \in Callers : InHand(call[j]) => call[j].pay # p
          /\ \A d \in Challenges : signing[d].pay # p
      BY <1>4, FreshFacts DEF SignPayment
    <2>2. bound' = [bound EXCEPT ![p] = c] /\ until' = [until EXCEPT ![p] = Validity(c, rail)]
      BY <1>4 DEF SignPayment
    <2>3. Validity(c, rail) \in Nat
      BY <1>2, RailsAssumption DEF Validity, Shared
    <2>4. RailsInv'
      <3>1. until' \in [Payments -> Nat]
        BY <2>1, <2>2, <2>3 DEF PaidInv, RailsInv, RailsTypeOK
      <3> QED BY <1>2, <2>1, <2>2, <3>1, SigningKeeps DEF PaidInv
    <2>5. /\ \A q \in Payments \ {p} : bound'[q] = bound[q] /\ users'[q] = users[q]
          /\ bound'[p] = c /\ c # "none" /\ users'[p] = {k} /\ users' \in [Payments -> SUBSET Callers]
      BY <1>4, <2>1, <2>2, PaymentFacts, ClientAssumption DEF PaidInv, RailsInv, RailsTypeOK
    <2>6. r \in CallRecord /\ r.pc = "signed" /\ r.pay = p /\ r.ch = c
      <3>1. rail \in Kinds
        BY RailsAssumption DEF PaidInv, RailsInv, RailsTypeOK, Kinds
      <3>2. call[k] \in CallRecord
        BY CallFields
      <3> QED BY <1>2, <2>1, <3>1, <3>2 DEF CallRecord
    <2>7. call' = [call EXCEPT ![k] = r]
      BY <1>4 DEF Sets
    <2> HIDE DEF r
    <2>8. /\ call' \in [Callers -> CallRecord] /\ call'[k] = r
          /\ \A j \in Callers \ {k} : call'[j] = call[j]
      BY <2>6, <2>7, CallFields
    <2>9. ClientTypeOK'
      BY <1>2, <2>5, <2>8 DEF PaidInv, ClientInv, ClientTypeOK
    <2>10. SignedOK'
      <3>1. \A q \in Payments : MayHaveLanded(q)' => MayHaveLanded(q) /\ q # p
        BY <1>2, <2>1 DEF MayHaveLanded, Landing
      <3>2. \A w \in Attempts : Running(w)' => Running(w) /\ att'[w].pay = att[w].pay
        BY <1>2 DEF Running
      <3> QED BY <2>1, <2>5, <3>1, <3>2, PaymentFacts DEF SignedOK, Landing
    <2>11. \A d \in Challenges : SigningOK(d)'
      BY <1>2 DEF PaidInv, ClientInv, SigningOK, KindsOf
    <2>12. ASSUME NEW d \in Challenges PROVE UndeliveredOK(d)'
      <3>1. signing[d].pay # "none" => signing[d].pay \in Payments \ {p}
        BY <2>1, PaymentFacts
      <3>2. \A j \in Callers : InHand(call[j])' => (j = k \/ InHand(call[j])) /\ (j = k => call'[j].pay = p)
                                                   /\ (j # k => call'[j] = call[j])
        BY <2>6, <2>8 DEF InHand
      <3> QED BY <1>2, <2>1, <2>5, <3>1, <3>2, SigningFields
            DEF UndeliveredOK, MayHaveLanded, Running, Unlanded
    <2>13. \A j \in Callers : CallOK(j)'
      <3>1. CallOK(k)'
        BY <1>2, <2>1, <2>5, <2>6, <2>8, CallFields DEF CallOK, InHand
      <3>2. ASSUME NEW j \in Callers \ {k} PROVE CallOK(j)'
        <4>1. CallOK(j) /\ call'[j] = call[j] /\ (InHand(call[j]) => call[j].pay \in Payments \ {p})
          BY <2>1, <2>8, CallFields, PaymentFacts
        <4> QED BY <1>2, <2>5, <4>1 DEF CallOK, InHand
      <3> QED BY <3>1, <3>2
    <2>14. \E last \in [Callers -> Payments \cup {"none"}] : StandFor(last)'
      <3>1. PICK last \in [Callers -> Payments \cup {"none"}] : StandFor(last)
        BY DEF PaidInv, ClientInv
      <3>2. PICK new \in [Callers -> Payments \cup {"none"}] :
              \A j \in Callers : new[j] = IF j \in {k} THEN p ELSE last[j]
        <4>1. [j \in Callers |-> IF j \in {k} THEN p ELSE last[j]] \in [Callers -> Payments \cup {"none"}]
          BY <2>1
        <4> QED BY <4>1
      <3>3. \A j \in Callers : /\ InHand(call[j])' => new[j] = call'[j].pay
                               /\ Broadcasts(j)' => new[j] = signing'[call'[j].ch].pay
        <4>1. ~Broadcasts(k)' /\ new[k] = call'[k].pay
          BY <2>6, <2>8, <3>2 DEF Broadcasts
        <4>2. \A j \in Callers \ {k} : /\ InHand(call[j])' => new[j] = call'[j].pay
                                       /\ Broadcasts(j)' => new[j] = signing'[call'[j].ch].pay
          BY <1>2, <2>8, <3>1, <3>2 DEF StandFor, InHand, Broadcasts
        <4> QED BY <4>1, <4>2
      <3>4. ~Knows(k) /\ \A w \in Attempts : ~Presents(k, w)
        BY <1>2 DEF Knows, EndsKnowing, InHand, Broadcasts, Presents
      <3>5. ASSUME NEW w \in Attempts, Running(w)'
            PROVE  \E j \in users'[att'[w].pay] : new[j] = att'[w].pay /\ Presents(j, w)'
        <4>1. Running(w) /\ att[w].pay \in Payments \ {p} /\ att'[w] = att[w]
          BY <1>2, <2>1, <3>5, PaymentFacts DEF Running
        <4>2. PICK j \in users[att[w].pay] : last[j] = att[w].pay /\ Presents(j, w)
          BY <3>1, <4>1 DEF StandFor
        <4>3. j \in Callers /\ j # k
          BY <3>4, <4>1, <4>2, PaymentFacts
        <4> QED BY <2>5, <2>8, <3>2, <4>1, <4>2, <4>3 DEF Presents
      <3>6. ASSUME NEW q \in Payments, Landing(q)'
            PROVE  \E j \in users'[q] : new[j] = q /\ Knows(j)'
        <4>1. Landing(q) /\ q # p
          BY <1>2, <2>1, <3>6 DEF Landing, MayHaveLanded
        <4>2. PICK j \in users[q] : last[j] = q /\ Knows(j)
          BY <3>1, <4>1 DEF StandFor
        <4>3. j \in Callers /\ j # k
          BY <3>4, <4>2, PaymentFacts
        <4>4. Knows(j)'
          BY <1>2, <2>8, <4>2, <4>3 DEF Knows, EndsKnowing, InHand, Broadcasts
        <4> QED BY <2>5, <3>2, <4>1, <4>2, <4>3, <4>4
      <3> QED BY <3>2, <3>3, <3>5, <3>6 DEF StandFor
    <2> QED BY <2>4, <2>9, <2>10, <2>11, <2>12, <2>13, <2>14 DEF PaidInv, ClientInv
  <1> QED BY <1>1, <1>2, <1>3, <1>4 DEF SignAlone

\* A signing that neither has nor gets a broadcast goes on: what the calls stand for stays.
LEMMA BuildKeeps ==
  ASSUME RailsAssumption, ClientAssumption, PaidInv, NEW c \in Challenges, Build(c) PROVE PaidInv'
  <1> DEFINE s == signing[c]
  <1>1. /\ s \in SigningRecord /\ SigningOK(c) /\ UndeliveredOK(c)
        /\ \A j \in Callers : j \in s.waiters <=> call[j].pc = "signing" /\ call[j].ch = c
    BY SigningFields
  <1>2. /\ s.pc = "building" /\ s.pay = "none" /\ ~s.submitted /\ s.end = "none"
        /\ s.kind \in KindsOf(rail)
    BY <1>1 DEF Build, Stage, SigningOK
  <1>3. UNCHANGED <<via, now, rail, forgotten, chain, envs, keys, marker, att, call>>
    BY DEF Build, world, store
  <1>4. KindsOf(rail)' = KindsOf(rail)
    BY <1>3 DEF KindsOf
  <1>5. CASE Signs(c, FailsWith(s, "refused")) /\ UNCHANGED <<terms, users>>
    <2> DEFINE t == FailsWith(s, "refused")
    <2>1. /\ t \in SigningRecord /\ t.pc = "over" /\ t.end = "refused" /\ t.pay = "none"
          /\ t.submitted = FALSE /\ t.kind = s.kind /\ t.waiters = s.waiters
      BY <1>1, <1>2 DEF FailsWith, SigningRecord, Endings
    <2>2. signing' = [signing EXCEPT ![c] = t] /\ UNCHANGED <<bound, until, users>>
      BY <1>5 DEF Signs, terms
    <2> HIDE DEF t
    <2>3. /\ signing' \in [Challenges -> SigningRecord] /\ signing'[c] = t
          /\ \A d \in Challenges \ {c} : signing'[d] = signing[d]
      BY <2>1, <2>2, SigningFields
    <2>4. RailsInv'
      BY <1>3, <2>2, RailsStay DEF PaidInv, railVars
    <2>5. ClientTypeOK' /\ SignedOK'
      BY <1>3, <2>2, <2>3 DEF PaidInv, ClientInv, ClientTypeOK, SignedOK, MayHaveLanded, Running
    <2>6. \A d \in Challenges : SigningOK(d)'
      <3>1. SigningOK(c)'
        BY <1>2, <1>4, <2>1, <2>3 DEF SigningOK
      <3>2. \A d \in Challenges \ {c} : SigningOK(d)'
        BY <1>4, <2>3 DEF PaidInv, ClientInv, SigningOK
      <3> QED BY <3>1, <3>2
    <2>7. \A d \in Challenges : UndeliveredOK(d)'
      <3>1. \A d \in Challenges : signing'[d].pay = signing[d].pay
        BY <1>2, <2>1, <2>3
      <3>2. \A d \in Challenges : signing[d].pay # "none" => signing'[d] = signing[d]
        BY <1>2, <2>3
      <3> QED BY <1>3, <2>2, <3>1, <3>2
            DEF PaidInv, ClientInv, UndeliveredOK, MayHaveLanded, Running, Unlanded, InHand
    <2>8. \A j \in Callers : CallOK(j)'
      BY <1>3, <2>1, <2>2, <2>3 DEF PaidInv, ClientInv, CallOK, InHand
    <2>9. \E last \in [Callers -> Payments \cup {"none"}] : StandFor(last)'
      <3>1. PICK last \in [Callers -> Payments \cup {"none"}] : StandFor(last)
        BY DEF PaidInv, ClientInv
      <3>2. \A j \in Callers : Broadcasts(j)' <=> Broadcasts(j)
        BY <1>2, <1>3, <2>1, <2>3, PaymentFacts DEF Broadcasts
      <3>3. \A d \in Challenges : signing'[d].pay = signing[d].pay
        BY <1>2, <2>1, <2>3
      <3>4. \A j \in Callers : Broadcasts(j) => call[j].ch \in Challenges
        BY PaymentFacts DEF Broadcasts
      <3>5. \A p \in Payments : Landing(p)' => Landing(p)
        BY <1>2, <1>3, <2>1, <2>3 DEF Landing, MayHaveLanded
      <3>6. \A j \in Callers : Knows(j) => Knows(j)'
        BY <1>3, <3>2 DEF Knows, EndsKnowing, InHand
      <3>7. \A p \in Payments : Landing(p)' => \E j \in users'[p] : last[j] = p /\ Knows(j)'
        BY <2>2, <3>1, <3>5, <3>6, PaymentFacts DEF StandFor
      <3>8. \A w \in Attempts : Running(w)' =>
              \E j \in users'[att'[w].pay] : last[j] = att'[w].pay /\ Presents(j, w)'
        BY <1>3, <2>2, <3>1 DEF StandFor, Running, Presents
      <3> QED BY <1>3, <3>1, <3>2, <3>3, <3>4, <3>7, <3>8 DEF StandFor, InHand
    <2> QED BY <2>4, <2>5, <2>6, <2>7, <2>8, <2>9 DEF PaidInv, ClientInv
  <1>6. ASSUME NEW p, p = Fresh, ~TooLate(c, s.kind), SignPayment(c, s.kind),
               Signs(c, [s EXCEPT !.pc = IF s.kind = "push" THEN "built" ELSE "over", !.pay = p]),
               users' = [users EXCEPT ![p] = s.waiters]
        PROVE  PaidInv'
    <2> DEFINE x == IF s.kind = "push" THEN "built" ELSE "over"
               t == [s EXCEPT !.pc = x, !.pay = p]
    <2>1. /\ p \in Payments /\ bound[p] = "none" /\ ~Landing(p) /\ p # "none"
          /\ \A w \in Attempts : Running(w) => att[w].pay # p
          /\ \A j \in Callers : InHand(call[j]) => call[j].pay # p
          /\ \A d \in Challenges : signing[d].pay # p
      BY <1>6, FreshFacts, ClientAssumption DEF SignPayment
    <2>2. bound' = [bound EXCEPT ![p] = c] /\ until' = [until EXCEPT ![p] = Validity(c, s.kind)]
      BY <1>6 DEF SignPayment
    <2>3. Validity(c, s.kind) \in Nat
      <3>1. now \in Nat /\ Expires[c] \in Nat /\ MinValidity \in Nat /\ Window \in Nat
        BY RailsAssumption, ClientAssumption DEF PaidInv, RailsInv, RailsTypeOK
      <3>2. s.kind = "push" => Expires[c] > now + MinValidity
        BY <1>6, <3>1 DEF TooLate
      <3> QED BY <3>1, <3>2 DEF Validity, ValidBefore
    <2>4. RailsInv'
      <3>1. until' \in [Payments -> Nat]
        BY <2>1, <2>2, <2>3 DEF PaidInv, RailsInv, RailsTypeOK
      <3> QED BY <1>3, <2>1, <2>2, <3>1, SigningKeeps DEF PaidInv
    <2>5. s.waiters \subseteq Callers
      BY <1>1 DEF SigningRecord
    <2>6. /\ \A q \in Payments \ {p} : bound'[q] = bound[q] /\ users'[q] = users[q]
          /\ bound'[p] = c /\ c # "none" /\ users'[p] = s.waiters
          /\ users' \in [Payments -> SUBSET Callers]
      BY <1>6, <2>1, <2>2, <2>5, PaymentFacts, ClientAssumption DEF PaidInv, RailsInv, RailsTypeOK
    <2>7. /\ t \in SigningRecord /\ t.pc = x /\ t.pay = p /\ t.kind = s.kind /\ t.waiters = s.waiters
          /\ t.end = "none" /\ t.submitted = FALSE
      BY <1>1, <1>2, <2>1 DEF SigningRecord
    <2>8. signing' = [signing EXCEPT ![c] = t] /\ x \in {"built", "over"} /\ (x = "built" => s.kind = "push")
      BY <1>6 DEF Signs
    <2> HIDE DEF t, x
    <2>9. /\ signing' \in [Challenges -> SigningRecord] /\ signing'[c] = t
          /\ \A d \in Challenges \ {c} : signing'[d] = signing[d]
      BY <2>7, <2>8, SigningFields
    <2>10. ClientTypeOK'
      BY <1>3, <2>6, <2>9 DEF PaidInv, ClientInv, ClientTypeOK
    <2>11. SignedOK'
      <3>1. \A q \in Payments : MayHaveLanded(q)' => MayHaveLanded(q) /\ q # p
        BY <1>3, <2>1 DEF MayHaveLanded, Landing
      <3>2. \A w \in Attempts : Running(w)' => Running(w) /\ att'[w].pay = att[w].pay
        BY <1>3 DEF Running
      <3> QED BY <2>1, <2>6, <3>1, <3>2, PaymentFacts DEF SignedOK, Landing
    <2>12. \A d \in Challenges : SigningOK(d)'
      <3>1. SigningOK(c)'
        BY <1>2, <1>4, <2>1, <2>7, <2>8, <2>9 DEF SigningOK
      <3>2. \A d \in Challenges \ {c} : SigningOK(d)'
        BY <1>4, <2>9 DEF PaidInv, ClientInv, SigningOK
      <3> QED BY <3>1, <3>2
    <2>13. \A d \in Challenges : UndeliveredOK(d)'
      <3>1. /\ \A j \in Callers : InHand(call[j])' => InHand(call[j]) /\ call'[j].pay = call[j].pay
            /\ \A w \in Attempts : Running(w)' => Running(w) /\ att'[w].pay = att[w].pay
        BY <1>3 DEF InHand, Running
      <3>2. \A q \in Payments : MayHaveLanded(q)' <=> MayHaveLanded(q)
        BY <1>3 DEF MayHaveLanded
      <3>3. UndeliveredOK(c)'
        <4>1. signing'[c].pay = p /\ \A d \in Challenges : signing'[d].pay = p => d = c
          BY <2>1, <2>7, <2>9
        <4>2. ~MayHaveLanded(p)'
          BY <2>1, <3>2 DEF Landing
        <4>3. /\ \A w \in Attempts : Running(w)' => att'[w].pay # p
              /\ \A j \in Callers : InHand(call[j])' => call'[j].pay # p
          BY <2>1, <3>1
        <4> QED BY <2>6, <4>1, <4>2, <4>3 DEF UndeliveredOK, Unlanded, MayHaveLanded, Running, InHand
      <3>4. ASSUME NEW d \in Challenges \ {c} PROVE UndeliveredOK(d)'
        <4>1. UndeliveredOK(d) /\ signing'[d] = signing[d]
          BY <2>9, SigningFields
        <4>2. signing[d].pay # "none" => signing[d].pay \in Payments \ {p}
          BY <2>1, PaymentFacts
        <4>3. \A e \in Challenges : signing'[e].pay = signing[d].pay =>
                signing[e].pay = signing[d].pay \/ signing[d].pay = p
          BY <2>7, <2>9
        <4> QED BY <1>3, <2>6, <4>1, <4>2, <4>3
              DEF UndeliveredOK, Unlanded, MayHaveLanded, Running, InHand
      <3> QED BY <3>3, <3>4
    <2>14. ASSUME NEW j \in Callers PROVE CallOK(j)'
      <3>1. CallOK(j) /\ (InHand(call[j]) => call[j].pay \in Payments \ {p})
        BY <2>1, CallFields, PaymentFacts
      <3>2. \A d \in Challenges : signing'[d].waiters = signing[d].waiters
        BY <2>7, <2>9
      <3> QED BY <1>3, <2>6, <3>1, <3>2 DEF CallOK, InHand
    <2>15. \E last \in [Callers -> Payments \cup {"none"}] : StandFor(last)'
      <3>1. PICK last \in [Callers -> Payments \cup {"none"}] : StandFor(last)
        BY DEF PaidInv, ClientInv
      <3>2. \A j \in Callers : /\ Broadcasts(j)' <=> Broadcasts(j)
                               /\ Broadcasts(j) => signing'[call[j].ch].pay = signing[call[j].ch].pay
        BY <1>2, <1>3, <2>7, <2>9, PaymentFacts DEF Broadcasts
      <3>3. \A j \in Callers : Knows(j) => Knows(j)'
        BY <1>3, <3>2 DEF Knows, EndsKnowing, InHand
      <3>4. ASSUME NEW w \in Attempts, Running(w)'
            PROVE  \E j \in users'[att'[w].pay] : last[j] = att'[w].pay /\ Presents(j, w)'
        <4>1. Running(w) /\ att[w].pay \in Payments \ {p} /\ att'[w] = att[w]
          BY <1>3, <2>1, <3>4, PaymentFacts DEF Running
        <4> QED BY <1>3, <2>6, <3>1, <4>1 DEF StandFor, Presents
      <3>5. ASSUME NEW q \in Payments, Landing(q)'
            PROVE  \E j \in users'[q] : last[j] = q /\ Knows(j)'
        <4>1. Landing(q)
          BY <1>3, <2>7, <2>8, <2>9, <3>5 DEF Landing, MayHaveLanded
        <4>2. PICK j \in users[q] : last[j] = q /\ Knows(j)
          BY <3>1, <4>1 DEF StandFor
        <4> QED BY <2>1, <2>6, <3>3, <4>1, <4>2, PaymentFacts
      <3> QED BY <1>3, <3>1, <3>2, <3>4, <3>5 DEF StandFor, InHand
    <2> QED BY <2>4, <2>10, <2>11, <2>12, <2>13, <2>14, <2>15 DEF PaidInv, ClientInv
  <1> QED BY <1>5, <1>6 DEF Build

\* A push that was signed goes on; once it is submitted, everyone who waits stands for it.
LEMMA PushMovesOn ==
  ASSUME RailsAssumption, PaidInv, RailsInv', NEW c \in Challenges,
         NEW p \in Payments, p = signing[c].pay, NEW t \in SigningRecord,
         signing' = [signing EXCEPT ![c] = t], UNCHANGED <<via, rail, bound, att, call>>,
         signing[c].pc \in {"built", "submitting", "confirming"},
         t.pay = p, t.waiters = signing[c].waiters, t.kind = signing[c].kind,
         t.pc \in {"submitting", "confirming", "over"},
         t.pc # "over" => t.submitted /\ t.end = "none",
         signing[c].submitted => t.submitted,
         \A q \in Payments \ {p} : MayHaveLanded(q)' => MayHaveLanded(q),
         Unlanded(t) => ~MayHaveLanded(p)',
         users' \in [Payments -> SUBSET Callers], \A q \in Payments : users[q] \subseteq users'[q],
         Landing(p)' =>
           Landing(p) \/ (t.submitted /\ t.waiters # {} /\ t.waiters \subseteq users'[p])
  PROVE  PaidInv'
  <1>1. /\ signing[c].submitted => signing[c].kind = "push"
        /\ signing[c].pc = "built" => signing[c].kind = "push"
        /\ signing[c].pc \in {"submitting", "confirming"} => signing[c].submitted
        /\ signing[c].kind \in KindsOf(rail) /\ p # "none" /\ bound[p] # "none"
        /\ UndeliveredOK(c)
    BY SigningFields DEF SigningOK, UndeliveredOK
  <1>2. /\ signing' \in [Challenges -> SigningRecord] /\ signing'[c] = t
        /\ \A d \in Challenges \ {c} : signing'[d] = signing[d]
    BY SigningFields
  <1>3. \A d \in Challenges : /\ signing'[d].pay = signing[d].pay
                              /\ signing'[d].waiters = signing[d].waiters
    BY <1>2
  <1>4. ClientTypeOK'
    BY <1>2 DEF PaidInv, ClientInv, ClientTypeOK
  <1>5. SignedOK'
    <2>1. \A w \in Attempts : Running(w)' => Running(w) /\ att'[w].pay = att[w].pay
      BY DEF Running
    <2> QED BY <1>1, <2>1 DEF PaidInv, ClientInv, SignedOK
  <1>6. \A d \in Challenges : SigningOK(d)'
    <2>1. KindsOf(rail)' = KindsOf(rail)
      BY DEF KindsOf
    <2>2. SigningOK(c)'
      BY <1>1, <1>2, <2>1 DEF SigningOK
    <2>3. \A d \in Challenges \ {c} : SigningOK(d)'
      BY <1>2, <2>1 DEF PaidInv, ClientInv, SigningOK
    <2> QED BY <2>2, <2>3
  <1>7. \A d \in Challenges : UndeliveredOK(d)'
    <2>1. UndeliveredOK(c)'
      BY <1>1, <1>2, <1>3 DEF UndeliveredOK, Unlanded, MayHaveLanded, Running, InHand
    <2>2. ASSUME NEW d \in Challenges \ {c} PROVE UndeliveredOK(d)'
      <3>1. UndeliveredOK(d) /\ signing'[d] = signing[d]
        BY <1>2, SigningFields
      <3>2. signing[d].pay # "none" => signing[d].pay \in Payments \ {p}
        BY <1>1, PaymentFacts DEF UndeliveredOK
      <3>3. signing[d].pay # "none" => (MayHaveLanded(signing[d].pay)' => MayHaveLanded(signing[d].pay))
        <4> SUFFICES ASSUME NEW q \in Payments \ {p}, q = signing[d].pay
                     PROVE  MayHaveLanded(signing[d].pay)' => MayHaveLanded(signing[d].pay)
          BY <3>2
        <4>1. MayHaveLanded(q)' => MayHaveLanded(q)
          OBVIOUS
        <4> QED BY <3>1, <4>1 DEF MayHaveLanded
      <3> QED BY <1>3, <3>1, <3>3 DEF UndeliveredOK, Unlanded, MayHaveLanded, Running, InHand
    <2> QED BY <2>1, <2>2
  <1>8. ASSUME NEW j \in Callers PROVE CallOK(j)'
    <2>1. CallOK(j)
      BY CallFields
    <2>2. InHand(call[j]) => users[call[j].pay] \subseteq users'[call[j].pay]
      BY PaymentFacts
    <2> QED BY <1>3, <2>1, <2>2 DEF CallOK, InHand
  <1>9. \E last \in [Callers -> Payments \cup {"none"}] : StandFor(last)'
    <2>1. PICK last \in [Callers -> Payments \cup {"none"}] : StandFor(last)
      BY DEF PaidInv, ClientInv
    <2>2. PICK new \in [Callers -> Payments \cup {"none"}] :
            \A j \in Callers : new[j] = IF t.submitted /\ j \in t.waiters THEN p ELSE last[j]
      <3>1. [j \in Callers |-> IF t.submitted /\ j \in t.waiters THEN p ELSE last[j]]
              \in [Callers -> Payments \cup {"none"}]
        OBVIOUS
      <3> QED BY <3>1
    <2>3. \A j \in Callers : j \in t.waiters <=> call[j].pc = "signing" /\ call[j].ch = c
      BY SigningFields
    <2>4. \A j \in Callers : /\ InHand(call[j])' => new[j] = call'[j].pay
                             /\ Broadcasts(j)' => new[j] = signing'[call'[j].ch].pay
      <3>1. ASSUME NEW j \in Callers, InHand(call[j])' PROVE new[j] = call'[j].pay
        BY <2>1, <2>2, <2>3, <3>1 DEF StandFor, InHand
      <3>2. ASSUME NEW j \in Callers, Broadcasts(j)' PROVE new[j] = signing'[call'[j].ch].pay
        <4>1. call[j].pc = "signing" /\ call[j].ch \in Challenges /\ call'[j] = call[j]
          BY <3>2, PaymentFacts DEF Broadcasts
        <4>2. CASE call[j].ch = c
          BY <1>2, <2>2, <2>3, <3>2, <4>1, <4>2 DEF Broadcasts
        <4>3. CASE call[j].ch # c
          BY <1>2, <2>1, <2>2, <2>3, <3>2, <4>1, <4>3 DEF Broadcasts, StandFor
        <4> QED BY <4>2, <4>3
      <3> QED BY <3>1, <3>2
    <2>5. ASSUME NEW w \in Attempts, Running(w)'
          PROVE  \E j \in users'[att'[w].pay] : new[j] = att'[w].pay /\ Presents(j, w)'
      <3>1. Running(w) /\ att[w].pay \in Payments /\ att'[w] = att[w]
        BY <2>5, PaymentFacts DEF Running
      <3>2. PICK j \in users[att[w].pay] : last[j] = att[w].pay /\ Presents(j, w)
        BY <2>1, <3>1 DEF StandFor
      <3>3. j \in Callers /\ j \notin t.waiters
        BY <2>3, <3>1, <3>2, PaymentFacts DEF Presents
      <3> QED BY <2>2, <3>1, <3>2, <3>3 DEF Presents
    <2>6. ASSUME NEW j \in Callers, Knows(j)
          PROVE  Knows(j)' /\ (j \in t.waiters => Broadcasts(j))
      <3>1. Broadcasts(j) => Broadcasts(j)'
        BY <1>2, PaymentFacts DEF Broadcasts
      <3>2. j \in t.waiters => Broadcasts(j)
        BY <2>3, <2>6 DEF Knows, EndsKnowing, InHand
      <3> QED BY <2>6, <3>1, <3>2 DEF Knows, EndsKnowing, InHand
    <2>7. ASSUME NEW q \in Payments, Landing(q)'
          PROVE  \E j \in users'[q] : new[j] = q /\ Knows(j)'
      <3>1. CASE Landing(q)
        <4>1. PICK j \in users[q] : last[j] = q /\ Knows(j)
          BY <2>1, <3>1 DEF StandFor
        <4>2. j \in Callers
          BY <4>1, PaymentFacts
        <4>3. j \in t.waiters => last[j] = p
          BY <2>1, <2>3, <2>6, <4>1, <4>2 DEF StandFor
        <4> QED BY <2>2, <2>6, <4>1, <4>2, <4>3
      <3>2. CASE ~Landing(q)
        <4>1. q = p
          <5>1. ASSUME q # p PROVE Landing(q)
            <6>1. MayHaveLanded(q)' => MayHaveLanded(q)
              BY <5>1
            <6> QED BY <1>2, <2>7, <5>1, <6>1 DEF Landing
          <5> QED BY <3>2, <5>1
        <4>2. t.submitted /\ t.waiters # {} /\ t.waiters \subseteq users'[p]
          BY <2>7, <3>2, <4>1
        <4>3. PICK j \in t.waiters : j \in Callers /\ j \in users'[p]
          BY <4>2, PaymentFacts DEF SigningRecord
        <4>4. Broadcasts(j)'
          BY <1>2, <2>3, <4>2, <4>3 DEF Broadcasts
        <4> QED BY <2>2, <4>1, <4>2, <4>3, <4>4 DEF Knows
      <3> QED BY <3>1, <3>2
    <2> QED BY <2>2, <2>4, <2>5, <2>7 DEF StandFor
  <1> QED BY <1>4, <1>5, <1>6, <1>7, <1>8, <1>9 DEF PaidInv, ClientInv

LEMMA SubmitKeeps ==
  ASSUME RailsAssumption, PaidInv, NEW c \in Challenges, Submit(c) PROVE PaidInv'
  <1> DEFINE s == signing[c]
             t == IF ~Wanted(s) THEN FailsWith(s, "cancelled")
                  ELSE IF TooLate(c, "push") THEN FailsWith([s EXCEPT !.submitted = TRUE], "refused")
                  ELSE [s EXCEPT !.pc = "submitting", !.submitted = TRUE]
  <1>1. s \in SigningRecord /\ SigningOK(c) /\ UndeliveredOK(c)
    BY SigningFields
  <1>2. s.pc = "built" /\ s.pay # "none" /\ ~s.submitted /\ s.end = "none"
    BY <1>1 DEF Submit, Stage, SigningOK
  <1>3. PICK p \in Payments : p = s.pay
    BY <1>1, <1>2 DEF SigningRecord
  <1>4. /\ users' = [users EXCEPT ![p] = @ \cup s.waiters] /\ signing' = [signing EXCEPT ![c] = t]
        /\ UNCHANGED <<via, railVars, call>> /\ UNCHANGED <<rail, bound, chain, att>>
    BY <1>3 DEF Submit, Signs, railVars
  <1>5. ~MayHaveLanded(p) /\ ~MayHaveLanded(p)' /\ \A q \in Payments : MayHaveLanded(q)' => MayHaveLanded(q)
    BY <1>1, <1>2, <1>3, <1>4 DEF UndeliveredOK, Unlanded, MayHaveLanded
  <1>6. s.waiters \subseteq Callers
    BY <1>1 DEF SigningRecord
  <1>7. /\ users' \in [Payments -> SUBSET Callers] /\ \A q \in Payments : users[q] \subseteq users'[q]
        /\ s.waiters \subseteq users'[p]
    BY <1>4, <1>6, PaymentFacts
  <1>8. /\ t \in SigningRecord /\ t.pay = p /\ t.waiters = s.waiters /\ t.kind = s.kind
        /\ t.pc \in {"submitting", "over"} /\ (t.pc = "submitting" => t.submitted /\ t.end = "none")
        /\ t.pc = "submitting" => t.waiters # {}
    <2>1. CASE ~Wanted(s)
      BY <1>1, <1>3, <2>1 DEF FailsWith, SigningRecord, Endings
    <2>2. CASE Wanted(s) /\ TooLate(c, "push")
      BY <1>1, <1>3, <2>2 DEF FailsWith, SigningRecord, Endings
    <2>3. CASE Wanted(s) /\ ~TooLate(c, "push")
      BY <1>1, <1>2, <1>3, <2>3 DEF SigningRecord, Wanted
    <2> QED BY <2>1, <2>2, <2>3
  <1> HIDE DEF t
  <1>9. RailsInv'
    BY <1>4, RailsStay DEF PaidInv
  <1>10. Landing(p)' => t.pc = "submitting"
    <2>1. signing'[c] = t /\ \A d \in Challenges \ {c} : signing'[d] = signing[d]
      BY <1>4, <1>8, SigningFields
    <2>2. \A d \in Challenges : signing[d].pay = p => d = c
      BY <1>1, <1>2, <1>3 DEF UndeliveredOK
    <2> QED BY <1>5, <2>1, <2>2 DEF Landing
  <1>11. ~Unlanded(t) \/ ~MayHaveLanded(p)'
    BY <1>5
  <1> QED BY <1>2, <1>3, <1>4, <1>5, <1>7, <1>8, <1>9, <1>10, <1>11, PushMovesOn

LEMMA SendPushKeeps ==
  ASSUME RailsAssumption, PaidInv, NEW c \in Challenges, SendPush(c) PROVE PaidInv'
  <1> DEFINE s == signing[c]
  <1>1. s \in SigningRecord /\ SigningOK(c) /\ UndeliveredOK(c)
    BY SigningFields
  <1>2. s.pc = "submitting" /\ s.pay # "none" /\ s.submitted /\ s.end = "none" /\ s.kind = "push"
        /\ s.kind \in KindsOf(rail)
    BY <1>1 DEF SendPush, Stage, SigningOK
  <1>3. PICK p \in Payments : p = s.pay
    BY <1>1, <1>2 DEF SigningRecord
  <1>4. UNCHANGED <<via, now, rail, forgotten, bound, until, keys, marker, att, call, users>>
    BY DEF SendPush, terms, store
  <1>5. Landing(p) /\ ~MayHaveLanded(p)
    BY <1>1, <1>2, <1>3 DEF Landing, UndeliveredOK, Unlanded
  <1>6. /\ users' \in [Payments -> SUBSET Callers] /\ \A q \in Payments : users[q] \subseteq users'[q]
    BY <1>4, PaymentFacts
  <1>7. CASE /\ chain[p] = "none" /\ chain' = [chain EXCEPT ![p] = "pooled"]
             /\ envs' = [envs EXCEPT ![p] = @ \cup {"own"}]
             /\ Signs(c, [s EXCEPT !.pc = "confirming"])
    <2> DEFINE t == [s EXCEPT !.pc = "confirming"]
    <2>1. /\ t \in SigningRecord /\ t.pay = p /\ t.waiters = s.waiters /\ t.kind = s.kind
          /\ t.pc = "confirming" /\ t.submitted /\ t.end = "none"
      BY <1>1, <1>2, <1>3 DEF SigningRecord
    <2>2. signing' = [signing EXCEPT ![c] = t]
      BY <1>7 DEF Signs
    <2>3. RailsInv'
      <3>1. rail \in {"pull", "hosted"}
        BY <1>2, RailsAssumption DEF KindsOf, PaidInv, RailsInv, RailsTypeOK
      <3> QED BY <1>4, <1>7, <3>1, PushKeeps DEF PaidInv
    <2>4. \A q \in Payments \ {p} : MayHaveLanded(q)' => MayHaveLanded(q)
      BY <1>7 DEF MayHaveLanded, PaidInv, RailsInv, RailsTypeOK
    <2>5. ~Unlanded(t)
      BY <2>1 DEF Unlanded
    <2> HIDE DEF t
    <2> QED BY <1>2, <1>3, <1>4, <1>5, <1>6, <2>1, <2>2, <2>3, <2>4, <2>5, PushMovesOn
  <1>8. CASE Signs(c, FailsWith(s, "refused")) /\ UNCHANGED world
    <2> DEFINE t == FailsWith(s, "refused")
    <2>1. /\ t \in SigningRecord /\ t.pay = p /\ t.waiters = s.waiters /\ t.kind = s.kind
          /\ t.pc = "over" /\ t.submitted
      BY <1>1, <1>2, <1>3 DEF FailsWith, SigningRecord, Endings
    <2>2. signing' = [signing EXCEPT ![c] = t] /\ UNCHANGED <<chain, envs>>
      BY <1>8 DEF Signs, world
    <2>3. RailsInv'
      BY <1>4, <2>2, RailsStay DEF PaidInv, railVars
    <2>4. \A q \in Payments : MayHaveLanded(q)' => MayHaveLanded(q)
      BY <2>2 DEF MayHaveLanded
    <2>5. ~MayHaveLanded(p)'
      BY <1>5, <2>4
    <2> HIDE DEF t
    <2> QED BY <1>2, <1>3, <1>4, <1>5, <1>6, <2>1, <2>2, <2>3, <2>4, <2>5, PushMovesOn
  <1> QED BY <1>3, <1>7, <1>8 DEF SendPush

LEMMA ConfirmPushKeeps ==
  ASSUME RailsAssumption, PaidInv, NEW c \in Challenges, ConfirmPush(c) PROVE PaidInv'
  <1> DEFINE s == signing[c]
  <1>1. s \in SigningRecord /\ SigningOK(c) /\ UndeliveredOK(c)
    BY SigningFields
  <1>2. /\ s.pc \in {"submitting", "confirming"} /\ s.pay # "none" /\ s.submitted /\ s.end = "none"
    BY <1>1 DEF ConfirmPush, SigningOK
  <1>3. PICK p \in Payments : p = s.pay
    BY <1>1, <1>2 DEF SigningRecord
  <1>4. UNCHANGED <<via, railVars, call, users>> /\ UNCHANGED <<rail, bound, chain, att>>
    BY DEF ConfirmPush, railVars
  <1>5. RailsInv'
    BY <1>4, RailsStay DEF PaidInv
  <1>6. PICK t \in {[s EXCEPT !.pc = "over"], FailsWith(s, "refused"), FailsWith(s, "unknown")} :
          /\ signing' = [signing EXCEPT ![c] = t]
          /\ t = FailsWith(s, "refused") => chain[p] = "reverted"
    <2>1. CASE Signs(c, [s EXCEPT !.pc = "over"])
      <3>1. [s EXCEPT !.pc = "over"].end = "none" /\ FailsWith(s, "refused").end = "refused"
        BY <1>1, <1>2 DEF FailsWith, SigningRecord
      <3> QED BY <2>1, <3>1 DEF Signs
    <2>2. CASE Signs(c, FailsWith(s, "refused")) /\ chain[p] = "reverted"
      BY <2>2 DEF Signs
    <2>3. CASE Signs(c, FailsWith(s, "unknown"))
      <3>1. FailsWith(s, "unknown").end = "unknown" /\ FailsWith(s, "refused").end = "refused"
        BY <1>1 DEF FailsWith, SigningRecord
      <3> QED BY <2>3, <3>1 DEF Signs
    <2> QED BY <1>3, <2>1, <2>2, <2>3 DEF ConfirmPush, BroadcastLost
  <1>7. /\ t \in SigningRecord /\ t.pay = p /\ t.waiters = s.waiters /\ t.kind = s.kind
        /\ t.pc = "over" /\ t.submitted
        /\ t.end \in {"none", "unknown"} \/ (t.end = "refused" /\ t = FailsWith(s, "refused"))
    BY <1>1, <1>2, <1>3, <1>6 DEF FailsWith, SigningRecord, Endings
  <1>8. \A q \in Payments : MayHaveLanded(q)' => MayHaveLanded(q)
    BY <1>4 DEF MayHaveLanded
  <1>9. Unlanded(t) => ~MayHaveLanded(p)'
    BY <1>4, <1>6, <1>7 DEF Unlanded, MayHaveLanded
  <1>10. Landing(p)' => Landing(p)
    <2>1. signing'[c] = t /\ \A d \in Challenges \ {c} : signing'[d] = signing[d]
      BY <1>6, <1>7, SigningFields
    <2> QED BY <1>7, <1>8, <2>1 DEF Landing
  <1>11. users' \in [Payments -> SUBSET Callers] /\ \A q \in Payments : users[q] \subseteq users'[q]
    BY <1>4, PaymentFacts
  <1> QED BY <1>2, <1>3, <1>4, <1>5, <1>6, <1>7, <1>8, <1>9, <1>10, <1>11, PushMovesOn

\* What everyone who waited receives, and the end of the signing.
LEMMA DeliverKeeps ==
  ASSUME RailsAssumption, ClientAssumption, PaidInv, NEW c \in Challenges, Deliver(c)
  PROVE  PaidInv'
  <1> DEFINE s == signing[c]
             r(j) == IF s.end # "none" THEN Ends(call[j], s.end)
                     ELSE [call[j] EXCEPT !.pc = "signed", !.kind = s.kind, !.pay = s.pay]
  <1>1. /\ s \in SigningRecord /\ SigningOK(c) /\ UndeliveredOK(c) /\ s.waiters \subseteq Callers
        /\ \A j \in Callers : j \in s.waiters <=> call[j].pc = "signing" /\ call[j].ch = c
    BY SigningFields DEF SigningRecord
  <1>2. /\ s.pc = "over" /\ (s.end = "none" => s.pay \in Payments)
        /\ s.submitted => s.kind = "push" /\ s.pay \in Payments
    BY <1>1 DEF Deliver, Stage, SigningOK, SigningRecord
  <1>3. PICK p \in Payments \cup {"none"} : p = s.pay
    BY <1>1 DEF SigningRecord
  <1>4. UNCHANGED <<via, railVars>> /\ UNCHANGED <<rail, bound, chain, att>>
        /\ signing' = [signing EXCEPT ![c] = NoSigning]
    BY DEF Deliver, Signs, railVars
  <1>5. /\ signing' \in [Challenges -> SigningRecord] /\ signing'[c] = NoSigning
        /\ \A d \in Challenges \ {c} : signing'[d] = signing[d]
    <2>1. NoSigning \in SigningRecord
      BY DEF NoSigning, SigningRecord, Kinds, Endings
    <2> QED BY <1>4, <2>1, SigningFields
  <1>6. \A j \in s.waiters : /\ r(j) \in CallRecord
                             /\ s.end # "none" => r(j).pc = "ended" /\ r(j).end = s.end
                             /\ s.end = "none" => /\ r(j).pc = "signed" /\ r(j).kind = s.kind
                                                  /\ r(j).pay = p /\ r(j).ch = c
    <2> SUFFICES ASSUME NEW j \in s.waiters
                 PROVE  /\ r(j) \in CallRecord
                        /\ s.end # "none" => r(j).pc = "ended" /\ r(j).end = s.end
                        /\ s.end = "none" => /\ r(j).pc = "signed" /\ r(j).kind = s.kind
                                             /\ r(j).pay = p /\ r(j).ch = c
      OBVIOUS
    <2>1. j \in Callers /\ call[j].ch = c
      BY <1>1
    <2>2. CASE s.end # "none"
      BY <1>1, <2>1, <2>2, CallFields DEF SigningRecord
    <2>3. CASE s.end = "none"
      <3>1. call[j] \in CallRecord /\ s.kind \in Kinds
        BY <1>1, <2>1, CallFields DEF SigningRecord
      <3> QED BY <1>2, <1>3, <2>1, <2>3, <3>1 DEF CallRecord
    <2> QED BY <2>2, <2>3
  <1>7. /\ call' \in [Callers -> CallRecord]
        /\ \A j \in Callers : call'[j] = IF j \in s.waiters THEN r(j) ELSE call[j]
    <2>1. call' = [j \in Callers |-> IF j \notin s.waiters THEN call[j] ELSE r(j)]
      BY DEF Deliver
    <2> HIDE DEF r, s
    <2> QED BY <1>6, <2>1, CallFields
  <1>8. /\ users' \in [Payments -> SUBSET Callers] /\ \A q \in Payments : users[q] \subseteq users'[q]
        /\ p # "none" => s.waiters \subseteq users'[p]
    BY <1>1, <1>3, PaymentFacts DEF Deliver
  <1>9. /\ NoSigning.pay = "none" /\ NoSigning.waiters = {} /\ NoSigning.pc = "none" /\ ~NoSigning.submitted
        /\ NoSigning.end = "none"
    BY DEF NoSigning
  <1>10. \A j \in Callers : j \in s.waiters => /\ ~InHand(call[j]) /\ call[j].pc # "ended"
                                               /\ Broadcasts(j) <=> s.submitted
    BY <1>1 DEF InHand, Broadcasts
  <1>11. p # "none" => /\ bound[p] # "none"
                       /\ s.end \in {"refused", "cancelled"} => ~MayHaveLanded(p)
                       /\ \A w \in Attempts : Running(w) => att[w].pay # p
                       /\ \A d \in Challenges : signing[d].pay = p => d = c
    BY <1>1, <1>3 DEF UndeliveredOK, Unlanded
  <1> HIDE DEF r
  <1>12. RailsInv'
    BY <1>4, RailsStay DEF PaidInv
  <1>13. ClientTypeOK' /\ SignedOK'
    BY <1>4, <1>5, <1>7, <1>8 DEF PaidInv, ClientInv, ClientTypeOK, SignedOK, MayHaveLanded, Running
  <1>14. \A d \in Challenges : SigningOK(d)'
    <2>1. KindsOf(rail)' = KindsOf(rail)
      BY <1>4 DEF KindsOf
    <2>2. SigningOK(c)'
      BY <1>5, <1>9 DEF SigningOK
    <2>3. \A d \in Challenges \ {c} : SigningOK(d)'
      BY <1>5, <2>1 DEF PaidInv, ClientInv, SigningOK
    <2> QED BY <2>2, <2>3
  <1>15. \A d \in Challenges : UndeliveredOK(d)'
    <2>1. UndeliveredOK(c)'
      BY <1>5, <1>9 DEF UndeliveredOK
    <2>2. ASSUME NEW d \in Challenges \ {c} PROVE UndeliveredOK(d)'
      <3>1. UndeliveredOK(d) /\ signing'[d] = signing[d] /\ (signing[d].pay # "none" => signing[d].pay # p)
        BY <1>5, <1>11, SigningFields
      <3>2. ASSUME NEW j \in Callers, InHand(call[j])', signing[d].pay # "none"
            PROVE  call'[j].pay # signing[d].pay
        <4>1. CASE j \in s.waiters
          BY <1>6, <1>7, <3>1, <3>2, <4>1 DEF InHand
        <4>2. CASE j \notin s.waiters
          BY <1>7, <3>1, <3>2, <4>2 DEF InHand, UndeliveredOK
        <4> QED BY <4>1, <4>2
      <3>3. \A e \in Challenges : signing'[e].pay # "none" => signing'[e].pay = signing[e].pay
        BY <1>5, <1>9
      <3> QED BY <1>4, <3>1, <3>2, <3>3 DEF UndeliveredOK, Unlanded, MayHaveLanded, Running
    <2> QED BY <2>1, <2>2
  <1>16. ASSUME NEW j \in Callers PROVE CallOK(j)'
    <2>1. CallOK(j)
      BY CallFields
    <2>2. \A d \in Challenges : d # c => signing'[d].waiters = signing[d].waiters
      BY <1>5
    <2>3. CASE j \in s.waiters
      <3>1. call'[j] = r(j) /\ r(j).pc \in {"ended", "signed"}
        BY <1>6, <1>7, <2>3
      <3>2. \A d \in Challenges : j \notin signing'[d].waiters
        BY <1>1, <1>5, <1>9, <2>3, SigningFields
      <3>3. r(j).pc = "signed" => r(j).pay = p /\ p \in Payments /\ r(j).ch = c
        BY <1>2, <1>3, <1>6, <2>3
      <3> QED BY <1>4, <1>8, <1>11, <2>3, <3>1, <3>2, <3>3, ClientAssumption DEF CallOK, InHand
    <2>4. CASE j \notin s.waiters
      <3>1. call'[j] = call[j]
        BY <1>7, <2>4
      <3>2. InHand(call[j]) => users[call[j].pay] \subseteq users'[call[j].pay]
        BY <1>8, PaymentFacts
      <3> QED BY <1>1, <1>4, <1>5, <1>9, <2>1, <2>2, <2>4, <3>1, <3>2 DEF CallOK, InHand
    <2> QED BY <2>3, <2>4
  <1>17. \E last \in [Callers -> Payments \cup {"none"}] : StandFor(last)'
    <2>1. PICK last \in [Callers -> Payments \cup {"none"}] : StandFor(last)
      BY DEF PaidInv, ClientInv
    <2>2. PICK new \in [Callers -> Payments \cup {"none"}] :
            \A j \in Callers : new[j] = IF s.end = "none" /\ j \in s.waiters THEN p ELSE last[j]
      <3>1. [j \in Callers |-> IF s.end = "none" /\ j \in s.waiters THEN p ELSE last[j]]
              \in [Callers -> Payments \cup {"none"}]
        BY <1>3
      <3> QED BY <3>1
    <2>3. \A j \in Callers : /\ InHand(call[j])' => new[j] = call'[j].pay
                             /\ Broadcasts(j)' => new[j] = signing'[call'[j].ch].pay
      <3>1. ASSUME NEW j \in Callers, j \in s.waiters
            PROVE  ~Broadcasts(j)' /\ (InHand(call[j])' => new[j] = call'[j].pay)
        BY <1>6, <1>7, <2>2, <3>1 DEF Broadcasts, InHand
      <3>2. ASSUME NEW j \in Callers, j \notin s.waiters
            PROVE  /\ InHand(call[j])' => new[j] = call'[j].pay
                   /\ Broadcasts(j)' => new[j] = signing'[call'[j].ch].pay
        <4>1. call'[j] = call[j] /\ new[j] = last[j] /\ (call[j].pc = "signing" => call[j].ch \in Challenges \ {c})
          BY <1>1, <1>7, <2>2, <3>2, PaymentFacts
        <4> QED BY <1>5, <2>1, <4>1 DEF Broadcasts, InHand, StandFor
      <3> QED BY <3>1, <3>2
    <2>4. ASSUME NEW w \in Attempts, Running(w)'
          PROVE  \E j \in users'[att'[w].pay] : new[j] = att'[w].pay /\ Presents(j, w)'
      <3>1. Running(w) /\ att[w].pay \in Payments /\ att'[w] = att[w]
        BY <1>4, <2>4, PaymentFacts DEF Running
      <3>2. PICK j \in users[att[w].pay] : last[j] = att[w].pay /\ Presents(j, w)
        BY <2>1, <3>1 DEF StandFor
      <3>3. j \in Callers /\ j \notin s.waiters
        BY <1>10, <3>1, <3>2, PaymentFacts DEF Presents, InHand
      <3> QED BY <1>7, <1>8, <2>2, <3>1, <3>2, <3>3 DEF Presents
    <2>5. ASSUME NEW q \in Payments, Landing(q)'
          PROVE  \E j \in users'[q] : new[j] = q /\ Knows(j)'
      <3>1. Landing(q)
        BY <1>4, <1>5, <1>9, <2>5 DEF Landing, MayHaveLanded
      <3>2. PICK j \in users[q] : last[j] = q /\ Knows(j)
        BY <2>1, <3>1 DEF StandFor
      <3>3. j \in Callers /\ j \in users'[q]
        BY <1>8, <3>2, PaymentFacts
      <3>4. CASE j \in s.waiters
        <4>1. s.submitted /\ Broadcasts(j)
          BY <1>10, <3>2, <3>3, <3>4 DEF Knows, EndsKnowing, InHand
        <4>2. q = p /\ p # "none" /\ s.kind = "push"
          BY <1>1, <1>2, <1>3, <2>1, <3>2, <3>3, <3>4, <4>1 DEF StandFor, UndeliveredOK, SigningOK
        <4>3. MayHaveLanded(p)
          BY <1>2, <1>11, <3>1, <4>2 DEF Landing
        <4>4. s.end \in {"none", "unknown", "paid"}
          BY <1>1, <1>11, <4>2, <4>3 DEF SigningRecord, Endings
        <4>5. Knows(j)'
          BY <1>6, <1>7, <3>3, <3>4, <4>2, <4>4 DEF Knows, EndsKnowing, InHand
        <4>6. new[j] = q
          BY <2>2, <3>2, <3>3, <4>2
        <4> QED BY <3>3, <4>5, <4>6
      <3>5. CASE j \notin s.waiters
        <4>1. call'[j] = call[j] /\ new[j] = q
          BY <1>7, <2>2, <3>2, <3>3, <3>5
        <4>2. Broadcasts(j) => Broadcasts(j)'
          <5>1. call[j].pc = "signing" => call[j].ch \in Challenges \ {c}
            BY <1>1, <3>3, <3>5, PaymentFacts
          <5> QED BY <1>5, <4>1, <5>1 DEF Broadcasts
        <4>3. Knows(j)'
          BY <1>4, <3>2, <4>1, <4>2 DEF Knows, EndsKnowing, InHand
        <4> QED BY <3>3, <4>1, <4>3
      <3> QED BY <3>4, <3>5
    <2> QED BY <2>2, <2>3, <2>4, <2>5 DEF StandFor
  <1> QED BY <1>12, <1>13, <1>14, <1>15, <1>16, <1>17 DEF PaidInv, ClientInv

LEMMA PresentKeeps ==
  ASSUME RailsAssumption, PaidInv, NEW k \in Callers, NEW w \in Attempts, Present(k, w)
  PROVE  PaidInv'
  <1>1. PICK p \in Payments : p = call[k].pay
    BY PaymentFacts DEF Present, In, InHand
  <1>2. PICK c \in Challenges : c = call[k].ch
    BY CallFields DEF Present, In, CallOK
  <1> DEFINE r == [call[k] EXCEPT !.pc = "waiting", !.att = w, !.tries = @ + 1]
  <1>3. /\ call[k].pc = "signed" /\ call[k].kind \in KindsOf(rail) /\ Receive(w, p, c, call[k].kind)
        /\ UNCHANGED <<via, signing, users, rail, bound, chain>> /\ att[w].pc = "idle"
    <2>1. call[k].pc = "signed" /\ Receive(w, p, c, call[k].kind) /\ UNCHANGED <<via, signing, users>>
      BY <1>1, <1>2 DEF Present, In
    <2> QED BY <2>1 DEF Receive, At, terms, world
  <1>4. r \in CallRecord /\ r.pc = "waiting" /\ r.att = w /\ r.pay = p /\ r.kind = call[k].kind
    <2>1. call[k] \in CallRecord
      BY CallFields
    <2>2. call[k].tries \in Nat
      BY <2>1 DEF CallRecord
    <2>3. call[k].tries + 1 \in Nat
      BY <2>2
    <2> QED BY <1>1, <2>1, <2>3 DEF CallRecord
  <1>5. call' = [call EXCEPT ![k] = r]
    BY DEF Present, Sets
  <1> HIDE DEF r
  <1>6. /\ call' \in [Callers -> CallRecord] /\ call'[k] = r
        /\ \A j \in Callers \ {k} : call'[j] = call[j]
    BY <1>4, <1>5, CallFields
  <1>7. k \in users[p] /\ bound[p] # "none"
    BY <1>1, <1>3, CallFields DEF CallOK, InHand
  <1>8. /\ att'[w].pc = "received" /\ att'[w].pay = p
        /\ \A v \in Attempts \ {w} : /\ att'[v].pc = att[v].pc /\ att'[v].pay = att[v].pay
                                     /\ att'[v].result = att[v].result
    <2> DEFINE others == {v \in Attempts : Running(v) /\ att[v].pay = p}
    <2>1. PICK lag \in 0 .. (IF call[k].kind = "proof" THEN MaxLag ELSE 0),
               e \in (IF call[k].kind = "hosted" THEN {"none"}
                      ELSE IF call[k].kind = "push" /\ rail = "hosted"
                      THEN Envelopes \cup {"own"} ELSE {"own"}) :
            att' = [v \in Attempts |->
              IF v = w THEN [Idle EXCEPT !.pc = "received", !.pay = p, !.ch = c, !.kind = call[k].kind,
                               !.env = e, !.lag = lag, !.overlapped = others # {}]
              ELSE IF v \in others THEN [att[v] EXCEPT !.overlapped = TRUE] ELSE att[v]]
      BY <1>3 DEF Receive
    <2>2. att'[w].pc = "received" /\ att'[w].pay = p
      BY <2>1 DEF Idle
    <2>3. ASSUME NEW v \in Attempts \ {w}
          PROVE  att'[v].pc = att[v].pc /\ att'[v].pay = att[v].pay /\ att'[v].result = att[v].result
      <3>1. att'[v] = att[v] \/ att'[v] = [att[v] EXCEPT !.overlapped = TRUE]
        BY <2>1
      <3>2. att[v] \in Attempt
        BY DEF PaidInv, RailsInv, RailsTypeOK
      <3> QED BY <3>1, <3>2 DEF Attempt
    <2> QED BY <2>2, <2>3
  <1>9. /\ \A v \in Attempts : Running(v)' => (v = w \/ (v # w /\ Running(v)))
        /\ \A v \in Attempts \ {w} : MaySent(att[v]) => MaySent(att'[v])
    BY <1>8 DEF Running, MaySent
  <1>10. RailsInv'
    <2>1. PayerNext
      BY <1>3, <1>7 DEF PayerNext
    <2> QED BY <2>1, RailsStep DEF RailsNext, PaidInv
  <1>11. ClientTypeOK'
    BY <1>3, <1>6 DEF PaidInv, ClientInv, ClientTypeOK
  <1>12. SignedOK'
    <2>1. \A q \in Payments : MayHaveLanded(q)' => MayHaveLanded(q)
      BY <1>3 DEF MayHaveLanded
    <2>2. \A v \in Attempts : Running(v)' => bound[att'[v].pay] # "none"
      BY <1>7, <1>8, <1>9, PaymentFacts
    <2> QED BY <1>3, <2>1, <2>2 DEF SignedOK, PaidInv, ClientInv
  <1>13. \A d \in Challenges : SigningOK(d)'
    BY <1>3 DEF PaidInv, ClientInv, SigningOK, KindsOf
  <1>14. ASSUME NEW d \in Challenges PROVE UndeliveredOK(d)'
    <2>1. UndeliveredOK(d) /\ signing'[d] = signing[d] /\ (signing[d].pay # "none" => signing[d].pay # p)
      BY <1>1, <1>3, SigningFields DEF UndeliveredOK, InHand
    <2>2. \A j \in Callers : InHand(call[j])' => InHand(call[j]) /\ call'[j].pay = call[j].pay
      BY <1>1, <1>3, <1>4, <1>6 DEF InHand
    <2>3. \A v \in Attempts : Running(v)' /\ signing[d].pay # "none" => att'[v].pay # signing[d].pay
      BY <1>8, <1>9, <2>1 DEF UndeliveredOK
    <2> QED BY <1>3, <2>1, <2>2, <2>3 DEF UndeliveredOK, Unlanded, MayHaveLanded
  <1>15. ASSUME NEW j \in Callers PROVE CallOK(j)'
    <2>1. CallOK(j)
      BY CallFields
    <2>2. CASE j = k
      BY <1>1, <1>3, <1>4, <1>6, <1>7, <1>8, <2>1, <2>2 DEF CallOK, InHand
    <2>3. CASE j # k
      <3>1. call'[j] = call[j]
        BY <1>6, <2>3
      <3>2. call[j].pc = "waiting" => att'[call[j].att].pc # "idle" /\ att'[call[j].att].pay = call[j].pay
        BY <1>3, <1>8, <2>1 DEF CallOK
      <3> QED BY <1>3, <2>1, <3>1, <3>2 DEF CallOK, InHand
    <2> QED BY <2>2, <2>3
  <1>16. \E last \in [Callers -> Payments \cup {"none"}] : StandFor(last)'
    <2>1. PICK last \in [Callers -> Payments \cup {"none"}] : StandFor(last)
      BY DEF PaidInv, ClientInv
    <2>2. last[k] = p
      BY <1>1, <1>3, <2>1 DEF StandFor, InHand
    <2>3. \A j \in Callers : /\ InHand(call[j])' => last[j] = call'[j].pay
                             /\ Broadcasts(j)' => last[j] = signing'[call'[j].ch].pay
      <3>1. ~Broadcasts(k)' /\ last[k] = call'[k].pay
        BY <1>4, <1>6, <2>2 DEF Broadcasts
      <3>2. \A j \in Callers \ {k} : /\ InHand(call[j])' => last[j] = call'[j].pay
                                     /\ Broadcasts(j)' => last[j] = signing'[call'[j].ch].pay
        BY <1>3, <1>6, <2>1 DEF StandFor, InHand, Broadcasts
      <3> QED BY <3>1, <3>2
    <2>4. ASSUME NEW v \in Attempts, Running(v)'
          PROVE  \E j \in users'[att'[v].pay] : last[j] = att'[v].pay /\ Presents(j, v)'
      <3>1. CASE v = w
        BY <1>3, <1>4, <1>6, <1>7, <1>8, <2>2, <3>1 DEF Presents
      <3>2. CASE v # w
        <4>1. Running(v) /\ att[v].pay \in Payments /\ att'[v].pay = att[v].pay
          BY <1>8, <1>9, <2>4, <3>2, PaymentFacts
        <4>2. PICK j \in users[att[v].pay] : last[j] = att[v].pay /\ Presents(j, v)
          BY <2>1, <4>1 DEF StandFor
        <4>3. j \in Callers /\ j # k
          BY <1>3, <4>1, <4>2, PaymentFacts DEF Presents
        <4> QED BY <1>3, <1>6, <4>1, <4>2, <4>3 DEF Presents
      <3> QED BY <3>1, <3>2
    <2>5. ASSUME NEW j \in Callers, Knows(j) PROVE Knows(j)'
      <3>1. CASE j = k
        BY <1>3, <1>4, <1>6, <2>5, <3>1 DEF Knows, EndsKnowing, InHand, Broadcasts
      <3>2. CASE j # k
        <4>1. call'[j] = call[j] /\ (Broadcasts(j) => Broadcasts(j)')
          BY <1>3, <1>6, <3>2 DEF Broadcasts
        <4>2. call[j].pc = "waiting" => call[j].att \in Attempts \ {w}
          BY <1>3, CallFields DEF CallOK
        <4> QED BY <1>9, <2>5, <4>1, <4>2 DEF Knows, EndsKnowing, InHand
      <3> QED BY <3>1, <3>2
    <2>6. \A q \in Payments : Landing(q)' => \E j \in users'[q] : last[j] = q /\ Knows(j)'
      <3>1. \A q \in Payments : Landing(q)' => Landing(q)
        BY <1>3 DEF Landing, MayHaveLanded
      <3> QED BY <1>3, <2>1, <2>5, <3>1, PaymentFacts DEF StandFor
    <2> QED BY <2>1, <2>3, <2>4, <2>6 DEF StandFor
  <1> QED BY <1>10, <1>11, <1>12, <1>13, <1>14, <1>15, <1>16 DEF PaidInv, ClientInv

LEMMA ClientKeeps ==
  ASSUME RailsAssumption, ClientAssumption, PaidInv, ClientNext PROVE PaidInv'
  <1>1. ASSUME NEW k \in Callers, RefuseToSign(k) PROVE PaidInv'
    BY <1>1, RefuseToSignKeeps DEF RefuseToSign
  <1> QED BY <1>1, AskKeeps, JoinKeeps, SignAloneKeeps, CancelSigningKeeps, CancelSignedKeeps,
             LosePaidRequestKeeps, AnsweredKeeps, PresentKeeps, BuildKeeps, SubmitKeeps, SendPushKeeps,
             ConfirmPushKeeps, DeliverKeeps
         DEF ClientNext

LEMMA PaidStep ==
  ASSUME RailsAssumption, ClientAssumption, PaidInv, [PaidNext]_paidVars PROVE PaidInv'
  <1>1. CASE ServerNext /\ UNCHANGED clientVars
    <2>1. RailsInv'
      BY <1>1, RailsStep DEF RailsNext, PaidInv
    <2> QED BY <1>1, <2>1, ServerKeepsClient DEF PaidInv
  <1>2. CASE UNCHANGED paidVars
    <2>1. UNCHANGED <<railVars, clientVars>> /\ UNCHANGED <<rail, bound, chain, att, via, call, signing, users>>
      BY <1>2 DEF paidVars, railVars, clientVars
    <2>2. RailsInv'
      BY <2>1, RailsStay DEF PaidInv
    <2> QED BY <2>1, <2>2 DEF PaidInv, ClientInv, ClientTypeOK, SignedOK, SigningOK, KindsOf,
              UndeliveredOK, Unlanded, CallOK, InHand, StandFor, Presents, Knows, EndsKnowing, Landing,
              Broadcasts, MayHaveLanded, Running
  <1> QED BY <1>1, <1>2, ClientKeeps DEF PaidNext

\* The invariant holds under every client: where each payment is, from its signing to the
\* end of the calls it was signed for, and that a call stands for each one that may land.
THEOREM PaidInvariant == PaidSpec => []PaidInv
  <1>1. PaidInit => PaidInv
    BY RailsAssumption, ClientAssumption, PaidInitial
  <1>2. PaidInv /\ [PaidNext]_paidVars => PaidInv'
    BY RailsAssumption, ClientAssumption, PaidStep
  <1> QED BY <1>1, <1>2, PTL DEF PaidSpec

\* No payment is made behind the client's back: whenever a payment may have landed, one of
\* the calls it was signed for still runs, was paid, was told that its outcome is unknown,
\* or presented its hash; whatever the server answers or loses, and however the calls that
\* share a signing are cancelled.
THEOREM PaymentsAreKnown == PaidSpec => []SomeoneKnows
  <1>1. ASSUME PaidInv PROVE SomeoneKnows
    <2> SUFFICES ASSUME NEW p \in Payments, MayHaveLanded(p)
                 PROVE  \E k \in users[p] : \/ call[k].pc # "ended"
                                            \/ call[k].end \in {"paid", "unknown"}
                                            \/ call[k].end = "refused" /\ call[k].kind = "push"
      BY DEF SomeoneKnows
    <2>1. PICK k \in users[p] : Knows(k)
      BY <1>1 DEF PaidInv, ClientInv, StandFor, Landing
    <2> QED BY <2>1 DEF Knows, EndsKnowing, InHand, Broadcasts
  <1> QED BY <1>1, PaidInvariant, PTL

\* However often they are retried, calls pay once each: of the payments that were signed
\* for some of the calls only, no more land than there are such calls.  Each payment that
\* may have landed has a call of its own that stands for it.
THEOREM CallsPayOnce == PaidSpec => []PaidOncePerCall
  <1>1. ASSUME PaidInv PROVE PaidOncePerCall
    <2> SUFFICES ASSUME NEW calls \in SUBSET Callers
                 PROVE  Cardinality({p \in Payments : users[p] # {} /\ users[p] \subseteq calls
                                                      /\ MayHaveLanded(p)})
                          <= Cardinality(calls)
      BY DEF PaidOncePerCall
    <2> DEFINE landed == {p \in Payments : users[p] # {} /\ users[p] \subseteq calls /\ MayHaveLanded(p)}
    <2>1. PICK last \in [Callers -> Payments \cup {"none"}] : StandFor(last)
      BY <1>1 DEF PaidInv, ClientInv
    <2> DEFINE stoodFor == {last[k] : k \in calls}
               f == [k \in calls |-> last[k]]
    <2>2. \A p \in landed : p \in stoodFor
      BY <2>1 DEF StandFor, Landing
    <2>3. f \in Surjection(calls, stoodFor)
      BY DEF Surjection
    <2>4. IsFiniteSet(calls)
      BY ClientAssumption, FS_Subset
    <2>5. IsFiniteSet(stoodFor) /\ Cardinality(stoodFor) <= Cardinality(calls)
      <3> HIDE DEF f, stoodFor
      <3> QED BY <2>3, <2>4, FS_Surjection
    <2>6. IsFiniteSet(landed) /\ Cardinality(landed) <= Cardinality(stoodFor)
      <3> HIDE DEF landed, stoodFor
      <3>1. landed \subseteq stoodFor
        BY <2>2
      <3> QED BY <2>5, <3>1, FS_Subset
    <2>7. /\ Cardinality(calls) \in Nat /\ Cardinality(stoodFor) \in Nat
          /\ Cardinality(landed) \in Nat
      <3> HIDE DEF landed, stoodFor
      <3> QED BY <2>4, <2>5, <2>6, FS_CardinalityType
    <2>8. Cardinality(landed) <= Cardinality(calls)
      <3> HIDE DEF landed, stoodFor
      <3> QED BY <2>5, <2>6, <2>7
    <2> QED BY <2>8
  <1> QED BY <1>1, PaidInvariant, PTL
===============================================================================
