--------------------------- MODULE TransferMatching ---------------------------
(***************************************************************************)
(* How a charge is recognised in a transaction: in the calls a payer       *)
(* signed, before the server broadcasts them, and in the logs of a receipt *)
(* (intents.py).  A charge pays its primary recipient and any splits; a    *)
(* memo that names a challenge binds a transfer to it.                     *)
(*                                                                         *)
(* A transfer is [from, to, amount, memo] in the charge's currency.  A memo *)
(* is a challenge's id (an attribution memo of this protocol, bound to that *)
(* challenge and its realm), "other", or "none".                           *)
(***************************************************************************)
EXTENDS Integers, SequencesExt

CONSTANTS Charges,    \* [id, to, amount, splits: a sequence of [to, amount, memo]]
          MaxSplits   \* MAX_SPLITS

ASSUME ChargeAssumption == MaxSplits \in Nat

Names == {c.id : c \in Charges}
BoundTo(memo, c) == memo = c.id
\* An attribution memo that is not this charge's.
Foreign(memo, c) == memo \in (Names \cup {"foreign"}) \ {c.id}

-----------------------------------------------------------------------------
(* The transfers of a charge.                                              *)

SplitSum(c) == FoldLeft(LAMBDA sum, s : sum + s.amount, 0, c.splits)

\* Each split is positive and the primary recipient keeps something.
WellFormed(c) ==
  /\ Len(c.splits) <= MaxSplits
  /\ \A i \in DOMAIN c.splits : c.splits[i].amount > 0
  /\ c.splits # <<>> => SplitSum(c) < c.amount

Leg(to, amount, memo) == [to |-> to, amount |-> amount, memo |-> memo]
Legs(c) == <<Leg(c.to, c.amount - SplitSum(c), "none")>> \o c.splits

\* The legs that name a memo are matched first.
InMatchingOrder(legs) ==
  SelectSeq(legs, LAMBDA l : l.memo # "none") \o SelectSeq(legs, LAMBDA l : l.memo = "none")

\* What the payer signs: a leg without a memo carries the attribution memo.
CallOf(c, from, leg) ==
  [from |-> from, to |-> leg.to, amount |-> leg.amount,
   memo |-> IF leg.memo = "none" THEN c.id ELSE leg.memo]
SignedCalls(c, from) == [i \in DOMAIN Legs(c) |-> CallOf(c, from, Legs(c)[i])]

-----------------------------------------------------------------------------
(* Assigning transfers to legs: one transfer each, the first that fits.    *)

NoMatch == [ok |-> FALSE, used |-> <<>>]

\* Takes for each leg in turn the best of the transfers left: "fits" says which
\* will do, "rank" orders them.
Assign(legs, n, fits(_, _), rank(_)) ==
  FoldLeft(LAMBDA m, leg :
             LET left == {i \in 1..n : i \notin ToSet(m.used) /\ fits(i, leg)}
                 best == {i \in left : \A j \in left : rank(i) <= rank(j)}
             IN  IF ~m.ok \/ left = {} THEN NoMatch
                 ELSE [m EXCEPT !.used = Append(@, Min(best))],
           [ok |-> TRUE, used |-> <<>>], legs)

Fits(t, leg) ==
  /\ t.to = leg.to /\ t.amount = leg.amount
  /\ leg.memo # "none" => t.memo = leg.memo

\* Of the transfers that were matched: none is attributed to another challenge,
\* and one is to this one.
Attributed(memos, c) ==
  /\ \A m \in memos : ~Foreign(m, c)
  /\ \E m \in memos : BoundTo(m, c)

-----------------------------------------------------------------------------
(* The calls of a transaction the server is asked to broadcast.            *)

\* They are the charge's transfers and no others.
CallsAccepted(c, calls) ==
  LET order == InMatchingOrder(Legs(c))
      m == Assign(order, Len(calls), LAMBDA i, leg : Fits(calls[i], leg), LAMBDA i : i)
  IN  /\ WellFormed(c) /\ Len(calls) = Len(Legs(c)) /\ m.ok
      /\ Attributed({calls[i].memo : i \in ToSet(m.used)}, c)

\* The swap that funds a charge buys at most what it pays, for the approved amount.
SwapAccepted(c, swap) ==
  /\ swap.from # "currency"
  /\ swap.bought > 0 /\ swap.bought <= c.amount
  /\ swap.max > 0 /\ swap.approved = swap.max

-----------------------------------------------------------------------------
(* The logs of a receipt.                                                  *)

Log(kind, t) == [kind |-> kind, from |-> t.from, to |-> t.to, amount |-> t.amount, memo |-> t.memo]

\* A transfer with a memo emits a log without it, too.
LogsOf(t) ==
  IF t.memo = "none" THEN <<Log("plain", t)>>
  ELSE <<Log("plain", [t EXCEPT !.memo = "none"]), Log("memo", t)>>
Logs(transfers) == FlattenSeq([i \in DOMAIN transfers |-> LogsOf(transfers[i])])

SameMovement(a, b) == a.from = b.from /\ a.to = b.to /\ a.amount = b.amount
Alike(logs, i, kind) == {j \in DOMAIN logs : logs[j].kind = kind /\ SameMovement(logs[i], logs[j])}

\* Among the plain logs alike, the last ones stand for the movements of as many
\* memo logs.
Companion(logs, i) ==
  /\ logs[i].kind = "plain"
  /\ Cardinality({j \in Alike(logs, i, "plain") : j >= i}) <= Cardinality(Alike(logs, i, "memo"))

\* Bound to the charge, with some other memo, without one, bound elsewhere.
Rank(log, c) ==
  CASE log.kind = "plain" -> 2
    [] BoundTo(log.memo, c) -> 0
    [] Foreign(log.memo, c) -> 3
    [] OTHER -> 1

\* A credential without a source is paid by anyone.  Without a machine-token
\* contract or a validator of the application.
SentBy(log, payer) == payer \in {log.from, "anyone"}

\* Mutant: all that fit count.
MatchSingleAny(c, logs, payer) ==
  {i \in DOMAIN logs : SentBy(logs[i], payer) /\ Fits(logs[i], Legs(c)[1])}

\* Logs of a charge without splits: those bound to it, or else all that fit.
MatchSingle(c, logs, payer) ==
  LET fitting == {i \in DOMAIN logs : SentBy(logs[i], payer) /\ Fits(logs[i], Legs(c)[1])}
      bound == {i \in fitting : logs[i].kind = "memo" /\ BoundTo(logs[i].memo, c)}
  IN  IF bound # {} THEN bound ELSE fitting

\* Logs of a charge with splits: one for each leg, or none.
MatchSplit(c, logs, payer) ==
  LET fits(i, leg) == SentBy(logs[i], payer) /\ ~Companion(logs, i) /\ Fits(logs[i], leg)
      m == Assign(InMatchingOrder(Legs(c)), Len(logs), fits, LAMBDA i : Rank(logs[i], c))
  IN  ToSet(m.used)

Matched(c, logs, payer) ==
  IF c.splits = <<>> THEN MatchSingle(c, logs, payer) ELSE MatchSplit(c, logs, payer)

\* Mutant: the rest of the receipt is not looked at.
UnboundElsewhere(c, logs, matched) == TRUE

\* A leg that is not bound could be another charge's: it does not count when
\* the receipt also pays for one.
NotSharedWith(c, logs, matched) ==
  (\E i \in matched : ~BoundTo(logs[i].memo, c)) =>
    ~\E i \in DOMAIN logs : logs[i].kind = "memo" /\ Foreign(logs[i].memo, c)

\* The receipt pays the charge, for this payer.
ReceiptAccepted(c, transfers, payer) ==
  LET logs == Logs(transfers)
      matched == Matched(c, logs, payer)
  IN  /\ WellFormed(c) /\ matched # {}
      /\ Attributed({logs[i].memo : i \in matched}, c)
      /\ NotSharedWith(c, logs, matched)
=============================================================================
