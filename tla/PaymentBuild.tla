----------------------------- MODULE PaymentBuild -----------------------------
(***************************************************************************)
(* A client builds the transaction of a charge (client.py): how the        *)
(* transfers are funded, with a swap when the payer holds too little of    *)
(* the currency, and which token pays the fee.  The node is asked again and *)
(* again meanwhile; the payer's balances may rise and the challenge comes   *)
(* nearer to its expiry.  The server then checks the calls and, when it    *)
(* sponsors the fee, the envelope (_fee_payer.py).                         *)
(*                                                                         *)
(* A batch is what a transaction transfers: the one signed here, or any    *)
(* that someone presents as a payment.                                     *)
(***************************************************************************)
EXTENDS TransferMatching

CONSTANTS Options,      \* the client's and the route's configurations
          Fallbacks,    \* auto_swap.currencies()
          GasLimits, GasPrices,        \* gas limits and prices that the node quotes
          PayerCaps, SponsorCaps,  \* the default policies: [gas, price, priority, total]
          Slippage,     \* what slippage adds to a quote
          MaxBalance, MaxTransfers, MaxClock,  \* bounds
          Transfers,    \* transfers of batches that others compose
          Expires,      \* the challenge's expiry
          Window,       \* EXPIRING_NONCE_VALID_BEFORE_SECS
          MinValidity,  \* MIN_REMAINING_VALIDITY_SECONDS
          MaxWindow     \* the policy's max_validity_window_seconds

Tokens == {"currency"} \cup Fallbacks

ASSUME BuildAssumption ==
  /\ {Slippage, MaxBalance, Expires, Window, MinValidity, MaxWindow} \subseteq Nat
  /\ MinValidity <= Window /\ Window <= MaxWindow
  /\ GasLimits \subseteq Nat /\ GasPrices \subseteq Nat
  /\ \A caps \in {PayerCaps, SponsorCaps} :
       caps \in [gas : Nat, price : Nat, priority : Nat, total : Nat]
  /\ {"currency", "none"} \cap Fallbacks = {}
  /\ \A o \in Options : /\ o.charge.amount \in Nat
                         /\ o.feeToken \in Tokens \cup {"none"} /\ o.feeTokens \subseteq Tokens

VARIABLES opts,   \* [charge, sponsored, swaps, trusted, machine, feeToken, feeTokens, barred]
          bal,    \* the payer's balances
          clock,  \* the clock
          build,  \* the transaction being built
          batch   \* the transfers of a transaction

buildVars == <<opts, bal, clock, build, batch>>

Charge == opts.charge
NoSwap == [from |-> "none", bought |-> 0, max |-> 0, approved |-> 0]
NoTokens == [t \in Tokens |-> 0]
NotBuilt ==
  [pc |-> "idle", route |-> "direct", swap |-> NoSwap, spent |-> NoTokens,
   limit |-> 0, price |-> 0, priority |-> 0, gas |-> 0,
   sized |-> NoSwap, feeToken |-> "none", valid |-> 0]

BuildInit ==
  /\ opts \in Options
  /\ bal \in [Tokens -> 0..MaxBalance]
  /\ clock = 0 /\ build = NotBuilt /\ batch = <<>>

At(pc) == build.pc = pc
Becomes(b) == build' = b /\ UNCHANGED <<opts, bal, clock, batch>>
Goes(pc) == Becomes([build EXCEPT !.pc = pc])
GivesUp == Goes("failed")
TimeLeft == Expires - clock >= MinValidity

-----------------------------------------------------------------------------
(* Funding the transfers.                                                  *)

\* A sponsored challenge too close to its expiry is not signed.
Prepare == At("idle") /\ batch = <<>> /\ IF opts.sponsored => TimeLeft THEN Goes("fund") ELSE GivesUp

\* Through the swapper, when the payer holds enough of its token.
FundByMachine ==
  /\ At("fund") /\ opts.machine /\ Charge.splits = <<>>
  /\ Becomes([build EXCEPT !.pc = "size", !.route = "machine"])

FundDirectly == At("fund") /\ ~opts.swaps /\ Goes("size")

\* The swap tops the currency up to the amount and the headroom, from a token
\* that can pay the quote and its slippage; a quote may fail.
Deficit(headroom) == Charge.amount + headroom - bal["currency"]
MaxIn(bought) == bought + Slippage
Funding(headroom, among) ==
  {t \in among : bal[t] > 0 /\ bal[t] >= MaxIn(Deficit(headroom))}
SwapFrom(t, bought) ==
  [from |-> t, bought |-> bought, max |-> MaxIn(bought), approved |-> MaxIn(bought)]
SpentBy(swap) ==
  [t \in Tokens |->
     CASE t = swap.from -> swap.max
       [] t = "currency" -> Max({0, Charge.amount - swap.bought})
       [] OTHER -> 0]
OfSwap(swap) == [build EXCEPT !.route = "swap", !.swap = swap, !.spent = SpentBy(swap)]

\* No swap is needed: the balance pays, when "known", the whole amount.
Unswapped(known) ==
  [build EXCEPT !.swap = NoSwap,
                !.spent = IF known THEN [NoTokens EXCEPT !["currency"] = Charge.amount] ELSE NoTokens]

FindsSwap(headroom, among, pc, unneeded) ==
  \/ Deficit(headroom) <= 0 /\ Becomes([unneeded EXCEPT !.pc = pc])
  \/ /\ Deficit(headroom) > 0 /\ opts.trusted
     /\ \E t \in Funding(headroom, among) :
          Becomes([OfSwap(SwapFrom(t, Deficit(headroom))) EXCEPT !.pc = pc])
  \/ Deficit(headroom) > 0 /\ GivesUp

FundBySwap == At("fund") /\ opts.swaps /\ FindsSwap(0, Fallbacks, "size", Unswapped(FALSE))

-----------------------------------------------------------------------------
(* The fee.                                                                *)

Cost(limit, price) == limit * price
FeeOf(limit, price) == IF Cost(limit, price) = 0 THEN 1 ELSE Cost(limit, price)

\* An estimate of the calls as they are now; "sized" is a ghost.
Sized(pc, limit, price) ==
  [build EXCEPT !.pc = pc, !.limit = limit, !.gas = FeeOf(limit, price), !.sized = build.swap]

\* The price stays the one first quoted.  A payer accepts its own policy's prices only;
\* of a sponsored transaction the priority fee alone is capped.  The chain may be
\* another than the client expects.
Lesser(m, n) == IF m <= n THEN m ELSE n
PriorityFee(price) ==
  Lesser(price, IF opts.sponsored THEN SponsorCaps.priority ELSE PayerCaps.priority)
Priced(limit, price) ==
  [Sized("fee", limit, price) EXCEPT !.price = price, !.priority = PriorityFee(price)]
Size ==
  /\ At("size")
  /\ \/ GivesUp
     \/ \E limit \in GasLimits, price \in GasPrices :
          /\ opts.sponsored \/ price <= PayerCaps.price
          /\ Becomes(Priced(limit, price))

Spare(t) == bal[t] - build.spent[t]
Covers(t) == Spare(t) >= build.gas
Swapping == build.swap # NoSwap

SponsorPays == At("fee") /\ opts.sponsored /\ Goes("sign")

\* The token the client names, unless the batch spends too much of it.
Explicit == opts.feeToken # "none"
SpendsFeeToken ==
  Swapping /\ (opts.feeToken = "currency" \/ build.spent[opts.feeToken] > 0)
PayIn(t, pc) == Becomes([build EXCEPT !.pc = pc, !.feeToken = t])
NamedToken ==
  /\ At("fee") /\ ~opts.sponsored /\ Explicit
  /\ PayIn(opts.feeToken, IF SpendsFeeToken /\ ~Covers(opts.feeToken) THEN "rebuild" ELSE "sign")

\* Else the currency pays, or any fee token when the batch is funded otherwise or the
\* currency is one that pays no fees.
FundedFeeTokens == {t \in opts.feeTokens : Covers(t)}
CurrencyPays ==
  /\ At("fee") /\ ~opts.sponsored /\ ~Explicit
  /\ build.route = "direct" /\ ~opts.barred
  /\ PayIn("currency", "sign")
AnyTokenPays ==
  /\ At("fee") /\ ~opts.sponsored /\ ~Explicit
  /\ build.route # "direct" \/ opts.barred
  /\ \/ \E t \in FundedFeeTokens : PayIn(t, "sign")
     \/ FundedFeeTokens = {} /\ IF Swapping /\ "currency" \in opts.feeTokens
                                THEN Goes("rebuild") ELSE GivesUp

\* The swap is made anew: it buys the fee, or leaves the fee token alone.
RebuildForNamed ==
  /\ At("rebuild") /\ Explicit
  /\ IF opts.feeToken = "currency"
     THEN FindsSwap(build.gas, Fallbacks, "resize", Unswapped(TRUE))
     ELSE FindsSwap(0, Fallbacks \ {opts.feeToken}, "resize", Unswapped(TRUE))
RebuildForAny ==
  /\ At("rebuild") /\ ~Explicit
  /\ FindsSwap(build.gas, Fallbacks, "freed", Unswapped(TRUE))

\* Another fee token can pay now: only the payment is bought, from the same token.
Freed ==
  /\ At("freed")
  /\ \/ ~Swapping /\ Goes("resize")
     \/ Swapping /\ FundedFeeTokens = {} /\ GivesUp
     \/ Swapping /\ "currency" \in FundedFeeTokens /\ PayIn("currency", "resize")
     \/ /\ Swapping /\ FundedFeeTokens \ {"currency"} # {}
        /\ FindsSwap(0, {build.swap.from}, "resize", Unswapped(TRUE))

\* Mutant: the estimate of the first calls is kept.
KeepSize(limit) == [build EXCEPT !.pc = "recheck"]

\* The calls changed: gas and fee are sized for the batch that is signed.
NewSize(limit) == Sized("recheck", limit, build.price)

Resize == At("resize") /\ \E limit \in GasLimits : Becomes(NewSize(limit))
Recheck ==
  /\ At("recheck")
  /\ LET paying == IF Explicit THEN {opts.feeToken} \cap {t \in Tokens : Covers(t)}
                   ELSE FundedFeeTokens
     IN  IF paying = {} THEN GivesUp ELSE \E t \in paying : PayIn(t, "sign")

-----------------------------------------------------------------------------
(* Signing.                                                                *)

\* Mutant: the fee may be bought on top of the charge.
BuysAnything == TRUE

\* The server rejects a swap of more than the charge.
BuysNoMore == build.swap.bought <= Charge.amount

WithinBudget == Cost(build.limit, build.price) <= PayerCaps.total

\* A transaction is valid as long as its challenge, and not longer than the window.
ValidBefore == Min({clock + Window, Expires + 1})
Sign ==
  /\ At("sign")
  /\ IF BuysNoMore /\ (IF opts.sponsored THEN TimeLeft ELSE WithinBudget)
     THEN Becomes([build EXCEPT !.pc = "signed", !.valid = ValidBefore - clock])
     ELSE GivesUp

\* The gas that the node asked for, at the price it quoted, is within a policy.
WithinCaps(caps, b) ==
  /\ b.limit <= caps.gas /\ b.price <= caps.price
  /\ Cost(b.limit, b.price) <= caps.total

\* What a sponsor with the default policy accepts of an envelope.
EnvelopeAccepted(b) ==
  /\ b.feeToken = "none"
  /\ b.valid >= MinValidity /\ b.valid <= MaxWindow
  /\ WithinCaps(SponsorCaps, b)
  /\ b.priority <= b.price /\ b.priority <= SponsorCaps.priority

\* The transaction is mined.
Mine ==
  /\ At("signed") /\ batch = <<>>
  /\ batch' = SignedCalls(Charge, "payer")
  /\ UNCHANGED <<opts, bal, clock, build>>

-----------------------------------------------------------------------------
(* The rest of the world.                                                  *)

\* Between two questions to the node.
Deposit(t) ==
  /\ build.pc \notin {"idle", "signed", "failed"}
  /\ bal[t] < MaxBalance
  /\ bal' = [bal EXCEPT ![t] = @ + 1]
  /\ UNCHANGED <<opts, clock, build, batch>>

\* Someone's transaction, for any number of charges.
Compose(t) ==
  /\ At("idle") /\ Len(batch) < MaxTransfers
  /\ batch' = Append(batch, t)
  /\ UNCHANGED <<opts, bal, clock, build>>

Wait ==
  /\ clock < MaxClock /\ build.pc \notin {"idle", "signed", "failed"}
  /\ clock' = clock + 1
  /\ UNCHANGED <<opts, bal, build, batch>>

Build ==
  \/ Prepare \/ FundByMachine \/ FundDirectly \/ FundBySwap \/ Size
  \/ SponsorPays \/ NamedToken \/ CurrencyPays \/ AnyTokenPays
  \/ RebuildForNamed \/ RebuildForAny \/ Freed \/ Resize \/ Recheck
  \/ Sign \/ Mine

World ==
  \/ Wait
  \/ \E t \in Tokens : Deposit(t)
  \/ \E t \in Transfers : Compose(t)

BuildNext == Build \/ World

BuildSpec == BuildInit /\ [][BuildNext]_buildVars

-----------------------------------------------------------------------------
(* Properties.                                                             *)

\* However many charges a batch of transfers is presented for, by credentials that
\* name their source or do not, it moves as much to each recipient as all the charges
\* that accept it ask: no two charges are paid by one transfer.
Asked(S, to, amount) ==
  FoldSet(LAMBDA c, n : n + Len(SelectSeq(Legs(c), LAMBDA l : l.to = to /\ l.amount = amount)), 0, S)
Moved(to, amount) == Len(SelectSeq(batch, LAMBDA t : t.to = to /\ t.amount = amount))
NoSharedTransfers ==
  LET accepted == {c \in Charges : \E payer \in {"payer", "anyone"} : ReceiptAccepted(c, batch, payer)}
  IN  \A c \in accepted : \A i \in DOMAIN Legs(c) :
        LET l == Legs(c)[i] IN Asked(accepted, l.to, l.amount) <= Moved(l.to, l.amount)

\* Calls that the server accepted to broadcast are recognised in their receipt;
\* and so is a charge whose every transfer is bound to it, whatever else the
\* payer put into the transaction.
FullyBound(c) ==
  /\ \A i \in DOMAIN c.splits : c.splits[i].memo = "none"
  /\ \A i \in DOMAIN Legs(c) :
       LET alike == {j \in DOMAIN Legs(c) : Legs(c)[j] = Legs(c)[i]}
           paid == {j \in DOMAIN batch : batch[j] = CallOf(c, "payer", Legs(c)[i])}
       IN  Cardinality(alike) <= Cardinality(paid)
PaymentsRecognised ==
  \A c \in Charges :
    \/ ReceiptAccepted(c, batch, "payer")
    \/ /\ ~FullyBound(c)
       /\ (\A j \in DOMAIN batch : batch[j].from = "payer") => ~CallsAccepted(c, batch)

\* The server accepts what a client signs, after every way to fund it: the calls,
\* the swap, and the envelope of a sponsored transaction, if the gas and the price
\* that the node quoted are within the sponsor's policy.
SignedIsAccepted ==
  At("signed") =>
    /\ CallsAccepted(Charge, SignedCalls(Charge, "payer"))
    /\ Swapping => SwapAccepted(Charge, build.swap)
    /\ opts.sponsored /\ WithinCaps(SponsorCaps, build) => EnvelopeAccepted(build)

\* A payer who swaps can pay the fee of the batch it signs, out of what the batch
\* does not spend, although the fee, the swap and the fee token depend on each other.
FeeCovered ==
  At("signed") /\ Swapping /\ ~opts.sponsored =>
    /\ build.sized = build.swap
    /\ build.spent[build.feeToken] > 0 => Covers(build.feeToken)
=============================================================================
