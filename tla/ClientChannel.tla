---------------------------- MODULE ClientChannel ----------------------------
(***************************************************************************)
(* What a payer keeps about its channel with one payee, and the amounts it *)
(* computes from it (session/client/_store.py, _state.py).  A store holds  *)
(* at most one entry for a payee, token, escrow and chain; channel 0       *)
(* stands for no entry, and for no snapshot.                               *)
(***************************************************************************)
EXTENDS Integers, FiniteSets

CONSTANTS Price,        \* what one request costs
          MaxDeposit,   \* the payer's max_deposit
          Suggested,    \* the server's suggestedDeposit, 0 for none
          TopUpAmount,  \* the payer's top_up_amount, 0 for none
          MaxChannels   \* bound: channels a payer opens

ASSUME ClientAssumption ==
  /\ Price \in Nat \ {0} /\ MaxDeposit \in Nat /\ Price <= MaxDeposit
  /\ Suggested \in Nat /\ TopUpAmount \in Nat /\ MaxChannels \in Nat

Channels == 1..MaxChannels

Entry == [ch : 0..MaxChannels, cum : 0..MaxDeposit, deposit : Nat, uncertain : BOOLEAN]

NoEntry == [ch |-> 0, cum |-> 0, deposit |-> 0, uncertain |-> FALSE]

\* The session snapshot of a challenge.
Snapshot == [ch : 0..MaxChannels, accepted : Nat, required : Nat, spent : Nat,
             deposit : Nat]

NoSnapshot == [ch |-> 0, accepted |-> 0, required |-> 0, spent |-> 0, deposit |-> 0]

Smaller(a, b) == IF a < b THEN a ELSE b
Larger(a, b) == IF a > b THEN a ELSE b

-----------------------------------------------------------------------------
(* The store.                                                              *)

\* An entry whose last top-up may have landed is not replaced by another.
CanPersist(current, entry) == current.uncertain => current.ch = entry.ch

\* A stale copy does not clear the flag.
Persisted(current, entry) ==
  [entry EXCEPT !.uncertain = @ \/ (current.uncertain /\ current.ch = entry.ch)]

Deleted(current) == IF current.uncertain THEN current ELSE NoEntry

-----------------------------------------------------------------------------
(* Amounts.                                                                *)

OpeningDeposit ==
  Smaller(IF Suggested > Price THEN Suggested ELSE Price, MaxDeposit)

\* What the next voucher of an entry needs, and the deposit the payer knows;
\* only a snapshot of the same channel counts.
Required(entry, snap) ==
  IF snap.ch = entry.ch THEN Larger(snap.required, entry.cum + Price)
                        ELSE entry.cum + Price

KnownDeposit(entry, snap) ==
  IF snap.ch = entry.ch THEN Larger(snap.deposit, entry.deposit) ELSE entry.deposit

\* max_deposit also limits what is authorized.
WithinLimit(cum) == cum <= MaxDeposit

\* No less than the shortfall, and not past max_deposit.
TopUpFor(deposit, required) ==
  LET shortfall == required - deposit
      preferred == IF TopUpAmount # 0 THEN TopUpAmount
                   ELSE IF Suggested # 0 THEN Suggested ELSE shortfall
  IN IF required <= deposit
     THEN 0
     ELSE Smaller(Larger(preferred, shortfall), MaxDeposit - deposit)

\* Mutant: recovery does not authorize the next request.
RecoveredAccepted(snap) == Larger(snap.accepted, snap.spent)

\* Where a payer that lost its entry resumes, from the server's snapshot.
RecoveredCumulative(snap) ==
  Larger(Larger(snap.accepted, snap.required), snap.spent + Price)

\* Where the bootstrap of a manager resumes: the snapshot of a HEAD request
\* asks for no new funds.
BootstrapCumulative(snap) == Larger(snap.accepted, snap.spent)

\* The next credential: a channel that was lost is recovered, a stored one
\* takes the next voucher, and otherwise one is opened.
PlanKind(entry, snap) ==
  IF entry.ch # 0 THEN "voucher" ELSE IF snap.ch # 0 THEN "recover" ELSE "open"

\* Mutant: a challenge without a snapshot acknowledges the open.
AcknowledgesWithout(snap, ch, cum) == snap.ch \in {0, ch}

\* A replacement challenge acknowledges an open in its snapshot.
Acknowledges(snap, ch, cum) == snap.ch = ch /\ snap.accepted = cum
=============================================================================
