----------------------------- MODULE SponsorBudget -----------------------------
(***************************************************************************)
(* The document that holds a sponsor's fee reservations, and the functions *)
(* that change it inside one compare-and-set update (sponsor_budget.py).   *)
(* One entry per transaction; its owner fences workers that lost it.       *)
(***************************************************************************)
EXTENDS Integers, FiniteSets, FiniteSetsExt

CONSTANTS Txs, Attempts,
          Fee,              \* declared fee of each transaction
          ValidBefore,      \* chain time at which each can no longer be included
          Grace,            \* VALID_BEFORE_GRACE
          Lease,            \* _PREPARED_LEASE_MS
          MaxReservations,  \* max_in_flight_reservations
          MaxTotalFee       \* max_in_flight_total_fee

ASSUME BudgetAssumption ==
  /\ Fee \in [Txs -> Nat] /\ ValidBefore \in [Txs -> Nat]
  /\ Grace \in Nat /\ Lease \in Nat
  /\ MaxReservations \in Nat \ {0} /\ MaxTotalFee \in Nat \ {0}

Entry == [phase : {"prepared", "broadcasting", "pending"}, owner : Attempts,
          lease : Nat, expires : Nat]

NoEntry == [phase |-> "none"]

Book == [Txs -> Entry \cup {NoEntry}]

Reserved(b) == {t \in Txs : b[t].phase # "none"}

TotalFee(S) == MapThenSumSet(LAMBDA t : Fee[t], S)

ExpiresAt(t) == ValidBefore[t] + Grace

IsStale(e, at) == e.expires <= at \/ (e.phase = "prepared" /\ e.lease <= at)

\* The transaction has a live reservation, of whatever attempt.
IsDuplicate(b, t, at) == t \in Reserved(b) /\ ~IsStale(b[t], at)

\* A stale entry of the same transaction makes room for its successor.
HasRoom(b, t) ==
  LET others == Reserved(b) \ {t}
  IN /\ Cardinality(others) < MaxReservations
     /\ TotalFee(others) + Fee[t] <= MaxTotalFee

Prepared(t, w, at) ==
  [phase |-> "prepared", owner |-> w, expires |-> ExpiresAt(t),
   lease |-> IF ExpiresAt(t) < at + Lease THEN ExpiresAt(t) ELSE at + Lease]

Owns(b, t, w) == b[t].phase # "none" /\ b[t].owner = w

Advance(b, t, w, phase) ==
  IF Owns(b, t, w) THEN [b EXCEPT ![t].phase = phase] ELSE b

Release(b, t, w) == IF Owns(b, t, w) THEN [b EXCEPT ![t] = NoEntry] ELSE b

-----------------------------------------------------------------------------
(* Reconciliation: tasks from one read of the document, each applied later *)
(* to whatever the document then holds.                                    *)

Task == [tx : Txs, owner : Attempts, kind : {"stale", "lookup", "settled"}]

\* A prepared entry, or a broadcast one whose owner may still report, has no task.
TasksAt(b, at) ==
  {[tx |-> t, owner |-> b[t].owner,
    kind |-> IF IsStale(b[t], at) THEN "stale" ELSE "lookup"] :
     t \in {u \in Reserved(b) :
              \/ IsStale(b[u], at)
              \/ b[u].phase = "pending"
              \/ b[u].phase = "broadcasting" /\ b[u].lease <= at}}

\* Mutant: the entry is not looked at again.
ReleaseAsRead(b, k, at) ==
  IF Owns(b, k.tx, k.owner) THEN [b EXCEPT ![k.tx] = NoEntry] ELSE b

ReleaseStale(b, k, at) ==
  IF Owns(b, k.tx, k.owner) /\ IsStale(b[k.tx], at)
  THEN [b EXCEPT ![k.tx] = NoEntry]
  ELSE b

ReleaseSettled(b, k) ==
  IF Owns(b, k.tx, k.owner) /\ b[k.tx].phase \in {"broadcasting", "pending"}
  THEN [b EXCEPT ![k.tx] = NoEntry]
  ELSE b
=============================================================================
