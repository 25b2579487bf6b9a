----------------------------- MODULE MCChargeRails -----------------------------
(* Anyone presents payments for either challenge, as often as there are       *)
(* attempts: one payment, and a second one on the rails whose keys do not name *)
(* a transaction.                                                             *)
EXTENDS ChargeRails, TLC

CONSTANTS c1, c2, p1, p2

StaggeredExpiry == (c1 :> 3) @@ (c2 :> 4)

BoundTo(p, r) ==
  IF p = p1 \/ r \in {"proof", "cache"} THEN c1 ELSE "none"

Init ==
  /\ RailsInit
  /\ bound = [p \in Payments |-> BoundTo(p, rail)]
  /\ until = [p \in Payments |-> IF rail \in {"pull", "hosted"} THEN 4 ELSE 3]

Spec == Init /\ [][RailsNext]_railVars

Interchangeable == Permutations(Attempts) \cup Permutations(Envelopes)
=============================================================================
