---------------------------- MODULE MCChargeClient ----------------------------
(* Two callers of one client pay; the clock is bounded.                       *)
EXTENDS ChargeClient, TLC

CONSTANTS c1, c2

StaggeredExpiry == (c1 :> 2) @@ (c2 :> 5)

\* Hosted payments take the most steps: both calls already wait for one signing.
WaitForHosted ==
  /\ via = "http"
  /\ signing = [c \in Challenges |-> IF c # c2 THEN NoSigning ELSE
       [NoSigning EXCEPT !.pc = "building", !.kind = "hosted", !.waiters = Callers]]
  /\ call = [k \in Callers |-> [NoCall EXCEPT !.pc = "signing", !.ch = c2]]

NothingCalled ==
  /\ signing = [c \in Challenges |-> NoSigning]
  /\ call = [k \in Callers |-> NoCall]

Init == NothingSigned /\ IF rail = "hosted" THEN WaitForHosted ELSE NothingCalled

\* Bounds: a rail's clock, and the hosted payments.
Horizon == CASE rail = "pull" -> 2 [] rail = "hosted" -> MaxTime [] OTHER -> 3
MaxHosted == 2

Next ==
  /\ PaidNext
  /\ now' <= Horizon
  /\ rail = "hosted" => Cardinality({p \in Payments : bound'[p] # "none"}) <= MaxHosted

Spec == Init /\ [][Next]_paidVars

Interchangeable == Permutations(Attempts) \cup Permutations(Envelopes) \cup Permutations(Callers)
=============================================================================
