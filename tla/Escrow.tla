------------------------------- MODULE Escrow -------------------------------
(***************************************************************************)
(* The escrow precompile that holds one channel's deposit, as the server   *)
(* uses it: what a read returns, and what each accepted call changes.      *)
(* External to the repository; session/_chain.py and session/_abi.py name  *)
(* its calls, its events and the packed state it returns.                  *)
(***************************************************************************)
EXTENDS Integers

\* deposit, settled and paid only grow; a closed channel reads as zeros.
EscrowState ==
  [deposit : Nat, settled : Nat, closeReq : Nat,
   closed : BOOLEAN, byPayee : BOOLEAN, paid : Nat]

OpenedEscrow(deposit) ==
  [deposit |-> deposit, settled |-> 0, closeReq |-> 0,
   closed |-> FALSE, byPayee |-> FALSE, paid |-> 0]

EscrowView(e) ==
  IF e.closed
  THEN [deposit |-> 0, settled |-> 0, closeReq |-> 0]
  ELSE [deposit |-> e.deposit, settled |-> e.settled, closeReq |-> e.closeReq]

CanSettle(e, amount) ==
  ~e.closed /\ amount > e.settled /\ amount <= e.deposit

Settled(e, amount) == [e EXCEPT !.settled = amount]

CanClose(e, capture, voucher) ==
  ~e.closed /\ e.settled <= capture /\ capture <= voucher /\ capture <= e.deposit

ClosedByPayee(e, capture) ==
  [e EXCEPT !.closed = TRUE, !.byPayee = TRUE, !.paid = capture]

CloseRequested(e, t) ==
  [e EXCEPT !.closeReq = IF @ = 0 THEN t ELSE @]

\* A top-up cancels a pending close request.
ToppedUp(e, amount) ==
  [e EXCEPT !.deposit = @ + amount, !.closeReq = 0]

\* The payer takes the rest once the grace period has passed.
Withdrawn(e) == [e EXCEPT !.closed = TRUE, !.paid = e.settled]
=============================================================================
