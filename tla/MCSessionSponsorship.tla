------------------------- MODULE MCSessionSponsorship -------------------------
(* Transactions of two payers, one of them beyond the fee budget.              *)
EXTENDS SessionSponsorship, TLC

Signed(id, payer, action, gas, price, valid) ==
  [id |-> id, payer |-> payer, proven |-> TRUE, action |-> action,
   gas |-> gas, price |-> price, valid |-> valid]

MCTxs ==
  {Signed("open", "p1", "open", 1, 1, 3), Signed("costly", "p2", "open", 2, 2, 3),
   Signed("first", "p1", "topUp", 1, 1, 2), Signed("second", "p1", "topUp", 1, 2, 3),
   Signed("other", "p2", "topUp", 2, 1, 3), Signed("later", "p1", "topUp", 1, 1, 5),
   [Signed("unproven", "p2", "open", 1, 1, 2) EXCEPT !.proven = FALSE]}

WorkerSymmetry == Permutations(Workers)
=============================================================================
