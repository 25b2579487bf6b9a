-------------------------- MODULE MCSessionChannel --------------------------
(* Model checking of SessionChannel: workers of one role are interchangeable. *)
EXTENDS SessionChannel, TLC

WorkerSymmetry ==
  Permutations(Settlers) \cup Permutations(Closers) \cup Permutations(Supervisors)
    \cup Permutations(Readers) \cup Permutations(Openers) \cup Permutations(Toppers)
=============================================================================
