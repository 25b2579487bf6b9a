------------------------ MODULE SponsoredChargeProofs ------------------------
(***************************************************************************)
(* Theorems about SponsoredCharge, for every set of transactions, payers,  *)
(* challenges and attempts and every limit, lease, clock lag and expiry.   *)
(***************************************************************************)
EXTENDS SponsoredCharge, FiniteSetTheorems, WellFoundedInduction, TLAPS

Sweep == [at : Nat, tasks : SUBSET Task]

-----------------------------------------------------------------------------
(* Types of the reservation book.                                          *)

\* An entry that is present is a reservation.
LEMMA EntryPresent ==
  ASSUME NEW b \in Book, NEW t \in Txs, b[t].phase # "none"
  PROVE  b[t] \in Entry
  BY DEF Book, NoEntry

\* Every change of the book by its owner, by reconciliation or by a new
\* reservation leaves a book.
LEMMA BookChanges ==
  ASSUME NEW b \in Book, NEW t \in Txs, NEW w \in Attempts
  PROVE  /\ \A phase \in {"broadcasting", "pending"} : Advance(b, t, w, phase) \in Book
         /\ Release(b, t, w) \in Book
         /\ [b EXCEPT ![t] = NoEntry] \in Book
         /\ \A e \in Entry : [b EXCEPT ![t] = e] \in Book
<1>1. [b EXCEPT ![t] = NoEntry] \in Book /\ \A e \in Entry : [b EXCEPT ![t] = e] \in Book
  BY DEF Book
<1>2. ASSUME NEW phase \in {"broadcasting", "pending"}, Owns(b, t, w)
      PROVE  [b EXCEPT ![t].phase = phase] \in Book
  <2>1. b[t] \in Entry
    BY <1>2, EntryPresent DEF Owns
  <2>2. [b[t] EXCEPT !.phase = phase] \in Entry
    BY <2>1 DEF Entry
  <2>. QED
    BY <2>2 DEF Book
<1>3. \A phase \in {"broadcasting", "pending"} : Advance(b, t, w, phase) \in Book
  BY <1>2 DEF Advance
<1>. QED
  BY <1>1, <1>3 DEF Release

\* A new reservation is an entry of the book.
LEMMA PreparedTyped ==
  ASSUME NEW t \in Txs, NEW w \in Attempts, NEW at \in Nat
  PROVE  Prepared(t, w, at) \in Entry
<1>1. ExpiresAt(t) \in Nat
  BY BudgetAssumption DEF ExpiresAt
<1>. QED
  BY <1>1, BudgetAssumption, SMT DEF Prepared, Entry

\* Reconciliation leaves a book, whatever its tasks were read from.
LEMMA ReconcileTyped ==
  ASSUME NEW b \in Book, NEW k \in Task, NEW at \in Nat
  PROVE  ReleaseStale(b, k, at) \in Book /\ ReleaseSettled(b, k) \in Book
<1>1. k.tx \in Txs
  BY DEF Task
<1>2. [b EXCEPT ![k.tx] = NoEntry] \in Book
  BY <1>1 DEF Book
<1>. QED
  BY <1>2 DEF ReleaseStale, ReleaseSettled

\* The tasks of a reconciliation name transactions and owners of the book.
LEMMA TasksTyped ==
  ASSUME NEW b \in Book, NEW at \in Nat
  PROVE  TasksAt(b, at) \in SUBSET Task
<1>. SUFFICES ASSUME NEW t \in Reserved(b)
              PROVE  \A kind \in {"stale", "lookup"} :
                       [tx |-> t, owner |-> b[t].owner, kind |-> kind] \in Task
  BY DEF TasksAt
<1>1. t \in Txs /\ b[t] \in Entry
  BY EntryPresent DEF Reserved
<1>. QED
  BY <1>1 DEF Task, Entry

-----------------------------------------------------------------------------
(* Types of the attempts.                                                  *)

Stages == {"begun", "claimed", "bound", "admitted", "reserved", "ready",
           "broadcasting", "sent", "leaving", "unbinding", "unmarking",
           "unclaiming", "settling", "done"}

Results == {"none", "paid", "refused", "expired", "replayed", "internal"}

\* A change of one field leaves an attempt.
LEMMA FieldChanges ==
  ASSUME NEW a \in Attempt, NEW pc \in Stages, NEW b \in BOOLEAN, NEW r \in Results
  PROVE  /\ [a EXCEPT !.pc = pc] \in Attempt
         /\ [a EXCEPT !.result = r] \in Attempt
         /\ [a EXCEPT !.reconciling = b] \in Attempt
         /\ [a EXCEPT !.waiting = b] \in Attempt
         /\ [a EXCEPT !.bound = b] \in Attempt
         /\ [a EXCEPT !.admitted = b] \in Attempt
         /\ [a EXCEPT !.marked = b] \in Attempt
         /\ [a EXCEPT !.held = b] \in Attempt
         /\ [a EXCEPT !.sent = b] \in Attempt
         /\ [a EXCEPT !.unknown = b] \in Attempt
         /\ [a EXCEPT !.excluded = b] \in Attempt
<1>1. [a EXCEPT !.pc = pc] \in Attempt
  BY DEF Attempt, Stages
<1>2. [a EXCEPT !.result = r] \in Attempt
  BY DEF Attempt, Results
<1>3. [a EXCEPT !.reconciling = b] \in Attempt
  BY DEF Attempt
<1>4. [a EXCEPT !.waiting = b] \in Attempt
  BY DEF Attempt
<1>5. [a EXCEPT !.bound = b] \in Attempt
  BY DEF Attempt
<1>6. [a EXCEPT !.admitted = b] \in Attempt
  BY DEF Attempt
<1>7. [a EXCEPT !.marked = b] \in Attempt
  BY DEF Attempt
<1>8. [a EXCEPT !.held = b] \in Attempt
  BY DEF Attempt
<1>9. [a EXCEPT !.sent = b] \in Attempt
  BY DEF Attempt
<1>10. [a EXCEPT !.unknown = b] \in Attempt
  BY DEF Attempt
<1>11. [a EXCEPT !.excluded = b] \in Attempt
  BY DEF Attempt
<1>. QED
  BY <1>1, <1>2, <1>3, <1>4, <1>5, <1>6, <1>7, <1>8, <1>9, <1>10, <1>11

\* An attempt that fails or ends is an attempt.
LEMMA AttemptEnds ==
  ASSUME NEW a \in Attempt, NEW r \in Results
  PROVE  Fails(a, r) \in Attempt /\ Ends(a, r) \in Attempt
<1>. DEFINE e == [a EXCEPT !.result = r]
<1>1. e \in Attempt
  BY FieldChanges DEF Stages
<1>2. [e EXCEPT !.pc = "leaving"] \in Attempt /\ [e EXCEPT !.pc = "done"] \in Attempt
  BY <1>1, FieldChanges DEF Stages, Results
<1>3. /\ Fails(a, r) = [e EXCEPT !.pc = "leaving"]
      /\ Ends(a, r) = [e EXCEPT !.pc = "done"]
  BY DEF Fails, Ends, Attempt
<1>. QED
  BY <1>2, <1>3

\* Each stage of an attempt with the field it sets is an attempt.
LEMMA AttemptStages ==
  ASSUME NEW a \in Attempt, NEW b \in BOOLEAN
  PROVE  /\ [a EXCEPT !.pc = "begun", !.reconciling = b] \in Attempt
         /\ [a EXCEPT !.pc = "bound", !.bound = TRUE] \in Attempt
         /\ Admitted(a) \in Attempt
         /\ [a EXCEPT !.pc = "reserved", !.held = TRUE] \in Attempt
         /\ [a EXCEPT !.pc = "ready", !.marked = TRUE] \in Attempt
         /\ [a EXCEPT !.reconciling = FALSE, !.excluded = TRUE] \in Attempt
         /\ [a EXCEPT !.unknown = FALSE, !.reconciling = FALSE] \in Attempt
         /\ Sending(a) \in Attempt
<1>. DEFINE At(pc) == [a EXCEPT !.pc = pc]
<1>1. \A pc \in Stages : At(pc) \in Attempt
  BY FieldChanges DEF Results
<1>. HIDE DEF At
<1>2. /\ At("begun") \in Attempt /\ At("bound") \in Attempt /\ At("admitted") \in Attempt
      /\ At("reserved") \in Attempt /\ At("ready") \in Attempt
      /\ At("broadcasting") \in Attempt
  BY <1>1 DEF Stages
<1>3. /\ [At("begun") EXCEPT !.reconciling = b] \in Attempt
      /\ [At("bound") EXCEPT !.bound = TRUE] \in Attempt
      /\ [At("admitted") EXCEPT !.admitted = TRUE] \in Attempt
      /\ [At("reserved") EXCEPT !.held = TRUE] \in Attempt
      /\ [At("ready") EXCEPT !.marked = TRUE] \in Attempt
      /\ [At("broadcasting") EXCEPT !.sent = TRUE] \in Attempt
  BY <1>2, FieldChanges DEF Stages, Results
<1>4. /\ [[At("broadcasting") EXCEPT !.sent = TRUE] EXCEPT !.unknown = TRUE] \in Attempt
      /\ [[a EXCEPT !.reconciling = FALSE] EXCEPT !.excluded = TRUE] \in Attempt
      /\ [[a EXCEPT !.unknown = FALSE] EXCEPT !.reconciling = FALSE] \in Attempt
  BY <1>3, FieldChanges DEF Stages, Results
<1>. QED
  BY <1>3, <1>4 DEF At, Admitted, Sending, Attempt

\* An attempt that changes to another attempt leaves the attempts and the
\* sweeps of their types.
LEMMA BecomesTyped ==
  ASSUME ChargeTypeOK, NEW w \in Attempts, NEW a \in Attempt, Becomes(w, a)
  PROVE  att' \in [Attempts -> Attempt] /\ sweep' \in [Attempts -> Sweep]
<1>1. NoSweep \in Sweep
  BY DEF NoSweep, Sweep
<1>. QED
  BY <1>1 DEF ChargeTypeOK, Becomes, Sweep

\* The record fields of an attempt.
LEMMA AttemptFields ==
  ASSUME ChargeTypeOK, NEW w \in Attempts
  PROVE  att[w] \in Attempt /\ att[w].tx \in Txs
  BY DEF ChargeTypeOK, Attempt

-----------------------------------------------------------------------------
(* Type correctness: one lemma per group of actions.                       *)

\* An attempt that only moves on keeps the types of attempts and sweeps.
LEMMA MovesTyped ==
  ASSUME ChargeTypeOK, NEW w \in Attempts, NEW pc \in Stages, Moves(w, pc)
  PROVE  att' \in [Attempts -> Attempt] /\ sweep' \in [Attempts -> Sweep]
<1>1. [att[w] EXCEPT !.pc = pc] \in Attempt
  BY AttemptFields, FieldChanges DEF Results
<1>. QED
  BY <1>1, BecomesTyped DEF Moves

\* An attempt that fails or ends keeps the types of attempts and sweeps.
LEMMA FailsTyped ==
  ASSUME ChargeTypeOK, NEW w \in Attempts, NEW r \in Results,
         Becomes(w, Fails(att[w], r)) \/ Becomes(w, Ends(att[w], r))
  PROVE  att' \in [Attempts -> Attempt] /\ sweep' \in [Attempts -> Sweep]
<1>1. Fails(att[w], r) \in Attempt /\ Ends(att[w], r) \in Attempt
  BY AttemptFields, AttemptEnds
<1>. QED
  BY <1>1, BecomesTyped

\* Admission keeps the types.
LEMMA AdmissionTyped ==
  ASSUME ChargeTypeOK, NEW w \in Attempts
  PROVE  /\ Begin(w) => ChargeTypeOK'
         /\ RefuseExpired(w) => ChargeTypeOK'
         /\ ClaimTx(w) => ChargeTypeOK'
         /\ BindChallenge(w) => ChargeTypeOK'
         /\ ClaimPayer(w) => ChargeTypeOK'
<1>. DEFINE t == att[w].tx
            Typed == att' \in [Attempts -> Attempt] /\ sweep' \in [Attempts -> Sweep]
<1>. att[w] \in Attempt /\ t \in Txs
  BY AttemptFields
<1>1. ASSUME Begin(w) PROVE ChargeTypeOK'
  <2>1. [att[w] EXCEPT !.pc = "begun", !.reconciling = t \in marker] \in Attempt
    <3>1. CASE t \in marker
      <4>1. (t \in marker) = TRUE
        BY <3>1
      <4>2. [att[w] EXCEPT !.pc = "begun", !.reconciling = TRUE] \in Attempt
        BY AttemptStages
      <4>. QED
        BY <4>1, <4>2
    <3>2. CASE t \notin marker
      <4>1. (t \in marker) = FALSE
        BY <3>2
      <4>2. [att[w] EXCEPT !.pc = "begun", !.reconciling = FALSE] \in Attempt
        BY AttemptStages
      <4>. QED
        BY <4>1, <4>2
    <3>. QED
      BY <3>1, <3>2
  <2>2. Typed
    BY <1>1, <2>1, BecomesTyped DEF Begin
  <2>. QED
    BY <1>1, <2>2 DEF Begin, ChargeTypeOK, admission, Sweep
<1>2. ASSUME RefuseExpired(w) PROVE ChargeTypeOK'
  <2>1. \E r \in {"internal", "refused"} : Becomes(w, Ends(att[w], r))
    BY <1>2 DEF RefuseExpired, Refusal
  <2>2. Typed
    BY <2>1, FailsTyped DEF Results
  <2>. QED
    BY <1>2, <2>2 DEF RefuseExpired, ChargeTypeOK, admission, Sweep
<1>3. ASSUME ClaimTx(w) PROVE ChargeTypeOK'
  <2>1. Becomes(w, Ends(att[w], "replayed")) \/ Moves(w, "claimed")
    BY <1>3 DEF ClaimTx
  <2>2. Typed
    BY <2>1, FailsTyped, MovesTyped DEF Results, Stages
  <2>. QED
    BY <1>3, <2>2 DEF ClaimTx, ChargeTypeOK, admission, Sweep
<1>4. ASSUME BindChallenge(w) PROVE ChargeTypeOK'
  <2>1. \/ Becomes(w, [att[w] EXCEPT !.pc = "bound", !.bound = TRUE])
        \/ Becomes(w, Fails(att[w], "replayed"))
    BY <1>4 DEF BindChallenge
  <2>2. Typed
    BY <2>1, FailsTyped, AttemptStages, BecomesTyped DEF Results
  <2>3. binding' \in [Challenges -> [tx : Txs \cup {"none"}, attempts : SUBSET Attempts,
                                     retained : BOOLEAN]]
    <3>. DEFINE c == ChallengeOf[t]
                Binding == [tx : Txs \cup {"none"}, attempts : SUBSET Attempts, retained : BOOLEAN]
    <3>1. c \in Challenges /\ binding \in [Challenges -> Binding]
      BY DEF Challenges, ChargeTypeOK
    <3>2. BoundBy(binding[c], t, w) \in Binding
      BY <3>1 DEF BoundBy
    <3>. QED
      BY <1>4, <3>1, <3>2 DEF BindChallenge
  <2>. QED
    BY <1>4, <2>2, <2>3 DEF BindChallenge, ChargeTypeOK, Sweep
<1>5. ASSUME ClaimPayer(w) PROVE ChargeTypeOK'
  <2>1. \/ Becomes(w, Admitted(att[w]))
        \/ \E r \in Results : Becomes(w, Fails(att[w], r))
        \/ UNCHANGED <<att, sweep>>
    BY <1>5 DEF ClaimPayer, Results
  <2>2. Typed
    BY <2>1, FailsTyped, AttemptStages, BecomesTyped DEF ChargeTypeOK, Sweep
  <2>3. payers' \in [Payers -> Txs \cup {"none"}]
    BY <1>5 DEF ClaimPayer, ChargeTypeOK
  <2>. QED
    BY <1>5, <2>2, <2>3 DEF ClaimPayer, ChargeTypeOK, Sweep
<1>. QED
  BY <1>1, <1>2, <1>3, <1>4, <1>5

\* Reconciling an earlier submission keeps the types.
LEMMA ResendTyped ==
  ASSUME ChargeTypeOK, NEW w \in Attempts
  PROVE  /\ ReconcilePaid(w) => ChargeTypeOK'
         /\ ReconcileExcluded(w) => ChargeTypeOK'
         /\ Resend(w) => ChargeTypeOK'
<1>. DEFINE t == att[w].tx
            Typed == att' \in [Attempts -> Attempt] /\ sweep' \in [Attempts -> Sweep]
<1>. att[w] \in Attempt /\ t \in Txs
  BY AttemptFields
<1>1. ASSUME ReconcilePaid(w) PROVE ChargeTypeOK'
  <2>1. Becomes(w, Fails(att[w], "paid"))
    BY <1>1 DEF ReconcilePaid
  <2>2. Typed
    BY <2>1, FailsTyped DEF Results
  <2>. QED
    BY <1>1, <2>2 DEF ReconcilePaid, ChargeTypeOK, admission, Sweep
<1>2. ASSUME ReconcileExcluded(w) PROVE ChargeTypeOK'
  <2>1. [Fails(att[w], "refused") EXCEPT !.reconciling = FALSE, !.excluded = TRUE] \in Attempt
    BY AttemptEnds, AttemptStages DEF Results
  <2>2. Typed
    BY <1>2, <2>1, BecomesTyped DEF ReconcileExcluded
  <2>. QED
    BY <1>2, <2>2 DEF ReconcileExcluded, ChargeTypeOK, admission, Sweep
<1>3. ASSUME Resend(w) PROVE ChargeTypeOK'
  <2>1. Moves(w, "ready")
    BY <1>3 DEF Resend
  <2>2. Typed
    BY <2>1, MovesTyped DEF Stages
  <2>. QED
    BY <1>3, <2>2 DEF Resend, ChargeTypeOK, admission, Sweep
<1>. QED
  BY <1>1, <1>2, <1>3

\* The checks before a first submission and the reservation keep the types.
LEMMA BudgetTyped ==
  ASSUME ChargeTypeOK, NEW w \in Attempts
  PROVE  /\ RefuseFloor(w) => ChargeTypeOK'
         /\ RefuseSimulation(w) => ChargeTypeOK'
         /\ Reserve(w) => ChargeTypeOK'
         /\ RefuseBudget(w) => ChargeTypeOK'
<1>. DEFINE t == att[w].tx
            Typed == att' \in [Attempts -> Attempt] /\ sweep' \in [Attempts -> Sweep]
<1>. att[w] \in Attempt /\ t \in Txs
  BY AttemptFields
<1>1. ASSUME RefuseFloor(w) PROVE ChargeTypeOK'
  <2>1. \E r \in {"internal", "refused"} : Becomes(w, Fails(att[w], r))
    BY <1>1 DEF RefuseFloor, Refusal
  <2>2. Typed
    BY <2>1, FailsTyped DEF Results
  <2>. QED
    BY <1>1, <2>2 DEF RefuseFloor, ChargeTypeOK, admission, Sweep
<1>2. ASSUME RefuseSimulation(w) PROVE ChargeTypeOK'
  <2>1. Becomes(w, Fails(att[w], "refused"))
    BY <1>2 DEF RefuseSimulation
  <2>2. Typed
    BY <2>1, FailsTyped DEF Results
  <2>. QED
    BY <1>2, <2>2 DEF RefuseSimulation, ChargeTypeOK, admission, Sweep
<1>3. ASSUME Reserve(w) PROVE ChargeTypeOK'
  <2>1. \/ Becomes(w, Fails(att[w], "internal"))
        \/ Becomes(w, [att[w] EXCEPT !.pc = "reserved", !.held = TRUE])
        \/ Becomes(w, [att[w] EXCEPT !.waiting = TRUE])
    BY <1>3 DEF Reserve
  <2>2. [att[w] EXCEPT !.waiting = TRUE] \in Attempt
    BY FieldChanges DEF Stages, Results
  <2>3. Typed
    BY <2>1, <2>2, FailsTyped, AttemptStages, BecomesTyped DEF Results
  <2>4. book \in Book /\ now \in Nat
    BY DEF ChargeTypeOK
  <2>5. [book EXCEPT ![t] = Prepared(t, w, now)] \in Book
    BY <2>4, PreparedTyped, BookChanges
  <2>6. book' \in Book
    BY <1>3, <2>4, <2>5 DEF Reserve
  <2>. QED
    BY <1>3, <2>3, <2>6 DEF Reserve, ChargeTypeOK, admission, Sweep
<1>4. ASSUME RefuseBudget(w) PROVE ChargeTypeOK'
  <2>1. Becomes(w, Fails(att[w], "refused"))
    BY <1>4 DEF RefuseBudget
  <2>2. Typed
    BY <2>1, FailsTyped DEF Results
  <2>. QED
    BY <1>4, <2>2 DEF RefuseBudget, ChargeTypeOK, admission, Sweep
<1>. QED
  BY <1>1, <1>2, <1>3, <1>4

\* Reconciliation by a waiting attempt keeps the types.
LEMMA SweepTyped ==
  ASSUME ChargeTypeOK, NEW w \in Attempts
  PROVE  /\ StartSweep(w) => ChargeTypeOK'
         /\ \A k \in sweep[w].tasks : SweepStale(w, k) => ChargeTypeOK'
         /\ \A k \in sweep[w].tasks : SweepLookup(w, k) => ChargeTypeOK'
         /\ \A k \in sweep[w].tasks : SweepSettled(w, k) => ChargeTypeOK'
<1>. book \in Book /\ now \in Nat /\ sweep \in [Attempts -> Sweep]
  BY DEF ChargeTypeOK, Sweep
<1>1. ASSUME StartSweep(w) PROVE ChargeTypeOK'
  <2>1. [at |-> now, tasks |-> TasksAt(book, now)] \in Sweep
    BY TasksTyped DEF Sweep
  <2>2. sweep' \in [Attempts -> Sweep]
    BY <1>1, <2>1 DEF StartSweep
  <2>. QED
    BY <1>1, <2>2 DEF StartSweep, ChargeTypeOK, admission, Sweep
<1>2. /\ sweep[w].at \in Nat
      /\ \A T \in SUBSET Task : [sweep EXCEPT ![w].tasks = T] \in [Attempts -> Sweep]
  BY DEF Sweep
<1>3. ASSUME NEW k \in sweep[w].tasks
      PROVE  /\ k \in Task
             /\ sweep[w].tasks \ {k} \in SUBSET Task
             /\ [k EXCEPT !.kind = "settled"] \in Task
  <2>1. k \in Task
    BY DEF Sweep
  <2>. QED
    BY <2>1 DEF Task, Sweep
<1>4. ASSUME NEW k \in sweep[w].tasks, SweepStale(w, k) PROVE ChargeTypeOK'
  <2>1. sweep' \in [Attempts -> Sweep]
    BY <1>2, <1>3, <1>4 DEF SweepStale
  <2>2. book' \in Book
    BY <1>2, <1>3, <1>4, ReconcileTyped DEF SweepStale
  <2>. QED
    BY <1>4, <2>1, <2>2 DEF SweepStale, ChargeTypeOK, admission, Sweep
<1>5. ASSUME NEW k \in sweep[w].tasks, SweepLookup(w, k) PROVE ChargeTypeOK'
  <2>1. sweep' \in [Attempts -> Sweep]
    <3>1. (sweep[w].tasks \ {k})
            \cup (IF chain[k.tx] \in {"paid", "reverted"}
                  THEN {[k EXCEPT !.kind = "settled"]} ELSE {}) \in SUBSET Task
      BY <1>3
    <3>. QED
      BY <1>2, <1>5, <3>1 DEF SweepLookup
  <2>. QED
    BY <1>5, <2>1 DEF SweepLookup, ChargeTypeOK, admission, Sweep
<1>6. ASSUME NEW k \in sweep[w].tasks, SweepSettled(w, k) PROVE ChargeTypeOK'
  <2>1. sweep' \in [Attempts -> Sweep]
    BY <1>2, <1>3, <1>6 DEF SweepSettled
  <2>2. book' \in Book
    BY <1>2, <1>3, <1>6, ReconcileTyped DEF SweepSettled
  <2>. QED
    BY <1>6, <2>1, <2>2 DEF SweepSettled, ChargeTypeOK, admission, Sweep
<1>. QED
  BY <1>1, <1>4, <1>5, <1>6

\* Submission keeps the types.
LEMMA SubmissionTyped ==
  ASSUME ChargeTypeOK, NEW w \in Attempts
  PROVE  /\ Mark(w) => ChargeTypeOK'
         /\ RefuseChallenge(w) => ChargeTypeOK'
         /\ StartBroadcast(w) => ChargeTypeOK'
         /\ Send(w) => ChargeTypeOK'
         /\ SendRefused(w) => ChargeTypeOK'
         /\ Confirm(w) => ChargeTypeOK'
         /\ LoseOutcome(w) => ChargeTypeOK'
         /\ InternalError(w) => ChargeTypeOK'
<1>. DEFINE t == att[w].tx
            Typed == att' \in [Attempts -> Attempt] /\ sweep' \in [Attempts -> Sweep]
<1>. att[w] \in Attempt /\ t \in Txs
  BY AttemptFields
<1>1. ASSUME Mark(w) PROVE ChargeTypeOK'
  <2>1. \/ Becomes(w, Fails(att[w], "internal"))
        \/ Becomes(w, [att[w] EXCEPT !.pc = "ready", !.marked = TRUE])
    BY <1>1 DEF Mark
  <2>2. Typed
    BY <2>1, FailsTyped, AttemptStages, BecomesTyped DEF Results
  <2>. QED
    BY <1>1, <2>2 DEF Mark, ChargeTypeOK, admission, Sweep
<1>2. ASSUME RefuseChallenge(w) PROVE ChargeTypeOK'
  <2>1. \/ Becomes(w, Fails(att[w], "internal"))
        \/ Becomes(w, Fails(att[w], "expired"))
    BY <1>2 DEF RefuseChallenge
  <2>2. Typed
    BY <2>1, FailsTyped DEF Results
  <2>. QED
    BY <1>2, <2>2 DEF RefuseChallenge, ChargeTypeOK, admission, Sweep
<1>3. ASSUME StartBroadcast(w) PROVE ChargeTypeOK'
  <2>1. Becomes(w, Fails(att[w], "refused")) \/ Becomes(w, Sending(att[w]))
    BY <1>3 DEF StartBroadcast
  <2>2. Typed
    BY <2>1, FailsTyped, AttemptStages, BecomesTyped DEF Results
  <2>3. book' \in Book
    <3>1. book \in Book /\ Advance(book, t, w, "broadcasting") \in Book
      BY BookChanges DEF ChargeTypeOK
    <3>. QED
      BY <1>3, <3>1 DEF StartBroadcast
  <2>. QED
    BY <1>3, <2>2, <2>3 DEF StartBroadcast, ChargeTypeOK, admission, Sweep
<1>4. ASSUME Send(w) PROVE ChargeTypeOK'
  <2>1. Moves(w, "sent")
    BY <1>4 DEF Send
  <2>2. Typed
    BY <2>1, MovesTyped DEF Stages
  <2>. QED
    BY <1>4, <2>2 DEF Send, ChargeTypeOK, admission, Sweep
<1>5. ASSUME SendRefused(w) PROVE ChargeTypeOK'
  <2>1. [Fails(att[w], "internal") EXCEPT !.unknown = FALSE] \in Attempt
    BY AttemptEnds, FieldChanges DEF Results, Stages
  <2>2. Typed
    BY <1>5, <2>1, BecomesTyped DEF SendRefused
  <2>. QED
    BY <1>5, <2>2 DEF SendRefused, ChargeTypeOK, admission, Sweep
<1>6. ASSUME Confirm(w) PROVE ChargeTypeOK'
  <2>1. [Fails(att[w], "paid") EXCEPT !.unknown = FALSE] \in Attempt
    BY AttemptEnds, FieldChanges DEF Results, Stages
  <2>2. [Fails(att[w], "internal") EXCEPT !.unknown = FALSE, !.reconciling = FALSE] \in Attempt
    BY AttemptEnds, AttemptStages DEF Results
  <2>3. Typed
    BY <1>6, <2>1, <2>2, BecomesTyped DEF Confirm
  <2>. QED
    BY <1>6, <2>3 DEF Confirm, ChargeTypeOK, admission, Sweep
<1>7. ASSUME LoseOutcome(w) PROVE ChargeTypeOK'
  <2>1. Becomes(w, Fails(att[w], "internal"))
    BY <1>7 DEF LoseOutcome
  <2>2. Typed
    BY <2>1, FailsTyped DEF Results
  <2>. QED
    BY <1>7, <2>2 DEF LoseOutcome, ChargeTypeOK, admission, Sweep
<1>8. ASSUME InternalError(w) PROVE ChargeTypeOK'
  <2>1. Becomes(w, Fails(att[w], "internal"))
    BY <1>8 DEF InternalError
  <2>2. Typed
    BY <2>1, FailsTyped DEF Results
  <2>. QED
    BY <1>8, <2>2 DEF InternalError, ChargeTypeOK, admission, Sweep
<1>. QED
  BY <1>1, <1>2, <1>3, <1>4, <1>5, <1>6, <1>7, <1>8

\* What an attempt leaves of a binding, and that it is still one.
LEMMA KeptBinding ==
  ASSUME NEW attempts \in SUBSET Attempts, NEW retained \in BOOLEAN,
         NEW b \in [tx : Txs \cup {"none"}, attempts : SUBSET Attempts, retained : BOOLEAN]
  PROVE  LET k == [b EXCEPT !.attempts = attempts, !.retained = retained]
         IN /\ k \in [tx : Txs \cup {"none"}, attempts : SUBSET Attempts, retained : BOOLEAN]
            /\ k.tx = b.tx /\ k.attempts = attempts /\ k.retained = retained
  OBVIOUS

LEMMA LeftBindingTyped ==
  ASSUME NEW w, NEW a,
         NEW b \in [tx : Txs \cup {"none"}, attempts : SUBSET Attempts, retained : BOOLEAN]
  PROVE  LeftBinding(b, a, w)
           \in [tx : Txs \cup {"none"}, attempts : SUBSET Attempts, retained : BOOLEAN]
<1>. DEFINE attempts == b.attempts \ {w}
            retained == \/ b.retained
                        \/ (a.sent \/ a.reconciling \/ a.result = "paid") /\ ~a.excluded
            k == [b EXCEPT !.attempts = attempts, !.retained = retained]
<1>1. attempts \in SUBSET Attempts /\ retained \in BOOLEAN
  OBVIOUS
<1>2. LeftBinding(b, a, w) = k \/ LeftBinding(b, a, w) = Unbound
  BY Zenon DEF LeftBinding
<1>. HIDE DEF attempts, retained
<1>3. k \in [tx : Txs \cup {"none"}, attempts : SUBSET Attempts, retained : BOOLEAN]
  BY <1>1, KeptBinding, Zenon
<1>4. Unbound \in [tx : Txs \cup {"none"}, attempts : SUBSET Attempts, retained : BOOLEAN]
  BY DEF Unbound
<1>. HIDE DEF k
<1>. QED
  BY <1>2, <1>3, <1>4, Zenon

\* While anyone else, or a submission, still needs a binding, it stays of its transaction.
LEMMA LeftBindingKept ==
  ASSUME NEW w, NEW a, ~a.excluded,
         NEW b \in [tx : Txs \cup {"none"}, attempts : SUBSET Attempts, retained : BOOLEAN]
  PROVE  /\ b.retained \/ a.sent \/ a.reconciling \/ a.result = "paid" =>
              LeftBinding(b, a, w).tx = b.tx /\ LeftBinding(b, a, w).retained
         /\ \A v \in b.attempts \ {w} :
              LeftBinding(b, a, w).tx = b.tx /\ v \in LeftBinding(b, a, w).attempts
<1>. DEFINE attempts == b.attempts \ {w}
            retained == \/ b.retained
                        \/ (a.sent \/ a.reconciling \/ a.result = "paid") /\ ~a.excluded
            k == [b EXCEPT !.attempts = attempts, !.retained = retained]
<1>1. attempts \in SUBSET Attempts /\ retained \in BOOLEAN
  OBVIOUS
<1>2. attempts # {} \/ retained => LeftBinding(b, a, w) = k
  BY Zenon DEF LeftBinding
<1>3. b.retained \/ a.sent \/ a.reconciling \/ a.result = "paid" => retained
  BY Zenon
<1>. HIDE DEF retained
<1>4. k.tx = b.tx /\ k.attempts = attempts /\ k.retained = retained
  BY <1>1, KeptBinding, Zenon
<1>. HIDE DEF k
<1>. QED
  BY <1>2, <1>3, <1>4, Zenon

\* Cleanup keeps the types, and so does a stop without it.
LEMMA CleanupTyped ==
  ASSUME ChargeTypeOK, NEW w \in Attempts
  PROVE  /\ LeavePayer(w) => ChargeTypeOK'
         /\ LeaveChallenge(w) => ChargeTypeOK'
         /\ LeaveMarker(w) => ChargeTypeOK'
         /\ LeaveClaim(w) => ChargeTypeOK'
         /\ Settle(w) => ChargeTypeOK'
         /\ Crash(w) => ChargeTypeOK'
<1>. DEFINE t == att[w].tx
            Typed == att' \in [Attempts -> Attempt] /\ sweep' \in [Attempts -> Sweep]
<1>. att[w] \in Attempt /\ t \in Txs
  BY AttemptFields
<1>1. ASSUME LeavePayer(w) PROVE ChargeTypeOK'
  <2>1. Moves(w, "unbinding")
    BY <1>1 DEF LeavePayer
  <2>2. Typed
    BY <2>1, MovesTyped DEF Stages
  <2>. QED
    BY <1>1, <2>2 DEF LeavePayer, ChargeTypeOK, admission, Sweep
<1>2. ASSUME LeaveChallenge(w) PROVE ChargeTypeOK'
  <2>1. Typed
    BY <1>2, MovesTyped DEF LeaveChallenge, Stages
  <2>2. binding' \in [Challenges -> [tx : Txs \cup {"none"}, attempts : SUBSET Attempts,
                                     retained : BOOLEAN]]
    <3>. DEFINE c == ChallengeOf[t]
                Binding == [tx : Txs \cup {"none"}, attempts : SUBSET Attempts, retained : BOOLEAN]
    <3>1. c \in Challenges /\ binding \in [Challenges -> Binding]
      BY DEF Challenges, ChargeTypeOK
    <3>2. LeftBinding(binding[c], att[w], w) \in Binding
      BY <3>1, LeftBindingTyped
    <3>. QED
      BY <1>2, <3>1, <3>2 DEF LeaveChallenge
  <2>. QED
    BY <1>2, <2>1, <2>2 DEF LeaveChallenge, ChargeTypeOK, Sweep
<1>3. ASSUME LeaveMarker(w) PROVE ChargeTypeOK'
  <2>1. Moves(w, "unclaiming")
    BY <1>3 DEF LeaveMarker
  <2>2. Typed
    BY <2>1, MovesTyped DEF Stages
  <2>. QED
    BY <1>3, <2>2 DEF LeaveMarker, ChargeTypeOK, admission, Sweep
<1>4. ASSUME LeaveClaim(w) PROVE ChargeTypeOK'
  <2>1. Moves(w, "settling")
    BY <1>4 DEF LeaveClaim
  <2>2. Typed
    BY <2>1, MovesTyped DEF Stages
  <2>. QED
    BY <1>4, <2>2 DEF LeaveClaim, ChargeTypeOK, admission, Sweep
<1>5. ASSUME Settle(w) PROVE ChargeTypeOK'
  <2>1. \E r \in Results : Becomes(w, Ends(att[w], r))
    BY <1>5 DEF Settle, Attempt, Results
  <2>2. Typed
    BY <2>1, FailsTyped
  <2>3. book' \in Book
    BY <1>5, BookChanges DEF Settle, SettledBook, ChargeTypeOK
  <2>. QED
    BY <1>5, <2>2, <2>3 DEF Settle, ChargeTypeOK, admission, Sweep
<1>6. ASSUME Crash(w) PROVE ChargeTypeOK'
  <2>1. Becomes(w, Ends(att[w], "none"))
    BY <1>6 DEF Crash
  <2>2. Typed
    BY <2>1, FailsTyped DEF Results
  <2>. QED
    BY <1>6, <2>2 DEF Crash, ChargeTypeOK, admission, Sweep
<1>. QED
  BY <1>1, <1>2, <1>3, <1>4, <1>5, <1>6

\* The chain and the clock keep the types.
LEMMA WorldTyped ==
  ASSUME ChargeTypeOK
  PROVE  /\ \A t \in Txs : Include(t) => ChargeTypeOK'
         /\ Tick => ChargeTypeOK'
<1>1. ASSUME NEW t \in Txs, Include(t) PROVE ChargeTypeOK'
  BY <1>1 DEF Include, ChargeTypeOK, admission
<1>2. ASSUME Tick PROVE ChargeTypeOK'
  <2>1. now' \in Nat /\ marker' \in SUBSET Txs
    BY <1>2 DEF Tick, ChargeTypeOK
  <2>2. chain' \in [Txs -> {"none", "pooled", "paid", "reverted"}]
    BY <1>2 DEF Tick, ChargeTypeOK
  <2>3. binding' \in [Challenges -> [tx : Txs \cup {"none"}, attempts : SUBSET Attempts,
                                     retained : BOOLEAN]]
    BY <1>2 DEF Tick, ChargeTypeOK, Unbound
  <2>. QED
    BY <1>2, <2>1, <2>2, <2>3 DEF Tick, ChargeTypeOK
<1>. QED
  BY <1>1, <1>2

-----------------------------------------------------------------------------
(* Type correctness.                                                       *)

\* The initial state has the types.
LEMMA InitTyped == Init => ChargeTypeOK
<1>1. \A t \in Txs : Fresh(t) \in Attempt
  BY DEF Fresh, Attempt
<1>2. NoSweep \in Sweep
  BY DEF NoSweep, Sweep
<1>3. Init => book \in Book
  BY DEF Init, Book
<1>. QED
  BY <1>1, <1>2, <1>3 DEF Init, ChargeTypeOK, Unbound, Sweep

\* Every step keeps the types.
LEMMA StepTyped == ChargeTypeOK /\ [Next]_vars => ChargeTypeOK'
<1>. SUFFICES ASSUME ChargeTypeOK, [Next]_vars PROVE ChargeTypeOK'
  OBVIOUS
<1>1. CASE AdmissionNext
  BY <1>1, AdmissionTyped, ResendTyped DEF AdmissionNext
<1>2. CASE BudgetNext
  BY <1>2, BudgetTyped, SweepTyped DEF BudgetNext
<1>3. CASE SubmissionNext
  BY <1>3, SubmissionTyped DEF SubmissionNext
<1>4. CASE CleanupNext
  BY <1>4, CleanupTyped DEF CleanupNext
<1>5. CASE (\E t \in Txs : Include(t)) \/ Tick
  BY <1>5, WorldTyped
<1>6. CASE UNCHANGED vars
  BY <1>6 DEF vars, admission, ChargeTypeOK
<1>. QED
  BY <1>1, <1>2, <1>3, <1>4, <1>5, <1>6 DEF Next

\* The reservation book, the admissions and the attempts have their types in
\* every reachable state.
THEOREM ChargeTypeCorrect == Spec => []ChargeTypeOK
  BY InitTyped, StepTyped, PTL DEF Spec

-----------------------------------------------------------------------------
(* One receipt per transaction.                                            *)

OwnerStages == {"claimed", "bound", "admitted", "reserved", "ready", "broadcasting",
                "sent", "leaving", "unbinding", "unmarking", "unclaiming"}

\* The attempt owns the replay key: from the claim to its release, or for good
\* once it is answered with a receipt.
HoldsKey(a) ==
  \/ a.pc \in OwnerStages
  \/ a.pc \in {"settling", "done"} /\ a.result = "paid"

\* An owned key is in the store and has one owner; nothing is paid without it.
KeyInv ==
  /\ \A w \in Attempts : HoldsKey(att[w]) => att[w].tx \in claims
  /\ \A v, w \in Attempts :
       HoldsKey(att[v]) /\ HoldsKey(att[w]) /\ att[v].tx = att[w].tx => v = w
  /\ \A w \in Attempts : att[w].result = "paid" => HoldsKey(att[w])

\* What an attempt may become without touching the keys.
KeepsKey(a, b) ==
  /\ b.tx = a.tx
  /\ HoldsKey(b) => HoldsKey(a)
  /\ b.result = "paid" => HoldsKey(b)

\* Such a change keeps the invariant.
LEMMA KeyKept ==
  ASSUME ChargeTypeOK, KeyInv, NEW w \in Attempts, NEW a,
         KeepsKey(att[w], a), Becomes(w, a), UNCHANGED claims
  PROVE  KeyInv'
<1>1. att'[w] = a /\ \A v \in Attempts \ {w} : att'[v] = att[v]
  BY DEF Becomes, ChargeTypeOK
<1>2. \A v \in Attempts :
        /\ att'[v].tx = att[v].tx
        /\ HoldsKey(att'[v]) => HoldsKey(att[v])
        /\ att'[v].result = "paid" => HoldsKey(att'[v])
  BY <1>1 DEF KeepsKey, KeyInv
<1>3. \A v \in Attempts : HoldsKey(att[v])' <=> HoldsKey(att'[v])
  BY DEF HoldsKey, OwnerStages
<1>. QED
  BY <1>2, <1>3 DEF KeyInv


\* An owner of the key that moves to another stage of an owner keeps it.
LEMMA OwnerMoves ==
  ASSUME ChargeTypeOK, KeyInv, NEW w \in Attempts, NEW a,
         att[w].pc \in OwnerStages, a.pc \in OwnerStages, a.tx = att[w].tx,
         Becomes(w, a), UNCHANGED claims
  PROVE  KeyInv'
<1>1. KeepsKey(att[w], a)
  BY DEF KeepsKey, HoldsKey
<1>. QED
  BY <1>1, KeyKept

\* An owner that fails, or only changes its stage, keeps the key.
LEMMA OwnerFails ==
  ASSUME ChargeTypeOK, KeyInv, NEW w \in Attempts, att[w].pc \in OwnerStages, UNCHANGED claims
  PROVE  /\ \A r : Becomes(w, Fails(att[w], r)) => KeyInv'
         /\ \A pc \in OwnerStages : Moves(w, pc) => KeyInv'
<1>. att[w] \in Attempt
  BY AttemptFields
<1>1. ASSUME NEW r, Becomes(w, Fails(att[w], r)) PROVE KeyInv'
  <2>1. Fails(att[w], r).pc \in OwnerStages /\ Fails(att[w], r).tx = att[w].tx
    BY DEF Fails, Attempt, OwnerStages
  <2>. QED
    BY <1>1, <2>1, OwnerMoves
<1>2. ASSUME NEW pc \in OwnerStages, Moves(w, pc) PROVE KeyInv'
  <2>1. [att[w] EXCEPT !.pc = pc].pc \in OwnerStages /\ [att[w] EXCEPT !.pc = pc].tx = att[w].tx
    BY DEF Attempt
  <2>. QED
    BY <1>2, <2>1, OwnerMoves DEF Moves
<1>. QED
  BY <1>1, <1>2

\* An attempt that ends without a receipt takes no key.
LEMMA EndsUnpaid ==
  ASSUME ChargeTypeOK, KeyInv, NEW w \in Attempts, UNCHANGED claims,
         NEW r \in Results \ {"paid"}, Becomes(w, Ends(att[w], r))
  PROVE  KeyInv'
<1>. att[w] \in Attempt
  BY AttemptFields
<1>1. KeepsKey(att[w], Ends(att[w], r))
  BY DEF KeepsKey, HoldsKey, Ends, Attempt, OwnerStages
<1>. QED
  BY <1>1, KeyKept

\* An owner keeps its key through admission, and nobody else gets one.
LEMMA AdmissionKeys ==
  ASSUME ChargeTypeOK, KeyInv, NEW w \in Attempts
  PROVE  /\ Begin(w) => KeyInv'
         /\ RefuseExpired(w) => KeyInv'
         /\ BindChallenge(w) => KeyInv'
         /\ ClaimPayer(w) => KeyInv'
         /\ ReconcilePaid(w) => KeyInv'
         /\ ReconcileExcluded(w) => KeyInv'
         /\ Resend(w) => KeyInv'
<1>. att[w] \in Attempt
  BY AttemptFields
<1>1. ASSUME Begin(w) PROVE KeyInv'
  <2>. DEFINE a == [att[w] EXCEPT !.pc = "begun", !.reconciling = att[w].tx \in marker]
  <2>1. att[w].pc = "idle" /\ Becomes(w, a) /\ UNCHANGED claims
    BY <1>1 DEF Begin
  <2>2. att[w].result # "paid"
    BY <2>1 DEF KeyInv, HoldsKey, OwnerStages
  <2>3. a.pc = "begun" /\ a.tx = att[w].tx /\ a.result = att[w].result
    BY DEF Attempt
  <2>4. KeepsKey(att[w], a)
    BY <2>2, <2>3 DEF KeepsKey, HoldsKey, OwnerStages
  <2>. QED
    BY <2>1, <2>4, KeyKept
<1>2. ASSUME RefuseExpired(w) PROVE KeyInv'
  <2>1. /\ UNCHANGED claims
        /\ \E r \in {"internal", "refused"} : Becomes(w, Ends(att[w], r))
    BY <1>2 DEF RefuseExpired, Refusal
  <2>. QED
    BY <2>1, EndsUnpaid DEF Results
<1>3. ASSUME BindChallenge(w) PROVE KeyInv'
  <2>. DEFINE a == [att[w] EXCEPT !.pc = "bound", !.bound = TRUE]
  <2>1. /\ att[w].pc \in OwnerStages /\ UNCHANGED claims
        /\ Becomes(w, a) \/ Becomes(w, Fails(att[w], "replayed"))
    BY <1>3 DEF BindChallenge, OwnerStages
  <2>2. a.pc \in OwnerStages /\ a.tx = att[w].tx
    BY DEF OwnerStages, Attempt
  <2>. QED
    BY <2>1, <2>2, OwnerMoves, OwnerFails
<1>4. ASSUME ClaimPayer(w) PROVE KeyInv'
  <2>1. /\ att[w].pc \in OwnerStages /\ UNCHANGED claims
        /\ \/ Becomes(w, Admitted(att[w]))
           \/ \E r : Becomes(w, Fails(att[w], r))
           \/ UNCHANGED att
    BY <1>4 DEF ClaimPayer, OwnerStages
  <2>2. Admitted(att[w]).pc \in OwnerStages /\ Admitted(att[w]).tx = att[w].tx
    BY DEF OwnerStages, Attempt, Admitted
  <2>3. CASE UNCHANGED att
    BY <2>1, <2>3 DEF KeyInv, HoldsKey
  <2>. QED
    BY <2>1, <2>2, <2>3, OwnerMoves, OwnerFails
<1>5. ASSUME ReconcilePaid(w) PROVE KeyInv'
  <2>1. /\ att[w].pc \in OwnerStages /\ UNCHANGED claims
        /\ Becomes(w, Fails(att[w], "paid"))
    BY <1>5 DEF ReconcilePaid, OwnerStages, Reconciling
  <2>. QED
    BY <2>1, OwnerFails
<1>6. ASSUME ReconcileExcluded(w) PROVE KeyInv'
  <2>. DEFINE a == [Fails(att[w], "refused") EXCEPT !.reconciling = FALSE, !.excluded = TRUE]
  <2>1. att[w].pc \in OwnerStages /\ Becomes(w, a) /\ UNCHANGED claims
    BY <1>6 DEF ReconcileExcluded, OwnerStages, Reconciling
  <2>2. a.pc \in OwnerStages /\ a.tx = att[w].tx
    BY DEF OwnerStages, Attempt, Fails, Sending, Admitted
  <2>. QED
    BY <2>1, <2>2, OwnerMoves
<1>7. ASSUME Resend(w) PROVE KeyInv'
  <2>1. /\ att[w].pc \in OwnerStages /\ UNCHANGED claims
        /\ Moves(w, "ready")
    BY <1>7 DEF Resend, OwnerStages, Reconciling
  <2>. QED
    BY <2>1, OwnerFails DEF OwnerStages
<1>. QED
  BY <1>1, <1>2, <1>3, <1>4, <1>5, <1>6, <1>7

\* An owner keeps its key through the checks and the reservation.
LEMMA BudgetKeys ==
  ASSUME ChargeTypeOK, KeyInv, NEW w \in Attempts
  PROVE  /\ RefuseFloor(w) => KeyInv'
         /\ RefuseSimulation(w) => KeyInv'
         /\ Reserve(w) => KeyInv'
         /\ RefuseBudget(w) => KeyInv'
<1>. att[w] \in Attempt
  BY AttemptFields
<1>1. ASSUME RefuseFloor(w) PROVE KeyInv'
  <2>1. /\ att[w].pc \in OwnerStages /\ UNCHANGED claims
        /\ \E r : Becomes(w, Fails(att[w], r))
    BY <1>1 DEF RefuseFloor, OwnerStages, Refusal
  <2>. QED
    BY <2>1, OwnerFails
<1>2. ASSUME RefuseSimulation(w) PROVE KeyInv'
  <2>1. /\ att[w].pc \in OwnerStages /\ UNCHANGED claims
        /\ Becomes(w, Fails(att[w], "refused"))
    BY <1>2 DEF RefuseSimulation, OwnerStages
  <2>. QED
    BY <2>1, OwnerFails
<1>3. ASSUME Reserve(w) PROVE KeyInv'
  <2>. DEFINE a == [att[w] EXCEPT !.pc = "reserved", !.held = TRUE]
              b == [att[w] EXCEPT !.waiting = TRUE]
  <2>1. /\ att[w].pc \in OwnerStages /\ UNCHANGED claims
        /\ Becomes(w, a) \/ Becomes(w, b) \/ Becomes(w, Fails(att[w], "internal"))
    BY <1>3 DEF Reserve, OwnerStages
  <2>2. /\ a.pc \in OwnerStages /\ a.tx = att[w].tx
        /\ b.pc \in OwnerStages /\ b.tx = att[w].tx
    BY <2>1 DEF OwnerStages, Attempt
  <2>. QED
    BY <2>1, <2>2, OwnerMoves, OwnerFails
<1>4. ASSUME RefuseBudget(w) PROVE KeyInv'
  <2>1. /\ att[w].pc \in OwnerStages /\ UNCHANGED claims
        /\ Becomes(w, Fails(att[w], "refused"))
    BY <1>4 DEF RefuseBudget, OwnerStages
  <2>. QED
    BY <2>1, OwnerFails
<1>. QED
  BY <1>1, <1>2, <1>3, <1>4

\* An owner keeps its key through the submission.
LEMMA SubmissionKeys ==
  ASSUME ChargeTypeOK, KeyInv, NEW w \in Attempts
  PROVE  /\ Mark(w) => KeyInv'
         /\ RefuseChallenge(w) => KeyInv'
         /\ StartBroadcast(w) => KeyInv'
         /\ Send(w) => KeyInv'
         /\ SendRefused(w) => KeyInv'
         /\ Confirm(w) => KeyInv'
         /\ LoseOutcome(w) => KeyInv'
         /\ InternalError(w) => KeyInv'
<1>. att[w] \in Attempt
  BY AttemptFields
<1>1. ASSUME Mark(w) PROVE KeyInv'
  <2>. DEFINE a == [att[w] EXCEPT !.pc = "ready", !.marked = TRUE]
  <2>1. /\ att[w].pc \in OwnerStages /\ UNCHANGED claims
        /\ Becomes(w, a) \/ Becomes(w, Fails(att[w], "internal"))
    BY <1>1 DEF Mark, OwnerStages
  <2>2. a.pc \in OwnerStages /\ a.tx = att[w].tx
    BY DEF OwnerStages, Attempt
  <2>. QED
    BY <2>1, <2>2, OwnerMoves, OwnerFails
<1>2. ASSUME RefuseChallenge(w) PROVE KeyInv'
  <2>1. /\ att[w].pc \in OwnerStages /\ UNCHANGED claims
        /\ \E r : Becomes(w, Fails(att[w], r))
    BY <1>2 DEF RefuseChallenge, OwnerStages
  <2>. QED
    BY <2>1, OwnerFails
<1>3. ASSUME StartBroadcast(w) PROVE KeyInv'
  <2>1. /\ att[w].pc \in OwnerStages /\ UNCHANGED claims
        /\ Becomes(w, Sending(att[w])) \/ Becomes(w, Fails(att[w], "refused"))
    BY <1>3 DEF StartBroadcast, OwnerStages
  <2>2. Sending(att[w]).pc \in OwnerStages /\ Sending(att[w]).tx = att[w].tx
    BY DEF OwnerStages, Attempt, Sending
  <2>. QED
    BY <2>1, <2>2, OwnerMoves, OwnerFails
<1>4. ASSUME Send(w) PROVE KeyInv'
  <2>1. /\ att[w].pc \in OwnerStages /\ UNCHANGED claims
        /\ Moves(w, "sent")
    BY <1>4 DEF Send, OwnerStages
  <2>. QED
    BY <2>1, OwnerFails DEF OwnerStages
<1>5. ASSUME SendRefused(w) PROVE KeyInv'
  <2>. DEFINE a == [Fails(att[w], "internal") EXCEPT !.unknown = FALSE]
  <2>1. att[w].pc \in OwnerStages /\ Becomes(w, a) /\ UNCHANGED claims
    BY <1>5 DEF SendRefused, OwnerStages
  <2>2. a.pc \in OwnerStages /\ a.tx = att[w].tx
    BY DEF OwnerStages, Attempt, Fails, Sending, Admitted
  <2>. QED
    BY <2>1, <2>2, OwnerMoves
<1>6. ASSUME Confirm(w) PROVE KeyInv'
  <2>. DEFINE a == [Fails(att[w], "paid") EXCEPT !.unknown = FALSE]
              b == [Fails(att[w], "internal") EXCEPT !.unknown = FALSE, !.reconciling = FALSE]
  <2>1. att[w].pc \in OwnerStages /\ UNCHANGED claims /\ (Becomes(w, a) \/ Becomes(w, b))
    BY <1>6 DEF Confirm, OwnerStages
  <2>2. /\ a.pc \in OwnerStages /\ a.tx = att[w].tx
        /\ b.pc \in OwnerStages /\ b.tx = att[w].tx
    BY DEF OwnerStages, Attempt, Fails
  <2>. QED
    BY <2>1, <2>2, OwnerMoves
<1>7. ASSUME LoseOutcome(w) PROVE KeyInv'
  <2>1. /\ att[w].pc \in OwnerStages /\ UNCHANGED claims
        /\ Becomes(w, Fails(att[w], "internal"))
    BY <1>7 DEF LoseOutcome, OwnerStages
  <2>. QED
    BY <2>1, OwnerFails
<1>8. ASSUME InternalError(w) PROVE KeyInv'
  <2>1. /\ att[w].pc \in OwnerStages /\ UNCHANGED claims
        /\ Becomes(w, Fails(att[w], "internal"))
    BY <1>8 DEF InternalError, OwnerStages
  <2>. QED
    BY <2>1, OwnerFails
<1>. QED
  BY <1>1, <1>2, <1>3, <1>4, <1>5, <1>6, <1>7, <1>8

\* Cleanup before the key is released keeps it; a stop leaves it ownerless.
LEMMA CleanupKeys ==
  ASSUME ChargeTypeOK, KeyInv, NEW w \in Attempts
  PROVE  /\ LeavePayer(w) => KeyInv'
         /\ LeaveChallenge(w) => KeyInv'
         /\ LeaveMarker(w) => KeyInv'
         /\ Settle(w) => KeyInv'
         /\ Crash(w) => KeyInv'
<1>. att[w] \in Attempt
  BY AttemptFields
<1>1. ASSUME LeavePayer(w) PROVE KeyInv'
  <2>1. /\ att[w].pc \in OwnerStages /\ UNCHANGED claims
        /\ Moves(w, "unbinding")
    BY <1>1 DEF LeavePayer, OwnerStages
  <2>. QED
    BY <2>1, OwnerFails DEF OwnerStages
<1>2. ASSUME LeaveChallenge(w) PROVE KeyInv'
  <2>1. /\ att[w].pc \in OwnerStages /\ UNCHANGED claims
        /\ Moves(w, "unmarking")
    BY <1>2 DEF LeaveChallenge, OwnerStages
  <2>. QED
    BY <2>1, OwnerFails DEF OwnerStages
<1>3. ASSUME LeaveMarker(w) PROVE KeyInv'
  <2>1. /\ att[w].pc \in OwnerStages /\ UNCHANGED claims
        /\ Moves(w, "unclaiming")
    BY <1>3 DEF LeaveMarker, OwnerStages
  <2>. QED
    BY <2>1, OwnerFails DEF OwnerStages
<1>4. ASSUME Settle(w) PROVE KeyInv'
  <2>. DEFINE r == IF att[w].result = "refused" /\ Expires[att[w].tx] <= now
                   THEN "internal" ELSE att[w].result
  <2>1. att[w].pc = "settling" /\ Becomes(w, Ends(att[w], r)) /\ UNCHANGED claims
    BY <1>4 DEF Settle
  <2>2. KeepsKey(att[w], Ends(att[w], r))
    BY <2>1 DEF KeepsKey, HoldsKey, OwnerStages, Ends, Attempt
  <2>. QED
    BY <2>1, <2>2, KeyKept
<1>5. ASSUME Crash(w) PROVE KeyInv'
  BY <1>5, EndsUnpaid DEF Crash, Results
<1>. QED
  BY <1>1, <1>2, <1>3, <1>4, <1>5

\* The two steps that change the keys: the claim and its release.
LEMMA ClaimsKeys ==
  ASSUME ChargeTypeOK, KeyInv, NEW w \in Attempts
  PROVE  /\ ClaimTx(w) => KeyInv'
         /\ LeaveClaim(w) => KeyInv'
<1>. DEFINE t == att[w].tx
<1>. att[w] \in Attempt /\ t \in Txs
  BY AttemptFields
<1>1. ASSUME ClaimTx(w) PROVE KeyInv'
  <2>1. CASE t \in claims
    <3>1. Becomes(w, Ends(att[w], "replayed")) /\ UNCHANGED claims
      BY <1>1, <2>1 DEF ClaimTx, ChargeTypeOK
    <3>. QED
      BY <3>1, EndsUnpaid DEF Results
  <2>2. CASE t \notin claims
    <3>1. \A v \in Attempts : HoldsKey(att[v]) => att[v].tx # t
      BY <2>2 DEF KeyInv
    <3>2. /\ claims' = claims \cup {t}
          /\ att' = [att EXCEPT ![w] = [att[w] EXCEPT !.pc = "claimed"]]
      BY <1>1, <2>2 DEF ClaimTx, Moves, Becomes
    <3>3. /\ att'[w].tx = t /\ att'[w].pc = "claimed"
          /\ \A v \in Attempts \ {w} : att'[v] = att[v]
      BY <3>2 DEF ChargeTypeOK, Attempt
    <3>4. /\ HoldsKey(att'[w])
          /\ \A v \in Attempts : HoldsKey(att[v])' <=> HoldsKey(att'[v])
      BY <3>3 DEF HoldsKey, OwnerStages
    <3>. QED
      BY <3>1, <3>2, <3>3, <3>4 DEF KeyInv
  <2>. QED
    BY <2>1, <2>2
<1>2. ASSUME LeaveClaim(w) PROVE KeyInv'
  <2>1. /\ att[w].pc = "unclaiming"
        /\ att' = [att EXCEPT ![w] = [att[w] EXCEPT !.pc = "settling"]]
        /\ claims' = IF att[w].result = "paid" THEN claims ELSE claims \ {t}
    BY <1>2 DEF LeaveClaim, KeepsClaim, Moves, Becomes
  <2>2. /\ att'[w].tx = t /\ att'[w].pc = "settling" /\ att'[w].result = att[w].result
        /\ \A v \in Attempts \ {w} : att'[v] = att[v]
    BY <2>1 DEF ChargeTypeOK, Attempt
  <2>3. /\ HoldsKey(att[w])
        /\ HoldsKey(att'[w]) <=> att[w].result = "paid"
        /\ \A v \in Attempts : HoldsKey(att[v])' <=> HoldsKey(att'[v])
    BY <2>1, <2>2 DEF HoldsKey, OwnerStages
  <2>4. \A v \in Attempts \ {w} : HoldsKey(att[v]) => att[v].tx # t
    BY <2>3 DEF KeyInv
  <2>. QED
    BY <2>1, <2>2, <2>3, <2>4 DEF KeyInv
<1>. QED
  BY <1>1, <1>2

\* Every step keeps the keys with their owners.
LEMMA KeyStep == ChargeTypeOK /\ KeyInv /\ [Next]_vars => KeyInv'
<1>. SUFFICES ASSUME ChargeTypeOK, KeyInv, [Next]_vars PROVE KeyInv'
  OBVIOUS
<1>1. CASE AdmissionNext
  BY <1>1, AdmissionKeys, ClaimsKeys DEF AdmissionNext
<1>2. CASE BudgetNext
  <2>1. CASE UNCHANGED <<att, claims>>
    BY <2>1 DEF KeyInv, HoldsKey
  <2>2. \/ UNCHANGED <<att, claims>>
        \/ \E w \in Attempts : RefuseFloor(w) \/ RefuseSimulation(w) \/ Reserve(w) \/ RefuseBudget(w)
    BY <1>2 DEF BudgetNext, StartSweep, SweepStale, SweepLookup, SweepSettled
  <2>. QED
    BY <2>1, <2>2, BudgetKeys
<1>3. CASE SubmissionNext
  BY <1>3, SubmissionKeys DEF SubmissionNext
<1>4. CASE CleanupNext
  BY <1>4, CleanupKeys, ClaimsKeys DEF CleanupNext
<1>5. CASE (\E t \in Txs : Include(t)) \/ Tick \/ UNCHANGED vars
  <2>1. UNCHANGED <<att, claims>>
    BY <1>5 DEF Include, Tick, vars
  <2>. QED
    BY <2>1 DEF KeyInv, HoldsKey
<1>. QED
  BY <1>1, <1>2, <1>3, <1>4, <1>5 DEF Next

\* However many attempts present one transaction, overlap, stop or are retried
\* after an unknown outcome, at most one of them is answered with a receipt.
THEOREM PaysOnce == Spec => []PaidOnce
<1>1. Init => KeyInv
  <2>. SUFFICES ASSUME Init PROVE KeyInv
    OBVIOUS
  <2>1. \A w \in Attempts : att[w].pc = "idle" /\ att[w].result = "none"
    BY DEF Init, Fresh
  <2>. QED
    BY <2>1 DEF KeyInv, HoldsKey, OwnerStages
<1>2. KeyInv => PaidOnce
  BY DEF KeyInv, PaidOnce
<1>. QED
  BY <1>1, <1>2, KeyStep, ChargeTypeCorrect, PTL DEF Spec

-----------------------------------------------------------------------------
(* What the flags of an attempt say at each stage.                         *)

BoundStages == {"bound", "admitted", "reserved", "ready", "broadcasting", "sent",
                "leaving", "unbinding"}

LeavingStages == {"leaving", "unbinding", "unmarking", "unclaiming", "settling"}

\* An attempt binds, is admitted, reserves or resends, marks and sends in this
\* order, and has its answer when it leaves.
Flags(a) ==
  /\ a.pc \in {"idle", "begun", "claimed"} => ~a.bound
  /\ a.pc \in {"idle", "begun", "claimed", "bound"} => ~a.admitted
  /\ a.pc \in {"bound", "admitted", "reserved", "ready", "broadcasting", "sent"} => a.bound
  /\ a.pc \in {"idle", "begun", "claimed", "bound", "admitted", "reserved", "ready"} =>
       ~a.sent /\ ~a.unknown
  /\ a.pc \in {"broadcasting", "sent"} => a.sent /\ a.unknown
  /\ a.pc \notin LeavingStages \cup {"done"} => ~a.excluded /\ a.result = "none"
  /\ a.pc = "reserved" \/ a.held \/ a.marked => ~a.reconciling
  /\ a.pc \in {"idle", "begun", "claimed", "bound", "admitted"} => ~a.held /\ ~a.marked

FlagInv == \A w \in Attempts : Flags(att[w])

\* An attempt that becomes another with proper flags keeps the invariant.
LEMMA FlagsKept ==
  ASSUME ChargeTypeOK, FlagInv, NEW w \in Attempts, NEW a, Flags(a), Becomes(w, a)
  PROVE  FlagInv'
<1>1. att'[w] = a /\ \A v \in Attempts \ {w} : att'[v] = att[v]
  BY DEF Becomes, ChargeTypeOK
<1>2. \A v \in Attempts : Flags(att'[v])
  BY <1>1 DEF FlagInv
<1>. QED
  BY <1>2 DEF FlagInv, Flags

\* Failing and ending keep the flags.
LEMMA FailsFlags ==
  ASSUME NEW a \in Attempt, Flags(a), NEW r
  PROVE  Flags(Fails(a, r)) /\ Flags(Ends(a, r))
<1>1. Flags(Fails(a, r))
  BY DEF Flags, Fails, Attempt, LeavingStages
<1>2. Flags(Ends(a, r))
  BY DEF Flags, Ends, Attempt, LeavingStages
<1>. QED
  BY <1>1, <1>2

\* Each stage sets its flags in order.
LEMMA StageFlags ==
  ASSUME NEW a \in Attempt, Flags(a)
  PROVE  /\ a.pc = "idle" => \A b \in BOOLEAN : Flags([a EXCEPT !.pc = "begun", !.reconciling = b])
         /\ a.pc = "begun" => Flags([a EXCEPT !.pc = "claimed"])
         /\ a.pc = "claimed" => Flags([a EXCEPT !.pc = "bound", !.bound = TRUE])
         /\ a.pc = "bound" => Flags(Admitted(a))
         /\ a.pc = "admitted" => Flags([Fails(a, "refused") EXCEPT !.reconciling = FALSE, !.excluded = TRUE])
         /\ a.pc = "admitted" => Flags([a EXCEPT !.pc = "ready"])
         /\ a.pc = "admitted" /\ ~a.reconciling => Flags([a EXCEPT !.pc = "reserved", !.held = TRUE])
         /\ a.pc = "admitted" => Flags([a EXCEPT !.waiting = TRUE])
         /\ a.pc = "reserved" => Flags([a EXCEPT !.pc = "ready", !.marked = TRUE])
         /\ a.pc = "ready" => Flags(Sending(a))
         /\ a.pc = "broadcasting" => Flags([a EXCEPT !.pc = "sent"])
         /\ Flags([Fails(a, "internal") EXCEPT !.unknown = FALSE])
         /\ Flags([Fails(a, "paid") EXCEPT !.unknown = FALSE])
         /\ Flags([Fails(a, "internal") EXCEPT !.unknown = FALSE, !.reconciling = FALSE])
         /\ a.pc \in LeavingStages =>
              \A pc \in LeavingStages \cup {"done"} : Flags([a EXCEPT !.pc = pc])
<1>1. a.pc = "idle" => \A b \in BOOLEAN : Flags([a EXCEPT !.pc = "begun", !.reconciling = b])
  BY DEF Flags, Attempt, LeavingStages
<1>2. /\ a.pc = "begun" => Flags([a EXCEPT !.pc = "claimed"])
      /\ a.pc = "claimed" => Flags([a EXCEPT !.pc = "bound", !.bound = TRUE])
  BY DEF Flags, Attempt, LeavingStages
<1>3. a.pc = "bound" => Flags(Admitted(a))
  BY DEF Flags, Admitted, Attempt, LeavingStages
<1>4. Flags([Fails(a, "refused") EXCEPT !.reconciling = FALSE, !.excluded = TRUE])
  BY DEF Flags, Fails, Attempt, LeavingStages
<1>5. /\ a.pc = "admitted" => Flags([a EXCEPT !.pc = "ready"])
      /\ a.pc = "admitted" => Flags([a EXCEPT !.waiting = TRUE])
  BY DEF Flags, Attempt, LeavingStages
<1>6. a.pc = "admitted" /\ ~a.reconciling => Flags([a EXCEPT !.pc = "reserved", !.held = TRUE])
  BY DEF Flags, Attempt, LeavingStages
<1>7. a.pc = "reserved" => Flags([a EXCEPT !.pc = "ready", !.marked = TRUE])
  BY DEF Flags, Attempt, LeavingStages
<1>8. a.pc = "ready" => Flags(Sending(a))
  BY DEF Flags, Sending, Attempt, LeavingStages
<1>9. a.pc = "broadcasting" => Flags([a EXCEPT !.pc = "sent"])
  BY DEF Flags, Attempt, LeavingStages
<1>10. /\ Flags([Fails(a, "internal") EXCEPT !.unknown = FALSE])
       /\ Flags([Fails(a, "paid") EXCEPT !.unknown = FALSE])
       /\ Flags([Fails(a, "internal") EXCEPT !.unknown = FALSE, !.reconciling = FALSE])
  BY DEF Flags, Fails, Attempt, LeavingStages
<1>11. a.pc \in LeavingStages =>
              \A pc \in LeavingStages \cup {"done"} : Flags([a EXCEPT !.pc = pc])
  BY DEF Flags, Attempt, LeavingStages
<1>. QED
  BY <1>1, <1>2, <1>3, <1>4, <1>5, <1>6, <1>7, <1>8, <1>9, <1>10, <1>11

\* The attempt ends a step with proper flags.
LEMMA AdmissionFlags ==
  ASSUME ChargeTypeOK, FlagInv, NEW w \in Attempts
  PROVE  /\ Begin(w) => FlagInv'
         /\ RefuseExpired(w) => FlagInv'
         /\ ClaimTx(w) => FlagInv'
         /\ BindChallenge(w) => FlagInv'
         /\ ClaimPayer(w) => FlagInv'
         /\ ReconcilePaid(w) => FlagInv'
         /\ ReconcileExcluded(w) => FlagInv'
         /\ Resend(w) => FlagInv'
<1>. DEFINE a == att[w]
<1>. a \in Attempt /\ Flags(a)
  BY AttemptFields DEF FlagInv
<1>1. /\ \A r : Becomes(w, Fails(a, r)) \/ Becomes(w, Ends(a, r)) => FlagInv'
      /\ UNCHANGED att => FlagInv'
  BY FailsFlags, FlagsKept DEF FlagInv, Flags
<1>2. Begin(w) => FlagInv'
  <2>1. (a.tx \in marker) \in BOOLEAN
    OBVIOUS
  <2>. QED
    BY <2>1, StageFlags, FlagsKept DEF Begin
<1>3. RefuseExpired(w) => FlagInv'
  BY <1>1 DEF RefuseExpired
<1>4. ClaimTx(w) => FlagInv'
  BY <1>1, StageFlags, FlagsKept DEF ClaimTx, Moves
<1>5. BindChallenge(w) => FlagInv'
  BY <1>1, StageFlags, FlagsKept DEF BindChallenge
<1>6. ClaimPayer(w) => FlagInv'
  BY <1>1, StageFlags, FlagsKept DEF ClaimPayer
<1>7. ReconcilePaid(w) => FlagInv'
  BY <1>1 DEF ReconcilePaid
<1>8. ReconcileExcluded(w) => FlagInv'
  BY StageFlags, FlagsKept DEF ReconcileExcluded, Reconciling
<1>9. Resend(w) => FlagInv'
  BY StageFlags, FlagsKept DEF Resend, Reconciling, Moves
<1>. QED
  BY <1>2, <1>3, <1>4, <1>5, <1>6, <1>7, <1>8, <1>9

\* So do the checks, the reservation, the submission and the cleanup.
LEMMA SubmissionFlags ==
  ASSUME ChargeTypeOK, FlagInv, NEW w \in Attempts
  PROVE  /\ RefuseFloor(w) => FlagInv'
         /\ RefuseSimulation(w) => FlagInv'
         /\ Reserve(w) => FlagInv'
         /\ RefuseBudget(w) => FlagInv'
         /\ Mark(w) => FlagInv'
         /\ RefuseChallenge(w) => FlagInv'
         /\ StartBroadcast(w) => FlagInv'
         /\ Send(w) => FlagInv'
         /\ SendRefused(w) => FlagInv'
         /\ Confirm(w) => FlagInv'
         /\ LoseOutcome(w) => FlagInv'
         /\ InternalError(w) => FlagInv'
         /\ LeavePayer(w) => FlagInv'
         /\ LeaveChallenge(w) => FlagInv'
         /\ LeaveMarker(w) => FlagInv'
         /\ LeaveClaim(w) => FlagInv'
         /\ Settle(w) => FlagInv'
         /\ Crash(w) => FlagInv'
<1>. DEFINE a == att[w]
<1>. a \in Attempt /\ Flags(a)
  BY AttemptFields DEF FlagInv
<1>1. \A r : Becomes(w, Fails(a, r)) \/ Becomes(w, Ends(a, r)) => FlagInv'
  BY FailsFlags, FlagsKept
<1>2. a.pc \in LeavingStages => \A pc \in LeavingStages : Moves(w, pc) => FlagInv'
  BY StageFlags, FlagsKept DEF Moves
<1>3. RefuseFloor(w) \/ RefuseSimulation(w) \/ RefuseBudget(w) \/ RefuseChallenge(w) => FlagInv'
  BY <1>1 DEF RefuseFloor, RefuseSimulation, RefuseBudget, RefuseChallenge
<1>4. Reserve(w) => FlagInv'
  BY <1>1, StageFlags, FlagsKept DEF Reserve
<1>5. Mark(w) => FlagInv'
  BY <1>1, StageFlags, FlagsKept DEF Mark
<1>6. StartBroadcast(w) => FlagInv'
  BY <1>1, StageFlags, FlagsKept DEF StartBroadcast
<1>7. Send(w) => FlagInv'
  BY StageFlags, FlagsKept DEF Send, Moves
<1>8. SendRefused(w) \/ Confirm(w) => FlagInv'
  BY StageFlags, FlagsKept DEF SendRefused, Confirm
<1>9. LoseOutcome(w) \/ InternalError(w) \/ Crash(w) => FlagInv'
  BY <1>1 DEF LoseOutcome, InternalError, Crash
<1>10. LeavePayer(w) \/ LeaveChallenge(w) \/ LeaveMarker(w) \/ LeaveClaim(w) => FlagInv'
  BY <1>2 DEF LeavePayer, LeaveChallenge, LeaveMarker, LeaveClaim, LeavingStages
<1>11. Settle(w) => FlagInv'
  BY <1>1 DEF Settle
<1>. QED
  BY <1>3, <1>4, <1>5, <1>6, <1>7, <1>8, <1>9, <1>10, <1>11

\* Every step keeps the flags of every attempt.
LEMMA FlagStep == ChargeTypeOK /\ FlagInv /\ [Next]_vars => FlagInv'
<1>. SUFFICES ASSUME ChargeTypeOK, FlagInv, [Next]_vars PROVE FlagInv'
  OBVIOUS
<1>1. CASE AdmissionNext
  BY <1>1, AdmissionFlags DEF AdmissionNext
<1>2. UNCHANGED att => FlagInv'
  BY DEF FlagInv, Flags
<1>3. CASE BudgetNext
  <2>1. \/ UNCHANGED att
        \/ \E w \in Attempts : RefuseFloor(w) \/ RefuseSimulation(w) \/ Reserve(w) \/ RefuseBudget(w)
    BY <1>3 DEF BudgetNext, StartSweep, SweepStale, SweepLookup, SweepSettled
  <2>. QED
    BY <1>2, <2>1, SubmissionFlags
<1>4. CASE SubmissionNext
  BY <1>4, SubmissionFlags DEF SubmissionNext
<1>5. CASE CleanupNext
  BY <1>5, SubmissionFlags DEF CleanupNext
<1>6. CASE (\E t \in Txs : Include(t)) \/ Tick \/ UNCHANGED vars
  BY <1>2, <1>6 DEF Include, Tick, vars
<1>. QED
  BY <1>1, <1>3, <1>4, <1>5, <1>6 DEF Next

-----------------------------------------------------------------------------
(* One transaction in flight per payer.                                    *)

AdmittedStages == {"admitted", "reserved", "ready", "broadcasting"}

\* The attempt may free the payer: it was admitted, and neither it nor an
\* earlier attempt has an unknown outcome.
MayFree(a) ==
  /\ a.pc \in OwnerStages /\ a.admitted /\ ~a.reconciling
  /\ a.pc = "broadcasting" \/ ~a.unknown

\* A pooled transaction is the one its payer is recorded with; an admitted
\* attempt has the record, or its transaction is over and will not be pooled
\* again; an attempt that may free the payer has nothing in the pool.
PayerInv ==
  /\ \A t \in Txs : chain[t] = "pooled" => payers[PayerOf[t]] = t /\ ChainNow < ValidBefore[t]
  /\ \A w \in Attempts : att[w].pc \in AdmittedStages =>
       payers[PayerOf[att[w].tx]] = att[w].tx \/ IsOver(att[w].tx)
  /\ \A w \in Attempts : MayFree(att[w]) => chain[att[w].tx] # "pooled"
  /\ \A w \in Attempts : att[w].result = "paid" => chain[att[w].tx] = "paid"

\* What an attempt may become while chain and payers stay.
KeepsPayer(a, b) ==
  /\ b.tx = a.tx
  /\ b.pc \in AdmittedStages => a.pc \in AdmittedStages
  /\ MayFree(b) => MayFree(a) \/ chain[a.tx] # "pooled"
  /\ b.result = "paid" => a.result = "paid" \/ chain[a.tx] = "paid"

\* Such a change keeps the invariant.
LEMMA PayerKept ==
  ASSUME ChargeTypeOK, PayerInv, NEW w \in Attempts, NEW a,
         KeepsPayer(att[w], a), Becomes(w, a), UNCHANGED <<now, chain, payers>>
  PROVE  PayerInv'
<1>1. att'[w] = a /\ \A v \in Attempts \ {w} : att'[v] = att[v]
  BY DEF Becomes, ChargeTypeOK
<1>2. \A v \in Attempts : KeepsPayer(att[v], att'[v])
  BY <1>1 DEF KeepsPayer
<1>3. \A v \in Attempts : MayFree(att[v])' <=> MayFree(att'[v])
  BY DEF MayFree
<1>4. \A t : IsOver(t)' <=> IsOver(t)
  BY DEF IsOver, ChainNow
<1>. QED
  BY <1>2, <1>3, <1>4 DEF PayerInv, KeepsPayer, ChainNow

\* Failing, ending and leaving keep the payers' records.
LEMMA FailsKeepPayer ==
  ASSUME ChargeTypeOK, PayerInv, NEW w \in Attempts, UNCHANGED <<now, chain, payers>>
  PROVE  /\ \A r : att[w].pc \in OwnerStages /\ (r # "paid" \/ chain[att[w].tx] = "paid")
                     /\ Becomes(w, Fails(att[w], r)) => PayerInv'
         /\ \A r : (r # "paid" \/ att[w].result = "paid") /\ Becomes(w, Ends(att[w], r)) => PayerInv'
         /\ att[w].pc \in LeavingStages \ {"settling"} =>
              \A pc \in LeavingStages : Moves(w, pc) => PayerInv'
<1>. DEFINE a == att[w]
<1>. a \in Attempt
  BY AttemptFields
<1>1. \A r : a.pc \in OwnerStages /\ (r # "paid" \/ chain[a.tx] = "paid") => KeepsPayer(a, Fails(a, r))
  BY DEF KeepsPayer, MayFree, Fails, Attempt, AdmittedStages, OwnerStages
<1>2. \A r : (r # "paid" \/ a.result = "paid") => KeepsPayer(a, Ends(a, r))
  BY DEF KeepsPayer, MayFree, Ends, Attempt, AdmittedStages, OwnerStages
<1>3. a.pc \in LeavingStages \ {"settling"} =>
        \A pc \in LeavingStages : KeepsPayer(a, [a EXCEPT !.pc = pc])
  BY DEF KeepsPayer, MayFree, LeavingStages, Attempt, AdmittedStages, OwnerStages
<1>. QED
  BY <1>1, <1>2, <1>3, PayerKept DEF Moves

\* Admission and reconciliation keep the payers' records, up to the claim.
LEMMA AdmissionPayers ==
  ASSUME ChargeTypeOK, FlagInv, PayerInv, NEW w \in Attempts
  PROVE  /\ Begin(w) => PayerInv'
         /\ RefuseExpired(w) => PayerInv'
         /\ ClaimTx(w) => PayerInv'
         /\ BindChallenge(w) => PayerInv'
         /\ ReconcilePaid(w) => PayerInv'
         /\ ReconcileExcluded(w) => PayerInv'
         /\ Resend(w) => PayerInv'
<1>. DEFINE a == att[w]
<1>. a \in Attempt /\ Flags(a)
  BY AttemptFields DEF FlagInv
<1>1. ASSUME Begin(w) PROVE PayerInv'
  <2>1. KeepsPayer(a, [a EXCEPT !.pc = "begun", !.reconciling = a.tx \in marker])
    BY <1>1 DEF Begin, KeepsPayer, MayFree, AdmittedStages, OwnerStages, Attempt, Flags, LeavingStages
  <2>. QED
    BY <1>1, <2>1, PayerKept DEF Begin, admission
<1>2. ASSUME RefuseExpired(w) PROVE PayerInv'
  <2>1. \E r \in {"internal", "refused"} : Becomes(w, Ends(a, r))
    BY <1>2 DEF RefuseExpired, Refusal
  <2>. QED
    BY <1>2, <2>1, FailsKeepPayer DEF RefuseExpired, admission
<1>3. ASSUME ClaimTx(w) PROVE PayerInv'
  <2>1. KeepsPayer(a, [a EXCEPT !.pc = "claimed"])
    BY <1>3 DEF ClaimTx, KeepsPayer, MayFree, AdmittedStages, OwnerStages, Attempt, Flags, LeavingStages
  <2>. QED
    BY <1>3, <2>1, PayerKept, FailsKeepPayer DEF ClaimTx, Moves, admission
<1>4. ASSUME BindChallenge(w) PROVE PayerInv'
  <2>1. KeepsPayer(a, [a EXCEPT !.pc = "bound", !.bound = TRUE])
    BY <1>4 DEF BindChallenge, KeepsPayer, MayFree, AdmittedStages, OwnerStages, Attempt, Flags, LeavingStages
  <2>. QED
    BY <1>4, <2>1, PayerKept, FailsKeepPayer DEF BindChallenge, OwnerStages
<1>5. ASSUME ReconcilePaid(w) PROVE PayerInv'
  BY <1>5, FailsKeepPayer DEF ReconcilePaid, Reconciling, OwnerStages, admission
<1>6. ASSUME ReconcileExcluded(w) PROVE PayerInv'
  <2>1. KeepsPayer(a, [Fails(a, "refused") EXCEPT !.reconciling = FALSE, !.excluded = TRUE])
    BY <1>6 DEF ReconcileExcluded, KeepsPayer, MayFree, Fails, AdmittedStages, OwnerStages, Attempt
  <2>. QED
    BY <1>6, <2>1, PayerKept DEF ReconcileExcluded, admission
<1>7. ASSUME Resend(w) PROVE PayerInv'
  <2>1. KeepsPayer(a, [a EXCEPT !.pc = "ready"])
    BY <1>7 DEF Resend, Reconciling, KeepsPayer, MayFree, AdmittedStages, OwnerStages, Attempt
  <2>. QED
    BY <1>7, <2>1, PayerKept DEF Resend, Moves, admission
<1>. QED
  BY <1>1, <1>2, <1>3, <1>4, <1>5, <1>6, <1>7

\* A claim of the payer finds no other transaction in the pool: the record it
\* replaces is over, and an attempt that goes on without the record knows that
\* its transaction can no longer be included.
LEMMA ClaimPayerPayers ==
  ASSUME ChargeTypeOK, FlagInv, PayerInv, NEW w \in Attempts, ClaimPayer(w)
  PROVE  PayerInv'
<1>. DEFINE a == att[w]
            t == a.tx
            p == PayerOf[t]
<1>. a \in Attempt /\ Flags(a) /\ t \in Txs /\ p \in Payers
  BY AttemptFields DEF FlagInv, Payers
<1>0. /\ UNCHANGED <<now, chain>> /\ a.pc = "bound"
      /\ now \in Nat /\ ChainLag \in Nat /\ ChainLag <= Grace /\ Grace \in Nat /\ ValidBefore[t] \in Nat
  BY BudgetAssumption, ChargeAssumption DEF ClaimPayer, ChargeTypeOK
<1>1. ASSUME a.reconciling, ExpiresAt(t) <= now \/ payers[p] = t, UNCHANGED payers,
             Becomes(w, Admitted(a))
      PROVE  PayerInv'
  <2>1. payers[p] = t \/ IsOver(t)
    <3>1. CASE ExpiresAt(t) <= now
      <4>1. ChainNow >= ValidBefore[t]
        BY <1>0, <3>1 DEF ExpiresAt, ChainNow
      <4>2. chain[t] # "pooled"
        BY <1>0, <4>1 DEF PayerInv, ChainNow
      <4>. QED
        BY <4>1, <4>2 DEF IsOver, ChargeTypeOK
    <3>. QED
      BY <1>1, <3>1
  <2>2. /\ att'[w] = Admitted(a) /\ \A v \in Attempts \ {w} : att'[v] = att[v]
        /\ Admitted(a).tx = t /\ ~MayFree(Admitted(a)) /\ Admitted(a).result # "paid"
    BY <1>0, <1>1 DEF Becomes, ChargeTypeOK, Admitted, MayFree, Attempt, Flags, LeavingStages
  <2>3. \A v \in Attempts : MayFree(att[v])' <=> MayFree(att'[v])
    BY DEF MayFree
  <2>4. \A u : IsOver(u)' <=> IsOver(u)
    BY <1>0 DEF IsOver, ChainNow
  <2>. QED
    BY <1>0, <1>1, <2>1, <2>2, <2>3, <2>4 DEF PayerInv, ChainNow
<1>2. ASSUME payers[p] = "none", payers' = [payers EXCEPT ![p] = t], Becomes(w, Admitted(a))
      PROVE  PayerInv'
  <2>1. \A u \in Txs : PayerOf[u] = p => chain[u] # "pooled"
    BY <1>2, ChargeAssumption DEF PayerInv
  <2>2. /\ att'[w] = Admitted(a) /\ \A v \in Attempts \ {w} : att'[v] = att[v]
        /\ Admitted(a).tx = t /\ Admitted(a).result # "paid"
    BY <1>0, <1>2 DEF Becomes, ChargeTypeOK, Admitted, Attempt, Flags, LeavingStages
  <2>3. \A v \in Attempts : MayFree(att[v])' <=> MayFree(att'[v])
    BY DEF MayFree
  <2>4. \A u : IsOver(u)' <=> IsOver(u)
    BY <1>0 DEF IsOver, ChainNow
  <2>5. payers'[p] = t /\ \A q \in Payers \ {p} : payers'[q] = payers[q]
    BY <1>2 DEF ChargeTypeOK
  <2>6. \A v \in Attempts : att[v].tx \in Txs /\ PayerOf[att[v].tx] \in Payers
    BY AttemptFields DEF Payers
  <2>7. \A v \in Attempts \ {w} : att[v].pc \in AdmittedStages /\ PayerOf[att[v].tx] = p =>
          IsOver(att[v].tx)
    BY <1>2, <2>6, ChargeAssumption DEF PayerInv
  <2>8. \A u \in Txs : chain[u] = "pooled" => payers'[PayerOf[u]] = u
    BY <2>1, <2>5 DEF PayerInv, Payers
  <2>9. \A v \in Attempts : att'[v].pc \in AdmittedStages =>
          payers'[PayerOf[att'[v].tx]] = att'[v].tx \/ IsOver(att'[v].tx)
    BY <2>2, <2>5, <2>6, <2>7 DEF PayerInv
  <2>10. \A v \in Attempts : MayFree(att'[v]) => chain[att'[v].tx] # "pooled"
    BY <2>1, <2>2 DEF PayerInv
  <2>. QED
    BY <1>0, <2>2, <2>3, <2>4, <2>8, <2>9, <2>10 DEF PayerInv, ChainNow
<1>3. ASSUME payers[p] # "none", IsOver(payers[p]), payers' = [payers EXCEPT ![p] = "none"],
             UNCHANGED att
      PROVE  PayerInv'
  <2>1. \A u \in Txs : PayerOf[u] = p => chain[u] # "pooled"
    BY <1>3 DEF PayerInv, IsOver
  <2>2. payers'[p] = "none" /\ \A q \in Payers \ {p} : payers'[q] = payers[q]
    BY <1>3 DEF ChargeTypeOK
  <2>3. \A v \in Attempts : MayFree(att[v])' <=> MayFree(att[v])
    BY <1>3 DEF MayFree
  <2>4. \A u : IsOver(u)' <=> IsOver(u)
    BY <1>0 DEF IsOver, ChainNow
  <2>5. \A v \in Attempts : att[v].tx \in Txs /\ PayerOf[att[v].tx] \in Payers
    BY AttemptFields DEF Payers
  <2>6. \A u \in Txs : chain[u] = "pooled" => payers'[PayerOf[u]] = u
    BY <2>1, <2>2 DEF PayerInv, Payers
  <2>7. \A v \in Attempts : att[v].pc \in AdmittedStages =>
          payers'[PayerOf[att[v].tx]] = att[v].tx \/ IsOver(att[v].tx)
    BY <1>3, <2>2, <2>5 DEF PayerInv
  <2>. QED
    BY <1>0, <1>3, <2>3, <2>4, <2>6, <2>7 DEF PayerInv, ChainNow
<1>4. ASSUME NEW r, r # "paid", Becomes(w, Fails(a, r)), UNCHANGED payers
      PROVE  PayerInv'
  BY <1>0, <1>4, FailsKeepPayer DEF OwnerStages
<1>5. \/ /\ a.reconciling /\ (ExpiresAt(t) <= now \/ payers[p] = t)
         /\ Becomes(w, Admitted(a)) /\ UNCHANGED payers
      \/ /\ payers[p] = "none" /\ payers' = [payers EXCEPT ![p] = t]
         /\ Becomes(w, Admitted(a))
      \/ /\ payers[p] # "none" /\ IsOver(payers[p])
         /\ payers' = [payers EXCEPT ![p] = "none"] /\ UNCHANGED att
      \/ \E r : r # "paid" /\ Becomes(w, Fails(a, r)) /\ UNCHANGED payers
  BY DEF ClaimPayer
<1>. QED
  BY <1>1, <1>2, <1>3, <1>4, <1>5

\* Checks, reservation and submission keep the payers' records.
LEMMA SubmissionPayers ==
  ASSUME ChargeTypeOK, FlagInv, PayerInv, NEW w \in Attempts
  PROVE  /\ RefuseFloor(w) => PayerInv'
         /\ RefuseSimulation(w) => PayerInv'
         /\ Reserve(w) => PayerInv'
         /\ RefuseBudget(w) => PayerInv'
         /\ Mark(w) => PayerInv'
         /\ RefuseChallenge(w) => PayerInv'
         /\ StartBroadcast(w) => PayerInv'
         /\ SendRefused(w) => PayerInv'
         /\ Confirm(w) => PayerInv'
         /\ LoseOutcome(w) => PayerInv'
         /\ InternalError(w) => PayerInv'
<1>. DEFINE a == att[w]
<1>. a \in Attempt /\ Flags(a)
  BY AttemptFields DEF FlagInv
<1>1. ASSUME a.pc \in OwnerStages, UNCHANGED <<now, chain, payers>>,
             NEW r, r # "paid", Becomes(w, Fails(a, r))
      PROVE  PayerInv'
  BY <1>1, FailsKeepPayer
<1>2. ASSUME RefuseFloor(w) \/ RefuseSimulation(w) \/ RefuseBudget(w) \/ RefuseChallenge(w)
               \/ LoseOutcome(w) \/ InternalError(w)
      PROVE  PayerInv'
  <2>1. a.pc \in OwnerStages /\ UNCHANGED <<now, chain, payers>>
    BY <1>2 DEF RefuseFloor, RefuseSimulation, RefuseBudget, RefuseChallenge, LoseOutcome,
                InternalError, OwnerStages, admission
  <2>2. \E r : r # "paid" /\ Becomes(w, Fails(a, r))
    BY <1>2 DEF RefuseFloor, RefuseSimulation, RefuseBudget, RefuseChallenge, LoseOutcome,
                InternalError, Refusal
  <2>. QED
    BY <1>1, <2>1, <2>2
<1>3. ASSUME Reserve(w) PROVE PayerInv'
  <2>1. /\ a.pc = "admitted" /\ UNCHANGED <<now, chain, payers>>
        /\ \/ Becomes(w, Fails(a, "internal"))
           \/ Becomes(w, [a EXCEPT !.pc = "reserved", !.held = TRUE])
           \/ Becomes(w, [a EXCEPT !.waiting = TRUE])
    BY <1>3 DEF Reserve, admission
  <2>2. /\ KeepsPayer(a, [a EXCEPT !.pc = "reserved", !.held = TRUE])
        /\ KeepsPayer(a, [a EXCEPT !.waiting = TRUE])
    BY <2>1 DEF KeepsPayer, MayFree, AdmittedStages, OwnerStages, Attempt
  <2>. QED
    BY <1>1, <2>1, <2>2, PayerKept DEF OwnerStages
<1>4. ASSUME Mark(w) PROVE PayerInv'
  <2>1. /\ a.pc = "reserved" /\ UNCHANGED <<now, chain, payers>>
        /\ \/ Becomes(w, Fails(a, "internal"))
           \/ Becomes(w, [a EXCEPT !.pc = "ready", !.marked = TRUE])
    BY <1>4 DEF Mark, admission
  <2>2. KeepsPayer(a, [a EXCEPT !.pc = "ready", !.marked = TRUE])
    BY <2>1 DEF KeepsPayer, MayFree, AdmittedStages, OwnerStages, Attempt
  <2>. QED
    BY <1>1, <2>1, <2>2, PayerKept DEF OwnerStages
<1>5. ASSUME StartBroadcast(w) PROVE PayerInv'
  <2>1. /\ a.pc = "ready" /\ UNCHANGED <<now, chain, payers>>
        /\ \/ Becomes(w, Fails(a, "refused"))
           \/ Becomes(w, Sending(a))
    BY <1>5 DEF StartBroadcast, admission
  <2>2. KeepsPayer(a, Sending(a))
    BY <2>1 DEF KeepsPayer, MayFree, Sending, AdmittedStages, OwnerStages, Attempt, Flags
  <2>. QED
    BY <1>1, <2>1, <2>2, PayerKept DEF OwnerStages
<1>6. ASSUME SendRefused(w) PROVE PayerInv'
  <2>1. a.pc = "broadcasting" /\ UNCHANGED <<now, chain, payers>>
    BY <1>6 DEF SendRefused, admission
  <2>2. KeepsPayer(a, [Fails(a, "internal") EXCEPT !.unknown = FALSE])
    BY <2>1 DEF KeepsPayer, MayFree, Fails, AdmittedStages, OwnerStages, Attempt
  <2>. QED
    BY <1>6, <2>1, <2>2, PayerKept DEF SendRefused
<1>7. ASSUME Confirm(w) PROVE PayerInv'
  <2>1. a.pc = "sent" /\ UNCHANGED <<now, chain, payers>>
    BY <1>7 DEF Confirm, admission
  <2>2. /\ chain[a.tx] = "paid" => KeepsPayer(a, [Fails(a, "paid") EXCEPT !.unknown = FALSE])
        /\ chain[a.tx] = "reverted" =>
             KeepsPayer(a, [Fails(a, "internal") EXCEPT !.unknown = FALSE, !.reconciling = FALSE])
    BY <2>1 DEF KeepsPayer, MayFree, Fails, AdmittedStages, OwnerStages, Attempt
  <2>. QED
    BY <1>7, <2>1, <2>2, PayerKept DEF Confirm
<1>. QED
  BY <1>2, <1>3, <1>4, <1>5, <1>6, <1>7

\* The send is of an attempt that has the payer's record, and of nobody else.
LEMMA SendPayers ==
  ASSUME ChargeTypeOK, KeyInv, FlagInv, PayerInv, NEW w \in Attempts, Send(w)
  PROVE  PayerInv'
<1>. DEFINE a == att[w]
            t == a.tx
<1>. a \in Attempt /\ Flags(a) /\ t \in Txs
  BY AttemptFields DEF FlagInv
<1>1. a.pc = "broadcasting" /\ UNCHANGED <<now, payers>>
  BY DEF Send, admission
<1>2. /\ att'[w].tx = t /\ att'[w].pc = "sent" /\ att'[w].result = a.result
      /\ att'[w].unknown /\ \A v \in Attempts \ {w} : att'[v] = att[v]
  <2>1. [a EXCEPT !.pc = "sent"].tx = t /\ [a EXCEPT !.pc = "sent"].pc = "sent"
        /\ [a EXCEPT !.pc = "sent"].result = a.result /\ [a EXCEPT !.pc = "sent"].unknown
    BY <1>1 DEF Attempt, Flags
  <2>. QED
    BY <2>1 DEF Send, Moves, Becomes, ChargeTypeOK
<1>3. ~MayFree(att'[w])
  BY <1>2 DEF MayFree
<1>4. \A v \in Attempts \ {w} : MayFree(att[v]) => att[v].tx # t
  BY <1>1 DEF KeyInv, HoldsKey, MayFree, OwnerStages
<1>5. \A v \in Attempts : MayFree(att[v])' <=> MayFree(att'[v])
  BY DEF MayFree
<1>6. \A u \in Txs : u # t => chain'[u] = chain[u]
  BY DEF Send, ChargeTypeOK
<1>7. CASE chain[t] = "none" /\ ChainNow < ValidBefore[t]
  <2>1. chain'[t] = "pooled"
    BY <1>7 DEF Send, ChargeTypeOK
  <2>2. payers[PayerOf[t]] = t /\ ~IsOver(t)
    <3>1. ~IsOver(t)
      BY <1>7, BudgetAssumption, ChargeAssumption DEF IsOver, ChainNow, ChargeTypeOK
    <3>. QED
      BY <1>1, <3>1 DEF PayerInv, AdmittedStages
  <2>3. \A u \in Txs : chain'[u] = "pooled" => payers[PayerOf[u]] = u /\ ChainNow < ValidBefore[u]
    BY <1>6, <1>7, <2>2 DEF PayerInv
  <2>4. \A u \in Txs : u # t => (IsOver(u)' <=> IsOver(u))
    BY <1>1, <1>6 DEF IsOver, ChainNow
  <2>5. \A v \in Attempts : att'[v].tx \in Txs /\ att'[v].tx = att[v].tx
    BY <1>2, AttemptFields
  <2>6. \A v \in Attempts : att'[v].pc \in AdmittedStages =>
          payers[PayerOf[att'[v].tx]] = att'[v].tx \/ IsOver(att[v].tx)'
    <3>1. \A v \in Attempts : att[v].tx \in Txs /\ (IsOver(att[v].tx) /\ att[v].tx # t =>
                                                     IsOver(att[v].tx)')
      BY <1>1, <1>6, <2>5 DEF IsOver, ChainNow
    <3>2. \A v \in Attempts : att'[v].pc \in AdmittedStages => att[v].pc \in AdmittedStages
      BY <1>2 DEF AdmittedStages
    <3>. QED
      BY <2>2, <2>5, <3>1, <3>2 DEF PayerInv
  <2>7. \A v \in Attempts : MayFree(att'[v]) => chain'[att'[v].tx] # "pooled"
    BY <1>2, <1>3, <1>4, <1>6, <2>5 DEF PayerInv
  <2>8. \A v \in Attempts : att'[v].result = "paid" => chain'[att'[v].tx] = "paid"
    BY <1>2, <1>6, <1>7, <2>5 DEF PayerInv
  <2>. QED
    BY <1>1, <1>5, <2>3, <2>6, <2>7, <2>8 DEF PayerInv, ChainNow
<1>8. CASE ~(chain[t] = "none" /\ ChainNow < ValidBefore[t])
  <2>1. UNCHANGED chain
    BY <1>8 DEF Send
  <2>2. KeepsPayer(a, [a EXCEPT !.pc = "sent"])
    BY <1>1 DEF KeepsPayer, MayFree, AdmittedStages, OwnerStages, Attempt, Flags
  <2>. QED
    BY <1>1, <2>1, <2>2, PayerKept DEF Send, Moves
<1>. QED
  BY <1>7, <1>8

\* An attempt frees its payer only when its transaction is not in the pool.
LEMMA LeavePayerPayers ==
  ASSUME ChargeTypeOK, KeyInv, FlagInv, PayerInv, NEW w \in Attempts, LeavePayer(w)
  PROVE  PayerInv'
<1>. DEFINE a == att[w]
            t == a.tx
            p == PayerOf[t]
<1>. a \in Attempt /\ Flags(a) /\ t \in Txs /\ p \in Payers
  BY AttemptFields DEF FlagInv, Payers
<1>1. a.pc = "leaving" /\ Moves(w, "unbinding") /\ UNCHANGED <<now, chain>>
  BY DEF LeavePayer
<1>2. CASE UNCHANGED payers
  BY <1>1, <1>2, FailsKeepPayer DEF LeavingStages
<1>3. CASE FreesPayer(a) /\ payers[p] = t /\ payers' = [payers EXCEPT ![p] = "none"]
  <2>1. chain[t] # "pooled"
    BY <1>1, <1>3 DEF FreesPayer, PayerInv, MayFree, OwnerStages
  <2>2. payers'[p] = "none" /\ \A q \in Payers \ {p} : payers'[q] = payers[q]
    BY <1>3 DEF ChargeTypeOK
  <2>3. /\ att'[w] = [a EXCEPT !.pc = "unbinding"] /\ \A v \in Attempts \ {w} : att'[v] = att[v]
    BY <1>1 DEF Moves, Becomes, ChargeTypeOK
  <2>4. KeepsPayer(a, [a EXCEPT !.pc = "unbinding"])
    BY <1>1 DEF KeepsPayer, MayFree, AdmittedStages, OwnerStages, Attempt
  <2>5. att'[w].pc \notin AdmittedStages
    BY <2>3 DEF AdmittedStages, Attempt
  <2>6. \A v \in Attempts : /\ KeepsPayer(att[v], att'[v])
                            /\ att[v].tx \in Txs /\ att'[v].tx = att[v].tx
                            /\ PayerOf[att[v].tx] \in Payers
    <3>1. \A v \in Attempts : KeepsPayer(att[v], att'[v])
      BY <2>3, <2>4 DEF KeepsPayer
    <3>. QED
      BY <3>1, AttemptFields DEF KeepsPayer, Payers
  <2>7. \A u \in Txs : chain[u] = "pooled" => payers'[PayerOf[u]] = u
    BY <1>3, <2>1, <2>2 DEF PayerInv, Payers
  <2>8. \A v \in Attempts \ {w} : att[v].pc \in AdmittedStages => att[v].tx # t
    BY <1>1 DEF KeyInv, HoldsKey, AdmittedStages, OwnerStages
  <2>9. \A v \in Attempts : att'[v].pc \in AdmittedStages =>
          payers'[PayerOf[att'[v].tx]] = att'[v].tx \/ IsOver(att'[v].tx)
    <3>1. ASSUME NEW v \in Attempts, att'[v].pc \in AdmittedStages
          PROVE  payers'[PayerOf[att[v].tx]] = att[v].tx \/ IsOver(att[v].tx)
      <4>1. v # w /\ att[v].pc \in AdmittedStages /\ att[v].tx # t
        BY <2>3, <2>5, <2>8, <3>1
      <4>2. payers[PayerOf[att[v].tx]] = att[v].tx \/ IsOver(att[v].tx)
        BY <4>1 DEF PayerInv
      <4>. QED
        BY <1>3, <2>2, <2>6, <4>1, <4>2
    <3>. QED
      BY <2>6, <3>1
  <2>10. \A v \in Attempts : /\ MayFree(att'[v]) => chain[att'[v].tx] # "pooled"
                             /\ att'[v].result = "paid" => chain[att'[v].tx] = "paid"
    BY <2>6 DEF PayerInv, KeepsPayer
  <2>11. /\ \A v \in Attempts : MayFree(att[v])' <=> MayFree(att'[v])
         /\ \A u : IsOver(u)' <=> IsOver(u)
    BY <1>1 DEF MayFree, IsOver, ChainNow
  <2>. QED
    BY <1>1, <2>7, <2>9, <2>10, <2>11 DEF PayerInv, ChainNow
<1>. QED
  BY <1>2, <1>3 DEF LeavePayer

\* The rest of the cleanup, and a stop, keep the payers' records.
LEMMA CleanupPayers ==
  ASSUME ChargeTypeOK, FlagInv, PayerInv, NEW w \in Attempts
  PROVE  /\ LeaveChallenge(w) => PayerInv'
         /\ LeaveMarker(w) => PayerInv'
         /\ LeaveClaim(w) => PayerInv'
         /\ Settle(w) => PayerInv'
         /\ Crash(w) => PayerInv'
<1>1. ASSUME LeaveChallenge(w) \/ LeaveMarker(w) \/ LeaveClaim(w) PROVE PayerInv'
  <2>1. UNCHANGED <<now, chain, payers>>
    BY <1>1 DEF LeaveChallenge, LeaveMarker, LeaveClaim, admission
  <2>2. /\ att[w].pc \in LeavingStages \ {"settling"}
        /\ \E pc \in LeavingStages : Moves(w, pc)
    BY <1>1 DEF LeaveChallenge, LeaveMarker, LeaveClaim, LeavingStages
  <2>. QED
    BY <2>1, <2>2, FailsKeepPayer
<1>2. ASSUME Settle(w) PROVE PayerInv'
  <2>1. UNCHANGED <<now, chain, payers>>
    BY <1>2 DEF Settle, admission
  <2>2. \E r : (r # "paid" \/ att[w].result = "paid") /\ Becomes(w, Ends(att[w], r))
    BY <1>2 DEF Settle
  <2>. QED
    BY <2>1, <2>2, FailsKeepPayer
<1>3. ASSUME Crash(w) PROVE PayerInv'
  <2>1. UNCHANGED <<now, chain, payers>>
    BY <1>3 DEF Crash, admission
  <2>. QED
    BY <1>3, <2>1, FailsKeepPayer DEF Crash
<1>. QED
  BY <1>1, <1>2, <1>3

\* What is over stays over; only a pooled transaction is included or dropped.
LEMMA WorldPayers ==
  ASSUME ChargeTypeOK, PayerInv
  PROVE  /\ \A t \in Txs : Include(t) => PayerInv'
         /\ Tick => PayerInv'
<1>. SUFFICES ASSUME (\E t \in Txs : Include(t)) \/ Tick PROVE PayerInv'
  OBVIOUS
<1>1. UNCHANGED <<payers, att>> /\ now \in Nat /\ now' >= now /\ now' \in Nat
  BY DEF Include, Tick, admission, ChargeTypeOK
<1>2. ChainLag \in Nat /\ ValidBefore \in [Txs -> Nat]
  BY BudgetAssumption, ChargeAssumption
<1>3. \A u \in Txs : /\ chain'[u] = "pooled" => chain[u] = "pooled" /\ ChainNow' < ValidBefore[u]
                     /\ chain[u] \in {"paid", "reverted"} => chain'[u] = chain[u]
                     /\ chain[u] = "none" => chain'[u] = "none"
  <2>1. CASE Tick
    BY <1>1, <1>2, <2>1 DEF Tick, ChainNow, ChargeTypeOK
  <2>2. CASE \E t \in Txs : Include(t)
    <3>1. UNCHANGED now
      BY <2>2 DEF Include
    <3>2. \A u \in Txs : chain'[u] = "pooled" => chain[u] = "pooled"
      BY <2>2 DEF Include, ChargeTypeOK
    <3>3. \A u \in Txs : chain[u] \in {"paid", "reverted", "none"} => chain'[u] = chain[u]
      BY <2>2 DEF Include, ChargeTypeOK
    <3>. QED
      BY <3>1, <3>2, <3>3 DEF PayerInv, ChainNow
  <2>. QED
    BY <2>1, <2>2
<1>4. \A u \in Txs : IsOver(u) => IsOver(u)'
  BY <1>1, <1>2, <1>3 DEF IsOver, ChainNow
<1>5. \A v \in Attempts : att[v].tx \in Txs /\ (MayFree(att[v])' <=> MayFree(att[v]))
  BY <1>1, AttemptFields DEF MayFree
<1>. QED
  BY <1>1, <1>3, <1>4, <1>5 DEF PayerInv

\* Every step keeps the payers' records.
LEMMA PayerStep ==
  ChargeTypeOK /\ KeyInv /\ FlagInv /\ PayerInv /\ [Next]_vars => PayerInv'
<1>. SUFFICES ASSUME ChargeTypeOK, KeyInv, FlagInv, PayerInv, [Next]_vars PROVE PayerInv'
  OBVIOUS
<1>1. UNCHANGED <<now, chain, payers, att>> => PayerInv'
  BY DEF PayerInv, MayFree, IsOver, ChainNow
<1>2. CASE AdmissionNext
  BY <1>2, AdmissionPayers, ClaimPayerPayers DEF AdmissionNext
<1>3. CASE BudgetNext
  <2>1. \/ UNCHANGED <<now, chain, payers, att>>
        \/ \E w \in Attempts : RefuseFloor(w) \/ RefuseSimulation(w) \/ Reserve(w) \/ RefuseBudget(w)
    BY <1>3 DEF BudgetNext, StartSweep, SweepStale, SweepLookup, SweepSettled, admission
  <2>. QED
    BY <1>1, <2>1, SubmissionPayers
<1>4. CASE SubmissionNext
  BY <1>4, SubmissionPayers, SendPayers DEF SubmissionNext
<1>5. CASE CleanupNext
  BY <1>5, CleanupPayers, LeavePayerPayers DEF CleanupNext
<1>6. CASE (\E t \in Txs : Include(t)) \/ Tick
  BY <1>6, WorldPayers
<1>7. CASE UNCHANGED vars
  BY <1>1, <1>7 DEF vars, admission
<1>. QED
  BY <1>2, <1>3, <1>4, <1>5, <1>6, <1>7 DEF Next

\* Initially every attempt is idle with no flag set.
LEMMA InitFlags == Init => FlagInv /\ KeyInv
<1>. SUFFICES ASSUME Init PROVE FlagInv /\ KeyInv
  OBVIOUS
<1>1. \A w \in Attempts : \E t \in Txs : att[w] = Fresh(t)
  BY DEF Init
<1>2. \A t \in Txs : Flags(Fresh(t)) /\ ~HoldsKey(Fresh(t)) /\ Fresh(t).result # "paid"
  BY DEF Fresh, Flags, LeavingStages, HoldsKey, OwnerStages
<1>. QED
  BY <1>1, <1>2 DEF FlagInv, KeyInv

\* Whatever attempts overlap, stop, lose outcomes or fail to delete a record,
\* a payer never has two sponsored transactions in the pool.
THEOREM PayersTakeTurns == Spec => []OnePendingPerPayer
<1>1. Init => PayerInv
  <2>. SUFFICES ASSUME Init PROVE PayerInv
    OBVIOUS
  <2>1. \A t \in Txs : chain[t] # "pooled"
    BY DEF Init
  <2>2. \A w \in Attempts : \E t \in Txs : att[w] = Fresh(t)
    BY DEF Init
  <2>3. \A t \in Txs : /\ Fresh(t).pc \notin AdmittedStages /\ ~MayFree(Fresh(t))
                       /\ Fresh(t).result # "paid"
    BY DEF Fresh, AdmittedStages, MayFree, OwnerStages
  <2>. QED
    BY <2>1, <2>2, <2>3 DEF PayerInv
<1>2. PayerInv => OnePendingPerPayer
  BY DEF PayerInv, OnePendingPerPayer, Pooled
<1>. QED
  BY <1>1, <1>2, InitFlags, KeyStep, FlagStep, PayerStep, ChargeTypeCorrect, PTL DEF Spec

-----------------------------------------------------------------------------
(* One transaction per challenge.                                          *)

\* The transaction was paid, may still land, or is about to be sent.
MayBePaid(t) ==
  \/ chain[t] \in {"pooled", "paid"}
  \/ \E w \in Attempts : att[w].pc = "broadcasting" /\ att[w].tx = t

\* It is proved that it was not paid.
NeverPaid(t) == IsOver(t) /\ chain[t] # "paid"

\* The attempt takes part in its challenge's binding.
TakesPart(a) == a.bound /\ a.pc \in BoundStages

\* The attempt will leave the binding retained.
WillRetain(a) ==
  /\ TakesPart(a) /\ ~a.excluded
  /\ a.sent \/ a.reconciling \/ a.result = "paid"

\* The attempt keeps the binding: it stopped and never leaves, or it will
\* leave it retained.
Holds(a, t) == a.pc = "done" \/ (a.tx = t /\ WillRetain(a))

OnePayable ==
  \A t, u \in Txs : MayBePaid(t) /\ MayBePaid(u) /\ ChallengeOf[t] = ChallengeOf[u] => t = u

PayableBound ==
  \A t \in Txs : MayBePaid(t) /\ now < RecordUntil(t) =>
    /\ binding[ChallengeOf[t]].tx = t
    /\ \/ binding[ChallengeOf[t]].retained
       \/ \E v \in binding[ChallengeOf[t]].attempts : Holds(att[v], t)

AttemptsBound ==
  \A w \in Attempts : TakesPart(att[w]) /\ now < RecordUntil(att[w].tx) =>
    /\ binding[ChallengeOf[att[w].tx]].tx = att[w].tx
    /\ w \in binding[ChallengeOf[att[w].tx]].attempts

ExcludedUnpaid == \A w \in Attempts : att[w].excluded => NeverPaid(att[w].tx)

\* Until the binding expires, a transaction that may be paid is the one bound
\* to its challenge, and something will keep it so.
ChallengeInv == OnePayable /\ PayableBound /\ AttemptsBound /\ ExcludedUnpaid

\* What an attempt may become while chain and binding stay.
KeepsChallenge(a, b) ==
  /\ b.tx = a.tx /\ a.pc # "done"
  /\ b.pc = "broadcasting" => a.pc = "broadcasting"
  /\ TakesPart(b) => TakesPart(a)
  /\ WillRetain(a) => WillRetain(b) \/ b.pc = "done" \/ ~MayBePaid(a.tx)
  /\ b.excluded => a.excluded \/ NeverPaid(a.tx)

\* The predicates of an attempt speak of its record only.
LEMMA AttemptPrimes ==
  \A v \in Attempts : /\ TakesPart(att[v])' <=> TakesPart(att'[v])
                      /\ WillRetain(att[v])' <=> WillRetain(att'[v])
                      /\ \A t : Holds(att[v], t)' <=> Holds(att'[v], t')
<1>1. \A v \in Attempts : TakesPart(att[v])' <=> TakesPart(att'[v])
  BY DEF TakesPart
<1>2. \A v \in Attempts : WillRetain(att[v])' <=> WillRetain(att'[v])
  BY DEF WillRetain, TakesPart
<1>3. \A v \in Attempts : \A t : Holds(att[v], t)' <=> Holds(att'[v], t')
  BY DEF Holds, WillRetain, TakesPart
<1>. QED
  BY <1>1, <1>2, <1>3

\* Such a change keeps the invariant.
LEMMA ChallengeKept ==
  ASSUME ChargeTypeOK, ChallengeInv, NEW w \in Attempts, NEW a,
         KeepsChallenge(att[w], a), Becomes(w, a), UNCHANGED <<now, chain, binding>>
  PROVE  ChallengeInv'
<1>1. att'[w] = a /\ \A v \in Attempts \ {w} : att'[v] = att[v]
  BY DEF Becomes, ChargeTypeOK
<1>2. \A v \in Attempts : att'[v].tx = att[v].tx
  BY <1>1 DEF KeepsChallenge
<1>3. \A t : MayBePaid(t)' => MayBePaid(t)
  BY <1>1 DEF MayBePaid, KeepsChallenge
<1>4. \A t : NeverPaid(t)' <=> NeverPaid(t)
  BY DEF NeverPaid, IsOver, ChainNow
<1>5. \A t : RecordUntil(t)' = RecordUntil(t)
  BY DEF RecordUntil, ExpiresAt
<1>6. OnePayable'
  BY <1>3 DEF ChallengeInv, OnePayable
<1>7. PayableBound'
  <2>1. \A t \in Txs : MayBePaid(t) => \A v \in Attempts : Holds(att[v], t) => Holds(att'[v], t)
    BY <1>1 DEF KeepsChallenge, Holds
  <2>2. \A t \in Txs : binding[ChallengeOf[t]].attempts \subseteq Attempts
    BY DEF ChargeTypeOK, Challenges
  <2>. QED
    BY <1>3, <1>5, <2>1, <2>2, AttemptPrimes DEF ChallengeInv, PayableBound
<1>8. AttemptsBound'
  <2>1. \A v \in Attempts : TakesPart(att'[v]) => TakesPart(att[v])
    BY <1>1 DEF KeepsChallenge
  <2>. QED
    BY <1>2, <1>5, <2>1, AttemptPrimes DEF ChallengeInv, AttemptsBound
<1>9. ExcludedUnpaid'
  <2>1. \A v \in Attempts : att'[v].excluded => NeverPaid(att'[v].tx)
    BY <1>1, <1>2 DEF KeepsChallenge, ChallengeInv, ExcludedUnpaid
  <2>. QED
    BY <1>4, <2>1 DEF ExcludedUnpaid, NeverPaid, IsOver, ChainNow
<1>. QED
  BY <1>6, <1>7, <1>8, <1>9 DEF ChallengeInv

\* Failing, ending and leaving keep the invariant.
LEMMA FailsKeepChallenge ==
  ASSUME ChargeTypeOK, FlagInv, ChallengeInv, NEW w \in Attempts,
         UNCHANGED <<now, chain, binding>>
  PROVE  /\ \A r : att[w].pc \in OwnerStages \ LeavingStages /\ Becomes(w, Fails(att[w], r))
                     => ChallengeInv'
         /\ \A r : att[w].pc # "done" /\ Becomes(w, Ends(att[w], r)) => ChallengeInv'
         /\ att[w].pc \in LeavingStages \ {"unbinding"} =>
              \A pc \in LeavingStages \ {"leaving"} :
                (pc = "unbinding" => att[w].pc = "leaving") /\ Moves(w, pc)
                  /\ (att[w].pc = "leaving" => pc = "unbinding") => ChallengeInv'
<1>. DEFINE a == att[w]
<1>. a \in Attempt /\ Flags(a)
  BY AttemptFields DEF FlagInv
<1>1. \A r : a.pc \in OwnerStages \ LeavingStages => KeepsChallenge(a, Fails(a, r))
  <2>. SUFFICES ASSUME NEW r, a.pc \in OwnerStages \ LeavingStages
                PROVE  KeepsChallenge(a, Fails(a, r))
    OBVIOUS
  <2>1. /\ Fails(a, r).tx = a.tx /\ Fails(a, r).pc = "leaving" /\ Fails(a, r).bound = a.bound
        /\ Fails(a, r).excluded = a.excluded /\ Fails(a, r).sent = a.sent
        /\ Fails(a, r).reconciling = a.reconciling
    BY DEF Fails, Attempt
  <2>2. a.result # "paid" /\ (a.bound => a.pc \in BoundStages)
    BY DEF Flags, OwnerStages, LeavingStages, BoundStages
  <2>. QED
    BY <2>1, <2>2 DEF KeepsChallenge, TakesPart, WillRetain, BoundStages, OwnerStages
<1>2. \A r : a.pc # "done" => KeepsChallenge(a, Ends(a, r))
  BY DEF KeepsChallenge, TakesPart, WillRetain, BoundStages, Ends, Attempt
<1>3. a.pc \in LeavingStages \ {"unbinding"} =>
              \A pc \in LeavingStages \ {"leaving"} :
                (pc = "unbinding" => a.pc = "leaving") /\ (a.pc = "leaving" => pc = "unbinding")
                  => KeepsChallenge(a, [a EXCEPT !.pc = pc])
  BY DEF KeepsChallenge, TakesPart, WillRetain, BoundStages, LeavingStages, Attempt
<1>. QED
  BY <1>1, <1>2, <1>3, ChallengeKept DEF Moves

\* Admission keeps the challenges, up to the binding.
LEMMA AdmissionChallenges ==
  ASSUME ChargeTypeOK, KeyInv, FlagInv, ChallengeInv, NEW w \in Attempts
  PROVE  /\ Begin(w) => ChallengeInv'
         /\ RefuseExpired(w) => ChallengeInv'
         /\ ClaimTx(w) => ChallengeInv'
         /\ ClaimPayer(w) => ChallengeInv'
         /\ ReconcilePaid(w) => ChallengeInv'
         /\ ReconcileExcluded(w) => ChallengeInv'
         /\ Resend(w) => ChallengeInv'
<1>. DEFINE a == att[w]
            t == a.tx
<1>. a \in Attempt /\ Flags(a) /\ t \in Txs
  BY AttemptFields DEF FlagInv
<1>1. ASSUME Begin(w) PROVE ChallengeInv'
  <2>1. a.pc = "idle"
    BY <1>1 DEF Begin
  <2>2. KeepsChallenge(a, [a EXCEPT !.pc = "begun", !.reconciling = t \in marker])
    BY <2>1 DEF KeepsChallenge, TakesPart, WillRetain, BoundStages, Attempt, Flags
  <2>. QED
    BY <1>1, <2>2, ChallengeKept DEF Begin, admission
<1>2. ASSUME RefuseExpired(w) PROVE ChallengeInv'
  <2>1. a.pc # "done" /\ \E r : Becomes(w, Ends(a, r))
    BY <1>2 DEF RefuseExpired
  <2>. QED
    BY <1>2, <2>1, FailsKeepChallenge DEF RefuseExpired, admission
<1>3. ASSUME ClaimTx(w) PROVE ChallengeInv'
  <2>1. a.pc = "begun" /\ UNCHANGED <<now, chain, binding>>
    BY <1>3 DEF ClaimTx, admission
  <2>2. KeepsChallenge(a, [a EXCEPT !.pc = "claimed"])
    BY <2>1 DEF KeepsChallenge, TakesPart, WillRetain, BoundStages, Attempt
  <2>. QED
    BY <1>3, <2>1, <2>2, ChallengeKept, FailsKeepChallenge DEF ClaimTx, Moves
<1>4. ASSUME ClaimPayer(w) PROVE ChallengeInv'
  <2>1. a.pc = "bound" /\ UNCHANGED <<now, chain, binding>>
    BY <1>4 DEF ClaimPayer
  <2>2. KeepsChallenge(a, Admitted(a))
    BY <2>1 DEF KeepsChallenge, TakesPart, WillRetain, BoundStages, Admitted, Attempt
  <2>3. \/ Becomes(w, Admitted(a))
        \/ UNCHANGED att
        \/ \E r : Becomes(w, Fails(a, r))
    BY <1>4 DEF ClaimPayer
  <2>4. UNCHANGED att => ChallengeInv'
    BY <2>1 DEF ChallengeInv, OnePayable, PayableBound, AttemptsBound, ExcludedUnpaid, MayBePaid,
                NeverPaid, IsOver, ChainNow, Holds, WillRetain, TakesPart, RecordUntil, ExpiresAt
  <2>. QED
    BY <2>1, <2>2, <2>3, <2>4, ChallengeKept, FailsKeepChallenge DEF OwnerStages, LeavingStages
<1>5. ASSUME ReconcilePaid(w) PROVE ChallengeInv'
  BY <1>5, FailsKeepChallenge
     DEF ReconcilePaid, Reconciling, OwnerStages, LeavingStages, admission
<1>6. ASSUME ReconcileExcluded(w) PROVE ChallengeInv'
  <2>1. a.pc = "admitted" /\ UNCHANGED <<now, chain, binding>> /\ NeverPaid(t)
    BY <1>6 DEF ReconcileExcluded, Reconciling, admission, NeverPaid, IsOver
  <2>2. ~MayBePaid(t)
    <3>1. \A v \in Attempts : att[v].pc = "broadcasting" => att[v].tx # t
      BY <2>1 DEF KeyInv, HoldsKey, OwnerStages
    <3>. QED
      BY <2>1, <3>1 DEF MayBePaid, NeverPaid, IsOver
  <2>3. KeepsChallenge(a, [Fails(a, "refused") EXCEPT !.reconciling = FALSE, !.excluded = TRUE])
    BY <2>1, <2>2 DEF KeepsChallenge, TakesPart, WillRetain, BoundStages, Fails, Attempt
  <2>. QED
    BY <1>6, <2>1, <2>3, ChallengeKept DEF ReconcileExcluded
<1>7. ASSUME Resend(w) PROVE ChallengeInv'
  <2>1. a.pc = "admitted"
    BY <1>7 DEF Resend, Reconciling
  <2>2. KeepsChallenge(a, [a EXCEPT !.pc = "ready"])
    BY <2>1 DEF KeepsChallenge, TakesPart, WillRetain, BoundStages, Attempt
  <2>. QED
    BY <1>7, <2>2, ChallengeKept DEF Resend, Moves, admission
<1>. QED
  BY <1>1, <1>2, <1>3, <1>4, <1>5, <1>6, <1>7

\* An attempt binds a free challenge or adopts the binding of its transaction.
LEMMA BindChallenges ==
  ASSUME ChargeTypeOK, FlagInv, ChallengeInv, NEW w \in Attempts, BindChallenge(w)
  PROVE  ChallengeInv'
<1>. DEFINE a == att[w]
            t == a.tx
            c == ChallengeOf[t]
            b == [a EXCEPT !.pc = "bound", !.bound = TRUE]
<1>. a \in Attempt /\ Flags(a) /\ t \in Txs /\ c \in Challenges
  BY AttemptFields DEF FlagInv, Challenges
<1>1. a.pc = "claimed" /\ UNCHANGED <<now, chain>>
  BY DEF BindChallenge
<1>2. CASE Becomes(w, Fails(a, "replayed")) /\ UNCHANGED binding
  BY <1>1, <1>2, FailsKeepChallenge DEF OwnerStages, LeavingStages
<1>3. CASE /\ binding[c].tx \in {"none", t} /\ Becomes(w, b)
           /\ binding' = [binding EXCEPT ![c] = BoundBy(binding[c], t, w)]
  <2>1. /\ binding'[c].tx = t /\ binding'[c].attempts = binding[c].attempts \cup {w}
        /\ binding'[c].retained = binding[c].retained
        /\ \A d \in Challenges \ {c} : binding'[d] = binding[d]
    BY <1>3 DEF BoundBy, ChargeTypeOK
  <2>2. /\ att'[w].tx = t /\ att'[w].pc = "bound" /\ ~att'[w].excluded
        /\ \A v \in Attempts \ {w} : att'[v] = att[v]
    <3>1. b.tx = t /\ b.pc = "bound" /\ ~b.excluded
      BY <1>1 DEF Flags, Attempt, LeavingStages
    <3>. QED
      BY <1>3, <3>1 DEF Becomes, ChargeTypeOK
  <2>3. \A u : /\ MayBePaid(u)' => MayBePaid(u)
               /\ NeverPaid(u)' <=> NeverPaid(u)
               /\ RecordUntil(u)' = RecordUntil(u)
    BY <1>1, <2>2 DEF MayBePaid, NeverPaid, IsOver, ChainNow, RecordUntil, ExpiresAt
  <2>4. OnePayable'
    BY <2>3 DEF ChallengeInv, OnePayable
  <2>5. PayableBound'
    <3>1. \A u \in Txs : \A v \in Attempts : Holds(att[v], u) => Holds(att'[v], u)
      BY <1>1, <2>2 DEF Holds, WillRetain, TakesPart, BoundStages
    <3>2. \A u \in Txs : ChallengeOf[u] \in Challenges /\ binding[ChallengeOf[u]].attempts \subseteq Attempts
      BY DEF ChargeTypeOK, Challenges
    <3>3. ASSUME NEW u \in Txs, MayBePaid(u), now < RecordUntil(u)
          PROVE  /\ binding'[ChallengeOf[u]].tx = u
                 /\ \/ binding'[ChallengeOf[u]].retained
                    \/ \E v \in binding'[ChallengeOf[u]].attempts : Holds(att'[v], u)
      <4>1. /\ binding[ChallengeOf[u]].tx = u
            /\ \/ binding[ChallengeOf[u]].retained
               \/ \E v \in binding[ChallengeOf[u]].attempts : Holds(att'[v], u)
        BY <3>1, <3>2, <3>3 DEF ChallengeInv, PayableBound
      <4>. QED
        BY <1>3, <2>1, <3>2, <4>1, ChargeAssumption
    <3>. QED
      BY <1>1, <2>3, <3>3, AttemptPrimes DEF PayableBound
  <2>6. AttemptsBound'
    <3>1. \A v \in Attempts : att[v].tx \in Txs /\ ChallengeOf[att[v].tx] \in Challenges
      BY AttemptFields DEF Challenges
    <3>2. ASSUME NEW v \in Attempts, TakesPart(att'[v]), now < RecordUntil(att'[v].tx)
          PROVE  /\ binding'[ChallengeOf[att'[v].tx]].tx = att'[v].tx
                 /\ v \in binding'[ChallengeOf[att'[v].tx]].attempts
      <4>1. CASE v = w
        BY <2>1, <2>2, <4>1
      <4>2. CASE v # w
        <5>1. /\ binding[ChallengeOf[att[v].tx]].tx = att[v].tx
              /\ v \in binding[ChallengeOf[att[v].tx]].attempts
          BY <2>2, <3>2, <4>2 DEF ChallengeInv, AttemptsBound
        <5>2. att'[v] = att[v]
          BY <2>2, <4>2
        <5>3. CASE ChallengeOf[att[v].tx] = c
          <6>1. att[v].tx = t
            BY <1>3, <3>1, <5>1, <5>3, ChargeAssumption
          <6>. QED
            BY <2>1, <5>1, <5>2, <5>3, <6>1
        <5>4. CASE ChallengeOf[att[v].tx] # c
          BY <2>1, <3>1, <5>1, <5>2, <5>4
        <5>. QED
          BY <5>3, <5>4
      <4>. QED
        BY <4>1, <4>2
    <3>. QED
      BY <1>1, <2>3, <3>2, AttemptPrimes DEF AttemptsBound, RecordUntil, ExpiresAt
  <2>7. ExcludedUnpaid'
    <3>1. \A v \in Attempts : att'[v].excluded => NeverPaid(att'[v].tx)
      BY <2>2 DEF ChallengeInv, ExcludedUnpaid
    <3>. QED
      BY <1>1, <3>1 DEF ExcludedUnpaid, NeverPaid, IsOver, ChainNow
  <2>. QED
    BY <2>4, <2>5, <2>6, <2>7 DEF ChallengeInv
<1>. QED
  BY <1>2, <1>3 DEF BindChallenge

\* Checks, reservation and submission keep the challenges, but for the send.
LEMMA SubmissionChallenges ==
  ASSUME ChargeTypeOK, FlagInv, ChallengeInv, NEW w \in Attempts
  PROVE  /\ RefuseFloor(w) => ChallengeInv'
         /\ RefuseSimulation(w) => ChallengeInv'
         /\ Reserve(w) => ChallengeInv'
         /\ RefuseBudget(w) => ChallengeInv'
         /\ Mark(w) => ChallengeInv'
         /\ RefuseChallenge(w) => ChallengeInv'
         /\ SendRefused(w) => ChallengeInv'
         /\ Confirm(w) => ChallengeInv'
         /\ LoseOutcome(w) => ChallengeInv'
         /\ InternalError(w) => ChallengeInv'
<1>. DEFINE a == att[w]
<1>. a \in Attempt /\ Flags(a)
  BY AttemptFields DEF FlagInv
<1>1. ASSUME a.pc \in OwnerStages \ LeavingStages, UNCHANGED <<now, chain, binding>>,
             NEW r, Becomes(w, Fails(a, r))
      PROVE  ChallengeInv'
  BY <1>1, FailsKeepChallenge
<1>2. ASSUME RefuseFloor(w) \/ RefuseSimulation(w) \/ RefuseBudget(w) \/ RefuseChallenge(w)
               \/ LoseOutcome(w) \/ InternalError(w)
      PROVE  ChallengeInv'
  <2>1. a.pc \in OwnerStages \ LeavingStages /\ UNCHANGED <<now, chain, binding>>
    BY <1>2 DEF RefuseFloor, RefuseSimulation, RefuseBudget, RefuseChallenge, LoseOutcome,
                InternalError, OwnerStages, LeavingStages, admission
  <2>2. \E r : Becomes(w, Fails(a, r))
    BY <1>2 DEF RefuseFloor, RefuseSimulation, RefuseBudget, RefuseChallenge, LoseOutcome,
                InternalError, Refusal
  <2>. QED
    BY <1>1, <2>1, <2>2
<1>3. ASSUME Reserve(w) PROVE ChallengeInv'
  <2>1. /\ a.pc = "admitted" /\ UNCHANGED <<now, chain, binding>>
        /\ \/ Becomes(w, Fails(a, "internal"))
           \/ Becomes(w, [a EXCEPT !.pc = "reserved", !.held = TRUE])
           \/ Becomes(w, [a EXCEPT !.waiting = TRUE])
    BY <1>3 DEF Reserve, admission
  <2>2. /\ KeepsChallenge(a, [a EXCEPT !.pc = "reserved", !.held = TRUE])
        /\ KeepsChallenge(a, [a EXCEPT !.waiting = TRUE])
    BY <2>1 DEF KeepsChallenge, TakesPart, WillRetain, BoundStages, Attempt
  <2>. QED
    BY <1>1, <2>1, <2>2, ChallengeKept DEF OwnerStages, LeavingStages
<1>4. ASSUME Mark(w) PROVE ChallengeInv'
  <2>1. /\ a.pc = "reserved" /\ UNCHANGED <<now, chain, binding>>
        /\ \/ Becomes(w, Fails(a, "internal"))
           \/ Becomes(w, [a EXCEPT !.pc = "ready", !.marked = TRUE])
    BY <1>4 DEF Mark, admission
  <2>2. KeepsChallenge(a, [a EXCEPT !.pc = "ready", !.marked = TRUE])
    BY <2>1 DEF KeepsChallenge, TakesPart, WillRetain, BoundStages, Attempt
  <2>. QED
    BY <1>1, <2>1, <2>2, ChallengeKept DEF OwnerStages, LeavingStages
<1>5. ASSUME SendRefused(w) \/ Confirm(w) PROVE ChallengeInv'
  <2>1. a.pc \in {"broadcasting", "sent"} /\ UNCHANGED <<now, chain, binding>>
    BY <1>5 DEF SendRefused, Confirm, admission
  <2>2. /\ KeepsChallenge(a, [Fails(a, "internal") EXCEPT !.unknown = FALSE])
        /\ KeepsChallenge(a, [Fails(a, "paid") EXCEPT !.unknown = FALSE])
        /\ KeepsChallenge(a, [Fails(a, "internal") EXCEPT !.unknown = FALSE, !.reconciling = FALSE])
    BY <2>1 DEF KeepsChallenge, TakesPart, WillRetain, BoundStages, Fails, Attempt, Flags
  <2>. QED
    BY <1>5, <2>1, <2>2, ChallengeKept DEF SendRefused, Confirm
<1>. QED
  BY <1>2, <1>3, <1>4, <1>5

\* An attempt that starts to send before its challenge expires has the binding;
\* so no other transaction of the challenge may be paid.
LEMMA StartBroadcastChallenges ==
  ASSUME ChargeTypeOK, FlagInv, ChallengeInv, NEW w \in Attempts, StartBroadcast(w)
  PROVE  ChallengeInv'
<1>. DEFINE a == att[w]
            t == a.tx
            c == ChallengeOf[t]
<1>. a \in Attempt /\ Flags(a) /\ t \in Txs /\ c \in Challenges
  BY AttemptFields DEF FlagInv, Challenges
<1>1. /\ a.pc = "ready" /\ Expires[t] > now /\ UNCHANGED <<now, chain, binding>>
      /\ Becomes(w, Fails(a, "refused")) \/ Becomes(w, Sending(a))
  BY DEF StartBroadcast, admission
<1>2. CASE Becomes(w, Fails(a, "refused"))
  BY <1>1, <1>2, FailsKeepChallenge DEF OwnerStages, LeavingStages
<1>3. CASE Becomes(w, Sending(a))
  <2>1. /\ att'[w].tx = t /\ att'[w].pc = "broadcasting" /\ att'[w].sent
        /\ att'[w].bound /\ ~att'[w].excluded
        /\ \A v \in Attempts \ {w} : att'[v] = att[v]
    <3>1. /\ Sending(a).tx = t /\ Sending(a).pc = "broadcasting" /\ Sending(a).sent
          /\ Sending(a).bound /\ ~Sending(a).excluded
      BY <1>1 DEF Sending, Attempt, Flags, LeavingStages
    <3>. QED
      BY <1>3, <3>1 DEF Becomes, ChargeTypeOK
  <2>2. TakesPart(a) /\ WillRetain(att'[w]) /\ TakesPart(att'[w])
    BY <1>1, <2>1 DEF TakesPart, WillRetain, BoundStages, Flags
  <2>3. \A u : /\ MayBePaid(u)' => MayBePaid(u) \/ u = t
               /\ NeverPaid(u)' <=> NeverPaid(u)
               /\ RecordUntil(u)' = RecordUntil(u)
    BY <1>1, <2>1 DEF MayBePaid, NeverPaid, IsOver, ChainNow, RecordUntil, ExpiresAt
  <2>4. \A u \in Txs : ChallengeOf[u] = c => now < RecordUntil(u)
    BY <1>1, BudgetAssumption, ChargeAssumption DEF RecordUntil, ExpiresAt, ChargeTypeOK
  <2>5. binding[c].tx = t /\ w \in binding[c].attempts
    BY <2>2, <2>4 DEF ChallengeInv, AttemptsBound
  <2>6. \A u \in Txs : MayBePaid(u) /\ ChallengeOf[u] = c => u = t
    BY <2>4, <2>5 DEF ChallengeInv, PayableBound
  <2>7. OnePayable'
    BY <2>3, <2>6 DEF ChallengeInv, OnePayable
  <2>8. PayableBound'
    <3>1. \A u \in Txs : \A v \in Attempts : Holds(att[v], u) => Holds(att'[v], u)
      BY <1>1, <2>1, <2>2 DEF Holds
    <3>2. \A u \in Txs : binding[ChallengeOf[u]].attempts \subseteq Attempts
      BY DEF ChargeTypeOK, Challenges
    <3>3. Holds(att'[w], t)
      BY <2>1, <2>2 DEF Holds
    <3>. QED
      BY <1>1, <2>3, <2>5, <3>1, <3>2, <3>3, AttemptPrimes DEF ChallengeInv, PayableBound
  <2>9. AttemptsBound'
    <3>1. \A v \in Attempts : TakesPart(att'[v]) => TakesPart(att[v]) /\ att'[v].tx = att[v].tx
      BY <2>1, <2>2
    <3>. QED
      BY <1>1, <2>3, <3>1, AttemptPrimes DEF ChallengeInv, AttemptsBound, RecordUntil, ExpiresAt
  <2>10. ExcludedUnpaid'
    <3>1. \A v \in Attempts : att'[v].excluded => NeverPaid(att'[v].tx)
      BY <2>1 DEF ChallengeInv, ExcludedUnpaid
    <3>. QED
      BY <1>1, <3>1 DEF ExcludedUnpaid, NeverPaid, IsOver, ChainNow
  <2>. QED
    BY <2>7, <2>8, <2>9, <2>10 DEF ChallengeInv
<1>. QED
  BY <1>1, <1>2, <1>3

\* A change of the chain that pays nothing new, and excludes nothing that was.
LEMMA ChainKeepsChallenge ==
  ASSUME ChargeTypeOK, ChallengeInv, UNCHANGED <<now, binding>>,
         \A u : MayBePaid(u)' => MayBePaid(u),
         \A u \in Txs : NeverPaid(u) => NeverPaid(u)',
         \A v \in Attempts :
           /\ att'[v].tx = att[v].tx /\ att'[v].excluded = att[v].excluded
           /\ TakesPart(att'[v]) = TakesPart(att[v]) /\ WillRetain(att'[v]) = WillRetain(att[v])
           /\ att[v].pc = "done" => att'[v].pc = "done"
  PROVE  ChallengeInv'
<1>1. \A u : RecordUntil(u)' = RecordUntil(u)
  BY DEF RecordUntil, ExpiresAt
<1>2. OnePayable'
  BY DEF ChallengeInv, OnePayable
<1>3. PayableBound'
  <2>1. \A u \in Txs : \A v \in Attempts : Holds(att[v], u) => Holds(att'[v], u)
    BY DEF Holds
  <2>2. \A u \in Txs : binding[ChallengeOf[u]].attempts \subseteq Attempts
    BY DEF ChargeTypeOK, Challenges
  <2>. QED
    BY <1>1, <2>1, <2>2, AttemptPrimes DEF ChallengeInv, PayableBound
<1>4. AttemptsBound'
  BY <1>1, AttemptPrimes DEF ChallengeInv, AttemptsBound
<1>5. ExcludedUnpaid'
  <2>1. \A v \in Attempts : att[v].tx \in Txs
    BY AttemptFields
  <2>2. \A v \in Attempts : NeverPaid(att[v].tx) => NeverPaid(att[v].tx)'
    <3>. SUFFICES ASSUME NEW v \in Attempts, NeverPaid(att[v].tx) PROVE NeverPaid(att[v].tx)'
      OBVIOUS
    <3>. DEFINE u == att[v].tx
    <3>1. NeverPaid(u) => \A x : x = u => NeverPaid(x)'
      BY <2>1
    <3>. QED
      BY <3>1 DEF NeverPaid, IsOver, ChainNow
  <2>. QED
    BY <2>2 DEF ChallengeInv, ExcludedUnpaid
<1>. QED
  BY <1>2, <1>3, <1>4, <1>5 DEF ChallengeInv

\* The send and the inclusion keep the challenges.
LEMMA ChainChallenges ==
  ASSUME ChargeTypeOK, FlagInv, ChallengeInv
  PROVE  /\ \A w \in Attempts : Send(w) => ChallengeInv'
         /\ \A t \in Txs : Include(t) => ChallengeInv'
<1>1. ASSUME NEW w \in Attempts, Send(w) PROVE ChallengeInv'
  <2>. DEFINE a == att[w]
              t == a.tx
  <2>. a \in Attempt /\ Flags(a) /\ t \in Txs
    BY AttemptFields DEF FlagInv
  <2>1. a.pc = "broadcasting" /\ UNCHANGED <<now, binding>>
    BY <1>1 DEF Send, admission
  <2>2. /\ att'[w].tx = t /\ att'[w].excluded = a.excluded /\ att'[w].pc = "sent"
        /\ TakesPart(att'[w]) = TakesPart(a) /\ WillRetain(att'[w]) = WillRetain(a)
        /\ \A v \in Attempts \ {w} : att'[v] = att[v]
    <3>. DEFINE b == [a EXCEPT !.pc = "sent"]
    <3>1. /\ b.tx = t /\ b.excluded = a.excluded /\ b.pc = "sent" /\ b.bound = a.bound
          /\ b.sent = a.sent /\ b.reconciling = a.reconciling /\ b.result = a.result
      BY DEF Attempt
    <3>2. TakesPart(b) = TakesPart(a)
      BY <2>1, <3>1 DEF TakesPart, BoundStages, Attempt
    <3>3. WillRetain(b) = WillRetain(a)
      BY <3>1, <3>2 DEF WillRetain
    <3>. QED
      BY <1>1, <3>1, <3>2, <3>3 DEF Send, Moves, Becomes, ChargeTypeOK
  <2>3. \A u : MayBePaid(u)' => MayBePaid(u)
    <3>1. \A u : u # t => (chain'[u] \in {"pooled", "paid"} => chain[u] \in {"pooled", "paid"})
      BY <1>1 DEF Send, ChargeTypeOK
    <3>2. MayBePaid(t)
      BY <2>1 DEF MayBePaid
    <3>. QED
      BY <2>2, <3>1, <3>2 DEF MayBePaid
  <2>4. \A u \in Txs : NeverPaid(u) => NeverPaid(u)'
    BY <1>1, <2>1, BudgetAssumption, ChargeAssumption
       DEF Send, NeverPaid, IsOver, ChainNow, ChargeTypeOK
  <2>. QED
    BY <2>1, <2>2, <2>3, <2>4, ChainKeepsChallenge
<1>2. ASSUME NEW t \in Txs, Include(t) PROVE ChallengeInv'
  <2>1. /\ chain[t] = "pooled" /\ UNCHANGED <<now, binding, att>>
        /\ \A u : u # t => (chain'[u] \in {"pooled", "paid"} => chain[u] \in {"pooled", "paid"})
    BY <1>2 DEF Include, admission, ChargeTypeOK
  <2>2. \A u : MayBePaid(u)' => MayBePaid(u)
    BY <2>1 DEF MayBePaid
  <2>3. \A u \in Txs : NeverPaid(u) => NeverPaid(u)'
    BY <1>2, <2>1 DEF Include, NeverPaid, IsOver, ChainNow, ChargeTypeOK
  <2>. QED
    BY <2>1, <2>2, <2>3, ChainKeepsChallenge
<1>. QED
  BY <1>1, <1>2

\* An attempt that leaves drops the binding only when its transaction was never
\* paid, or when nobody is left who may have sent it.
LEMMA LeaveChallenges ==
  ASSUME ChargeTypeOK, KeyInv, FlagInv, ChallengeInv, NEW w \in Attempts, LeaveChallenge(w)
  PROVE  ChallengeInv'
<1>. DEFINE a == att[w]
            t == a.tx
            c == ChallengeOf[t]
            drops == a.bound /\ binding[c].tx = t /\ w \in binding[c].attempts
<1>. a \in Attempt /\ Flags(a) /\ t \in Txs /\ c \in Challenges
  BY AttemptFields DEF FlagInv, Challenges
<1>1. /\ a.pc = "unbinding" /\ UNCHANGED <<now, chain>>
      /\ binding' = IF drops THEN [binding EXCEPT ![c] = LeftBinding(@, a, w)] ELSE binding
  BY DEF LeaveChallenge
<1>2. /\ att'[w].tx = t /\ att'[w].pc = "unmarking" /\ att'[w].excluded = a.excluded
      /\ ~TakesPart(att'[w]) /\ \A v \in Attempts \ {w} : att'[v] = att[v]
  <2>1. LET b == [a EXCEPT !.pc = "unmarking"]
        IN b.tx = t /\ b.pc = "unmarking" /\ b.excluded = a.excluded /\ ~TakesPart(b)
    BY DEF Attempt, TakesPart, BoundStages
  <2>. QED
    BY <2>1 DEF LeaveChallenge, Moves, Becomes, ChargeTypeOK
<1>3. \A u : /\ MayBePaid(u)' => MayBePaid(u)
             /\ NeverPaid(u)' <=> NeverPaid(u)
             /\ RecordUntil(u)' = RecordUntil(u)
  BY <1>1, <1>2 DEF MayBePaid, NeverPaid, IsOver, ChainNow, RecordUntil, ExpiresAt
<1>4. OnePayable'
  BY <1>3 DEF ChallengeInv, OnePayable
<1>5. ExcludedUnpaid'
  <2>1. \A v \in Attempts : att'[v].excluded => NeverPaid(att'[v].tx)
    BY <1>2 DEF ChallengeInv, ExcludedUnpaid
  <2>. QED
    BY <1>1, <2>1 DEF ExcludedUnpaid, NeverPaid, IsOver, ChainNow
<1>6. \A u \in Txs : \A v \in Attempts \ {w} : Holds(att[v], u) => Holds(att'[v], u)
  BY <1>2
<1>7. \A u \in Txs : /\ ChallengeOf[u] \in Challenges
                     /\ binding[ChallengeOf[u]].attempts \subseteq Attempts
  BY DEF ChargeTypeOK, Challenges
<1>8. \A d \in Challenges \ {c} : binding'[d] = binding[d]
  BY <1>1 DEF ChargeTypeOK
<1>9. PayableBound'
  <2>. SUFFICES ASSUME NEW u \in Txs, MayBePaid(u), now < RecordUntil(u)
                PROVE  /\ binding'[ChallengeOf[u]].tx = u
                       /\ \/ binding'[ChallengeOf[u]].retained
                          \/ \E v \in binding'[ChallengeOf[u]].attempts : Holds(att'[v], u)
    BY <1>1, <1>3, AttemptPrimes DEF PayableBound
  <2>. DEFINE b == binding[ChallengeOf[u]]
  <2>1. b.tx = u /\ (b.retained \/ \E v \in b.attempts : Holds(att[v], u))
    BY DEF ChallengeInv, PayableBound
  <2>2. Holds(a, u) => u = t /\ WillRetain(a)
    BY <1>1 DEF Holds
  <2>3. b \in [tx : Txs \cup {"none"}, attempts : SUBSET Attempts, retained : BOOLEAN]
    BY <1>7 DEF ChargeTypeOK
  <2>4. CASE ~drops \/ ChallengeOf[u] # c
    <3>1. binding'[ChallengeOf[u]] = b
      BY <1>1, <1>7, <1>8, <2>4
    <3>2. w \in b.attempts => ~Holds(a, u)
      BY <2>1, <2>2, <2>4 DEF WillRetain, TakesPart
    <3>. QED
      BY <1>6, <1>7, <2>1, <3>1, <3>2
  <2>5. CASE drops /\ ChallengeOf[u] = c
    <3>1. u = t /\ binding'[c] = LeftBinding(b, a, w)
      BY <1>1, <2>1, <2>5 DEF ChargeTypeOK
    <3>2. ~a.excluded
      <4>1. \A v \in Attempts : att[v].pc = "broadcasting" => att[v].tx # t
        BY <1>1 DEF KeyInv, HoldsKey, OwnerStages
      <4>. QED
        BY <3>1, <4>1 DEF MayBePaid, ChallengeInv, ExcludedUnpaid, NeverPaid, IsOver
    <3>3. CASE b.retained \/ a.sent \/ a.reconciling \/ a.result = "paid"
      <4>1. binding'[c].tx = b.tx /\ binding'[c].retained
        BY <3>1, <3>2, <3>3, <2>3, LeftBindingKept
      <4>. QED
        BY <2>1, <2>5, <4>1
    <3>4. CASE ~(b.retained \/ a.sent \/ a.reconciling \/ a.result = "paid")
      <4>1. PICK v \in b.attempts : Holds(att[v], u)
        BY <2>1, <3>4
      <4>2. v # w /\ v \in Attempts
        BY <1>7, <2>2, <3>4, <4>1 DEF WillRetain
      <4>3. binding'[c].tx = b.tx /\ v \in binding'[c].attempts
        BY <3>1, <3>2, <4>1, <4>2, <2>3, LeftBindingKept
      <4>. QED
        BY <1>6, <2>1, <2>5, <4>1, <4>2, <4>3
    <3>. QED
      BY <3>3, <3>4
  <2>. QED
    BY <2>4, <2>5
<1>10. AttemptsBound'
  <2>. SUFFICES ASSUME NEW v \in Attempts, TakesPart(att'[v]), now < RecordUntil(att'[v].tx)
                PROVE  /\ binding'[ChallengeOf[att'[v].tx]].tx = att'[v].tx
                       /\ v \in binding'[ChallengeOf[att'[v].tx]].attempts
    BY <1>1, <1>3, AttemptPrimes DEF AttemptsBound, RecordUntil, ExpiresAt
  <2>1. v # w /\ att'[v] = att[v]
    BY <1>2
  <2>2. /\ binding[ChallengeOf[att[v].tx]].tx = att[v].tx
        /\ v \in binding[ChallengeOf[att[v].tx]].attempts
    BY <2>1 DEF ChallengeInv, AttemptsBound
  <2>3. ~(drops /\ ChallengeOf[att[v].tx] = c)
    <3>1. att[v].tx # t
      BY <1>1, <2>1 DEF KeyInv, HoldsKey, OwnerStages, TakesPart, BoundStages
    <3>. QED
      BY <2>2, <3>1
  <2>4. ChallengeOf[att[v].tx] \in Challenges
    BY AttemptFields DEF Challenges
  <2>. QED
    BY <1>1, <1>8, <2>1, <2>2, <2>3, <2>4
<1>. QED
  BY <1>4, <1>5, <1>9, <1>10 DEF ChallengeInv

\* The rest of the cleanup, and a stop, keep the challenges.
LEMMA CleanupChallenges ==
  ASSUME ChargeTypeOK, FlagInv, ChallengeInv, NEW w \in Attempts
  PROVE  /\ LeavePayer(w) => ChallengeInv'
         /\ LeaveMarker(w) => ChallengeInv'
         /\ LeaveClaim(w) => ChallengeInv'
         /\ Settle(w) => ChallengeInv'
         /\ Crash(w) => ChallengeInv'
<1>1. ASSUME LeavePayer(w) \/ LeaveMarker(w) \/ LeaveClaim(w) PROVE ChallengeInv'
  <2>1. UNCHANGED <<now, chain, binding>>
    BY <1>1 DEF LeavePayer, LeaveMarker, LeaveClaim, admission
  <2>2. \/ att[w].pc = "leaving" /\ Moves(w, "unbinding")
        \/ att[w].pc \in {"unmarking", "unclaiming"}
             /\ \E pc \in {"unclaiming", "settling"} : Moves(w, pc)
    BY <1>1 DEF LeavePayer, LeaveMarker, LeaveClaim
  <2>. QED
    BY <2>1, <2>2, FailsKeepChallenge DEF LeavingStages
<1>2. ASSUME Settle(w) \/ Crash(w) PROVE ChallengeInv'
  <2>1. UNCHANGED <<now, chain, binding>> /\ att[w].pc # "done"
    BY <1>2 DEF Settle, Crash, admission
  <2>2. \E r : Becomes(w, Ends(att[w], r))
    BY <1>2 DEF Settle, Crash
  <2>. QED
    BY <2>1, <2>2, FailsKeepChallenge
<1>. QED
  BY <1>1, <1>2

\* Time drops bindings only when the challenge and the transaction expired.
LEMMA TickChallenges ==
  ASSUME ChargeTypeOK, ChallengeInv, Tick
  PROVE  ChallengeInv'
<1>1. /\ UNCHANGED att /\ now \in Nat /\ now' \in Nat /\ now' >= now
      /\ \A u : (u \in Txs => RecordUntil(u) \in Nat) /\ RecordUntil(u)' = RecordUntil(u)
  BY BudgetAssumption, ChargeAssumption DEF Tick, ChargeTypeOK, RecordUntil, ExpiresAt
<1>2. \A u \in Txs : /\ MayBePaid(u)' => MayBePaid(u)
                     /\ NeverPaid(u) => NeverPaid(u)'
                     /\ now' < RecordUntil(u) => now < RecordUntil(u)
  <2>1. \A u \in Txs : /\ chain'[u] \in {"pooled", "paid"} => chain[u] \in {"pooled", "paid"}
                       /\ chain[u] \in {"none", "reverted"} => chain'[u] = chain[u]
    BY DEF Tick, ChargeTypeOK
  <2>2. \A u \in Txs : MayBePaid(u)' => MayBePaid(u)
    BY <1>1, <2>1 DEF MayBePaid
  <2>3. \A u \in Txs : NeverPaid(u) => NeverPaid(u)'
    BY <1>1, <2>1, BudgetAssumption, ChargeAssumption DEF NeverPaid, IsOver, ChainNow
  <2>4. \A u \in Txs : now' < RecordUntil(u) => now < RecordUntil(u)
    BY <1>1
  <2>. QED
    BY <2>2, <2>3, <2>4
<1>3. \A u \in Txs : now' < RecordUntil(u) /\ binding[ChallengeOf[u]].tx = u =>
        binding'[ChallengeOf[u]] = binding[ChallengeOf[u]]
  BY <1>1 DEF Tick, Challenges
<1>4. \A v \in Attempts : att[v].tx \in Txs
  BY AttemptFields
<1>5. OnePayable'
  BY <1>2 DEF ChallengeInv, OnePayable
<1>6. PayableBound'
  <2>1. \A u \in Txs : \A v : Holds(att[v], u)' <=> Holds(att[v], u)
    BY <1>1 DEF Holds, WillRetain, TakesPart
  <2>. QED
    BY <1>1, <1>2, <1>3, <2>1 DEF ChallengeInv, PayableBound
<1>7. AttemptsBound'
  BY <1>1, <1>2, <1>3, <1>4, AttemptPrimes
     DEF ChallengeInv, AttemptsBound, RecordUntil, ExpiresAt
<1>8. ExcludedUnpaid'
  <2>1. \A v \in Attempts : NeverPaid(att[v].tx) => NeverPaid(att[v].tx)'
    BY <1>1, <1>2, <1>4 DEF NeverPaid, IsOver, ChainNow
  <2>. QED
    BY <1>1, <2>1 DEF ChallengeInv, ExcludedUnpaid
<1>. QED
  BY <1>5, <1>6, <1>7, <1>8 DEF ChallengeInv

\* Every step keeps the challenges.
LEMMA ChallengeStep ==
  ChargeTypeOK /\ KeyInv /\ FlagInv /\ ChallengeInv /\ [Next]_vars => ChallengeInv'
<1>. SUFFICES ASSUME ChargeTypeOK, KeyInv, FlagInv, ChallengeInv, [Next]_vars
              PROVE  ChallengeInv'
  OBVIOUS
<1>1. UNCHANGED <<now, chain, binding, att>> => ChallengeInv'
  BY DEF ChallengeInv, OnePayable, PayableBound, AttemptsBound, ExcludedUnpaid, MayBePaid,
         NeverPaid, IsOver, ChainNow, Holds, WillRetain, TakesPart, RecordUntil, ExpiresAt
<1>2. CASE AdmissionNext
  BY <1>2, AdmissionChallenges, BindChallenges DEF AdmissionNext
<1>3. CASE BudgetNext
  <2>1. \/ UNCHANGED <<now, chain, binding, att>>
        \/ \E w \in Attempts : RefuseFloor(w) \/ RefuseSimulation(w) \/ Reserve(w) \/ RefuseBudget(w)
    BY <1>3 DEF BudgetNext, StartSweep, SweepStale, SweepLookup, SweepSettled, admission
  <2>. QED
    BY <1>1, <2>1, SubmissionChallenges
<1>4. CASE SubmissionNext
  BY <1>4, SubmissionChallenges, StartBroadcastChallenges, ChainChallenges DEF SubmissionNext
<1>5. CASE CleanupNext
  BY <1>5, CleanupChallenges, LeaveChallenges DEF CleanupNext
<1>6. CASE (\E t \in Txs : Include(t)) \/ Tick
  BY <1>6, ChainChallenges, TickChallenges
<1>7. CASE UNCHANGED vars
  BY <1>1, <1>7 DEF vars, admission
<1>. QED
  BY <1>2, <1>3, <1>4, <1>5, <1>6, <1>7 DEF Next

\* A challenge is paid by one transaction only, although attempts with others
\* bind it, stop, retry, share the binding and release it.
THEOREM ChallengesPaidOnce == Spec => []OnePaymentPerChallenge
<1>1. Init => ChallengeInv
  <2>. SUFFICES ASSUME Init PROVE ChallengeInv
    OBVIOUS
  <2>1. \A w \in Attempts : \E t \in Txs : att[w] = Fresh(t)
    BY DEF Init
  <2>2. \A t : Fresh(t).pc = "idle" /\ ~Fresh(t).bound /\ ~Fresh(t).excluded
    BY DEF Fresh
  <2>3. \A w \in Attempts : att[w].pc = "idle" /\ ~att[w].bound /\ ~att[w].excluded
    BY <2>1, <2>2
  <2>4. \A t \in Txs : ~MayBePaid(t)
    BY <2>3 DEF Init, MayBePaid
  <2>. QED
    BY <2>3, <2>4 DEF ChallengeInv, OnePayable, PayableBound, AttemptsBound, ExcludedUnpaid,
                      TakesPart
<1>2. ChallengeInv => OnePaymentPerChallenge
  BY DEF ChallengeInv, OnePayable, MayBePaid, OnePaymentPerChallenge
<1>. QED
  BY <1>1, <1>2, InitFlags, KeyStep, FlagStep, ChallengeStep, ChargeTypeCorrect, PTL DEF Spec

-----------------------------------------------------------------------------
(* Refusals are safe when attempts with one transaction do not overlap.    *)

Active(a) == a.pc \notin {"idle", "done"}

\* The transaction was not paid and cannot be included.
Safe(t) == chain[t] \notin {"pooled", "paid"}

\* Challenge and transaction have expired, and so has the marker.
Lapsed(t) == now >= RecordUntil(t)

EarlyStages == {"begun", "claimed", "bound", "admitted"}

\* What an attempt relies on at each stage: an attempt that found no marker is
\* the first; one that sends has a marker; one that clears its marker sent
\* nothing that may land; and so when it answers with a refusal.
Knows(a) ==
  /\ a.pc \in EarlyStages /\ ~a.reconciling => Safe(a.tx) \/ Lapsed(a.tx)
  /\ a.pc \in {"reserved", "ready", "broadcasting"} /\ ~a.reconciling => Safe(a.tx)
  /\ a.pc \in EarlyStages /\ a.reconciling => a.tx \in marker \/ Lapsed(a.tx)
  /\ a.pc \in {"ready", "broadcasting", "sent"} => a.tx \in marker \/ Lapsed(a.tx)
  /\ Active(a) /\ a.marked /\ (a.pc = "broadcasting" \/ ~a.unknown) /\ a.result # "paid" => Safe(a.tx)
  /\ a.pc \in LeavingStages /\ a.result = "refused" => Safe(a.tx) \/ Expires[a.tx] <= now
  /\ a.pc \in LeavingStages /\ a.result = "expired" => Safe(a.tx)

\* A transaction that may be paid has a marker, or keeps its replay key.
Remembered(t) ==
  \/ Safe(t) \/ Lapsed(t) \/ t \in marker
  \/ /\ t \in claims
     /\ \A w \in Attempts : Active(att[w]) /\ att[w].tx = t => att[w].result = "paid"

OneActive ==
  \A v, w \in Attempts :
    Active(att[v]) /\ Active(att[w]) /\ att[v].tx = att[w].tx => v = w

RefusalInv ==
  /\ OneActive
  /\ \A t \in Txs : Remembered(t)
  /\ \A w \in Attempts : Knows(att[w])

\* A step of one attempt, which touches the chain, the marker and the key of
\* its own transaction only.
LEMMA RefusalKept ==
  ASSUME ChargeTypeOK, RefusalInv, NEW w \in Attempts, NEW t \in Txs,
         att[w].tx = t, att'[w].tx = t, \A v \in Attempts \ {w} : att'[v] = att[v],
         \/ Active(att[w])
         \/ \A v \in Attempts : Active(att[v]) => att[v].tx # t,
         UNCHANGED now,
         \A u \in Txs \ {t} : /\ chain'[u] = chain[u]
                              /\ u \in marker' <=> u \in marker
                              /\ u \in claims' <=> u \in claims,
         Knows(att[w])', Remembered(t)'
  PROVE  RefusalInv'
<1>1. \A v \in Attempts : /\ Active(att[v])' <=> Active(att'[v])
                          /\ att[v].tx \in Txs /\ att'[v].tx = att[v].tx
  BY AttemptFields DEF Active
<1>2. \A u \in Txs \ {t} : /\ Safe(u)' <=> Safe(u)
                           /\ Lapsed(u)' <=> Lapsed(u)
  BY DEF Safe, Lapsed, RecordUntil, ExpiresAt
<1>3. OneActive'
  BY <1>1 DEF RefusalInv, OneActive
<1>4. \A u \in Txs : Remembered(u)'
  <2>. SUFFICES ASSUME NEW u \in Txs \ {t} PROVE Remembered(u)'
    OBVIOUS
  <2>1. Remembered(u)
    BY DEF RefusalInv
  <2>. QED
    BY <1>1, <1>2, <2>1 DEF Remembered
<1>5. \A v \in Attempts : Knows(att[v])'
  <2>. SUFFICES ASSUME NEW v \in Attempts \ {w} PROVE Knows(att[v])'
    OBVIOUS
  <2>1. Knows(att[v])
    BY DEF RefusalInv
  <2>2. CASE ~Active(att'[v])
    BY <2>2 DEF Knows, Active, EarlyStages, LeavingStages
  <2>3. CASE Active(att'[v]) /\ att[v].tx # t
    <3>1. att'[v] = att[v] /\ att[v].tx \in Txs \ {t}
      BY <1>1, <2>3
    <3>2. \A u \in Txs \ {t} : /\ Safe(u)' <=> Safe(u)
                               /\ Lapsed(u)' <=> Lapsed(u)
                               /\ u \in marker' <=> u \in marker
      BY <1>2
    <3>. QED
      BY <2>1, <3>1, <3>2 DEF Knows, Active, Safe, Lapsed, RecordUntil, ExpiresAt
  <2>4. CASE Active(att'[v]) /\ att[v].tx = t
    BY <2>4 DEF RefusalInv, OneActive
  <2>. QED
    BY <2>2, <2>3, <2>4, <1>1
<1>. QED
  BY <1>3, <1>4, <1>5 DEF RefusalInv

\* What an attempt may become while the clock, chain, markers and keys stay.
KeepsRefusal(a, b) ==
  /\ b.tx = a.tx /\ Active(a)
  /\ a.result = "paid" => b.result = "paid" \/ ~Active(b)
  /\ Knows(b)

\* Such a change keeps the invariant.
LEMMA QuietRefusal ==
  ASSUME ChargeTypeOK, RefusalInv, NEW w \in Attempts, NEW a,
         KeepsRefusal(att[w], a), Becomes(w, a), UNCHANGED <<now, chain, claims, marker>>
  PROVE  RefusalInv'
<1>. DEFINE t == att[w].tx
<1>. t \in Txs
  BY AttemptFields
<1>1. att'[w] = a /\ (\A v \in Attempts \ {w} : att'[v] = att[v]) /\ Active(att[w]) /\ a.tx = t
  BY DEF Becomes, ChargeTypeOK, KeepsRefusal
<1>2. \A u : /\ Safe(u)' <=> Safe(u)
             /\ Lapsed(u)' <=> Lapsed(u)
  BY DEF Safe, Lapsed, RecordUntil, ExpiresAt
<1>3. Knows(att[w])'
  BY <1>1 DEF KeepsRefusal, Knows, Active, Safe, Lapsed, RecordUntil, ExpiresAt
<1>4. \A u : u = t => Remembered(u)'
  <2>1. Remembered(t)
    BY DEF RefusalInv
  <2>2. \A v \in Attempts : (Active(att[v])' <=> Active(att'[v])) /\ (Active(att'[v]) => Active(att[v]))
    BY <1>1 DEF Active
  <2>3. \A v \in Attempts : Active(att'[v]) /\ att[v].result = "paid" => att'[v].result = "paid"
    BY <1>1 DEF KeepsRefusal
  <2>4. \A v \in Attempts : att'[v].tx = att[v].tx
    BY <1>1
  <2>. QED
    BY <1>2, <2>1, <2>2, <2>3, <2>4 DEF Remembered
<1>. QED
  BY <1>1, <1>3, <1>4, RefusalKept

\* A refusal needs a reason.
MayFail(a, r) ==
  /\ a.pc \in OwnerStages \ LeavingStages
  /\ r = "refused" => Safe(a.tx) \/ Expires[a.tx] <= now
  /\ r = "expired" => Safe(a.tx)

\* Failing with a reason, ending and leaving keep the invariant.
LEMMA FailsKeepRefusal ==
  ASSUME ChargeTypeOK, FlagInv, RefusalInv, NEW w \in Attempts,
         UNCHANGED <<now, chain, claims, marker>>
  PROVE  /\ \A r : MayFail(att[w], r) /\ Becomes(w, Fails(att[w], r)) => RefusalInv'
         /\ \A r : Active(att[w]) /\ Becomes(w, Ends(att[w], r)) => RefusalInv'
         /\ att[w].pc \in LeavingStages =>
              \A pc \in LeavingStages : Moves(w, pc) => RefusalInv'
<1>. DEFINE a == att[w]
<1>. a \in Attempt /\ Flags(a) /\ Knows(a)
  BY AttemptFields DEF FlagInv, RefusalInv
<1>1. ASSUME NEW r, MayFail(a, r) PROVE KeepsRefusal(a, Fails(a, r))
  <2>1. /\ Fails(a, r).tx = a.tx /\ Fails(a, r).pc = "leaving" /\ Fails(a, r).result = r
        /\ Fails(a, r).marked = a.marked /\ Fails(a, r).unknown = a.unknown
    BY DEF Fails, Attempt
  <2>2. a.result # "paid" /\ Active(a)
    BY <1>1 DEF Flags, OwnerStages, Active, MayFail
  <2>. QED
    BY <1>1, <2>1, <2>2 DEF KeepsRefusal, Knows, EarlyStages, LeavingStages, Active, MayFail
<1>2. \A r : Active(a) => KeepsRefusal(a, Ends(a, r))
  BY DEF KeepsRefusal, Knows, EarlyStages, LeavingStages, Active, Ends, Attempt
<1>3. a.pc \in LeavingStages => \A pc \in LeavingStages : KeepsRefusal(a, [a EXCEPT !.pc = pc])
  BY DEF KeepsRefusal, Knows, EarlyStages, LeavingStages, Active, Attempt
<1>4. \A b : KeepsRefusal(a, b) /\ Becomes(w, b) => RefusalInv'
  BY QuietRefusal
<1>5. \A r : MayFail(a, r) /\ Becomes(w, Fails(a, r)) => RefusalInv'
  BY <1>1, <1>4
<1>6. \A r : Active(a) /\ Becomes(w, Ends(a, r)) => RefusalInv'
  BY <1>2, <1>4
<1>7. a.pc \in LeavingStages => \A pc \in LeavingStages : Moves(w, pc) => RefusalInv'
  BY <1>3, <1>4 DEF Moves
<1>. QED
  BY <1>5, <1>6, <1>7

\* A lapsed record is that of an expired challenge.
LEMMA LapsedExpired ==
  ASSUME ChargeTypeOK, NEW t \in Txs, Lapsed(t)
  PROVE  Expires[t] <= now
  BY BudgetAssumption, ChargeAssumption DEF Lapsed, RecordUntil, ExpiresAt, ChargeTypeOK

\* Admission keeps the invariant: an attempt that finds neither key nor marker
\* is the first that may submit.
LEMMA AdmissionRefusals ==
  ASSUME Overlap = FALSE, ChargeTypeOK, KeyInv, FlagInv, RefusalInv, NEW w \in Attempts
  PROVE  /\ Begin(w) => RefusalInv'
         /\ RefuseExpired(w) => RefusalInv'
         /\ ClaimTx(w) => RefusalInv'
         /\ BindChallenge(w) => RefusalInv'
         /\ ClaimPayer(w) => RefusalInv'
         /\ Resend(w) => RefusalInv'
<1>. DEFINE a == att[w]
            t == a.tx
<1>. a \in Attempt /\ Flags(a) /\ t \in Txs /\ Knows(a) /\ Remembered(t)
  BY AttemptFields DEF FlagInv, RefusalInv
<1>1. ASSUME Begin(w) PROVE RefusalInv'
  <2>. DEFINE b == [a EXCEPT !.pc = "begun", !.reconciling = t \in marker]
  <2>1. /\ a.pc = "idle" /\ t \notin claims /\ UNCHANGED <<now, chain, claims, marker>>
        /\ \A v \in Attempts : Active(att[v]) => att[v].tx # t
    BY <1>1 DEF Begin, Active
  <2>2. att'[w] = b /\ \A v \in Attempts \ {w} : att'[v] = att[v]
    BY <1>1 DEF Begin, Becomes, ChargeTypeOK
  <2>3. b.pc = "begun" /\ b.tx = t /\ b.reconciling = (t \in marker) /\ ~b.marked
    BY <2>1 DEF Attempt, Flags
  <2>. HIDE DEF b
  <2>4. Safe(t) \/ Lapsed(t) \/ t \in marker
    BY <2>1 DEF Remembered
  <2>5. Knows(att[w])'
    BY <2>1, <2>2, <2>3, <2>4
       DEF Knows, EarlyStages, LeavingStages, Active, Safe, Lapsed, RecordUntil, ExpiresAt
  <2>6. \A u : u = t => Remembered(u)'
    BY <2>1, <2>4 DEF Remembered, Safe, Lapsed, RecordUntil, ExpiresAt
  <2>. QED
    BY <2>1, <2>2, <2>3, <2>5, <2>6, RefusalKept
<1>2. ASSUME RefuseExpired(w) PROVE RefusalInv'
  <2>1. Active(a) /\ \E r : Becomes(w, Ends(a, r))
    BY <1>2 DEF RefuseExpired, Active
  <2>. QED
    BY <1>2, <2>1, FailsKeepRefusal DEF RefuseExpired
<1>3. ASSUME ClaimTx(w) PROVE RefusalInv'
  <2>1. a.pc = "begun" /\ Active(a) /\ UNCHANGED <<now, chain, marker>> /\ claims' = claims \cup {t}
    BY <1>3 DEF ClaimTx, Active
  <2>2. CASE t \in claims
    BY <1>3, <2>1, <2>2, FailsKeepRefusal DEF ClaimTx, ChargeTypeOK
  <2>3. CASE t \notin claims
    <3>. DEFINE b == [a EXCEPT !.pc = "claimed"]
    <3>1. att'[w] = b /\ \A v \in Attempts \ {w} : att'[v] = att[v]
      BY <1>3, <2>3 DEF ClaimTx, Moves, Becomes, ChargeTypeOK
    <3>2. b.pc = "claimed" /\ b.tx = t /\ b.reconciling = a.reconciling /\ ~b.marked
      BY <2>1 DEF Attempt, Flags
    <3>. HIDE DEF b
    <3>3. Safe(t) \/ Lapsed(t) \/ t \in marker
      BY <2>3 DEF Remembered
    <3>4. Knows(att[w])'
      BY <2>1, <3>1, <3>2 DEF Knows, EarlyStages, LeavingStages, Active, Safe, Lapsed, RecordUntil, ExpiresAt
    <3>5. \A u : u = t => Remembered(u)'
      BY <2>1, <3>3 DEF Remembered, Safe, Lapsed, RecordUntil, ExpiresAt
    <3>. QED
      BY <2>1, <3>1, <3>2, <3>4, <3>5, RefusalKept
  <2>. QED
    BY <2>2, <2>3
<1>4. ASSUME BindChallenge(w) PROVE RefusalInv'
  <2>1. a.pc = "claimed" /\ UNCHANGED <<now, chain, claims, marker>>
    BY <1>4 DEF BindChallenge
  <2>2. KeepsRefusal(a, [a EXCEPT !.pc = "bound", !.bound = TRUE])
    BY <2>1 DEF KeepsRefusal, Knows, EarlyStages, LeavingStages, Active, Flags, Attempt
  <2>. QED
    BY <1>4, <2>1, <2>2, QuietRefusal, FailsKeepRefusal DEF BindChallenge, MayFail, OwnerStages, LeavingStages
<1>5. ASSUME ClaimPayer(w) PROVE RefusalInv'
  <2>1. a.pc = "bound" /\ UNCHANGED <<now, chain, claims, marker>>
    BY <1>5 DEF ClaimPayer
  <2>2. KeepsRefusal(a, Admitted(a))
    BY <2>1 DEF KeepsRefusal, Knows, EarlyStages, LeavingStages, Active, Flags, Admitted, Attempt
  <2>3. ~a.reconciling => Safe(t) \/ Expires[t] <= now
    BY <2>1, LapsedExpired DEF Knows, EarlyStages
  <2>4. \/ Becomes(w, Admitted(a))
        \/ UNCHANGED att
        \/ \E r : r \in {"internal", "refused"} /\ (r = "refused" => ~a.reconciling) /\ Becomes(w, Fails(a, r))
    BY <1>5 DEF ClaimPayer
  <2>5. UNCHANGED att => RefusalInv'
    BY <2>1 DEF RefusalInv, OneActive, Remembered, Knows, Active, Safe, Lapsed, RecordUntil, ExpiresAt
  <2>. QED
    BY <2>1, <2>2, <2>3, <2>4, <2>5, QuietRefusal, FailsKeepRefusal DEF MayFail, OwnerStages, LeavingStages
<1>6. ASSUME Resend(w) PROVE RefusalInv'
  <2>1. a.pc = "admitted" /\ a.reconciling /\ UNCHANGED <<now, chain, claims, marker>>
    BY <1>6 DEF Resend, Reconciling
  <2>2. KeepsRefusal(a, [a EXCEPT !.pc = "ready"])
    BY <2>1 DEF KeepsRefusal, Knows, EarlyStages, LeavingStages, Active, Flags, Attempt
  <2>. QED
    BY <1>6, <2>1, <2>2, QuietRefusal DEF Resend, Moves
<1>. QED
  BY <1>1, <1>2, <1>3, <1>4, <1>5, <1>6

\* Reservation keeps the invariant: what was not paid when the wait ended
\* in time is not paid yet.
LEMMA BudgetRefusals ==
  ASSUME ChargeTypeOK, FlagInv, RefusalInv, NEW w \in Attempts
  PROVE  /\ RefuseFloor(w) => RefusalInv'
         /\ RefuseSimulation(w) => RefusalInv'
         /\ Reserve(w) => RefusalInv'
         /\ RefuseBudget(w) => RefusalInv'
<1>. DEFINE a == att[w]
            t == a.tx
<1>. a \in Attempt /\ Flags(a) /\ t \in Txs /\ Knows(a)
  BY AttemptFields DEF FlagInv, RefusalInv
<1>1. a.pc \in {"admitted", "reserved"} /\ ~a.reconciling => \A r : r # "expired" => MayFail(a, r)
  BY LapsedExpired DEF MayFail, Knows, EarlyStages, OwnerStages, LeavingStages
<1>2. ASSUME RefuseFloor(w) PROVE RefusalInv'
  <2>1. \E r : r # "expired" /\ Becomes(w, Fails(a, r))
    BY <1>2 DEF RefuseFloor, Refusal
  <2>. QED
    BY <1>1, <1>2, <2>1, FailsKeepRefusal DEF RefuseFloor
<1>3. ASSUME RefuseSimulation(w) PROVE RefusalInv'
  BY <1>1, <1>3, FailsKeepRefusal DEF RefuseSimulation
<1>4. ASSUME Reserve(w) PROVE RefusalInv'
  <2>1. a.pc = "admitted" /\ ~a.reconciling /\ now < WaitUntil(t) /\ UNCHANGED <<now, chain, claims, marker>>
    BY <1>4 DEF Reserve
  <2>2. WaitUntil(t) <= Expires[t]
    BY BudgetAssumption, ChargeAssumption DEF WaitUntil
  <2>3. WaitUntil(t) \in Int /\ now \in Int /\ Expires[t] \in Int
    BY BudgetAssumption, ChargeAssumption DEF WaitUntil, ChargeTypeOK
  <2>4. Safe(t)
    BY <2>1, <2>2, <2>3, LapsedExpired DEF Knows, EarlyStages
  <2>5. KeepsRefusal(a, [a EXCEPT !.pc = "reserved", !.held = TRUE])
    BY <2>1, <2>4 DEF KeepsRefusal, Knows, EarlyStages, LeavingStages, Active, Flags, Attempt
  <2>6. KeepsRefusal(a, [a EXCEPT !.waiting = TRUE])
    BY <2>1, <2>4 DEF KeepsRefusal, Knows, EarlyStages, LeavingStages, Active, Flags, Attempt
  <2>7. \/ Becomes(w, Fails(a, "internal"))
        \/ Becomes(w, [a EXCEPT !.pc = "reserved", !.held = TRUE])
        \/ Becomes(w, [a EXCEPT !.waiting = TRUE])
    BY <1>4 DEF Reserve
  <2>. QED
    BY <1>1, <2>1, <2>5, <2>6, <2>7, FailsKeepRefusal, QuietRefusal
<1>5. ASSUME RefuseBudget(w) PROVE RefusalInv'
  <2>1. /\ a.pc = "admitted" /\ ~a.reconciling /\ UNCHANGED <<now, chain, claims, marker>>
        /\ Becomes(w, Fails(a, "refused"))
    BY <1>5 DEF RefuseBudget
  <2>. QED
    BY <1>1, <2>1, FailsKeepRefusal
<1>. QED
  BY <1>2, <1>3, <1>4, <1>5


\* Reconciliation keeps the invariant: a receipt for a paid transaction keeps
\* the replay key, and an excluded transaction is safe to refuse.
LEMMA ReconcileRefusals ==
  ASSUME ChargeTypeOK, KeyInv, FlagInv, RefusalInv, NEW w \in Attempts
  PROVE  /\ ReconcilePaid(w) => RefusalInv'
         /\ ReconcileExcluded(w) => RefusalInv'
         /\ Confirm(w) => RefusalInv'
<1>. DEFINE a == att[w]
            t == a.tx
<1>. a \in Attempt /\ Flags(a) /\ t \in Txs /\ Knows(a)
  BY AttemptFields DEF FlagInv, RefusalInv
<1>1. ASSUME NEW b, Becomes(w, b), b.tx = t, b.pc = "leaving", b.result = "paid",
             a.pc \in OwnerStages \ LeavingStages, marker' = marker \ {t},
             UNCHANGED <<now, chain, claims>>
      PROVE  RefusalInv'
  <2>1. att'[w] = b /\ \A v \in Attempts \ {w} : att'[v] = att[v]
    BY <1>1 DEF Becomes, ChargeTypeOK
  <2>2. Active(a) /\ Active(b)
    BY <1>1 DEF Active, OwnerStages
  <2>3. t \in claims
    BY <1>1 DEF KeyInv, HoldsKey
  <2>4. Knows(att[w])'
    BY <1>1, <2>1 DEF Knows, EarlyStages, LeavingStages, Active
  <2>5. \A v \in Attempts : Active(att[v])' /\ att'[v].tx = t => att'[v].result = "paid"
    BY <1>1, <2>1, <2>2 DEF RefusalInv, OneActive, Active
  <2>6. \A u : u = t => Remembered(u)'
    BY <1>1, <2>3, <2>5 DEF Remembered
  <2>. QED
    BY <1>1, <2>1, <2>2, <2>4, <2>6, RefusalKept
<1>2. ASSUME NEW b, Becomes(w, b), b.tx = t, b.pc = "leaving", Safe(t), Active(a),
             marker' \in {marker, marker \ {t}}, UNCHANGED <<now, chain, claims>>
      PROVE  RefusalInv'
  <2>1. att'[w] = b /\ \A v \in Attempts \ {w} : att'[v] = att[v]
    BY <1>2 DEF Becomes, ChargeTypeOK
  <2>2. Knows(att[w])'
    BY <1>2, <2>1 DEF Knows, EarlyStages, LeavingStages, Active, Safe
  <2>3. \A u : u = t => Remembered(u)'
    BY <1>2 DEF Remembered, Safe
  <2>. QED
    BY <1>2, <2>1, <2>2, <2>3, RefusalKept
<1>3. ASSUME ReconcilePaid(w) PROVE RefusalInv'
  <2>1. Fails(a, "paid").tx = t /\ Fails(a, "paid").pc = "leaving" /\ Fails(a, "paid").result = "paid"
    BY DEF Fails, Attempt
  <2>2. a.pc \in OwnerStages \ LeavingStages
    BY <1>3 DEF ReconcilePaid, Reconciling, OwnerStages, LeavingStages
  <2>3. /\ marker' = marker \ {t} /\ Becomes(w, Fails(a, "paid"))
        /\ UNCHANGED <<now, chain, claims>>
    BY <1>3 DEF ReconcilePaid
  <2>. QED
    BY <1>1, <2>1, <2>2, <2>3
<1>4. ASSUME ReconcileExcluded(w) PROVE RefusalInv'
  <2>. DEFINE b == [Fails(a, "refused") EXCEPT !.reconciling = FALSE, !.excluded = TRUE]
  <2>1. b.tx = t /\ b.pc = "leaving"
    BY DEF Fails, Attempt
  <2>2. Active(a) /\ Safe(t)
    BY <1>4 DEF ReconcileExcluded, Reconciling, Active, Safe
  <2>3. /\ marker' \in {marker, marker \ {t}} /\ Becomes(w, b)
        /\ UNCHANGED <<now, chain, claims>>
    BY <1>4 DEF ReconcileExcluded
  <2>. QED
    BY <1>2, <2>1, <2>2, <2>3
<1>5. ASSUME Confirm(w) PROVE RefusalInv'
  <2>. DEFINE b == [Fails(a, "paid") EXCEPT !.unknown = FALSE]
              c == [Fails(a, "internal") EXCEPT !.unknown = FALSE, !.reconciling = FALSE]
  <2>1. /\ b.tx = t /\ b.pc = "leaving" /\ b.result = "paid"
        /\ c.tx = t /\ c.pc = "leaving"
    BY DEF Fails, Attempt
  <2>2. a.pc \in OwnerStages \ LeavingStages /\ Active(a) /\ UNCHANGED <<now, chain, claims>>
    BY <1>5 DEF Confirm, OwnerStages, LeavingStages, Active
  <2>3. \/ marker' = marker \ {t} /\ Becomes(w, b)
        \/ Safe(t) /\ marker' = marker /\ Becomes(w, c)
    BY <1>5 DEF Confirm, Safe
  <2>. QED
    BY <1>1, <1>2, <2>1, <2>2, <2>3
<1>. QED
  BY <1>3, <1>4, <1>5

\* Submission keeps the invariant: there is a marker before the send.
LEMMA SubmissionRefusals ==
  ASSUME ChargeTypeOK, FlagInv, RefusalInv, NEW w \in Attempts
  PROVE  /\ Mark(w) => RefusalInv'
         /\ RefuseChallenge(w) => RefusalInv'
         /\ StartBroadcast(w) => RefusalInv'
         /\ Send(w) => RefusalInv'
         /\ SendRefused(w) => RefusalInv'
         /\ LoseOutcome(w) => RefusalInv'
         /\ InternalError(w) => RefusalInv'
<1>. DEFINE a == att[w]
            t == a.tx
<1>. a \in Attempt /\ Flags(a) /\ t \in Txs /\ Knows(a)
  BY AttemptFields DEF FlagInv, RefusalInv
<1>0. \A r : r \notin {"refused", "expired"} /\ a.pc \in OwnerStages \ LeavingStages => MayFail(a, r)
  BY DEF MayFail
<1>1. ASSUME Mark(w) PROVE RefusalInv'
  <2>1. /\ a.pc = "reserved" /\ Active(a) /\ marker' = marker \cup {t}
        /\ UNCHANGED <<now, chain, claims>>
    BY <1>1 DEF Mark, Active
  <2>2. Safe(t)
    BY <2>1 DEF Flags, Knows
  <2>3. CASE t \in marker
    <3>1. marker' = marker /\ Becomes(w, Fails(a, "internal"))
      BY <1>1, <2>1, <2>3 DEF Mark
    <3>. QED
      BY <1>0, <2>1, <3>1, FailsKeepRefusal DEF OwnerStages, LeavingStages
  <2>4. CASE t \notin marker
    <3>. DEFINE b == [a EXCEPT !.pc = "ready", !.marked = TRUE]
    <3>1. att'[w] = b /\ \A v \in Attempts \ {w} : att'[v] = att[v]
      BY <1>1, <2>4 DEF Mark, Becomes, ChargeTypeOK
    <3>2. b.pc = "ready" /\ b.tx = t
      BY DEF Attempt
    <3>. HIDE DEF b
    <3>3. Knows(att[w])'
      BY <2>1, <2>2, <3>1, <3>2
         DEF Knows, EarlyStages, LeavingStages, Active, Safe, Lapsed, RecordUntil, ExpiresAt
    <3>4. \A u : u = t => Remembered(u)'
      BY <2>1 DEF Remembered
    <3>. QED
      BY <2>1, <3>1, <3>2, <3>3, <3>4, RefusalKept
  <2>. QED
    BY <2>3, <2>4
<1>2. ASSUME RefuseChallenge(w) PROVE RefusalInv'
  <2>1. /\ a.pc = "ready" /\ UNCHANGED <<now, chain, claims, marker>>
        /\ \/ a.reconciling /\ Becomes(w, Fails(a, "internal"))
           \/ ~a.reconciling /\ Becomes(w, Fails(a, "expired"))
    BY <1>2 DEF RefuseChallenge
  <2>2. ~a.reconciling => MayFail(a, "expired")
    BY <2>1 DEF MayFail, Knows, OwnerStages, LeavingStages
  <2>3. MayFail(a, "internal")
    BY <2>1 DEF MayFail, OwnerStages, LeavingStages
  <2>. QED
    BY <2>1, <2>2, <2>3, FailsKeepRefusal
<1>3. ASSUME StartBroadcast(w) PROVE RefusalInv'
  <2>1. /\ a.pc = "ready" /\ UNCHANGED <<now, chain, claims, marker>>
        /\ \/ Becomes(w, Sending(a))
           \/ a.held /\ Becomes(w, Fails(a, "refused"))
    BY <1>3 DEF StartBroadcast
  <2>2. a.held => MayFail(a, "refused")
    BY <2>1 DEF MayFail, Flags, Knows, OwnerStages, LeavingStages
  <2>3. KeepsRefusal(a, Sending(a))
    BY <2>1 DEF KeepsRefusal, Knows, EarlyStages, LeavingStages, Active, Flags, Sending, Attempt
  <2>. QED
    BY <2>1, <2>2, <2>3, FailsKeepRefusal, QuietRefusal
<1>4. ASSUME Send(w) PROVE RefusalInv'
  <2>. DEFINE b == [a EXCEPT !.pc = "sent"]
  <2>1. /\ a.pc = "broadcasting" /\ Active(a) /\ UNCHANGED <<now, claims, marker>>
        /\ \A u \in Txs \ {t} : chain'[u] = chain[u]
    BY <1>4 DEF Send, Active, ChargeTypeOK
  <2>2. att'[w] = b /\ \A v \in Attempts \ {w} : att'[v] = att[v]
    BY <1>4 DEF Send, Moves, Becomes, ChargeTypeOK
  <2>3. b.pc = "sent" /\ b.tx = t /\ b.unknown
    BY <2>1 DEF Attempt, Flags
  <2>. HIDE DEF b
  <2>4. t \in marker \/ Lapsed(t)
    BY <2>1 DEF Knows
  <2>5. Knows(att[w])'
    BY <2>1, <2>2, <2>3, <2>4 DEF Knows, EarlyStages, LeavingStages, Active, Lapsed, RecordUntil, ExpiresAt
  <2>6. \A u : u = t => Remembered(u)'
    BY <2>1, <2>4 DEF Remembered, Lapsed, RecordUntil, ExpiresAt
  <2>. QED
    BY <2>1, <2>2, <2>3, <2>5, <2>6, RefusalKept
<1>5. ASSUME SendRefused(w) PROVE RefusalInv'
  <2>1. /\ a.pc = "broadcasting" /\ UNCHANGED <<now, chain, claims, marker>>
        /\ Becomes(w, [Fails(a, "internal") EXCEPT !.unknown = FALSE])
    BY <1>5 DEF SendRefused
  <2>2. KeepsRefusal(a, [Fails(a, "internal") EXCEPT !.unknown = FALSE])
    BY <2>1 DEF KeepsRefusal, Knows, EarlyStages, LeavingStages, Active, Flags, Fails, Attempt
  <2>. QED
    BY <2>1, <2>2, QuietRefusal
<1>6. ASSUME LoseOutcome(w) \/ InternalError(w) PROVE RefusalInv'
  <2>1. /\ a.pc \in OwnerStages \ LeavingStages /\ UNCHANGED <<now, chain, claims, marker>>
        /\ Becomes(w, Fails(a, "internal"))
    BY <1>6 DEF LoseOutcome, InternalError, OwnerStages, LeavingStages
  <2>. QED
    BY <1>0, <2>1, FailsKeepRefusal
<1>. QED
  BY <1>1, <1>2, <1>3, <1>4, <1>5, <1>6

\* Cleanup keeps the invariant: only a marker behind which nothing may land is
\* cleared, and only a key that is not the last record of a payment.
LEMMA CleanupRefusals ==
  ASSUME ChargeTypeOK, FlagInv, RefusalInv, NEW w \in Attempts
  PROVE  /\ LeavePayer(w) => RefusalInv'
         /\ LeaveChallenge(w) => RefusalInv'
         /\ LeaveMarker(w) => RefusalInv'
         /\ LeaveClaim(w) => RefusalInv'
         /\ Settle(w) => RefusalInv'
         /\ Crash(w) => RefusalInv'
<1>. DEFINE a == att[w]
            t == a.tx
<1>. a \in Attempt /\ Flags(a) /\ t \in Txs /\ Knows(a) /\ Remembered(t)
  BY AttemptFields DEF FlagInv, RefusalInv
<1>1. ASSUME NEW pc \in LeavingStages, a.pc \in LeavingStages, Moves(w, pc),
             marker' \in {marker, marker \ {t}}, claims' \in {claims, claims \ {t}},
             UNCHANGED <<now, chain>>,
             Safe(t) \/ UNCHANGED marker,
             Safe(t) \/ Lapsed(t) \/ t \in marker
      PROVE  RefusalInv'
  <2>. DEFINE b == [a EXCEPT !.pc = pc]
  <2>1. att'[w] = b /\ \A v \in Attempts \ {w} : att'[v] = att[v]
    BY <1>1 DEF Moves, Becomes, ChargeTypeOK
  <2>2. /\ b.pc = pc /\ b.tx = t /\ b.marked = a.marked /\ b.unknown = a.unknown
        /\ b.result = a.result
    BY DEF Attempt
  <2>. HIDE DEF b
  <2>3. Active(a)
    BY <1>1 DEF Active, LeavingStages
  <2>4. Knows(att[w])'
    BY <1>1, <2>1, <2>2 DEF Knows, EarlyStages, LeavingStages, Active, Safe
  <2>5. \A u : u = t => Remembered(u)'
    BY <1>1 DEF Remembered, Safe, Lapsed, RecordUntil, ExpiresAt
  <2>. QED
    BY <1>1, <2>1, <2>2, <2>3, <2>4, <2>5, RefusalKept
<1>2. ASSUME LeavePayer(w) \/ LeaveChallenge(w) PROVE RefusalInv'
  <2>1. /\ a.pc \in LeavingStages /\ UNCHANGED <<now, chain, claims, marker>>
        /\ Moves(w, "unbinding") \/ Moves(w, "unmarking")
    BY <1>2 DEF LeavePayer, LeaveChallenge, LeavingStages
  <2>. QED
    BY <2>1, FailsKeepRefusal DEF LeavingStages
<1>3. ASSUME LeaveMarker(w) PROVE RefusalInv'
  <2>1. a.pc = "unmarking" /\ Active(a) /\ Moves(w, "unclaiming") /\ UNCHANGED <<now, chain, claims>>
    BY <1>3 DEF LeaveMarker, Active
  <2>2. \/ marker' = marker
        \/ ClearsMarker(a) /\ marker' = marker \ {t}
    BY <1>3, Zenon DEF LeaveMarker
  <2>3. ClearsMarker(a) => Safe(t)
    BY <2>1 DEF ClearsMarker, Knows
  <2>4. CASE marker' = marker
    BY <2>1, <2>4, FailsKeepRefusal DEF LeavingStages
  <2>5. CASE ClearsMarker(a) /\ marker' = marker \ {t}
    BY <1>1, <2>1, <2>3, <2>5 DEF LeavingStages
  <2>. QED
    BY <2>2, <2>4, <2>5
<1>4. ASSUME LeaveClaim(w) PROVE RefusalInv'
  <2>1. a.pc = "unclaiming" /\ Active(a) /\ Moves(w, "settling") /\ UNCHANGED <<now, chain, marker>>
    BY <1>4 DEF LeaveClaim, Active
  <2>2. CASE a.result = "paid"
    <3>1. UNCHANGED claims
      BY <1>4, <2>2 DEF LeaveClaim, KeepsClaim
    <3>. QED
      BY <2>1, <3>1, FailsKeepRefusal DEF LeavingStages
  <2>3. CASE a.result # "paid"
    <3>1. claims' = claims \ {t}
      BY <1>4, <2>3 DEF LeaveClaim, KeepsClaim
    <3>2. Safe(t) \/ Lapsed(t) \/ t \in marker
      BY <2>1, <2>3 DEF Remembered
    <3>. QED
      BY <1>1, <2>1, <3>1, <3>2 DEF LeavingStages
  <2>. QED
    BY <2>2, <2>3
<1>5. ASSUME Settle(w) \/ Crash(w) PROVE RefusalInv'
  <2>1. /\ Active(a) /\ UNCHANGED <<now, chain, claims, marker>>
        /\ \E r : Becomes(w, Ends(a, r))
    BY <1>5 DEF Settle, Crash, Active
  <2>. QED
    BY <2>1, FailsKeepRefusal
<1>. QED
  BY <1>2, <1>3, <1>4, <1>5

\* The chain and time keep the invariant: what is not paid stays so, and a
\* marker goes when it has lapsed.
LEMMA WorldRefusals ==
  ASSUME ChargeTypeOK, RefusalInv, (\E t \in Txs : Include(t)) \/ Tick
  PROVE  RefusalInv'
<1>1. UNCHANGED <<claims, att>> /\ now \in Nat /\ now' \in Nat /\ now <= now'
  BY DEF Include, Tick, ChargeTypeOK
<1>2. \A t \in Txs : RecordUntil(t) \in Nat /\ Expires[t] \in Nat
  BY BudgetAssumption, ChargeAssumption DEF RecordUntil, ExpiresAt
<1>3. \A t \in Txs : Lapsed(t) => Lapsed(t)'
  BY <1>1, <1>2 DEF Lapsed, RecordUntil, ExpiresAt
<1>4. \A t \in Txs : Expires[t] <= now => Expires[t] <= now'
  BY <1>1, <1>2
<1>5. \A t \in Txs : Safe(t) => Safe(t)'
  BY DEF Safe, Include, Tick, ChargeTypeOK
<1>6. \A t \in Txs : t \in marker => t \in marker' \/ Lapsed(t)'
  <2>1. CASE \E t \in Txs : Include(t)
    BY <2>1 DEF Include
  <2>2. CASE Tick
    BY <1>1, <1>2, <2>2 DEF Tick, Lapsed, RecordUntil, ExpiresAt
  <2>. QED
    BY <2>1, <2>2
<1>7. \A w \in Attempts : att[w].tx \in Txs
  BY AttemptFields
<1>8. OneActive'
  BY <1>1 DEF RefusalInv, OneActive, Active
<1>9. \A t \in Txs : Remembered(t)'
  <2>. SUFFICES ASSUME NEW t \in Txs PROVE Remembered(t)'
    OBVIOUS
  <2>1. Remembered(t)
    BY DEF RefusalInv
  <2>. QED
    BY <1>1, <1>3, <1>5, <1>6, <2>1 DEF Remembered, Active
<1>10. \A w \in Attempts : Knows(att[w])'
  <2>. SUFFICES ASSUME NEW w \in Attempts PROVE Knows(att[w])'
    OBVIOUS
  <2>. DEFINE t == att[w].tx
  <2>1. Knows(att[w]) /\ t \in Txs /\ att'[w] = att[w]
    BY <1>1, <1>7 DEF RefusalInv
  <2>2. \A u : u = t => /\ Safe(u) => Safe(u)'
                        /\ Lapsed(u) => Lapsed(u)'
                        /\ u \in marker => u \in marker' \/ Lapsed(u)'
                        /\ Expires[u] <= now => Expires[u] <= now'
    BY <1>3, <1>4, <1>5, <1>6, <2>1
  <2>. QED
    BY <2>1, <2>2 DEF Knows, Active, Safe, Lapsed, RecordUntil, ExpiresAt
<1>. QED
  BY <1>8, <1>9, <1>10 DEF RefusalInv

\* RefusalInv is inductive when attempts do not overlap.
LEMMA RefusalStep ==
  ASSUME Overlap = FALSE, ChargeTypeOK, KeyInv, FlagInv, RefusalInv, [Next]_vars
  PROVE  RefusalInv'
<1>1. UNCHANGED <<now, chain, claims, marker, att>> => RefusalInv'
  BY DEF RefusalInv, OneActive, Remembered, Knows, Active, Safe, Lapsed, RecordUntil, ExpiresAt
<1>2. CASE AdmissionNext
  BY <1>2, AdmissionRefusals, ReconcileRefusals DEF AdmissionNext
<1>3. CASE BudgetNext
  <2>1. \/ UNCHANGED <<now, chain, claims, marker, att>>
        \/ \E w \in Attempts : RefuseFloor(w) \/ RefuseSimulation(w) \/ Reserve(w) \/ RefuseBudget(w)
    BY <1>3 DEF BudgetNext, StartSweep, SweepStale, SweepLookup, SweepSettled
  <2>. QED
    BY <1>1, <2>1, BudgetRefusals
<1>4. CASE SubmissionNext
  BY <1>4, SubmissionRefusals, ReconcileRefusals DEF SubmissionNext
<1>5. CASE CleanupNext
  BY <1>5, CleanupRefusals DEF CleanupNext
<1>6. CASE (\E t \in Txs : Include(t)) \/ Tick
  BY <1>6, WorldRefusals
<1>7. CASE UNCHANGED vars
  BY <1>1, <1>7 DEF vars
<1>. QED
  BY <1>2, <1>3, <1>4, <1>5, <1>6, <1>7 DEF Next

\* A step of an attempt that is not answered by it.
Continues(w) == att'[w].pc # "done" /\ \A v \in Attempts \ {w} : att'[v] = att[v]

Answers(w) == RefuseExpired(w) \/ ClaimTx(w) \/ Settle(w) \/ Crash(w)

\* Only four actions answer an attempt.
LEMMA OthersContinue ==
  ASSUME ChargeTypeOK, [Next]_vars
  PROVE  \/ UNCHANGED att
         \/ \E w \in Attempts : Continues(w) \/ Answers(w)
<1>1. \A w \in Attempts : \A b : b.pc # "done" /\ Becomes(w, b) => Continues(w)
  BY DEF Becomes, Continues, ChargeTypeOK
<1>2. \A w \in Attempts : \A pc : [att[w] EXCEPT !.pc = pc].pc = pc
  BY AttemptFields DEF Attempt
<1>3. \A w \in Attempts : \A r : Fails(att[w], r).pc = "leaving"
  BY AttemptFields DEF Attempt, Fails
<1>4. \A w \in Attempts : \A pc : Moves(w, pc) /\ pc # "done" => Continues(w)
  BY <1>1, <1>2 DEF Moves
<1>5. \A w \in Attempts : \A r : Becomes(w, Fails(att[w], r)) => Continues(w)
  BY <1>1, <1>3
<1>6. CASE AdmissionNext
  <2>. SUFFICES ASSUME NEW w \in Attempts PROVE
         /\ Begin(w) => Continues(w)
         /\ BindChallenge(w) => Continues(w)
         /\ ClaimPayer(w) => UNCHANGED att \/ Continues(w)
         /\ ReconcilePaid(w) => Continues(w)
         /\ ReconcileExcluded(w) => Continues(w)
         /\ Resend(w) => Continues(w)
    BY <1>6 DEF AdmissionNext, Answers
  <2>. DEFINE a == att[w]
  <2>. a \in Attempt
    BY AttemptFields
  <2>1. Begin(w) => Continues(w)
    <3>1. \A b : [a EXCEPT !.pc = "begun", !.reconciling = b].pc = "begun"
      BY DEF Attempt
    <3>. QED
      BY <1>1, <3>1 DEF Begin
  <2>2. BindChallenge(w) => Continues(w)
    <3>1. [a EXCEPT !.pc = "bound", !.bound = TRUE].pc = "bound"
      BY DEF Attempt
    <3>. QED
      BY <1>1, <1>5, <3>1 DEF BindChallenge
  <2>3. ClaimPayer(w) => UNCHANGED att \/ Continues(w)
    <3>1. Admitted(a).pc = "admitted"
      BY DEF Admitted, Attempt
    <3>. QED
      BY <1>1, <1>5, <3>1 DEF ClaimPayer
  <2>4. ReconcilePaid(w) \/ Resend(w) => Continues(w)
    BY <1>4, <1>5 DEF ReconcilePaid, Resend
  <2>5. ReconcileExcluded(w) => Continues(w)
    <3>1. [Fails(a, "refused") EXCEPT !.reconciling = FALSE, !.excluded = TRUE].pc = "leaving"
      BY DEF Fails, Attempt
    <3>. QED
      BY <1>1, <3>1 DEF ReconcileExcluded
  <2>. QED
    BY <2>1, <2>2, <2>3, <2>4, <2>5
<1>7. CASE BudgetNext
  <2>. SUFFICES ASSUME NEW w \in Attempts PROVE
         /\ RefuseFloor(w) \/ RefuseSimulation(w) \/ RefuseBudget(w) => Continues(w)
         /\ Reserve(w) => Continues(w)
    BY <1>7 DEF BudgetNext, StartSweep, SweepStale, SweepLookup, SweepSettled
  <2>. DEFINE a == att[w]
  <2>. a \in Attempt
    BY AttemptFields
  <2>1. RefuseFloor(w) \/ RefuseSimulation(w) \/ RefuseBudget(w) => Continues(w)
    BY <1>5 DEF RefuseFloor, RefuseSimulation, RefuseBudget
  <2>2. ASSUME Reserve(w) PROVE Continues(w)
    <3>1. [a EXCEPT !.pc = "reserved", !.held = TRUE].pc = "reserved"
      BY DEF Attempt
    <3>2. [a EXCEPT !.waiting = TRUE].pc = a.pc
      BY DEF Attempt
    <3>. QED
      BY <1>1, <1>5, <2>2, <3>1, <3>2 DEF Reserve
  <2>. QED
    BY <2>1, <2>2
<1>8. CASE SubmissionNext
  <2>. SUFFICES ASSUME NEW w \in Attempts PROVE
         /\ Mark(w) => Continues(w)
         /\ RefuseChallenge(w) \/ Send(w) \/ LoseOutcome(w) \/ InternalError(w) => Continues(w)
         /\ StartBroadcast(w) => Continues(w)
         /\ SendRefused(w) => Continues(w)
         /\ Confirm(w) => Continues(w)
    BY <1>8 DEF SubmissionNext
  <2>. DEFINE a == att[w]
  <2>. a \in Attempt
    BY AttemptFields
  <2>1. Mark(w) => Continues(w)
    <3>1. [a EXCEPT !.pc = "ready", !.marked = TRUE].pc = "ready"
      BY DEF Attempt
    <3>. QED
      BY <1>1, <1>5, <3>1 DEF Mark
  <2>2. RefuseChallenge(w) \/ Send(w) \/ LoseOutcome(w) \/ InternalError(w) => Continues(w)
    BY <1>4, <1>5 DEF RefuseChallenge, Send, LoseOutcome, InternalError
  <2>3. StartBroadcast(w) => Continues(w)
    <3>1. Sending(a).pc = "broadcasting"
      BY DEF Sending, Attempt
    <3>. QED
      BY <1>1, <1>5, <3>1 DEF StartBroadcast
  <2>4. SendRefused(w) => Continues(w)
    <3>1. [Fails(a, "internal") EXCEPT !.unknown = FALSE].pc = "leaving"
      BY DEF Fails, Attempt
    <3>. QED
      BY <1>1, <3>1 DEF SendRefused
  <2>5. Confirm(w) => Continues(w)
    <3>1. /\ [Fails(a, "paid") EXCEPT !.unknown = FALSE].pc = "leaving"
          /\ [Fails(a, "internal") EXCEPT !.unknown = FALSE, !.reconciling = FALSE].pc = "leaving"
      BY DEF Fails, Attempt
    <3>. QED
      BY <1>1, <3>1 DEF Confirm
  <2>. QED
    BY <2>1, <2>2, <2>3, <2>4, <2>5
<1>9. CASE CleanupNext
  <2>1. \A w \in Attempts : LeavePayer(w) \/ LeaveChallenge(w) \/ LeaveMarker(w) \/ LeaveClaim(w)
                              => Continues(w)
    BY <1>4 DEF LeavePayer, LeaveChallenge, LeaveMarker, LeaveClaim
  <2>. QED
    BY <1>9, <2>1 DEF CleanupNext, Answers
<1>10. CASE (\E t \in Txs : Include(t)) \/ Tick \/ UNCHANGED vars
  BY <1>10 DEF Include, Tick, vars
<1>. QED
  BY <1>6, <1>7, <1>8, <1>9, <1>10 DEF Next

\* A step that answers a refusal does so for a transaction that is safe.
LEMMA SafeAnswer ==
  ASSUME ChargeTypeOK, FlagInv, RefusalInv, NEW w \in Attempts, Answers(w),
         att'[w].result \in {"refused", "expired"}, att'[w].pc = "done"
  PROVE  Safe(att[w].tx)
<1>. DEFINE a == att[w]
            t == a.tx
<1>. a \in Attempt /\ Flags(a) /\ t \in Txs /\ Knows(a)
  BY AttemptFields DEF FlagInv, RefusalInv
<1>1. \A r : Becomes(w, Ends(a, r)) => att'[w].result = r
  BY DEF Becomes, Ends, Attempt, ChargeTypeOK
<1>2. CASE RefuseExpired(w)
  <2>1. a.pc = "begun" /\ ~a.reconciling
    BY <1>2 DEF RefuseExpired
  <2>2. ~(Expires[t] <= now)
    BY <1>1, <1>2 DEF RefuseExpired
  <2>. QED
    BY <2>1, <2>2, LapsedExpired DEF Knows, EarlyStages
<1>3. CASE ClaimTx(w)
  <2>1. [a EXCEPT !.pc = "claimed"].pc = "claimed"
    BY DEF Attempt
  <2>2. Moves(w, "claimed") => att'[w].pc = "claimed"
    BY <2>1 DEF Moves, Becomes, ChargeTypeOK
  <2>3. Becomes(w, Ends(a, "replayed")) \/ Moves(w, "claimed")
    BY <1>3 DEF ClaimTx
  <2>. QED
    BY <1>1, <2>2, <2>3
<1>4. CASE Settle(w)
  <2>1. a.pc = "settling"
    BY <1>4 DEF Settle
  <2>2. \/ a.result = "refused" /\ ~(Expires[t] <= now)
        \/ a.result = "expired"
    BY <1>1, <1>4 DEF Settle
  <2>. QED
    BY <2>1, <2>2 DEF Knows, LeavingStages
<1>5. CASE Crash(w)
  BY <1>1, <1>5 DEF Crash
<1>. QED
  BY <1>2, <1>3, <1>4, <1>5 DEF Answers

\* When the attempts of a transaction follow each other, a refusal answered to
\* one of them is safe: the transaction was not paid and cannot land, whatever
\* was sent before, lost, crashed or left uncleaned.
THEOREM RefusalsStaySafe ==
  ASSUME Overlap = FALSE
  PROVE  Spec => RefusalsAreSafe
<1>1. Init => RefusalInv
  <2>. SUFFICES ASSUME Init PROVE RefusalInv
    OBVIOUS
  <2>1. \A w \in Attempts : \E t \in Txs : att[w] = Fresh(t)
    BY DEF Init
  <2>2. \A t : Fresh(t).pc = "idle" /\ ~Fresh(t).marked
    BY DEF Fresh
  <2>3. \A w \in Attempts : ~Active(att[w]) /\ att[w].pc = "idle"
    BY <2>1, <2>2 DEF Active
  <2>4. \A t \in Txs : Safe(t)
    BY DEF Init, Safe
  <2>. QED
    BY <2>3, <2>4 DEF RefusalInv, OneActive, Remembered, Knows, EarlyStages, LeavingStages
<1>2. ChargeTypeOK /\ FlagInv /\ RefusalInv /\ [Next]_vars
      => [\A w \in Attempts :
            att[w].pc # "done" /\ att'[w].pc = "done" /\ att'[w].result \in {"refused", "expired"}
              => chain[att[w].tx] \notin {"pooled", "paid"}]_vars
  <2>. SUFFICES ASSUME ChargeTypeOK, FlagInv, RefusalInv, [Next]_vars, NEW w \in Attempts,
                       att[w].pc # "done", att'[w].pc = "done",
                       att'[w].result \in {"refused", "expired"}
                PROVE  chain[att[w].tx] \notin {"pooled", "paid"}
    OBVIOUS
  <2>1. Answers(w) \/ \E v \in Attempts \ {w} : Answers(v)
    BY OthersContinue DEF Continues
  <2>2. ASSUME NEW v \in Attempts \ {w}, Answers(v) PROVE att'[w] = att[w]
    BY <2>2 DEF Answers, RefuseExpired, ClaimTx, Settle, Crash, Moves, Becomes, ChargeTypeOK
  <2>. QED
    BY <2>1, <2>2, SafeAnswer DEF Safe
<1>. QED
  BY <1>1, <1>2, InitFlags, KeyStep, FlagStep, RefusalStep, ChargeTypeCorrect, PTL
     DEF Spec, RefusalsAreSafe

-----------------------------------------------------------------------------
(* Sums of fees.                                                           *)

Chosen(s) == CHOOSE x \in s : TRUE

\* What a sum over a set of transactions is computed by.
Summing(S, g) ==
  g = [s \in SUBSET S |-> IF s = {} THEN 0 ELSE Fee[Chosen(s)] + g[s \ {Chosen(s)}]]

LEMMA Sums == \A S : \E h : TotalFee(S) = h[S] /\ ((\E g : Summing(S, g)) => Summing(S, h))
  <1> SUFFICES ASSUME NEW S
               PROVE  \E h : TotalFee(S) = h[S] /\ ((\E g : Summing(S, g)) => Summing(S, h))
    OBVIOUS
  <1> DEFINE h == CHOOSE g : Summing(S, g)
  <1>1. TotalFee(S) = h[S]
    BY DEF TotalFee, MapThenSumSet, MapThenFoldSet, Summing, Chosen
  <1>2. (\E g : Summing(S, g)) => Summing(S, h)
    OBVIOUS
  <1> QED
    BY <1>1, <1>2

\* Induction, over a set of numbers.
LEMMA EveryNumber ==
  ASSUME NEW N \in SUBSET Nat, 0 \in N, \A n \in N : n + 1 \in N
  PROVE  N = Nat
  <1> DEFINE below == OpToRel(<, Nat)
             rest == Nat \ N
  <1>1. \A x, y \in Nat : y < x => <<y, x>> \in below
    BY DEF OpToRel
  <1>2. IsWellFoundedOn(below, Nat)
    BY NatLessThanWellFounded
  <1> HIDE DEF below
  <1>3. SUFFICES ASSUME rest # {} PROVE FALSE
    OBVIOUS
  <1>4. PICK x \in rest : \A y \in rest : ~ (<<y, x>> \in below)
    BY <1>2, <1>3, WFMin
  <1>5. x \in Nat /\ x # 0 /\ x - 1 \in Nat /\ x - 1 < x
    BY <1>4
  <1>6. x - 1 \in N
    BY <1>1, <1>4, <1>5
  <1>7. x - 1 + 1 = x
    BY <1>5
  <1> QED
    BY <1>4, <1>6, <1>7

\* A member is chosen of a set that is not empty; without it the set is smaller.
LEMMA Choice ==
  ASSUME NEW s, IsFiniteSet(s), s # {}
  PROVE  /\ Chosen(s) \in s
         /\ IsFiniteSet(s \ {Chosen(s)})
         /\ Cardinality(s) \in Nat /\ Cardinality(s) # 0
         /\ Cardinality(s \ {Chosen(s)}) = Cardinality(s) - 1
  <1>1. Chosen(s) \in s
    BY DEF Chosen
  <1> QED
    BY <1>1, FS_RemoveElement, FS_CardinalityType, FS_EmptySet

LEMMA SumExists ==
  ASSUME NEW S \in SUBSET Txs, IsFiniteSet(S)
  PROVE  \E g \in [SUBSET S -> Nat] : Summing(S, g)
  <1> DEFINE At(g, s) == IF s = {} THEN 0 ELSE Fee[Chosen(s)] + g[s \ {Chosen(s)}]
             UpTo(g, n) == \A s \in SUBSET S : Cardinality(s) <= n => g[s] = At(g, s)
             N == {n \in Nat : \E g \in [SUBSET S -> Nat] : UpTo(g, n)}
  <1>1. \A s \in SUBSET S : IsFiniteSet(s) /\ Cardinality(s) \in Nat /\ Cardinality(s) <= Cardinality(S)
    BY FS_Subset, FS_CardinalityType
  <1>2. \A s \in SUBSET S : s # {} =>
          /\ Fee[Chosen(s)] \in Nat /\ s \ {Chosen(s)} \in SUBSET S
          /\ Cardinality(s) # 0 /\ Cardinality(s \ {Chosen(s)}) = Cardinality(s) - 1
    BY <1>1, Choice, BudgetAssumption
  <1>3. 0 \in N
    <2> DEFINE g == [s \in SUBSET S |-> 0]
    <2>1. g \in [SUBSET S -> Nat]
      OBVIOUS
    <2>2. ASSUME NEW s \in SUBSET S, Cardinality(s) <= 0 PROVE s = {}
      <3>1. Cardinality(s) \in Nat /\ (s # {} => Cardinality(s) # 0)
        BY <1>1, <1>2
      <3>2. Cardinality(s) = 0
        BY <2>2, <3>1
      <3> QED
        BY <3>1, <3>2
    <2>3. \A s \in SUBSET S : g[s] = 0
      OBVIOUS
    <2> HIDE DEF g
    <2>4. UpTo(g, 0)
      BY <2>2, <2>3
    <2> HIDE DEF UpTo
    <2> QED
      BY <2>1, <2>4
  <1>4. ASSUME NEW n \in N PROVE n + 1 \in N
    <2>1. PICK g \in [SUBSET S -> Nat] : UpTo(g, n)
      BY <1>4
    <2> DEFINE h == [s \in SUBSET S |-> IF Cardinality(s) <= n THEN g[s] ELSE At(g, s)]
    <2>2. \A s \in SUBSET S : At(g, s) \in Nat /\ g[s] \in Nat
      <3>1. \A s \in SUBSET S : g[s] \in Nat
        OBVIOUS
      <3>2. ASSUME NEW s \in SUBSET S, s # {} PROVE Fee[Chosen(s)] + g[s \ {Chosen(s)}] \in Nat
        <4>1. Fee[Chosen(s)] \in Nat /\ g[s \ {Chosen(s)}] \in Nat
          BY <1>2, <3>1, <3>2
        <4> QED
          BY <4>1
      <3> QED
        BY <3>1, <3>2
    <2>6. h \in [SUBSET S -> Nat]
      <3> HIDE DEF At
      <3> QED
        BY <2>2
    <2>3. ASSUME NEW s \in SUBSET S PROVE h[s] = At(g, s)
      BY <2>1
    <2>4. ASSUME NEW s \in SUBSET S, Cardinality(s) <= n + 1, s # {}
          PROVE  h[s \ {Chosen(s)}] = g[s \ {Chosen(s)}]
      BY <1>1, <1>2, <2>4
    <2>5. UpTo(h, n + 1)
      BY <2>3, <2>4
    <2> HIDE DEF h, UpTo
    <2> QED
      BY <2>5, <2>6
  <1>5. N = Nat
    <2> HIDE DEF UpTo
    <2>1. N \in SUBSET Nat
      OBVIOUS
    <2> HIDE DEF N
    <2> QED
      BY <1>3, <1>4, <2>1, EveryNumber
  <1>6. PICK g \in [SUBSET S -> Nat] : UpTo(g, Cardinality(S))
    BY <1>1, <1>5
  <1>7. g = [s \in SUBSET S |-> At(g, s)]
    BY <1>1, <1>6
  <1> QED
    BY <1>7 DEF Summing

LEMMA SumsAgree ==
  ASSUME NEW S, NEW T, NEW g, NEW h, Summing(S, g), Summing(T, h),
         NEW s, s \subseteq S, s \subseteq T, IsFiniteSet(s)
  PROVE  g[s] = h[s]
  <1> DEFINE N == {n \in Nat : \A u \in SUBSET s : Cardinality(u) = n => g[u] = h[u]}
  <1>1. \A u \in SUBSET s : IsFiniteSet(u) /\ Cardinality(u) \in Nat
    BY FS_Subset, FS_CardinalityType
  <1>2. \A u \in SUBSET s :
          /\ g[u] = IF u = {} THEN 0 ELSE Fee[Chosen(u)] + g[u \ {Chosen(u)}]
          /\ h[u] = IF u = {} THEN 0 ELSE Fee[Chosen(u)] + h[u \ {Chosen(u)}]
    <2>1. ASSUME NEW u \in SUBSET s
          PROVE  g[u] = IF u = {} THEN 0 ELSE Fee[Chosen(u)] + g[u \ {Chosen(u)}]
      <3>1. u \in SUBSET S
        OBVIOUS
      <3> QED
        BY <3>1 DEF Summing
    <2>2. ASSUME NEW u \in SUBSET s
          PROVE  h[u] = IF u = {} THEN 0 ELSE Fee[Chosen(u)] + h[u \ {Chosen(u)}]
      <3>1. u \in SUBSET T
        OBVIOUS
      <3> QED
        BY <3>1 DEF Summing
    <2> QED
      BY <2>1, <2>2
  <1>3. 0 \in N
    <2>1. \A u \in SUBSET s : Cardinality(u) = 0 => u = {}
      BY <1>1, FS_EmptySet
    <2> QED
      BY <1>2, <2>1
  <1>4. ASSUME NEW n \in N PROVE n + 1 \in N
    <2>1. ASSUME NEW u \in SUBSET s, Cardinality(u) = n + 1 PROVE g[u] = h[u]
      <3>1. u # {}
        <4>1. n \in Nat /\ n + 1 # 0
          BY <1>4
        <4> QED
          BY <1>1, <2>1, <4>1, FS_EmptySet
      <3>2. u \ {Chosen(u)} \in SUBSET s /\ Cardinality(u \ {Chosen(u)}) = n
        BY <1>1, <2>1, <3>1, Choice
      <3>3. g[u \ {Chosen(u)}] = h[u \ {Chosen(u)}]
        BY <1>4, <3>2
      <3> QED
        BY <1>2, <3>1, <3>3
    <2> QED
      BY <2>1
  <1>5. N = Nat
    <2>1. N \in SUBSET Nat
      OBVIOUS
    <2> HIDE DEF N
    <2> QED
      BY <1>3, <1>4, <2>1, EveryNumber
  <1> QED
    BY <1>1, <1>5

\* The sum of a finite set, by its chosen member.
LEMMA TotalByChoice ==
  ASSUME NEW S \in SUBSET Txs, IsFiniteSet(S)
  PROVE  /\ TotalFee(S) \in Nat
         /\ TotalFee(S) = IF S = {} THEN 0 ELSE Fee[Chosen(S)] + TotalFee(S \ {Chosen(S)})
  <1>1. PICK h : TotalFee(S) = h[S] /\ ((\E g : Summing(S, g)) => Summing(S, h))
    BY Sums
  <1>2. PICK g \in [SUBSET S -> Nat] : Summing(S, g)
    BY SumExists
  <1>3. Summing(S, h)
    BY <1>1, <1>2
  <1>4. h[S] = g[S] /\ g[S] \in Nat
    BY <1>2, <1>3, SumsAgree
  <1>5. h[S] = IF S = {} THEN 0 ELSE Fee[Chosen(S)] + h[S \ {Chosen(S)}]
    BY <1>3 DEF Summing
  <1>6. ASSUME S # {} PROVE h[S \ {Chosen(S)}] = TotalFee(S \ {Chosen(S)})
    <2> DEFINE T == S \ {Chosen(S)}
    <2>1. T \in SUBSET Txs /\ IsFiniteSet(T) /\ T \subseteq S
      BY <1>6, Choice
    <2>2. PICK f : TotalFee(T) = f[T] /\ ((\E e : Summing(T, e)) => Summing(T, f))
      BY Sums
    <2>3. Summing(T, f)
      BY <2>1, <2>2, SumExists
    <2> HIDE DEF T
    <2>4. h[T] = f[T]
      BY <1>3, <2>1, <2>3, SumsAgree
    <2> QED
      BY <2>2, <2>4 DEF T
  <1> QED
    BY <1>1, <1>4, <1>5, <1>6

\* Any member may be taken out first.
LEMMA TotalWithout ==
  ASSUME NEW S \in SUBSET Txs, IsFiniteSet(S), NEW x \in S
  PROVE  TotalFee(S) = Fee[x] + TotalFee(S \ {x})
  <1> DEFINE N == {n \in Nat : \A u \in SUBSET S : Cardinality(u) = n =>
                     \A y \in u : TotalFee(u) = Fee[y] + TotalFee(u \ {y})}
  <1>1. \A u \in SUBSET S : IsFiniteSet(u) /\ Cardinality(u) \in Nat /\ u \in SUBSET Txs
    BY FS_Subset, FS_CardinalityType
  <1>2. 0 \in N
    BY <1>1, FS_EmptySet
  <1>3. ASSUME NEW n \in N PROVE n + 1 \in N
    <2>1. ASSUME NEW u \in SUBSET S, Cardinality(u) = n + 1, NEW y \in u, y # Chosen(u)
          PROVE  TotalFee(u) = Fee[y] + TotalFee(u \ {y})
      <3> DEFINE c == Chosen(u)
                 v == u \ {c}
                 w == u \ {y}
      <3>1. c \in u /\ IsFiniteSet(v) /\ Cardinality(v) = n
        BY <1>1, <2>1, Choice
      <3>2. IsFiniteSet(w) /\ Cardinality(w) = n
        <4>1. IsFiniteSet(u) /\ n \in Nat
          BY <1>1, <1>3
        <4>2. IsFiniteSet(w) /\ Cardinality(w) = Cardinality(u) - 1
          BY <4>1, FS_RemoveElement
        <4>3. n + 1 - 1 = n
          BY <4>1
        <4> QED
          BY <2>1, <4>2, <4>3
      <3>3. v \in SUBSET S /\ w \in SUBSET S /\ y \in v /\ c \in w /\ v \ {y} = w \ {c}
        BY <2>1, <3>1
      <3>4. TotalFee(u) = Fee[c] + TotalFee(v)
        BY <1>1, <2>1, TotalByChoice
      <3> HIDE DEF c, v, w
      <3>5. TotalFee(v) = Fee[y] + TotalFee(v \ {y}) /\ TotalFee(w) = Fee[c] + TotalFee(w \ {c})
        BY <1>3, <3>1, <3>2, <3>3
      <3>6. Fee[c] \in Nat /\ Fee[y] \in Nat
        BY <3>3, BudgetAssumption
      <3>7. TotalFee(v \ {y}) \in Nat
        <4>1. v \ {y} \in SUBSET S
          BY <3>3
        <4> QED
          BY <1>1, <4>1, TotalByChoice
      <3>8. TotalFee(u) = Fee[y] + TotalFee(w)
        <4> DEFINE rest == TotalFee(v \ {y})
        <4>1. TotalFee(v) = Fee[y] + rest /\ TotalFee(w) = Fee[c] + rest /\ rest \in Nat
          BY <3>3, <3>5, <3>7
        <4> HIDE DEF rest
        <4> QED
          BY <3>4, <3>6, <4>1
      <3> QED
        BY <3>8 DEF w
    <2>2. ASSUME NEW u \in SUBSET S, NEW y \in u, y = Chosen(u)
          PROVE  TotalFee(u) = Fee[y] + TotalFee(u \ {y})
      BY <1>1, <2>2, TotalByChoice
    <2> QED
      BY <2>1, <2>2
  <1>4. N = Nat
    <2>1. N \in SUBSET Nat
      OBVIOUS
    <2> HIDE DEF N
    <2> QED
      BY <1>2, <1>3, <2>1, EveryNumber
  <1> QED
    BY <1>1, <1>4

\* A part costs no more than the whole.
LEMMA TotalOfPart ==
  ASSUME NEW S \in SUBSET Txs, IsFiniteSet(S), NEW T \in SUBSET S
  PROVE  TotalFee(T) <= TotalFee(S)
  <1> DEFINE N == {n \in Nat : \A u \in SUBSET S : Cardinality(u) = n =>
                     \A v \in SUBSET u : TotalFee(v) <= TotalFee(u)}
  <1>1. \A u \in SUBSET S :
          IsFiniteSet(u) /\ Cardinality(u) \in Nat /\ u \in SUBSET Txs /\ TotalFee(u) \in Nat
    BY FS_Subset, FS_CardinalityType, TotalByChoice
  <1>2. 0 \in N
    <2>1. ASSUME NEW u \in SUBSET S, Cardinality(u) = 0, NEW v \in SUBSET u
          PROVE  TotalFee(v) <= TotalFee(u)
      <3>1. v = u
        BY <1>1, <2>1, FS_EmptySet
      <3> QED
        BY <1>1, <3>1
    <2> QED
      BY <2>1
  <1>3. ASSUME NEW n \in N PROVE n + 1 \in N
    <2>1. ASSUME NEW u \in SUBSET S, Cardinality(u) = n + 1, NEW v \in SUBSET u
          PROVE  TotalFee(v) <= TotalFee(u)
      <3>1. CASE v = u
        BY <1>1, <3>1
      <3>2. CASE v # u
        <4>1. PICK x \in u : x \notin v
          BY <3>2
        <4> DEFINE w == u \ {x}
        <4>2. w \in SUBSET S /\ v \in SUBSET w
          BY <4>1
        <4>6. Cardinality(w) = n
          <5>1. IsFiniteSet(u) /\ n \in Nat
            BY <1>1, <1>3
          <5>2. Cardinality(w) = Cardinality(u) - 1
            BY <5>1, FS_RemoveElement
          <5>3. n + 1 - 1 = n
            BY <5>1
          <5> QED
            BY <2>1, <5>2, <5>3
        <4>3. TotalFee(u) = Fee[x] + TotalFee(w)
          BY <1>1, <4>1, TotalWithout
        <4> HIDE DEF w
        <4>4. TotalFee(v) <= TotalFee(w)
          BY <1>3, <4>2, <4>6
        <4>5. Fee[x] \in Nat /\ TotalFee(w) \in Nat /\ TotalFee(v) \in Nat
          BY <1>1, <4>2, BudgetAssumption
        <4> QED
          BY <4>3, <4>4, <4>5
      <3> QED
        BY <3>1, <3>2
    <2> QED
      BY <2>1
  <1>4. N = Nat
    <2>1. N \in SUBSET Nat
      OBVIOUS
    <2> HIDE DEF N
    <2> QED
      BY <1>2, <1>3, <2>1, EveryNumber
  <1> QED
    BY <1>1, <1>4

-----------------------------------------------------------------------------
(* The fees in flight.                                                     *)

\* The transaction is over: it was included, or can no longer be.
Over(t) == chain[t] \in {"paid", "reverted"} \/ ExpiresAt(t) <= now

\* A reservation that goes with the end of the transaction, or by its owner.
Firm(t) == book[t].phase \in {"broadcasting", "pending"}

\* Attempts that may yet send what an earlier one marked, or send anything.
MayResend(a) ==
  a.reconciling /\ a.pc \in {"begun", "claimed", "bound", "admitted", "ready", "broadcasting"}
MaySend(a) == MayResend(a) \/ a.pc \in {"reserved", "ready", "broadcasting"}

\* The attempt will clear its marker.
MarkerStages == {"ready", "leaving", "unbinding", "unmarking"}
WillClear(a) == a.marked /\ ~a.unknown /\ a.pc \in MarkerStages

\* Not in the pool, nor about to be sent again: a marker is that of an attempt
\* that holds the key, has sent nothing and will clear it.
Unsent(t) ==
  /\ chain[t] # "pooled"
  /\ \A w \in Attempts : att[w].tx = t => ~MayResend(att[w]) /\ att[w].pc # "broadcasting"
  /\ t \in marker =>
       /\ t \in claims
       /\ \A w \in Attempts : att[w].tx = t /\ att[w].pc \in OwnerStages => WillClear(att[w])

\* The attempt will give its reservation back: then nobody else has sent the
\* transaction or goes on to.
Releases(a) == a.held /\ a.pc # "done" /\ (~a.unknown \/ a.pc = "broadcasting")
StillMarked(a) == a.marked /\ a.pc \in MarkerStages \cup {"broadcasting"}
AloneWith(w) ==
  LET t == att[w].tx IN
  /\ chain[t] # "pooled"
  /\ \A v \in Attempts \ {w} : att[v].tx = t => ~MaySend(att[v])
  /\ t \in marker => StillMarked(att[w])

\* The reservations are within the limits, and none is of another expiry.
BookInv ==
  /\ \A t \in Txs : book[t].phase # "none" => book[t].expires = ExpiresAt(t)
  /\ IsFiniteSet(Reserved(book)) /\ Cardinality(Reserved(book)) <= MaxReservations
  /\ TotalFee(Reserved(book)) <= MaxTotalFee

\* What a reconciliation has seen on chain.
SweepInv ==
  \A w \in Attempts :
    /\ sweep[w].at <= now
    /\ \A k \in sweep[w].tasks : k.kind = "settled" => chain[k.tx] \in {"paid", "reverted"}

\* A first submission is reserved, then marked.
Ordered(a) ==
  /\ a.pc = "reserved" => a.held
  /\ a.pc \in {"ready", "broadcasting"} /\ ~a.reconciling => a.held /\ a.marked

\* A transaction that may be in the pool has its reservation.
TxReserved(t) == Over(t) \/ Firm(t) \/ Unsent(t)
AttemptSafe(w) ==
  \A t \in Txs :
    att[w].tx = t /\ Releases(att[w]) /\ Owns(book, t, w) => Over(t) \/ AloneWith(w)

ExposureInv ==
  /\ BookInv /\ SweepInv
  /\ \A w \in Attempts : Ordered(att[w]) /\ AttemptSafe(w)
  /\ \A t \in Txs : TxReserved(t)

\* A step that adds no reservation keeps the limits.
LEMMA BookShrinks ==
  ASSUME ChargeTypeOK, BookInv,
         \A t \in Txs : book'[t].phase # "none" =>
           book[t].phase # "none" /\ book'[t].expires = book[t].expires
  PROVE  BookInv'
<1>1. Reserved(book') \subseteq Reserved(book) /\ Reserved(book) \in SUBSET Txs
  BY DEF Reserved
<1>2. /\ IsFiniteSet(Reserved(book'))
      /\ Cardinality(Reserved(book')) <= Cardinality(Reserved(book))
  BY <1>1, FS_Subset DEF BookInv
<1>3. Cardinality(Reserved(book')) \in Nat /\ Cardinality(Reserved(book)) \in Nat
  BY <1>2, FS_CardinalityType DEF BookInv
<1>4. TotalFee(Reserved(book')) <= TotalFee(Reserved(book))
  BY <1>1, TotalOfPart DEF BookInv
<1>5. TotalFee(Reserved(book')) \in Nat /\ TotalFee(Reserved(book)) \in Nat
  BY <1>1, <1>2, TotalByChoice DEF BookInv
<1>6. Cardinality(Reserved(book')) <= MaxReservations
  BY <1>2, <1>3, BudgetAssumption DEF BookInv
<1>7. TotalFee(Reserved(book')) <= MaxTotalFee
  BY <1>4, <1>5, BudgetAssumption DEF BookInv
<1>. QED
  BY <1>2, <1>6, <1>7 DEF BookInv

\* The attempt's sweep goes on, or is dropped.
LEMMA SweepKept ==
  ASSUME ChargeTypeOK, SweepInv, now' = now,
         \A t \in Txs : chain[t] \in {"paid", "reverted"} => chain'[t] = chain[t],
         NEW w \in Attempts, NEW a, Becomes(w, a)
  PROVE  SweepInv'
<1>1. now \in Nat /\ NoSweep.at = 0 /\ NoSweep.tasks = {}
  BY DEF ChargeTypeOK, NoSweep
<1>2. \A v \in Attempts : sweep'[v] = sweep[v] \/ sweep'[v] = NoSweep
  BY DEF Becomes, ChargeTypeOK
<1>3. \A v \in Attempts : \A k \in sweep[v].tasks : k.tx \in Txs
  BY DEF ChargeTypeOK, Task
<1>4. ASSUME NEW v \in Attempts
      PROVE  /\ sweep'[v].at <= now'
             /\ \A k \in sweep'[v].tasks :
                  k.kind = "settled" => chain'[k.tx] \in {"paid", "reverted"}
  <2>1. CASE sweep'[v] = sweep[v]
    BY <1>3, <2>1 DEF SweepInv
  <2>2. CASE sweep'[v] = NoSweep
    BY <1>1, <2>2
  <2>. QED
    BY <1>2, <2>1, <2>2
<1>. QED
  BY <1>4 DEF SweepInv

\* What the invariant says, of the next state.
LEMMA ExposureNext ==
  /\ \A t \in Txs : Over(t)' <=> chain'[t] \in {"paid", "reverted"} \/ ExpiresAt(t) <= now'
  /\ \A t \in Txs : Firm(t)' <=> book'[t].phase \in {"broadcasting", "pending"}
  /\ \A t \in Txs : TxReserved(t)' <=> (Over(t)' \/ Firm(t)' \/ Unsent(t)')
  /\ \A t \in Txs : Unsent(t)' <=>
       /\ chain'[t] # "pooled"
       /\ \A v \in Attempts : att'[v].tx = t => ~MayResend(att'[v]) /\ att'[v].pc # "broadcasting"
       /\ t \in marker' =>
            /\ t \in claims'
            /\ \A v \in Attempts :
                 att'[v].tx = t /\ att'[v].pc \in OwnerStages => WillClear(att'[v])
  /\ \A w \in Attempts : Ordered(att[w])' <=> Ordered(att'[w])
  /\ \A w \in Attempts : AttemptSafe(w)' <=>
       \A t \in Txs :
         att'[w].tx = t /\ Releases(att'[w]) /\ Owns(book', t, w) => Over(t)' \/ AloneWith(w)'
  /\ \A w \in Attempts : AloneWith(w)' <=>
       /\ chain'[att'[w].tx] # "pooled"
       /\ \A v \in Attempts \ {w} : att'[v].tx = att'[w].tx => ~MaySend(att'[v])
       /\ att'[w].tx \in marker' => StillMarked(att'[w])
<1>1. \A w \in Attempts :
        /\ MayResend(att[w])' <=> MayResend(att'[w])
        /\ MaySend(att[w])' <=> MaySend(att'[w])
        /\ WillClear(att[w])' <=> WillClear(att'[w])
        /\ StillMarked(att[w])' <=> StillMarked(att'[w])
        /\ Releases(att[w])' <=> Releases(att'[w])
        /\ Ordered(att[w])' <=> Ordered(att'[w])
  BY DEF MayResend, MaySend, WillClear, StillMarked, Releases, Ordered, MarkerStages
<1>2. \A t \in Txs :
        /\ Over(t)' <=> chain'[t] \in {"paid", "reverted"} \/ ExpiresAt(t) <= now'
        /\ Firm(t)' <=> book'[t].phase \in {"broadcasting", "pending"}
        /\ \A w \in Attempts : Owns(book, t, w)' <=> Owns(book', t, w)
  BY DEF Over, Firm, ExpiresAt, Owns
<1>3. \A t \in Txs : TxReserved(t)' <=> (Over(t)' \/ Firm(t)' \/ Unsent(t)')
  BY DEF TxReserved
<1>4. \A t \in Txs : Unsent(t)' <=>
       /\ chain'[t] # "pooled"
       /\ \A v \in Attempts : att'[v].tx = t => ~MayResend(att'[v]) /\ att'[v].pc # "broadcasting"
       /\ t \in marker' =>
            /\ t \in claims'
            /\ \A v \in Attempts :
                 att'[v].tx = t /\ att'[v].pc \in OwnerStages => WillClear(att'[v])
  BY <1>1 DEF Unsent
<1>5. \A w \in Attempts : AttemptSafe(w)' <=>
       \A t \in Txs :
         att'[w].tx = t /\ Releases(att'[w]) /\ Owns(book', t, w) => Over(t)' \/ AloneWith(w)'
  BY <1>1, <1>2 DEF AttemptSafe
<1>6. \A w \in Attempts : AloneWith(w)' <=>
       /\ chain'[att'[w].tx] # "pooled"
       /\ \A v \in Attempts \ {w} : att'[v].tx = att'[w].tx => ~MaySend(att'[v])
       /\ att'[w].tx \in marker' => StillMarked(att'[w])
  BY <1>1 DEF AloneWith
<1>. QED
  BY <1>1, <1>2, <1>3, <1>4, <1>5, <1>6

\* A step of an attempt concerns its own transaction.
LEMMA OneTransaction ==
  ASSUME ChargeTypeOK, ExposureInv, NEW w \in Attempts, NEW a, NEW t \in Txs,
         Becomes(w, a), a.tx = t, att[w].tx = t, now' = now, BookInv', SweepInv', Ordered(a),
         \A u \in Txs \ {t} :
           /\ chain'[u] = chain[u] /\ book'[u] = book[u]
           /\ u \in marker' <=> u \in marker
           /\ u \in claims' <=> u \in claims,
         TxReserved(t)',
         \A v \in Attempts : att[v].tx = t => AttemptSafe(v)'
  PROVE  ExposureInv'
<1>1. att'[w] = a /\ \A v \in Attempts \ {w} : att'[v] = att[v]
  BY DEF Becomes, ChargeTypeOK
<1>2. ASSUME NEW u \in Txs \ {t} PROVE TxReserved(u)'
  <2>1. Over(u)' <=> Over(u)
    BY ExposureNext DEF Over
  <2>2. Firm(u)' <=> Firm(u)
    BY ExposureNext DEF Firm
  <2>3. \A v \in Attempts : att'[v].tx = u => att[v].tx = u /\ att'[v] = att[v]
    BY <1>1
  <2>4. Unsent(u) => Unsent(u)'
    BY <2>3, ExposureNext DEF Unsent
  <2>. QED
    BY <2>1, <2>2, <2>4, ExposureNext DEF ExposureInv, TxReserved
<1>3. ASSUME NEW v \in Attempts, att[v].tx # t PROVE AttemptSafe(v)'
  <2>. DEFINE u == att[v].tx
  <2>1. att'[v] = att[v] /\ u \in Txs \ {t}
    BY <1>1, <1>3, AttemptFields
  <2>2. Over(u)' <=> Over(u)
    BY <2>1, ExposureNext DEF Over
  <2>3. Owns(book', u, v) <=> Owns(book, u, v)
    BY <2>1 DEF Owns
  <2>4. \A x \in Attempts : att'[x].tx = u => att[x].tx = u /\ att'[x] = att[x]
    BY <1>1, <2>1
  <2>5. AloneWith(v) => AloneWith(v)'
    BY <2>1, <2>4, ExposureNext DEF AloneWith
  <2>6. AttemptSafe(v)
    BY DEF ExposureInv
  <2>. QED
    BY <2>1, <2>2, <2>3, <2>5, <2>6, ExposureNext DEF AttemptSafe
<1>4. \A v \in Attempts : AttemptSafe(v)'
  BY <1>3
<1>5. \A u \in Txs : TxReserved(u)'
  BY <1>2
<1>6. \A v \in Attempts : Ordered(att[v])'
  BY <1>1, ExposureNext DEF ExposureInv
<1>. QED
  BY <1>4, <1>5, <1>6 DEF ExposureInv

\* What an attempt may become without the means to send, or to be owed more.
Carries(a, b) ==
  /\ MayResend(b) => MayResend(a)
  /\ MaySend(b) => MaySend(a)
  /\ b.pc = "broadcasting" => a.pc = "broadcasting" \/ MayResend(a)
  /\ Releases(b) => Releases(a)

\* Such a change keeps the invariant, when no marker is added, and the marker of a
\* transaction that nobody sent stays with the attempt that will clear it.
LEMMA AttemptMoves ==
  ASSUME ChargeTypeOK, ExposureInv, NEW w \in Attempts, NEW a, NEW t \in Txs,
         Becomes(w, a), a.tx = t, att[w].tx = t, UNCHANGED <<now, chain, book>>, Ordered(a),
         \A u \in Txs \ {t} : (u \in marker' <=> u \in marker) /\ (u \in claims' <=> u \in claims),
         t \in marker' => t \in marker,
         Over(t) \/ Carries(att[w], a),
         ~Over(t) /\ Unsent(t) /\ t \in marker' =>
           t \in claims' /\ (a.pc \in OwnerStages => WillClear(a)),
         t \in marker' /\ StillMarked(att[w]) /\ Releases(a) => Over(t) \/ StillMarked(a)
  PROVE  ExposureInv'
<1>1. att'[w] = a /\ \A v \in Attempts \ {w} : att'[v] = att[v]
  BY DEF Becomes, ChargeTypeOK
<1>2. (Over(t)' <=> Over(t)) /\ (Firm(t)' <=> Firm(t))
  BY ExposureNext DEF Over, Firm
<1>3. BookInv'
  BY BookShrinks DEF ExposureInv
<1>4. SweepInv'
  BY SweepKept DEF ExposureInv
<1>5. TxReserved(t)'
  <2>1. CASE Over(t) \/ Firm(t)
    BY <1>2, <2>1, ExposureNext
  <2>2. CASE Unsent(t) /\ ~Over(t)
    <3>1. \A v \in Attempts : att'[v].tx = t => ~MayResend(att'[v]) /\ att'[v].pc # "broadcasting"
      BY <1>1, <2>2 DEF Unsent, Carries
    <3>2. t \in marker' =>
            /\ t \in claims'
            /\ \A v \in Attempts :
                 att'[v].tx = t /\ att'[v].pc \in OwnerStages => WillClear(att'[v])
      BY <1>1, <2>2 DEF Unsent
    <3>3. chain'[t] # "pooled"
      BY <2>2 DEF Unsent
    <3>4. Unsent(t)'
      BY <3>1, <3>2, <3>3, ExposureNext
    <3>. QED
      BY <3>4, ExposureNext
  <2>. QED
    BY <2>1, <2>2 DEF ExposureInv, TxReserved
<1>6. ASSUME NEW v \in Attempts, att[v].tx = t PROVE AttemptSafe(v)'
  <2>1. CASE Over(t)
    <3>1. att'[v].tx = t
      BY <1>1, <1>6
    <3>. QED
      BY <1>2, <2>1, <3>1, ExposureNext
  <2>2. CASE ~Over(t)
    <3>1. att'[v].tx = t /\ (Releases(att'[v]) => Releases(att[v]))
      BY <1>1, <1>6, <2>2 DEF Carries
    <3>2. \A x \in Attempts : att'[x].tx = t => att[x].tx = t /\ (MaySend(att'[x]) => MaySend(att[x]))
      BY <1>1, <2>2 DEF Carries
    <3>3. t \in marker' /\ Releases(att'[v]) /\ StillMarked(att[v]) => StillMarked(att'[v])
      BY <1>1, <2>2
    <3>4. AloneWith(v) /\ Releases(att'[v]) => AloneWith(v)'
      BY <1>6, <3>1, <3>2, <3>3, ExposureNext DEF AloneWith
    <3>5. AttemptSafe(v)
      BY DEF ExposureInv
    <3>. QED
      BY <1>6, <2>2, <3>1, <3>4, <3>5, ExposureNext DEF AttemptSafe
  <2>. QED
    BY <2>1, <2>2
<1>. QED
  BY <1>3, <1>4, <1>5, <1>6, OneTransaction

\* A change of attempt w alone: it goes on as an owner that clears its marker if
\* it did, and keeps its mark as long as it may give its reservation back.
LEMMA QuietMoves ==
  ASSUME ChargeTypeOK, ExposureInv, NEW w \in Attempts, NEW a,
         Becomes(w, a), a.tx = att[w].tx, UNCHANGED <<now, chain, book, claims, marker>>,
         Ordered(a), Over(att[w].tx) \/ Carries(att[w], a),
         a.pc \in OwnerStages =>
           att[w].pc \in OwnerStages /\ (WillClear(att[w]) => WillClear(a)),
         StillMarked(att[w]) /\ Releases(a) => StillMarked(a)
  PROVE  ExposureInv'
<1>. DEFINE t == att[w].tx
<1>1. t \in Txs
  BY AttemptFields
<1>2. Unsent(t) /\ t \in marker' => t \in claims' /\ (a.pc \in OwnerStages => WillClear(a))
  BY DEF Unsent
<1>. QED
  BY <1>1, <1>2, AttemptMoves

\* An attempt that fails, or ends, cannot send and clears what it would.
LEMMA FailsQuietly ==
  ASSUME ChargeTypeOK, ExposureInv, NEW w \in Attempts, NEW r,
         UNCHANGED <<now, chain, book, claims, marker>>
  PROVE  /\ att[w].pc \in OwnerStages /\ Becomes(w, Fails(att[w], r)) => ExposureInv'
         /\ Becomes(w, Ends(att[w], r)) => ExposureInv'
<1>. att[w] \in Attempt
  BY AttemptFields
<1>1. ASSUME att[w].pc \in OwnerStages, Becomes(w, Fails(att[w], r)) PROVE ExposureInv'
  <2>. DEFINE a == Fails(att[w], r)
  <2>1. /\ a.tx = att[w].tx /\ a.pc = "leaving" /\ a.held = att[w].held
        /\ a.marked = att[w].marked /\ a.unknown = att[w].unknown
    BY DEF Fails, Attempt
  <2>. HIDE DEF a
  <2>2. Ordered(a) /\ Carries(att[w], a)
    BY <1>1, <2>1 DEF Ordered, Carries, MayResend, MaySend, Releases, OwnerStages
  <2>3. (WillClear(att[w]) => WillClear(a)) /\ (StillMarked(att[w]) => StillMarked(a))
    BY <2>1 DEF WillClear, StillMarked, MarkerStages
  <2>4. Becomes(w, a)
    BY <1>1 DEF a
  <2>. QED
    BY <1>1, <2>1, <2>2, <2>3, <2>4, QuietMoves
<1>2. ASSUME Becomes(w, Ends(att[w], r)) PROVE ExposureInv'
  <2>. DEFINE a == Ends(att[w], r)
  <2>1. a.tx = att[w].tx /\ a.pc = "done"
    BY DEF Ends, Attempt
  <2>. HIDE DEF a
  <2>2. Ordered(a) /\ Carries(att[w], a) /\ ~Releases(a) /\ a.pc \notin OwnerStages
    BY <2>1 DEF Ordered, Carries, MayResend, MaySend, Releases, OwnerStages
  <2>3. Becomes(w, a)
    BY <1>2 DEF a
  <2>. QED
    BY <2>1, <2>2, <2>3, QuietMoves
<1>. QED
  BY <1>1, <1>2

\* Up to the reservation an attempt has nothing to send or to give back.
LEMMA AdmissionExposure ==
  ASSUME ChargeTypeOK, KeyInv, FlagInv, ExposureInv, NEW w \in Attempts
  PROVE  /\ Begin(w) /\ att[w].tx \notin marker => ExposureInv'
         /\ RefuseExpired(w) => ExposureInv'
         /\ ClaimTx(w) => ExposureInv'
         /\ BindChallenge(w) => ExposureInv'
         /\ ClaimPayer(w) => ExposureInv'
<1>. DEFINE t == att[w].tx
<1>. att[w] \in Attempt /\ t \in Txs
  BY AttemptFields
<1>. Flags(att[w])
  BY DEF FlagInv
<1>1. ASSUME Begin(w), t \notin marker PROVE ExposureInv'
  <2>. DEFINE a == [att[w] EXCEPT !.pc = "begun", !.reconciling = FALSE]
  <2>1. a.tx = t /\ a.pc = "begun" /\ ~a.reconciling /\ a.held = att[w].held
    BY DEF Attempt
  <2>2. ~att[w].held /\ UNCHANGED <<now, chain, book, claims, marker>>
    BY <1>1 DEF Begin, Flags
  <2>4. (t \in marker) = FALSE
    BY <1>1
  <2>5. Becomes(w, a)
    BY <1>1, <2>4 DEF Begin
  <2>. HIDE DEF a
  <2>3. Ordered(a) /\ Carries(att[w], a) /\ ~Releases(a) /\ a.pc \notin OwnerStages
    BY <2>1, <2>2 DEF Ordered, Carries, MayResend, MaySend, Releases, OwnerStages
  <2>. QED
    BY <2>1, <2>2, <2>3, <2>5, QuietMoves
<1>2. ASSUME RefuseExpired(w) PROVE ExposureInv'
  BY <1>2, FailsQuietly DEF RefuseExpired
<1>3. ASSUME ClaimTx(w) PROVE ExposureInv'
  <2>1. CASE t \in claims
    <3>1. claims' = claims /\ Becomes(w, Ends(att[w], "replayed"))
      BY <1>3, <2>1 DEF ClaimTx
    <3>. QED
      BY <1>3, <3>1, FailsQuietly DEF ClaimTx
  <2>2. CASE t \notin claims
    <3>. DEFINE a == [att[w] EXCEPT !.pc = "claimed"]
    <3>1. a.tx = t /\ a.pc = "claimed" /\ a.held = att[w].held /\ a.reconciling = att[w].reconciling
      BY DEF Attempt
    <3>2. /\ Becomes(w, a) /\ UNCHANGED <<now, chain, book, marker>> /\ att[w].pc = "begun"
          /\ ~att[w].held /\ claims' = claims \cup {t}
      BY <1>3, <2>2 DEF ClaimTx, Moves, Flags
    <3>. HIDE DEF a
    <3>3. Ordered(a) /\ Carries(att[w], a) /\ ~Releases(a)
      BY <3>1, <3>2 DEF Ordered, Carries, MayResend, MaySend, Releases
    <3>4. Unsent(t) => t \notin marker
      BY <2>2 DEF Unsent
    <3>. QED
      BY <3>1, <3>2, <3>3, <3>4, AttemptMoves
  <2>. QED
    BY <2>1, <2>2
<1>4. ASSUME NEW a, Becomes(w, a), a.tx = t, a.pc \in {"bound", "admitted"},
             att[w].pc \in {"claimed", "bound"}, a.held = att[w].held,
             a.reconciling = att[w].reconciling,
             UNCHANGED <<now, chain, book, claims, marker>>
      PROVE  ExposureInv'
  <2>1. ~att[w].held
    BY <1>4 DEF Flags
  <2>2. Ordered(a) /\ Carries(att[w], a) /\ ~Releases(a)
    BY <1>4, <2>1 DEF Ordered, Carries, MayResend, MaySend, Releases
  <2>3. att[w].pc \in OwnerStages /\ ~WillClear(att[w])
    BY <1>4 DEF OwnerStages, WillClear, MarkerStages
  <2>. QED
    BY <1>4, <2>2, <2>3, QuietMoves
<1>5. ASSUME BindChallenge(w) PROVE ExposureInv'
  <2>1. CASE Becomes(w, [att[w] EXCEPT !.pc = "bound", !.bound = TRUE])
    <3>. DEFINE a == [att[w] EXCEPT !.pc = "bound", !.bound = TRUE]
    <3>1. a.tx = t /\ a.pc = "bound" /\ a.held = att[w].held /\ a.reconciling = att[w].reconciling
      BY DEF Attempt
    <3>. HIDE DEF a
    <3>2. Becomes(w, a)
      BY <2>1 DEF a
    <3>. QED
      BY <1>4, <1>5, <3>1, <3>2 DEF BindChallenge
  <2>2. CASE Becomes(w, Fails(att[w], "replayed"))
    BY <1>5, <2>2, FailsQuietly DEF BindChallenge, OwnerStages
  <2>. QED
    BY <1>5, <2>1, <2>2 DEF BindChallenge
<1>6. ASSUME ClaimPayer(w) PROVE ExposureInv'
  <2>0. UNCHANGED <<now, chain, book, claims, marker>> /\ att[w].pc = "bound"
    BY <1>6 DEF ClaimPayer
  <2>1. CASE Becomes(w, Admitted(att[w]))
    <3>. DEFINE a == Admitted(att[w])
    <3>1. a.tx = t /\ a.pc = "admitted" /\ a.held = att[w].held /\ a.reconciling = att[w].reconciling
      BY DEF Attempt, Admitted
    <3>. HIDE DEF a
    <3>2. Becomes(w, a)
      BY <2>1 DEF a
    <3>. QED
      BY <1>4, <2>0, <3>1, <3>2
  <2>2. CASE \E r : Becomes(w, Fails(att[w], r))
    BY <2>0, <2>2, FailsQuietly DEF OwnerStages
  <2>3. CASE UNCHANGED <<att, sweep>>
    <3>1. BookInv' /\ SweepInv'
      BY <2>0, <2>3 DEF ExposureInv, BookInv, SweepInv
    <3>2. \A v \in Attempts : Ordered(att[v])'
      BY <2>3, ExposureNext DEF ExposureInv
    <3>3. \A u \in Txs : TxReserved(u)'
      BY <2>0, <2>3, ExposureNext DEF ExposureInv, TxReserved, Over, Firm, Unsent
    <3>4. \A v \in Attempts : AttemptSafe(v)'
      BY <2>0, <2>3, ExposureNext DEF ExposureInv, AttemptSafe, AloneWith, Over
    <3>. QED
      BY <3>1, <3>2, <3>3, <3>4 DEF ExposureInv
  <2>4. \/ Becomes(w, Admitted(att[w])) \/ UNCHANGED <<att, sweep>>
        \/ \E r : Becomes(w, Fails(att[w], r))
    BY <1>6 DEF ClaimPayer
  <2>. QED
    BY <2>1, <2>2, <2>3, <2>4
<1>. QED
  BY <1>1, <1>2, <1>3, <1>5, <1>6

\* A refusal of an attempt that waits for its reservation or has it, and the
\* reconciliation of what an earlier attempt sent.
LEMMA RefusalExposure ==
  ASSUME ChargeTypeOK, KeyInv, FlagInv, ExposureInv, NEW w \in Attempts
  PROVE  /\ RefuseFloor(w) \/ RefuseSimulation(w) \/ RefuseBudget(w) => ExposureInv'
         /\ ReconcilePaid(w) \/ ReconcileExcluded(w) \/ Resend(w) => ExposureInv'
<1>. DEFINE t == att[w].tx
<1>. att[w] \in Attempt /\ t \in Txs
  BY AttemptFields
<1>. Flags(att[w])
  BY DEF FlagInv
<1>1. ASSUME RefuseFloor(w) \/ RefuseSimulation(w) \/ RefuseBudget(w) PROVE ExposureInv'
  <2>1. /\ att[w].pc \in {"admitted", "reserved"} /\ \E r : Becomes(w, Fails(att[w], r))
        /\ UNCHANGED <<now, chain, book, claims, marker>>
    BY <1>1 DEF RefuseFloor, RefuseSimulation, RefuseBudget
  <2>. QED
    BY <2>1, FailsQuietly DEF OwnerStages
<1>2. ASSUME NEW a, Becomes(w, a), a.tx = t, a.pc = "leaving", Over(t), att[w].pc = "admitted",
             UNCHANGED <<now, chain, book, claims>>, marker' = marker \/ marker' = marker \ {t}
      PROVE  ExposureInv'
  <2>1. Ordered(a)
    BY <1>2 DEF Ordered
  <2>. QED
    BY <1>2, <2>1, AttemptMoves
<1>3. ASSUME ReconcilePaid(w) PROVE ExposureInv'
  <2>. DEFINE a == Fails(att[w], "paid")
  <2>1. a.tx = t /\ a.pc = "leaving"
    BY DEF Fails, Attempt
  <2>2. Over(t) /\ att[w].pc = "admitted"
    BY <1>3 DEF ReconcilePaid, Reconciling, Over
  <2>3. Becomes(w, a)
    BY <1>3 DEF ReconcilePaid
  <2>. HIDE DEF a
  <2>. QED
    BY <1>2, <1>3, <2>1, <2>2, <2>3 DEF ReconcilePaid
<1>4. ASSUME ReconcileExcluded(w) PROVE ExposureInv'
  <2>. DEFINE a == [Fails(att[w], "refused") EXCEPT !.reconciling = FALSE, !.excluded = TRUE]
  <2>1. a.tx = t /\ a.pc = "leaving"
    BY DEF Fails, Attempt
  <2>2. ExpiresAt(t) \in Nat /\ now \in Nat
    BY BudgetAssumption DEF ExpiresAt, ChargeTypeOK
  <2>3. Over(t) /\ att[w].pc = "admitted"
    BY <1>4, <2>2 DEF ReconcileExcluded, Reconciling, Over
  <2>4. Becomes(w, a)
    BY <1>4 DEF ReconcileExcluded
  <2>5. marker' = marker \/ marker' = marker \ {t}
    BY <1>4 DEF ReconcileExcluded
  <2>. HIDE DEF a
  <2>. QED
    BY <1>2, <1>4, <2>1, <2>3, <2>4, <2>5 DEF ReconcileExcluded
<1>5. ASSUME Resend(w) PROVE ExposureInv'
  <2>. DEFINE a == [att[w] EXCEPT !.pc = "ready"]
  <2>1. a.tx = t /\ a.pc = "ready" /\ a.reconciling = att[w].reconciling /\ a.held = att[w].held
    BY DEF Attempt
  <2>2. /\ att[w].pc = "admitted" /\ att[w].reconciling /\ ~att[w].held /\ Becomes(w, a)
        /\ UNCHANGED <<now, chain, book, claims, marker>>
    BY <1>5 DEF Resend, Reconciling, Moves, Flags
  <2>. HIDE DEF a
  <2>3. Ordered(a) /\ Carries(att[w], a) /\ ~Releases(a)
    BY <2>1, <2>2 DEF Ordered, Carries, MayResend, MaySend, Releases
  <2>4. att[w].pc \in OwnerStages /\ ~WillClear(att[w])
    BY <2>2 DEF OwnerStages, WillClear, MarkerStages
  <2>. QED
    BY <2>1, <2>2, <2>3, <2>4, QuietMoves
<1>. QED
  BY <1>1, <1>3, <1>4, <1>5

\* A submission that sends nothing, loses its outcome or learns it.
LEMMA SubmissionExposure ==
  ASSUME ChargeTypeOK, KeyInv, FlagInv, ExposureInv, NEW w \in Attempts
  PROVE  /\ Mark(w) /\ att[w].tx \in marker => ExposureInv'
         /\ RefuseChallenge(w) \/ LoseOutcome(w) \/ InternalError(w) => ExposureInv'
         /\ StartBroadcast(w) /\ ~(att[w].held /\ Owns(book, att[w].tx, w)) => ExposureInv'
         /\ SendRefused(w) \/ Confirm(w) => ExposureInv'
<1>. DEFINE t == att[w].tx
<1>. att[w] \in Attempt /\ t \in Txs
  BY AttemptFields
<1>. Flags(att[w])
  BY DEF FlagInv
<1>1. ASSUME Mark(w), t \in marker PROVE ExposureInv'
  <2>1. att[w].pc = "reserved" /\ Becomes(w, Fails(att[w], "internal")) /\ marker' = marker
    BY <1>1 DEF Mark
  <2>. QED
    BY <1>1, <2>1, FailsQuietly DEF Mark, OwnerStages
<1>2. ASSUME RefuseChallenge(w) \/ LoseOutcome(w) \/ InternalError(w) PROVE ExposureInv'
  <2>1. /\ att[w].pc \in OwnerStages /\ \E r : Becomes(w, Fails(att[w], r))
        /\ UNCHANGED <<now, chain, book, claims, marker>>
    BY <1>2 DEF RefuseChallenge, LoseOutcome, InternalError, OwnerStages
  <2>. QED
    BY <2>1, FailsQuietly
<1>3. ASSUME StartBroadcast(w), ~(att[w].held /\ Owns(book, t, w)) PROVE ExposureInv'
  <2>1. CASE att[w].held
    <3>1. book' = book /\ Becomes(w, Fails(att[w], "refused")) /\ att[w].pc = "ready"
      BY <1>3, <2>1 DEF StartBroadcast, Advance
    <3>. QED
      BY <1>3, <3>1, FailsQuietly DEF StartBroadcast, OwnerStages
  <2>2. CASE ~att[w].held
    <3>. DEFINE a == Sending(att[w])
    <3>1. a.tx = t /\ a.pc = "broadcasting" /\ a.reconciling = att[w].reconciling /\ a.held = att[w].held
      BY DEF Attempt, Sending
    <3>2. /\ att[w].pc = "ready" /\ Becomes(w, a)
          /\ UNCHANGED <<now, chain, book, claims, marker>>
      BY <1>3, <2>2 DEF StartBroadcast
    <3>. HIDE DEF a
    <3>3. Ordered(att[w])
      BY DEF ExposureInv
    <3>4. att[w].reconciling /\ ~att[w].marked
      BY <2>2, <3>2, <3>3 DEF Ordered, Flags
    <3>5. Ordered(a) /\ Carries(att[w], a) /\ ~Releases(a)
      BY <2>2, <3>1, <3>2, <3>4 DEF Ordered, Carries, MayResend, MaySend, Releases
    <3>6. att[w].pc \in OwnerStages /\ ~WillClear(att[w])
      BY <3>2, <3>4 DEF OwnerStages, WillClear
    <3>. QED
      BY <3>1, <3>2, <3>5, <3>6, QuietMoves
  <2>. QED
    BY <2>1, <2>2
<1>4. ASSUME SendRefused(w) PROVE ExposureInv'
  <2>. DEFINE a == [Fails(att[w], "internal") EXCEPT !.unknown = FALSE]
  <2>1. a.tx = t /\ a.pc = "leaving" /\ a.held = att[w].held /\ a.marked = att[w].marked
    BY DEF Attempt, Fails
  <2>2. /\ att[w].pc = "broadcasting" /\ Becomes(w, a)
        /\ UNCHANGED <<now, chain, book, claims, marker>>
    BY <1>4 DEF SendRefused
  <2>. HIDE DEF a
  <2>3. Ordered(a) /\ Carries(att[w], a) /\ (StillMarked(att[w]) => StillMarked(a))
    BY <2>1, <2>2 DEF Ordered, Carries, MayResend, MaySend, Releases, StillMarked, MarkerStages
  <2>4. att[w].pc \in OwnerStages /\ ~WillClear(att[w])
    BY <2>2 DEF OwnerStages, WillClear, MarkerStages
  <2>. QED
    BY <2>1, <2>2, <2>3, <2>4, QuietMoves
<1>5. ASSUME Confirm(w) PROVE ExposureInv'
  <2>1. /\ att[w].pc = "sent" /\ Over(t) /\ UNCHANGED <<now, chain, book, claims>>
        /\ marker' = marker \/ marker' = marker \ {t}
    BY <1>5 DEF Confirm, Over
  <2>2. ASSUME NEW a, Becomes(w, a), a.tx = t, a.pc = "leaving" PROVE ExposureInv'
    <3>1. Ordered(a)
      BY <2>2 DEF Ordered
    <3>. QED
      BY <2>1, <2>2, <3>1, AttemptMoves
  <2>3. CASE Becomes(w, [Fails(att[w], "paid") EXCEPT !.unknown = FALSE])
    <3>. DEFINE a == [Fails(att[w], "paid") EXCEPT !.unknown = FALSE]
    <3>1. a.tx = t /\ a.pc = "leaving"
      BY DEF Attempt, Fails
    <3>. HIDE DEF a
    <3>2. Becomes(w, a)
      BY <2>3 DEF a
    <3>. QED
      BY <2>2, <3>1, <3>2
  <2>4. CASE Becomes(w, [Fails(att[w], "internal") EXCEPT !.unknown = FALSE, !.reconciling = FALSE])
    <3>. DEFINE a == [Fails(att[w], "internal") EXCEPT !.unknown = FALSE, !.reconciling = FALSE]
    <3>1. a.tx = t /\ a.pc = "leaving"
      BY DEF Attempt, Fails
    <3>. HIDE DEF a
    <3>2. Becomes(w, a)
      BY <2>4 DEF a
    <3>. QED
      BY <2>2, <3>1, <3>2
  <2>. QED
    BY <1>5, <2>3, <2>4 DEF Confirm
<1>. QED
  BY <1>1, <1>2, <1>3, <1>4, <1>5

\* A cleanup that clears the marker it owns, keeps the key of a paid attempt
\* and leaves the book alone.
LEMMA CleanupExposure ==
  ASSUME ChargeTypeOK, KeyInv, FlagInv, PayerInv, ExposureInv, StoreErrors = FALSE,
         NEW w \in Attempts
  PROVE  /\ LeavePayer(w) \/ LeaveChallenge(w) => ExposureInv'
         /\ LeaveMarker(w) \/ LeaveClaim(w) => ExposureInv'
         /\ Settle(w) /\ ~att[w].held => ExposureInv'
         /\ Crash(w) => ExposureInv'
<1>. DEFINE t == att[w].tx
<1>. att[w] \in Attempt /\ t \in Txs
  BY AttemptFields
<1>1. ASSUME NEW pc \in {"unbinding", "unmarking", "unclaiming", "settling"}
      PROVE  LET a == [att[w] EXCEPT !.pc = pc] IN
             /\ a.tx = t /\ a.pc = pc /\ a.held = att[w].held /\ a.marked = att[w].marked
             /\ a.unknown = att[w].unknown
  BY DEF Attempt
<1>2. ASSUME LeavePayer(w) \/ LeaveChallenge(w) PROVE ExposureInv'
  <2>0. PICK pc \in {"unbinding", "unmarking"} : Moves(w, pc)
    BY <1>2 DEF LeavePayer, LeaveChallenge
  <2>. DEFINE a == [att[w] EXCEPT !.pc = pc]
  <2>1. /\ a.tx = t /\ a.pc = pc /\ a.held = att[w].held /\ a.marked = att[w].marked
        /\ a.unknown = att[w].unknown
    BY <1>1
  <2>2. /\ att[w].pc \in {"leaving", "unbinding"} /\ Becomes(w, a)
        /\ UNCHANGED <<now, chain, book, claims, marker>>
    BY <1>2, <2>0 DEF LeavePayer, LeaveChallenge, Moves
  <2>. HIDE DEF a
  <2>3. Ordered(a) /\ Carries(att[w], a)
    BY <2>1, <2>2 DEF Ordered, Carries, MayResend, MaySend, Releases
  <2>4. (WillClear(att[w]) => WillClear(a)) /\ (StillMarked(att[w]) => StillMarked(a))
    BY <2>1 DEF WillClear, StillMarked, MarkerStages
  <2>. QED
    BY <2>1, <2>2, <2>3, <2>4, QuietMoves DEF OwnerStages
<1>3. ASSUME LeaveMarker(w) PROVE ExposureInv'
  <2>. DEFINE a == [att[w] EXCEPT !.pc = "unclaiming"]
  <2>1. /\ a.tx = t /\ a.pc = "unclaiming" /\ a.held = att[w].held /\ a.marked = att[w].marked
        /\ a.unknown = att[w].unknown
    BY <1>1
  <2>2. /\ att[w].pc = "unmarking" /\ Becomes(w, a) /\ UNCHANGED <<now, chain, book, claims>>
        /\ marker' = IF ClearsMarker(att[w]) THEN marker \ {t} ELSE marker
    BY <1>3 DEF LeaveMarker, Moves
  <2>. HIDE DEF a
  <2>3. Ordered(a) /\ Carries(att[w], a)
    BY <2>1, <2>2 DEF Ordered, Carries, MayResend, MaySend, Releases
  <2>4. att[w].result = "paid" => Over(t)
    BY DEF PayerInv, Over
  <2>5. t \in marker' => Over(t) \/ ~att[w].marked \/ att[w].unknown
    BY <2>2, <2>4 DEF ClearsMarker
  <2>6. ~Over(t) /\ Unsent(t) => t \notin marker'
    <3>1. Unsent(t) /\ t \in marker => WillClear(att[w])
      BY <2>2 DEF Unsent, OwnerStages
    <3>. QED
      BY <2>2, <2>5, <3>1 DEF WillClear
  <2>7. t \in marker' /\ StillMarked(att[w]) /\ Releases(a) => Over(t)
    BY <2>1, <2>5 DEF StillMarked, Releases
  <2>. QED
    BY <2>1, <2>2, <2>3, <2>6, <2>7, AttemptMoves
<1>4. ASSUME LeaveClaim(w) PROVE ExposureInv'
  <2>. DEFINE a == [att[w] EXCEPT !.pc = "settling"]
  <2>1. /\ a.tx = t /\ a.pc = "settling" /\ a.held = att[w].held /\ a.marked = att[w].marked
        /\ a.unknown = att[w].unknown
    BY <1>1
  <2>2. /\ att[w].pc = "unclaiming" /\ Becomes(w, a) /\ UNCHANGED <<now, chain, book, marker>>
        /\ claims' = IF KeepsClaim(att[w]) THEN claims ELSE claims \ {t}
    BY <1>4 DEF LeaveClaim, Moves
  <2>. HIDE DEF a
  <2>3. Ordered(a) /\ Carries(att[w], a) /\ ~StillMarked(att[w]) /\ ~WillClear(att[w])
    BY <2>1, <2>2 DEF Ordered, Carries, MayResend, MaySend, Releases, StillMarked, WillClear, MarkerStages
  <2>4. Unsent(t) => t \notin marker
    BY <2>2, <2>3 DEF Unsent, OwnerStages
  <2>. QED
    BY <2>1, <2>2, <2>3, <2>4, AttemptMoves
<1>5. ASSUME Settle(w), ~att[w].held PROVE ExposureInv'
  <2>1. book' = book /\ \E r : Becomes(w, Ends(att[w], r))
    BY <1>5 DEF Settle, SettledBook
  <2>. QED
    BY <1>5, <2>1, FailsQuietly DEF Settle
<1>6. ASSUME Crash(w) PROVE ExposureInv'
  BY <1>6, FailsQuietly DEF Crash
<1>. QED
  BY <1>2, <1>3, <1>4, <1>5, <1>6

\* A retry of a marked transaction begins only when no attempt has the key: then
\* an earlier attempt that sent it left its reservation.
LEMMA RetryExposure ==
  ASSUME ChargeTypeOK, KeyInv, FlagInv, ExposureInv, NEW w \in Attempts,
         NEW t \in Txs, att[w].tx = t, Begin(w), t \in marker
  PROVE  ExposureInv'
<1>. DEFINE a == [att[w] EXCEPT !.pc = "begun", !.reconciling = t \in marker]
<1>0. att[w] \in Attempt /\ Flags(att[w])
  BY AttemptFields DEF FlagInv
<1>1. a.tx = t /\ a.pc = "begun" /\ a.held = att[w].held
  BY <1>0 DEF Attempt
<1>2. /\ att[w].pc = "idle" /\ t \notin claims /\ Becomes(w, a)
      /\ UNCHANGED <<now, chain, book, claims, marker>>
  BY DEF Begin
<1>. HIDE DEF a
<1>3. att'[w] = a /\ \A v \in Attempts \ {w} : att'[v] = att[v]
  BY <1>2 DEF Becomes, ChargeTypeOK
<1>4. BookInv' /\ SweepInv' /\ Ordered(a)
  <2>1. BookInv'
    BY <1>2, BookShrinks DEF ExposureInv
  <2>2. SweepInv'
    BY <1>2, SweepKept DEF ExposureInv
  <2>. QED
    BY <1>1, <2>1, <2>2 DEF Ordered
<1>5. (Over(t)' <=> Over(t)) /\ (Firm(t)' <=> Firm(t))
  BY <1>0, <1>2, ExposureNext DEF Over, Firm
<1>6. TxReserved(t)'
  <2>1. ~Unsent(t)
    BY <1>2 DEF Unsent
  <2>. QED
    BY <1>0, <1>5, <2>1, ExposureNext DEF ExposureInv, TxReserved
<1>7. ASSUME NEW v \in Attempts, att[v].tx = t PROVE AttemptSafe(v)'
  <2>1. CASE v = w
    <3>1. ~Releases(a)
      BY <1>0, <1>1, <1>2 DEF Releases, Flags
    <3>. QED
      BY <1>3, <2>1, <3>1, ExposureNext
  <2>2. CASE v # w
    <3>1. att'[v] = att[v]
      BY <1>3, <2>2
    <3>2. AloneWith(v) => HoldsKey(att[v])
      BY <1>7 DEF AloneWith, StillMarked, MarkerStages, HoldsKey, OwnerStages
    <3>3. ~AloneWith(v)
      BY <1>2, <1>7, <3>2 DEF KeyInv
    <3>4. Releases(att[v]) /\ Owns(book, t, v) => Over(t)
      BY <1>0, <1>7, <3>3 DEF ExposureInv, AttemptSafe
    <3>. QED
      BY <1>2, <1>5, <1>7, <3>1, <3>4, ExposureNext
  <2>. QED
    BY <2>1, <2>2
<1>. QED
  BY <1>0, <1>1, <1>2, <1>4, <1>6, <1>7, OneTransaction

\* A new reservation keeps the limits.
LEMMA BookGrows ==
  ASSUME ChargeTypeOK, BookInv, NEW t \in Txs, NEW w \in Attempts, HasRoom(book, t),
         book' = [book EXCEPT ![t] = Prepared(t, w, now)]
  PROVE  BookInv'
<1>. DEFINE others == Reserved(book) \ {t}
<1>1. book \in [Txs -> Entry \cup {NoEntry}]
  BY DEF ChargeTypeOK, Book
<1>2. book'[t] = Prepared(t, w, now) /\ \A u \in Txs \ {t} : book'[u] = book[u]
  BY <1>1
<1>3. /\ Prepared(t, w, now).phase = "prepared"
      /\ Prepared(t, w, now).expires = ExpiresAt(t)
  BY DEF Prepared
<1>4. \A u \in Txs : book'[u].phase # "none" => book'[u].expires = ExpiresAt(u)
  BY <1>2, <1>3 DEF BookInv
<1>5. Reserved(book') = others \cup {t} /\ Reserved(book') \ {t} = others
  BY <1>2, <1>3 DEF Reserved
<1>6. IsFiniteSet(others) /\ others \in SUBSET Txs /\ t \notin others
  BY FS_Subset DEF BookInv, Reserved
<1>. HIDE DEF others
<1>7. IsFiniteSet(Reserved(book')) /\ Cardinality(Reserved(book')) = Cardinality(others) + 1
  <2>1. IsFiniteSet(others \cup {t}) /\ Cardinality(others \cup {t}) = Cardinality(others) + 1
    BY <1>6, FS_AddElement
  <2>. QED
    BY <1>5, <2>1
<1>8. Cardinality(others) < MaxReservations /\ TotalFee(others) + Fee[t] <= MaxTotalFee
  BY DEF HasRoom, others
<1>9. Cardinality(others) \in Nat /\ TotalFee(others) \in Nat /\ Fee[t] \in Nat
  BY <1>6, FS_CardinalityType, TotalByChoice, BudgetAssumption
<1>10. TotalFee(Reserved(book')) = Fee[t] + TotalFee(others)
  <2>1. Reserved(book') \in SUBSET Txs /\ t \in Reserved(book')
    BY <1>5, <1>6
  <2>. QED
    BY <1>5, <1>7, <2>1, TotalWithout
<1>11. TotalFee(Reserved(book')) <= MaxTotalFee
  BY <1>8, <1>9, <1>10, BudgetAssumption
<1>12. Cardinality(Reserved(book')) <= MaxReservations
  BY <1>7, <1>8, <1>9, BudgetAssumption
<1>. QED
  BY <1>4, <1>7, <1>11, <1>12 DEF BookInv

\* A reservation that is waiting or refused keeps the invariant; one is granted
\* only when an earlier one is over, or nobody has sent the transaction.
LEMMA ReserveExposure ==
  ASSUME ChargeTypeOK, KeyInv, FlagInv, ExposureInv, NEW w \in Attempts,
         NEW t \in Txs, att[w].tx = t, Reserve(w)
  PROVE  ExposureInv'
<1>0. att[w] \in Attempt /\ Flags(att[w])
  BY AttemptFields DEF FlagInv
<1>1. /\ att[w].pc = "admitted" /\ ~att[w].reconciling /\ ~att[w].held
      /\ UNCHANGED <<now, chain, claims, marker>>
  BY <1>0 DEF Reserve, Flags
<1>2. CASE Becomes(w, Fails(att[w], "internal")) /\ UNCHANGED book
  BY <1>1, <1>2, FailsQuietly DEF OwnerStages
<1>3. CASE Becomes(w, [att[w] EXCEPT !.waiting = TRUE]) /\ UNCHANGED book
  <2>. DEFINE a == [att[w] EXCEPT !.waiting = TRUE]
  <2>1. /\ a.tx = t /\ a.pc = "admitted" /\ a.reconciling = att[w].reconciling
        /\ a.held = att[w].held
    BY <1>0, <1>1 DEF Attempt
  <2>2. Becomes(w, a)
    BY <1>3
  <2>. HIDE DEF a
  <2>3. Ordered(a) /\ Carries(att[w], a) /\ ~Releases(a)
    BY <1>1, <2>1 DEF Ordered, Carries, MayResend, MaySend, Releases
  <2>4. att[w].pc \in OwnerStages /\ ~WillClear(att[w])
    BY <1>1 DEF OwnerStages, WillClear, MarkerStages
  <2>. QED
    BY <1>1, <1>3, <2>1, <2>2, <2>3, <2>4, QuietMoves
<1>4. CASE /\ ~IsDuplicate(book, t, now) /\ HasRoom(book, t)
           /\ book' = [book EXCEPT ![t] = Prepared(t, w, now)]
           /\ Becomes(w, [att[w] EXCEPT !.pc = "reserved", !.held = TRUE])
  <2>. DEFINE a == [att[w] EXCEPT !.pc = "reserved", !.held = TRUE]
  <2>1. a.tx = t /\ a.pc = "reserved" /\ ~a.reconciling /\ a.held
    BY <1>0, <1>1 DEF Attempt
  <2>2. Becomes(w, a)
    BY <1>4
  <2>. HIDE DEF a
  <2>3. att'[w] = a /\ \A v \in Attempts \ {w} : att'[v] = att[v]
    BY <2>2 DEF Becomes, ChargeTypeOK
  <2>4. book'[t] = Prepared(t, w, now) /\ \A u \in Txs \ {t} : book'[u] = book[u]
    BY <1>0, <1>4 DEF ChargeTypeOK, Book
  <2>5. BookInv'
    BY <1>0, <1>4, BookGrows DEF ExposureInv
  <2>6. SweepInv'
    BY <1>1, <2>2, SweepKept DEF ExposureInv
  <2>7. Over(t) \/ Unsent(t)
    <3>1. ASSUME Firm(t) PROVE Over(t)
      <4>1. t \in Reserved(book) /\ book[t].phase # "prepared"
        BY <1>0, <3>1 DEF Firm, Reserved
      <4>2. book[t].expires <= now /\ book[t].expires = ExpiresAt(t)
        BY <1>4, <4>1 DEF IsDuplicate, IsStale, ExposureInv, BookInv, Reserved
      <4>. QED
        BY <4>2 DEF Over
    <3>. QED
      BY <1>0, <3>1 DEF ExposureInv, TxReserved
  <2>8. Over(t)' <=> Over(t)
    BY <1>0, <1>1, ExposureNext DEF Over
  <2>9. Unsent(t) => t \notin marker
    BY <1>1 DEF Unsent, WillClear, MarkerStages, OwnerStages
  <2>10. TxReserved(t)'
    <3>1. ASSUME Unsent(t) PROVE Unsent(t)'
      <4>1. \A v \in Attempts : att'[v].tx = t => ~MayResend(att'[v]) /\ att'[v].pc # "broadcasting"
        BY <2>1, <2>3, <3>1 DEF Unsent, MayResend
      <4>2. chain'[t] # "pooled" /\ t \notin marker'
        BY <1>1, <2>9, <3>1 DEF Unsent
      <4>. QED
        BY <1>0, <4>1, <4>2, ExposureNext
    <3>. QED
      BY <1>0, <2>7, <2>8, <3>1, ExposureNext
  <2>11. AttemptSafe(w)'
    <3>1. ASSUME Unsent(t) PROVE AloneWith(w)'
      <4>1. ASSUME NEW v \in Attempts \ {w}, att[v].tx = t PROVE ~MaySend(att[v])
        <5>1. ~MayResend(att[v])
          BY <3>1, <4>1 DEF Unsent
        <5>2. HoldsKey(att[w])
          BY <1>1 DEF HoldsKey, OwnerStages
        <5>3. ~HoldsKey(att[v])
          BY <4>1, <5>2 DEF KeyInv
        <5>. QED
          BY <5>1, <5>3 DEF MaySend, HoldsKey, OwnerStages
      <4>2. chain'[t] # "pooled" /\ t \notin marker' /\ att'[w].tx = t
        BY <1>1, <2>1, <2>3, <2>9, <3>1 DEF Unsent
      <4>. QED
        BY <2>3, <4>1, <4>2, ExposureNext
    <3>2. att'[w].tx = t
      BY <2>1, <2>3
    <3>. QED
      BY <2>7, <2>8, <3>1, <3>2, ExposureNext
  <2>12. ASSUME NEW v \in Attempts \ {w}, att[v].tx = t PROVE AttemptSafe(v)'
    <3>1. ~Owns(book', t, v)
      BY <2>4 DEF Owns, Prepared
    <3>2. att'[v].tx = t
      BY <2>3, <2>12
    <3>. QED
      BY <3>1, <3>2, ExposureNext
  <2>13. Ordered(a)
    BY <2>1 DEF Ordered
  <2>14. \A v \in Attempts : att[v].tx = t => AttemptSafe(v)'
    BY <2>11, <2>12
  <2>. QED
    BY <1>0, <1>1, <2>1, <2>2, <2>4, <2>5, <2>6, <2>10, <2>13, <2>14, OneTransaction
<1>. QED
  BY <1>2, <1>3, <1>4 DEF Reserve

\* The first marker of a transaction is that of the attempt that will clear it.
LEMMA MarkExposure ==
  ASSUME ChargeTypeOK, KeyInv, FlagInv, ExposureInv, NEW w \in Attempts,
         NEW t \in Txs, att[w].tx = t, Mark(w), t \notin marker
  PROVE  ExposureInv'
<1>. DEFINE a == [att[w] EXCEPT !.pc = "ready", !.marked = TRUE]
<1>0. att[w] \in Attempt /\ Flags(att[w])
  BY AttemptFields DEF FlagInv
<1>1. /\ att[w].pc = "reserved" /\ Becomes(w, a) /\ marker' = marker \cup {t}
      /\ UNCHANGED <<now, chain, book, claims>>
  BY DEF Mark
<1>2. /\ a.tx = t /\ a.pc = "ready" /\ a.marked /\ a.held = att[w].held
      /\ a.unknown = att[w].unknown /\ a.reconciling = att[w].reconciling
  BY <1>0 DEF Attempt
<1>. HIDE DEF a
<1>3. att'[w] = a /\ \A v \in Attempts \ {w} : att'[v] = att[v]
  BY <1>1 DEF Becomes, ChargeTypeOK
<1>4. ~att[w].reconciling /\ ~att[w].unknown /\ att[w].held
  BY <1>0, <1>1 DEF Flags, ExposureInv, Ordered
<1>5. BookInv' /\ SweepInv' /\ Ordered(a)
  <2>1. BookInv'
    BY <1>1, BookShrinks DEF ExposureInv
  <2>2. SweepInv'
    BY <1>1, SweepKept DEF ExposureInv
  <2>. QED
    BY <1>2, <1>4, <2>1, <2>2 DEF Ordered
<1>6. (Over(t)' <=> Over(t)) /\ (Firm(t)' <=> Firm(t))
  BY <1>1, ExposureNext DEF Over, Firm
<1>7. HoldsKey(att[w])
  BY <1>1 DEF HoldsKey, OwnerStages
<1>8. TxReserved(t)'
  <2>1. ASSUME Unsent(t) PROVE Unsent(t)'
    <3>1. \A v \in Attempts : att'[v].tx = t => ~MayResend(att'[v]) /\ att'[v].pc # "broadcasting"
      BY <1>2, <1>3, <1>4, <2>1 DEF Unsent, MayResend
    <3>2. t \in claims'
      BY <1>1, <1>7 DEF KeyInv
    <3>3. ASSUME NEW v \in Attempts \ {w}, att'[v].tx = t PROVE att'[v].pc \notin OwnerStages
      BY <1>3, <1>7, <3>3 DEF KeyInv, HoldsKey
    <3>4. WillClear(a)
      BY <1>2, <1>4 DEF WillClear, MarkerStages
    <3>5. \A v \in Attempts : att'[v].tx = t /\ att'[v].pc \in OwnerStages => WillClear(att'[v])
      BY <1>3, <3>3, <3>4
    <3>6. chain'[t] # "pooled"
      BY <1>1, <2>1 DEF Unsent
    <3>. QED
      BY <3>1, <3>2, <3>5, <3>6, ExposureNext
  <2>. QED
    BY <1>6, <2>1, ExposureNext DEF ExposureInv, TxReserved
<1>9. AttemptSafe(w)'
  <2>1. Owns(book, t, w) => Over(t) \/ AloneWith(w)
    BY <1>1, <1>4 DEF ExposureInv, AttemptSafe, Releases
  <2>2. StillMarked(a)
    BY <1>2 DEF StillMarked, MarkerStages
  <2>3. AloneWith(w) => AloneWith(w)'
    BY <1>1, <1>2, <1>3, <2>2, ExposureNext DEF AloneWith
  <2>. QED
    BY <1>1, <1>2, <1>3, <1>6, <2>1, <2>3, ExposureNext
<1>10. ASSUME NEW v \in Attempts \ {w}, att[v].tx = t PROVE AttemptSafe(v)'
  <2>1. ~AloneWith(v)
    BY <1>1, <1>10 DEF AloneWith, MaySend
  <2>2. Releases(att[v]) /\ Owns(book, t, v) => Over(t)
    BY <1>10, <2>1 DEF ExposureInv, AttemptSafe
  <2>3. att'[v] = att[v]
    BY <1>3
  <2>. QED
    BY <1>1, <1>6, <1>10, <2>2, <2>3, ExposureNext
<1>11. \A v \in Attempts : att[v].tx = t => AttemptSafe(v)'
  BY <1>9, <1>10
<1>. QED
  BY <1>1, <1>2, <1>5, <1>8, <1>11, OneTransaction

\* The owner of a reservation makes it firm before it sends.
LEMMA BroadcastExposure ==
  ASSUME ChargeTypeOK, KeyInv, FlagInv, ExposureInv, NEW w \in Attempts,
         NEW t \in Txs, att[w].tx = t, StartBroadcast(w), att[w].held, Owns(book, t, w)
  PROVE  ExposureInv'
<1>. DEFINE a == Sending(att[w])
<1>0. att[w] \in Attempt /\ Flags(att[w])
  BY AttemptFields DEF FlagInv
<1>1. /\ att[w].pc = "ready" /\ Becomes(w, a)
      /\ UNCHANGED <<now, chain, claims, marker>>
      /\ book' = [book EXCEPT ![t].phase = "broadcasting"]
  BY DEF StartBroadcast, Advance
<1>2. /\ a.tx = t /\ a.pc = "broadcasting" /\ a.marked = att[w].marked /\ a.held
      /\ a.reconciling = att[w].reconciling
  BY <1>0 DEF Attempt, Sending
<1>. HIDE DEF a
<1>3. att'[w] = a /\ \A v \in Attempts \ {w} : att'[v] = att[v]
  BY <1>1 DEF Becomes, ChargeTypeOK
<1>4. book[t] \in Entry
  BY EntryPresent DEF Owns, ChargeTypeOK
<1>5. /\ book'[t].phase = "broadcasting" /\ book'[t].owner = w
      /\ book'[t].expires = book[t].expires
      /\ \A u \in Txs \ {t} : book'[u] = book[u]
  BY <1>1, <1>4 DEF ChargeTypeOK, Book, Entry, Owns
<1>6. BookInv' /\ SweepInv'
  <2>1. BookInv'
    BY <1>5, BookShrinks DEF ExposureInv, Owns
  <2>2. SweepInv'
    BY <1>1, SweepKept DEF ExposureInv
  <2>. QED
    BY <2>1, <2>2
<1>7. Ordered(a) /\ TxReserved(t)'
  <2>1. Ordered(a)
    BY <1>1, <1>2 DEF Ordered, ExposureInv
  <2>2. TxReserved(t)'
    BY <1>5, ExposureNext
  <2>. QED
    BY <2>1, <2>2
<1>8. AttemptSafe(w)'
  <2>1. Over(t) \/ AloneWith(w)
    BY <1>0, <1>1 DEF ExposureInv, AttemptSafe, Releases, Flags
  <2>2. StillMarked(att[w]) => StillMarked(a)
    BY <1>2 DEF StillMarked, MarkerStages
  <2>3. AloneWith(w) => AloneWith(w)'
    BY <1>1, <1>2, <1>3, <2>2, ExposureNext DEF AloneWith
  <2>4. Over(t)' <=> Over(t)
    BY <1>1, ExposureNext DEF Over
  <2>. QED
    BY <1>2, <1>3, <2>1, <2>3, <2>4, ExposureNext
<1>9. ASSUME NEW v \in Attempts \ {w}, att[v].tx = t PROVE AttemptSafe(v)'
  <2>1. ~Owns(book', t, v)
    BY <1>5 DEF Owns
  <2>2. att'[v].tx = t
    BY <1>3, <1>9
  <2>. QED
    BY <2>1, <2>2, ExposureNext
<1>10. \A v \in Attempts : att[v].tx = t => AttemptSafe(v)'
  BY <1>8, <1>9
<1>. QED
  BY <1>1, <1>2, <1>5, <1>6, <1>7, <1>10, OneTransaction

\* What is sent has a firm reservation, and nobody gives it back but its sender.
LEMMA SendExposure ==
  ASSUME ChargeTypeOK, KeyInv, FlagInv, ExposureInv, NEW w \in Attempts,
         NEW t \in Txs, att[w].tx = t, Send(w)
  PROVE  ExposureInv'
<1>. DEFINE a == [att[w] EXCEPT !.pc = "sent"]
<1>0. att[w] \in Attempt /\ Flags(att[w])
  BY AttemptFields DEF FlagInv
<1>1. /\ att[w].pc = "broadcasting" /\ Becomes(w, a)
      /\ UNCHANGED <<now, book, claims, marker>>
  BY DEF Send, Moves
<1>2. a.tx = t /\ a.pc = "sent" /\ a.unknown = att[w].unknown
  BY <1>0 DEF Attempt
<1>. HIDE DEF a
<1>3. att'[w] = a /\ \A v \in Attempts \ {w} : att'[v] = att[v]
  BY <1>1 DEF Becomes, ChargeTypeOK
<1>4. /\ chain'[t] = chain[t] \/ (chain[t] = "none" /\ chain'[t] = "pooled")
      /\ \A u \in Txs \ {t} : chain'[u] = chain[u]
  BY DEF Send, ChargeTypeOK
<1>5. BookInv' /\ SweepInv' /\ Ordered(a)
  <2>1. BookInv'
    BY <1>1, BookShrinks DEF ExposureInv
  <2>2. \A u \in Txs : chain[u] \in {"paid", "reverted"} => chain'[u] = chain[u]
    BY <1>4
  <2>3. SweepInv'
    BY <1>1, <2>2, SweepKept DEF ExposureInv
  <2>. QED
    BY <1>2, <2>1, <2>3 DEF Ordered
<1>6. (Over(t)' <=> Over(t)) /\ (Firm(t)' <=> Firm(t))
  BY <1>1, <1>4, ExposureNext DEF Over, Firm
<1>7. TxReserved(t)'
  <2>1. ~Unsent(t)
    BY <1>1 DEF Unsent
  <2>. QED
    BY <1>6, <2>1, ExposureNext DEF ExposureInv, TxReserved
<1>8. ASSUME NEW v \in Attempts, att[v].tx = t PROVE AttemptSafe(v)'
  <2>1. CASE v = w
    <3>1. ~Releases(a)
      BY <1>0, <1>1, <1>2 DEF Releases, Flags
    <3>. QED
      BY <1>3, <2>1, <3>1, ExposureNext
  <2>2. CASE v # w
    <3>1. att'[v] = att[v]
      BY <1>3, <2>2
    <3>2. ~AloneWith(v)
      BY <1>1, <1>8, <2>2 DEF AloneWith, MaySend
    <3>3. Releases(att[v]) /\ Owns(book, t, v) => Over(t)
      BY <1>8, <3>2 DEF ExposureInv, AttemptSafe
    <3>. QED
      BY <1>1, <1>6, <1>8, <3>1, <3>3, ExposureNext
  <2>. QED
    BY <2>1, <2>2
<1>. QED
  BY <1>1, <1>2, <1>4, <1>5, <1>7, <1>8, OneTransaction

\* A reservation is given back when the transaction is over or nobody sent it,
\* and kept as pending when the outcome is unknown.
LEMMA SettleExposure ==
  ASSUME ChargeTypeOK, KeyInv, FlagInv, ExposureInv, NEW w \in Attempts,
         NEW t \in Txs, att[w].tx = t, Settle(w), att[w].held
  PROVE  ExposureInv'
<1>0. att[w] \in Attempt
  BY AttemptFields
<1>1. /\ att[w].pc = "settling" /\ UNCHANGED <<now, chain, claims, marker>>
      /\ book' = IF att[w].unknown THEN Advance(book, t, w, "pending") ELSE Release(book, t, w)
  BY DEF Settle, SettledBook
<1>2. PICK r : Becomes(w, Ends(att[w], r))
  BY DEF Settle
<1>. DEFINE a == Ends(att[w], r)
<1>3. a.tx = t /\ a.pc = "done" /\ Becomes(w, a)
  BY <1>0, <1>2 DEF Attempt, Ends
<1>. HIDE DEF a
<1>4. att'[w] = a /\ \A v \in Attempts \ {w} : att'[v] = att[v]
  BY <1>3 DEF Becomes, ChargeTypeOK
<1>5. CASE ~Owns(book, t, w)
  <2>1. book' = book
    BY <1>1, <1>5 DEF Advance, Release
  <2>. QED
    BY <1>1, <1>2, <2>1, FailsQuietly
<1>6. CASE Owns(book, t, w)
  <2>1. book[t] \in Entry
    BY <1>6, EntryPresent DEF Owns, ChargeTypeOK
  <2>2. /\ IF att[w].unknown
           THEN book'[t].phase = "pending" /\ book'[t].expires = book[t].expires /\ book'[t].owner = w
           ELSE book'[t].phase = "none"
        /\ \A u \in Txs \ {t} : book'[u] = book[u]
    BY <1>1, <1>6, <2>1 DEF ChargeTypeOK, Book, Entry, NoEntry, Owns, Advance, Release
  <2>3. BookInv' /\ SweepInv' /\ Ordered(a)
    <3>1. BookInv'
      BY <1>6, <2>2, BookShrinks DEF ExposureInv, Owns
    <3>2. SweepInv'
      BY <1>1, <1>3, SweepKept DEF ExposureInv
    <3>. QED
      BY <1>3, <3>1, <3>2 DEF Ordered
  <2>4. TxReserved(t)'
    <3>1. CASE att[w].unknown
      BY <2>2, <3>1, ExposureNext
    <3>2. CASE ~att[w].unknown
      <4>1. Over(t) \/ AloneWith(w)
        BY <1>1, <1>6, <3>2 DEF ExposureInv, AttemptSafe, Releases
      <4>2. Over(t)' <=> Over(t)
        BY <1>1, ExposureNext DEF Over
      <4>3. ASSUME AloneWith(w) PROVE Unsent(t)'
        <5>1. chain'[t] # "pooled" /\ t \notin marker'
          BY <1>1, <4>3 DEF AloneWith, StillMarked, MarkerStages
        <5>2. \A v \in Attempts : att'[v].tx = t => ~MayResend(att'[v]) /\ att'[v].pc # "broadcasting"
          BY <1>3, <1>4, <4>3 DEF AloneWith, MaySend, MayResend
        <5>. QED
          BY <5>1, <5>2, ExposureNext
      <4>. QED
        BY <4>1, <4>2, <4>3, ExposureNext
    <3>. QED
      BY <3>1, <3>2
  <2>5. ASSUME NEW v \in Attempts, att[v].tx = t PROVE AttemptSafe(v)'
    <3>1. CASE v = w
      BY <1>3, <1>4, <3>1, ExposureNext DEF Releases
    <3>2. CASE v # w
      <4>1. ~Owns(book', t, v)
        BY <2>2, <3>2 DEF Owns
      <4>2. att'[v].tx = t
        BY <1>4, <2>5, <3>2
      <4>. QED
        BY <4>1, <4>2, ExposureNext
    <3>. QED
      BY <3>1, <3>2
  <2>. QED
    BY <1>1, <1>3, <2>2, <2>3, <2>4, <2>5, OneTransaction
<1>. QED
  BY <1>5, <1>6

\* A step of the chain, the clock or a reconciliation: what is over stays over,
\* and a firm reservation goes only with the transaction.
LEMMA AroundAttempts ==
  ASSUME ChargeTypeOK, ExposureInv, UNCHANGED <<att, claims>>, BookInv', SweepInv',
         marker' \subseteq marker,
         \A t \in Txs :
           /\ chain'[t] = "pooled" => chain[t] = "pooled"
           /\ Over(t) => Over(t)'
           /\ Firm(t) => Firm(t)' \/ Over(t)'
           /\ \A w \in Attempts : Owns(book', t, w) => Owns(book, t, w)
  PROVE  ExposureInv'
<1>1. \A w \in Attempts : Ordered(att[w])'
  BY ExposureNext DEF ExposureInv
<1>2. ASSUME NEW t \in Txs PROVE TxReserved(t)'
  <2>1. Unsent(t) => Unsent(t)'
    BY ExposureNext DEF Unsent
  <2>. QED
    BY <2>1, ExposureNext DEF ExposureInv, TxReserved
<1>3. ASSUME NEW w \in Attempts PROVE AttemptSafe(w)'
  <2>1. att[w].tx \in Txs
    BY AttemptFields
  <2>2. AloneWith(w) => AloneWith(w)'
    BY <2>1, ExposureNext DEF AloneWith
  <2>. QED
    BY <2>2, ExposureNext DEF ExposureInv, AttemptSafe
<1>. QED
  BY <1>1, <1>2, <1>3 DEF ExposureInv

\* Reconciliation takes an entry that is stale or settled.
LEMMA SweepExposure ==
  ASSUME ChargeTypeOK, ExposureInv, NEW w \in Attempts
  PROVE  /\ StartSweep(w) => ExposureInv'
         /\ \A k \in sweep[w].tasks :
              SweepStale(w, k) \/ SweepLookup(w, k) \/ SweepSettled(w, k) => ExposureInv'
<1>0. now \in Nat /\ sweep[w].at \in Nat /\ \A v \in Attempts : \A k \in sweep[v].tasks : k.tx \in Txs
  BY DEF ChargeTypeOK, Task
<1>1. ASSUME UNCHANGED <<now, chain, book, claims, marker, att>>, SweepInv' PROVE ExposureInv'
  <2>1. BookInv'
    BY <1>1 DEF ExposureInv, BookInv
  <2>2. \A t \in Txs : (Over(t) => Over(t)') /\ (Firm(t) => Firm(t)')
    BY <1>1, ExposureNext DEF Over, Firm
  <2>. QED
    BY <1>1, <2>1, <2>2, AroundAttempts
<1>2. ASSUME NEW s, sweep' = [sweep EXCEPT ![w] = s], s.at <= now, UNCHANGED <<now, chain>>,
             \A k \in s.tasks : k.kind = "settled" => chain[k.tx] \in {"paid", "reverted"}
      PROVE  SweepInv'
  <2>1. sweep'[w] = s /\ \A v \in Attempts \ {w} : sweep'[v] = sweep[v]
    BY <1>2 DEF ChargeTypeOK
  <2>. QED
    BY <1>2, <2>1 DEF SweepInv, ExposureInv
<1>3. ASSUME StartSweep(w) PROVE ExposureInv'
  <2>. DEFINE s == [at |-> now, tasks |-> TasksAt(book, now)]
  <2>1. s.at <= now
    BY <1>0
  <2>2. \A k \in TasksAt(book, now) : k.kind # "settled"
    BY DEF TasksAt
  <2>3. \A k \in s.tasks : k.kind = "settled" => chain[k.tx] \in {"paid", "reverted"}
    BY <2>2
  <2>4. sweep' = [sweep EXCEPT ![w] = s] /\ UNCHANGED <<now, chain>>
    BY <1>3 DEF StartSweep
  <2>. HIDE DEF s
  <2>5. SweepInv'
    BY <1>2, <2>1, <2>3, <2>4
  <2>. QED
    BY <1>1, <1>3, <2>5 DEF StartSweep
<1>4. ASSUME NEW T, sweep' = [sweep EXCEPT ![w].tasks = T], UNCHANGED <<now, chain>>,
             \A k \in T : k.kind = "settled" => chain[k.tx] \in {"paid", "reverted"}
      PROVE  SweepInv'
  <2>. DEFINE s == [sweep[w] EXCEPT !.tasks = T]
  <2>1. s.at = sweep[w].at /\ s.tasks = T
    BY DEF ChargeTypeOK
  <2>2. sweep' = [sweep EXCEPT ![w] = s]
    BY <1>4
  <2>3. s.at <= now
    BY <2>1 DEF ExposureInv, SweepInv
  <2>. HIDE DEF s
  <2>. QED
    BY <1>2, <1>4, <2>1, <2>2, <2>3
<1>5. ASSUME NEW k \in sweep[w].tasks, SweepLookup(w, k) PROVE ExposureInv'
  <2>. DEFINE T == (sweep[w].tasks \ {k}) \cup (IF chain[k.tx] \in {"paid", "reverted"}
                       THEN {[k EXCEPT !.kind = "settled"]} ELSE {})
  <2>1. k \in Task
    BY DEF ChargeTypeOK
  <2>2. [k EXCEPT !.kind = "settled"].tx = k.tx
    BY <2>1 DEF Task
  <2>3. \A j \in T : j.kind = "settled" => chain[j.tx] \in {"paid", "reverted"}
    BY <2>2 DEF ExposureInv, SweepInv
  <2>4. sweep' = [sweep EXCEPT ![w].tasks = T] /\ UNCHANGED <<now, chain>>
    BY <1>5 DEF SweepLookup, ChargeTypeOK
  <2>. HIDE DEF T
  <2>5. SweepInv'
    BY <1>4, <2>3, <2>4
  <2>. QED
    BY <1>1, <1>5, <2>5 DEF SweepLookup
<1>6. ASSUME NEW k \in sweep[w].tasks, SweepStale(w, k) \/ SweepSettled(w, k) PROVE ExposureInv'
  <2>. DEFINE t == k.tx
  <2>1. /\ t \in Txs /\ UNCHANGED <<now, chain, claims, marker, att>>
        /\ sweep' = [sweep EXCEPT ![w].tasks = sweep[w].tasks \ {k}]
    BY <1>0, <1>6 DEF SweepStale, SweepSettled, ChargeTypeOK
  <2>2. \A j \in sweep[w].tasks \ {k} : j.kind = "settled" => chain[j.tx] \in {"paid", "reverted"}
    BY DEF ExposureInv, SweepInv
  <2>3. SweepInv'
    BY <1>4, <2>1, <2>2
  <2>4. book' = book \/ book' = [book EXCEPT ![t] = NoEntry]
    BY <1>6 DEF SweepStale, SweepSettled, ReleaseStale, ReleaseSettled
  <2>5. book' # book /\ Firm(t) => Over(t)
    <3>1. CASE SweepStale(w, k)
      <4>1. book' # book => IsStale(book[t], sweep[w].at)
        BY <3>1 DEF SweepStale, ReleaseStale
      <4>2. ASSUME Firm(t), IsStale(book[t], sweep[w].at) PROVE Over(t)
        <5>1. book[t].expires <= sweep[w].at /\ book[t].phase # "none"
          BY <4>2 DEF Firm, IsStale
        <5>2. book[t].expires = ExpiresAt(t) /\ sweep[w].at <= now
          BY <2>1, <5>1 DEF ExposureInv, BookInv, SweepInv
        <5>3. ExpiresAt(t) \in Nat
          BY <2>1, BudgetAssumption DEF ExpiresAt
        <5>4. ExpiresAt(t) <= now
          BY <1>0, <5>1, <5>2, <5>3
        <5>. QED
          BY <5>4 DEF Over
      <4>. QED
        BY <4>1, <4>2
    <3>2. CASE SweepSettled(w, k)
      BY <3>2 DEF SweepSettled, ExposureInv, SweepInv, Over
    <3>. QED
      BY <1>6, <3>1, <3>2
  <2>6. \A u \in Txs : book'[u] = book[u] \/ (u = t /\ book'[u].phase = "none" /\ book' # book)
    BY <2>1, <2>4 DEF ChargeTypeOK, Book, NoEntry
  <2>7. BookInv'
    BY <2>6, BookShrinks DEF ExposureInv
  <2>8. \A u \in Txs : Over(u)' <=> Over(u)
    BY <2>1, ExposureNext DEF Over
  <2>9. \A u \in Txs : Firm(u) => Firm(u)' \/ Over(u)'
    BY <2>5, <2>6, <2>8, ExposureNext DEF Firm
  <2>10. \A u \in Txs : \A v \in Attempts : Owns(book', u, v) => Owns(book, u, v)
    BY <2>6 DEF Owns
  <2>. QED
    BY <2>1, <2>3, <2>7, <2>8, <2>9, <2>10, AroundAttempts
<1>. QED
  BY <1>3, <1>5, <1>6

\* The chain includes a transaction or drops it, and time passes.
LEMMA WorldExposure ==
  ASSUME ChargeTypeOK, ExposureInv
  PROVE  /\ \A t \in Txs : Include(t) => ExposureInv'
         /\ Tick => ExposureInv'
         /\ UNCHANGED vars => ExposureInv'
<1>1. ASSUME UNCHANGED <<book, sweep, claims, att>>, marker' \subseteq marker,
             now' = now \/ now' = now + 1,
             \A t \in Txs : /\ chain'[t] = "pooled" => chain[t] = "pooled"
                            /\ chain[t] \in {"paid", "reverted"} => chain'[t] = chain[t]
      PROVE  ExposureInv'
  <2>1. BookInv'
    BY <1>1 DEF ExposureInv, BookInv
  <2>2. now \in Nat /\ \A v \in Attempts : sweep[v].at \in Nat
    BY DEF ChargeTypeOK
  <2>3. \A v \in Attempts : \A k \in sweep[v].tasks : k.tx \in Txs
    BY DEF ChargeTypeOK, Task
  <2>4. \A v \in Attempts : sweep[v].at <= now'
    BY <1>1, <2>2 DEF ExposureInv, SweepInv
  <2>5. SweepInv'
    BY <1>1, <2>3, <2>4 DEF ExposureInv, SweepInv
  <2>6. ASSUME NEW t \in Txs, Over(t) PROVE Over(t)'
    <3>1. CASE chain[t] \in {"paid", "reverted"}
      BY <1>1, <3>1, ExposureNext
    <3>2. CASE ExpiresAt(t) <= now
      <4>1. ExpiresAt(t) \in Nat
        BY BudgetAssumption DEF ExpiresAt
      <4>2. ExpiresAt(t) <= now'
        BY <1>1, <2>2, <3>2, <4>1
      <4>. QED
        BY <4>2, ExposureNext
    <3>. QED
      BY <2>6, <3>1, <3>2 DEF Over
  <2>7. \A t \in Txs : Firm(t) => Firm(t)'
    BY <1>1, ExposureNext DEF Firm
  <2>8. \A t \in Txs : \A w \in Attempts : Owns(book', t, w) => Owns(book, t, w)
    BY <1>1
  <2>. QED
    BY <1>1, <2>1, <2>5, <2>6, <2>7, <2>8, AroundAttempts
<1>2. ASSUME NEW t \in Txs, Include(t) PROVE ExposureInv'
  <2>1. PICK outcome \in {"paid", "reverted"} : chain' = [chain EXCEPT ![t] = outcome]
    BY <1>2 DEF Include
  <2>2. chain'[t] = outcome /\ chain[t] = "pooled" /\ \A u \in Txs \ {t} : chain'[u] = chain[u]
    BY <1>2, <2>1 DEF Include, ChargeTypeOK
  <2>. QED
    BY <1>1, <1>2, <2>2 DEF Include
<1>3. ASSUME Tick PROVE ExposureInv'
  <2>1. \A t \in Txs : chain'[t] = chain[t] \/ (chain[t] = "pooled" /\ chain'[t] = "none")
    BY <1>3 DEF Tick
  <2>2. marker' \subseteq marker /\ now' = now + 1 /\ UNCHANGED <<book, sweep, claims, att>>
    BY <1>3 DEF Tick
  <2>. QED
    BY <1>1, <2>1, <2>2
<1>4. ASSUME UNCHANGED vars PROVE ExposureInv'
  BY <1>1, <1>4 DEF vars
<1>. QED
  BY <1>2, <1>3, <1>4

\* Every step keeps the reservations of what may be in flight.
LEMMA ExposureStep ==
  ASSUME StoreErrors = FALSE
  PROVE  ChargeTypeOK /\ KeyInv /\ FlagInv /\ PayerInv /\ ExposureInv /\ [Next]_vars => ExposureInv'
<1>. SUFFICES ASSUME ChargeTypeOK, KeyInv, FlagInv, PayerInv, ExposureInv, [Next]_vars
              PROVE  ExposureInv'
  OBVIOUS
<1>0. \A w \in Attempts : att[w].tx \in Txs
  BY AttemptFields
<1>1. CASE AdmissionNext
  BY <1>0, <1>1, AdmissionExposure, RetryExposure, RefusalExposure DEF AdmissionNext
<1>2. CASE BudgetNext
  BY <1>0, <1>2, RefusalExposure, ReserveExposure, SweepExposure DEF BudgetNext
<1>3. CASE SubmissionNext
  BY <1>0, <1>3, SubmissionExposure, MarkExposure, BroadcastExposure, SendExposure DEF SubmissionNext
<1>4. CASE CleanupNext
  BY <1>0, <1>4, CleanupExposure, SettleExposure DEF CleanupNext
<1>5. CASE (\E t \in Txs : Include(t)) \/ Tick \/ UNCHANGED vars
  BY <1>5, WorldExposure
<1>. QED
  BY <1>1, <1>2, <1>3, <1>4, <1>5 DEF Next

\* At first nothing is reserved and nothing was sent.
LEMMA InitExposure == Init => ExposureInv
<1>. SUFFICES ASSUME Init PROVE ExposureInv
  OBVIOUS
<1>1. \A w \in Attempts : att[w].pc = "idle" /\ ~att[w].held /\ ~att[w].reconciling
  BY DEF Init, Fresh
<1>2. \A t \in Txs : book[t].phase = "none" /\ chain[t] = "none"
  BY DEF Init, NoEntry
<1>3. Reserved(book) = {}
  BY <1>2 DEF Reserved
<1>4. BookInv
  <2>1. IsFiniteSet({}) /\ Cardinality({}) = 0
    BY FS_EmptySet
  <2>2. TotalFee({}) = 0
    BY <2>1, TotalByChoice
  <2>. QED
    BY <1>2, <1>3, <2>1, <2>2, BudgetAssumption DEF BookInv
<1>5. SweepInv
  BY DEF Init, SweepInv, NoSweep
<1>6. \A t \in Txs : TxReserved(t)
  BY <1>1, <1>2 DEF TxReserved, Unsent, MayResend, Init
<1>7. \A w \in Attempts : Ordered(att[w]) /\ AttemptSafe(w)
  BY <1>1 DEF Ordered, AttemptSafe, Releases
<1>. QED
  BY <1>4, <1>5, <1>6, <1>7 DEF ExposureInv

\* As long as the stores delete the markers they are told to, the sponsor never
\* has more fees or more transactions in flight than the limits allow, although
\* attempts stop, lose outcomes and lose reservations to reconciliation
\* (sponsor_budget.py).
THEOREM FeesStayWithinBudget ==
  ASSUME StoreErrors = FALSE
  PROVE  Spec => []ExposureCapped
<1>1. ChargeTypeOK /\ PayerInv /\ ExposureInv => ExposureCapped
  <2>. SUFFICES ASSUME ChargeTypeOK, PayerInv, ExposureInv PROVE ExposureCapped
    OBVIOUS
  <2>1. ASSUME NEW t \in Pooled PROVE t \in Reserved(book)
    <3>1. t \in Txs /\ chain[t] = "pooled" /\ now - ChainLag < ValidBefore[t]
      BY <2>1 DEF Pooled, PayerInv, ChainNow
    <3>2. now < ExpiresAt(t)
      BY <3>1, BudgetAssumption, ChargeAssumption DEF ExpiresAt, ChargeTypeOK
    <3>3. ~(ExpiresAt(t) <= now)
      BY <3>1, <3>2, BudgetAssumption DEF ExpiresAt, ChargeTypeOK
    <3>4. ~Over(t) /\ ~Unsent(t)
      BY <3>1, <3>3 DEF Over, Unsent
    <3>. QED
      BY <3>1, <3>4 DEF ExposureInv, TxReserved, Firm, Reserved
  <2>2. Pooled \in SUBSET Reserved(book) /\ Reserved(book) \in SUBSET Txs
    BY <2>1 DEF Reserved
  <2>3. IsFiniteSet(Reserved(book))
    BY DEF ExposureInv, BookInv
  <2>4. IsFiniteSet(Pooled) /\ Cardinality(Pooled) <= Cardinality(Reserved(book))
    BY <2>2, <2>3, FS_Subset
  <2>5. TotalFee(Pooled) <= TotalFee(Reserved(book))
    BY <2>2, <2>3, TotalOfPart
  <2>6. /\ Cardinality(Pooled) \in Nat /\ Cardinality(Reserved(book)) \in Nat
        /\ TotalFee(Pooled) \in Nat /\ TotalFee(Reserved(book)) \in Nat
    BY <2>2, <2>3, <2>4, FS_CardinalityType, TotalByChoice
  <2>7. TotalFee(Pooled) <= MaxTotalFee
    BY <2>5, <2>6, BudgetAssumption DEF ExposureInv, BookInv
  <2>8. Cardinality(Pooled) <= MaxReservations
    BY <2>4, <2>6, BudgetAssumption DEF ExposureInv, BookInv
  <2>. QED
    BY <2>7, <2>8 DEF ExposureCapped
<1>2. Init => PayerInv
  <2>. SUFFICES ASSUME Init PROVE PayerInv
    OBVIOUS
  <2>1. \A t \in Txs : chain[t] = "none"
    BY DEF Init
  <2>2. \A w \in Attempts : att[w].pc = "idle" /\ att[w].result = "none"
    BY DEF Init, Fresh
  <2>. QED
    BY <2>1, <2>2 DEF PayerInv, MayFree, AdmittedStages, OwnerStages
<1>. QED
  BY <1>1, <1>2, InitFlags, InitExposure, KeyStep, FlagStep, PayerStep, ExposureStep,
     ChargeTypeCorrect, PTL DEF Spec

=============================================================================
