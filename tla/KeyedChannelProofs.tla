------------------------- MODULE KeyedChannelProofs -------------------------
(* The channel store and the keyed calls over it, for any callbacks, any number *)
(* of processes, calls, retries and failures, and every kind of store, except   *)
(* one without compare-and-set whose puts may arrive after their callers gave   *)
(* up (NoLatePuts): the store's update implements AtomicUpdate, and over an     *)
(* update that is atomic a charge or credit under a key happens once.           *)
EXTENDS KeyedChannel, TLAPS

-----------------------------------------------------------------------------
(* The channel store.                                                           *)

(* The inductive invariant.                                                     *)

\* What the steps need of the shape of the variables.
Shape ==
  /\ clock \in Nat
  /\ DOMAIN kv = Keys
  /\ kv[Channel] = Entry(kv[Channel].value, Forever)
  /\ home \in [Calls -> Processes]
  /\ pc \in [Calls -> Steps]
  /\ DOMAIN began = Calls /\ DOMAIN run = Calls
  /\ answer = [c \in Calls |-> answer[c]]
  /\ DOMAIN holder = Processes

\* What a caller has been told follows from where its call is.
AnswersFollow ==
  \A c \in Calls :
    /\ pc[c] \in Updating => answer[c] = "running"
    /\ pc[c] \notin Updating \cup Ended => answer[c] = "waiting"

\* A run that led to a write is one of the callback on what was read.
RunOf(c, raw, value) ==
  LET change == Change(c, began[c], raw) IN ~change.noop /\ change.value = value

RunsAreTrue ==
  \A c \in Calls : pc[c] \in {"compare", "again", "put"} =>
    /\ RunOf(c, run[c].raw, run[c].value)
    /\ run[c].result = Change(c, began[c], run[c].raw).result

\* A swap in flight is that of an ended call, its only one.
FlightsAreTrue ==
  \A s \in flight :
    /\ s.by \in Calls /\ pc[s.by] = "done" /\ answer[s.by] = "unknown"
    /\ RunOf(s.by, s.raw, s.value)
    /\ \A t \in flight : t.by = s.by => t = s

\* Without compare-and-set, calls share a process, its lock is held from the read
\* to the put, and no put arrives later.
LockIsHeld ==
  /\ pc \in [Calls -> Steps]
  /\ ~backend.cas =>
       /\ flight = {} /\ ~backend.late
       /\ \A c, d \in Calls : home[c] = home[d]
       /\ \A c \in Calls :
            /\ pc[c] \notin {"compare", "again"}
            /\ pc[c] \in {"read", "put"} => holder[home[c]] = c
            /\ pc[c] = "put" => run[c].raw = kv[Channel].value
  /\ backend.cas => \A c \in Calls : pc[c] # "put"

StoreInv == Shape /\ AnswersFollow /\ RunsAreTrue /\ FlightsAreTrue /\ LockIsHeld

-----------------------------------------------------------------------------

\* The record never expires, so that what is read is what is stored.
LEMMA RecordIsStored ==
  ASSUME Shape
  PROVE  Record = kv[Channel].value
  BY DEF Shape, Record, Get, Entry

\* A swap on the channel's key writes the value and no expiry.
LEMMA SwapWrites ==
  ASSUME Shape, StoreAssumption, NEW v, NEW now
  PROVE  /\ Swapped(kv, Channel, v, now)[Channel] = Entry(v, Forever)
         /\ DOMAIN Swapped(kv, Channel, v, now) = Keys
  BY DEF Shape, StoreAssumption, Swapped, Put, Delete, Entry, Get

LEMMA InvInitial ==
  ASSUME NoLatePuts, StoreInit PROVE StoreInv
  <1> USE StoreAssumption DEF StoreAssumption, StoreInit
  <1>1. Shape
    BY DEF Shape, Put, Entry, EmptyStore, Steps
  <1>2. AnswersFollow
    BY DEF AnswersFollow, Updating, Ended
  <1>3. RunsAreTrue /\ FlightsAreTrue
    BY DEF RunsAreTrue, FlightsAreTrue
  <1>4. LockIsHeld
    BY <1>1 DEF LockIsHeld, Shape, OneProcess, NoLatePuts
  <1> QED BY <1>1, <1>2, <1>3, <1>4 DEF StoreInv

-----------------------------------------------------------------------------
(* Every step preserves the invariant.                                          *)

LEMMA SkipCheckKeeps ==
  ASSUME StoreInv, StoreAssumption, NEW c \in Calls, SkipCheck(c)
  PROVE  StoreInv'
  <1> USE DEF StoreInv, SkipCheck, GoTo, Steps, Updating, Ended
  <1>1. Shape'
    BY DEF Shape, RunOf, StoreAssumption, Entry
  <1>2. AnswersFollow'
    BY DEF Shape, AnswersFollow, RunOf
  <1>3. RunsAreTrue'
    BY DEF Shape, RunsAreTrue, RunOf
  <1>4. FlightsAreTrue'
    BY DEF Shape, FlightsAreTrue, RunOf
  <1>5. LockIsHeld'
    BY DEF Shape, LockIsHeld, RunOf
  <1> QED BY <1>1, <1>2, <1>3, <1>4, <1>5

LEMMA ProbeReadKeeps ==
  ASSUME StoreInv, StoreAssumption, NEW c \in Calls, ProbeRead(c)
  PROVE  StoreInv'
  <1> USE DEF StoreInv, ProbeRead, GoTo, Steps, Updating, Ended
  <1>1. Shape'
    BY DEF Shape, RunOf, StoreAssumption, Entry
  <1>2. AnswersFollow'
    BY DEF Shape, AnswersFollow, RunOf
  <1>3. RunsAreTrue'
    BY DEF Shape, RunsAreTrue, RunOf
  <1>4. FlightsAreTrue'
    BY DEF Shape, FlightsAreTrue, RunOf
  <1>5. LockIsHeld'
    BY DEF Shape, LockIsHeld, RunOf
  <1> QED BY <1>1, <1>2, <1>3, <1>4, <1>5

LEMMA ProbeWriteKeeps ==
  ASSUME StoreInv, StoreAssumption, NEW c \in Calls, ProbeWrite(c)
  PROVE  StoreInv'
  <1> USE DEF StoreInv, ProbeWrite, EndsAt, GoTo, Steps, Updating, Ended
  <1>0. kv'[Channel] = kv[Channel] /\ DOMAIN kv' = Keys
    BY StoreAssumption DEF StoreAssumption, Shape, Swapped, Put, Delete
  <1>1. Shape'
    BY <1>0 DEF Shape, StoreAssumption, Entry
  <1>2. AnswersFollow'
    BY <1>0 DEF Shape, AnswersFollow
  <1>3. RunsAreTrue'
    BY <1>0 DEF Shape, RunsAreTrue, RunOf
  <1>4. FlightsAreTrue'
    BY <1>0 DEF Shape, FlightsAreTrue, RunOf
  <1>5. LockIsHeld'
    BY <1>0 DEF Shape, LockIsHeld
  <1> QED BY <1>1, <1>2, <1>3, <1>4, <1>5

LEMMA ProbeCleanKeeps ==
  ASSUME StoreInv, StoreAssumption, NEW c \in Calls, ProbeClean(c)
  PROVE  StoreInv'
  <1> USE DEF StoreInv, ProbeClean, GoTo, Fails, Steps, Updating, Ended
  <1>0. kv'[Channel] = kv[Channel] /\ DOMAIN kv' = Keys
    BY StoreAssumption DEF StoreAssumption, Shape, Swapped, Put, Delete
  <1>1. Shape'
    BY <1>0 DEF Shape, StoreAssumption, Entry
  <1>2. AnswersFollow'
    BY <1>0 DEF Shape, AnswersFollow
  <1>3. RunsAreTrue'
    BY <1>0 DEF Shape, RunsAreTrue, RunOf
  <1>4. FlightsAreTrue'
    BY <1>0 DEF Shape, FlightsAreTrue, RunOf
  <1>5. LockIsHeld'
    BY <1>0 DEF Shape, LockIsHeld
  <1> QED BY <1>1, <1>2, <1>3, <1>4, <1>5

LEMMA BeginUpdateKeeps ==
  ASSUME StoreInv, StoreAssumption, NEW c \in Calls, BeginUpdate(c)
  PROVE  StoreInv'
  <1> USE DEF StoreInv, BeginUpdate, GoTo, Steps, Updating, Ended
  <1>1. Shape'
    BY DEF Shape, RunOf, StoreAssumption, Entry
  <1>2. AnswersFollow'
    BY DEF Shape, AnswersFollow, RunOf
  <1>3. RunsAreTrue'
    BY DEF Shape, RunsAreTrue, RunOf
  <1>4. FlightsAreTrue'
    BY DEF Shape, FlightsAreTrue, RunOf
  <1>5. LockIsHeld'
    BY DEF Shape, LockIsHeld, RunOf
  <1> QED BY <1>1, <1>2, <1>3, <1>4, <1>5

LEMMA TakeLockKeeps ==
  ASSUME StoreInv, StoreAssumption, NEW c \in Calls, TakeLock(c)
  PROVE  StoreInv'
  <1> USE DEF StoreInv, TakeLock, IsUnlocked, GoTo, Steps, Updating, Ended
  <1>1. Shape'
    BY DEF Shape, RunOf, StoreAssumption, Entry
  <1>2. AnswersFollow'
    BY DEF Shape, AnswersFollow, RunOf
  <1>3. RunsAreTrue'
    BY DEF Shape, RunsAreTrue, RunOf
  <1>4. FlightsAreTrue'
    BY DEF Shape, FlightsAreTrue, RunOf
  <1>5. LockIsHeld'
    BY DEF Shape, LockIsHeld, RunOf
  <1> QED BY <1>1, <1>2, <1>3, <1>4, <1>5

LEMMA ReadRecordKeeps ==
  ASSUME StoreInv, StoreAssumption, NEW c \in Calls, ReadRecord(c)
  PROVE  StoreInv'
  <1> USE DEF StoreInv, ReadRecord, Ends, EndsAt, GoTo, ResultOf, Steps, Updating, Ended
  <1>1. Shape'
    BY RecordIsStored DEF Shape, RunOf, StoreAssumption, Entry
  <1>2. AnswersFollow'
    BY RecordIsStored DEF Shape, AnswersFollow, RunOf
  <1>3. RunsAreTrue'
    BY RecordIsStored DEF Shape, RunsAreTrue, RunOf
  <1>4. FlightsAreTrue'
    BY RecordIsStored DEF Shape, FlightsAreTrue, RunOf
  <1>5. LockIsHeld'
    BY RecordIsStored DEF Shape, LockIsHeld, RunOf
  <1> QED BY <1>1, <1>2, <1>3, <1>4, <1>5

\* A write needs its call to be where it may write.
LEMMA WritesKeeps ==
  ASSUME StoreInv, StoreAssumption, NEW c \in Calls, pc[c] \in {"compare", "again", "put"},
         Writes(c), UNCHANGED <<clock, backend, home, began, flight>>
  PROVE  StoreInv'
  <1> USE DEF StoreInv, Writes, Ends, EndsAt, GoTo, Fails, Steps, Updating, Ended
  <1>0. kv'[Channel] = Entry(run[c].value, Forever) /\ DOMAIN kv' = Keys
    BY SwapWrites
  <1>1. Shape'
    BY <1>0 DEF Shape, Entry
  <1>2. AnswersFollow'
    BY <1>0 DEF Shape, AnswersFollow
  <1>3. RunsAreTrue'
    BY <1>0 DEF Shape, RunsAreTrue, RunOf
  <1>4. FlightsAreTrue'
    BY <1>0 DEF Shape, FlightsAreTrue, RunOf
  <1>5. LockIsHeld'
    BY <1>0, StoreAssumption DEF Shape, LockIsHeld, Entry, StoreAssumption
  <1> QED BY <1>1, <1>2, <1>3, <1>4, <1>5

\* Every other end of a call, and every step back to the read.
LEMMA EndsKeeps ==
  ASSUME StoreInv, StoreAssumption, NEW c \in Calls, pc[c] \notin Ended, Ends(c, "unknown"),
         UNCHANGED <<kv, clock, backend, home, began, flight>>
  PROVE  StoreInv'
  <1> USE DEF StoreInv, Ends, EndsAt, GoTo, Steps, Updating, Ended
  <1>1. Shape'
    BY DEF Shape
  <1>2. AnswersFollow'
    BY DEF Shape, AnswersFollow
  <1>3. RunsAreTrue'
    BY DEF Shape, RunsAreTrue, RunOf
  <1>4. FlightsAreTrue'
    BY DEF Shape, FlightsAreTrue, RunOf
  <1>5. LockIsHeld'
    BY StoreAssumption DEF Shape, LockIsHeld, StoreAssumption
  <1> QED BY <1>1, <1>2, <1>3, <1>4, <1>5

LEMMA MovesKeeps ==
  ASSUME StoreInv, NEW c \in Calls, pc[c] \in {"compare", "again"},
         NEW step \in {"again", "read"}, step = "again" => pc[c] = "compare",
         GoTo(c, step),
         UNCHANGED <<kv, clock, backend, home, began, run, answer, holder, flight>>
  PROVE  StoreInv'
  <1> USE DEF StoreInv, GoTo, Steps, Updating, Ended
  <1>1. Shape'
    BY DEF Shape
  <1>2. AnswersFollow'
    BY DEF Shape, AnswersFollow
  <1>3. RunsAreTrue'
    BY DEF Shape, RunsAreTrue, RunOf
  <1>4. FlightsAreTrue'
    BY DEF Shape, FlightsAreTrue, RunOf
  <1>5. LockIsHeld'
    BY DEF Shape, LockIsHeld
  <1> QED BY <1>1, <1>2, <1>3, <1>4, <1>5

LEMMA CompareKeeps ==
  ASSUME StoreInv, StoreAssumption, NEW c \in Calls, Compare(c)
  PROVE  StoreInv'
  <1>1. CASE Writes(c)
    BY <1>1, WritesKeeps DEF Compare
  <1>2. CASE Ends(c, "unknown") /\ UNCHANGED kv
    BY <1>2, EndsKeeps DEF Compare, Ended
  <1>3. CASE /\ GoTo(c, IF backend.bytes /\ run[c].raw # Absent THEN "again" ELSE "read")
             /\ UNCHANGED <<kv, run, answer, holder>>
    BY <1>3, MovesKeeps DEF Compare
  <1> QED BY <1>1, <1>2, <1>3 DEF Compare, NoRoom, AfterLostRace

LEMMA CompareTextKeeps ==
  ASSUME StoreInv, StoreAssumption, NEW c \in Calls, CompareText(c)
  PROVE  StoreInv'
  <1>1. CASE Writes(c)
    BY <1>1, WritesKeeps DEF CompareText
  <1>2. CASE GoTo(c, "read") /\ UNCHANGED <<kv, run, answer, holder>>
    BY <1>2, MovesKeeps DEF CompareText
  <1> QED BY <1>1, <1>2 DEF CompareText, AfterLostRace

LEMMA PutRecordKeeps ==
  ASSUME StoreInv, StoreAssumption, NEW c \in Calls, PutRecord(c)
  PROVE  StoreInv'
  BY WritesKeeps DEF PutRecord

LEMMA InterruptKeeps ==
  ASSUME StoreInv, StoreAssumption, NEW c \in Calls, Interrupt(c)
  PROVE  StoreInv'
  <1> USE DEF StoreInv, Interrupt, Ends, EndsAt, GoTo, Steps, Updating, Ended
  <1>1. Shape'
    BY DEF Shape
  <1>2. AnswersFollow'
    BY DEF Shape, AnswersFollow
  <1>3. RunsAreTrue'
    BY DEF Shape, RunsAreTrue, RunOf
  <1>4. FlightsAreTrue'
    <2>1. \A s \in flight : s.by # c
      BY DEF FlightsAreTrue
    <2>2. \A s \in flight : pc'[s.by] = "done" /\ answer'[s.by] = "unknown"
      BY <2>1 DEF FlightsAreTrue, Shape
    <2>3. CASE UNCHANGED flight
      BY <2>2, <2>3 DEF FlightsAreTrue, RunOf
    <2>4. CASE MaySwapLater(c) /\ flight' = flight \cup {Swap(c)}
      <3>1. RunOf(c, run[c].raw, run[c].value)
        BY <2>4 DEF MaySwapLater, RunsAreTrue
      <3>2. Swap(c).by = c /\ Swap(c).raw = run[c].raw /\ Swap(c).value = run[c].value
        BY DEF Swap
      <3>3. pc'[c] = "done" /\ answer'[c] = "unknown"
        BY DEF Shape
      <3> QED BY <2>1, <2>2, <2>4, <3>1, <3>2, <3>3 DEF FlightsAreTrue, RunOf
    <2> QED BY <2>3, <2>4
  <1>5. LockIsHeld'
    BY StoreAssumption DEF Shape, LockIsHeld, MaySwapLater, Swap, StoreAssumption
  <1> QED BY <1>1, <1>2, <1>3, <1>4, <1>5

LEMMA ArriveLateKeeps ==
  ASSUME StoreInv, StoreAssumption, NEW s \in flight, ArriveLate(s)
  PROVE  StoreInv'
  <1> USE DEF StoreInv, ArriveLate, Steps, Updating, Ended
  <1>0. kv'[Channel] = Entry(kv'[Channel].value, Forever) /\ DOMAIN kv' = Keys
    <2>1. CASE kv' = Swapped(kv, Channel, s.value, clock)
      <3>1. /\ kv'[Channel] = Entry(s.value, Forever)
            /\ DOMAIN kv' = Keys
        BY <2>1, SwapWrites
      <3> QED BY <3>1 DEF Entry
    <2>2. CASE kv' = kv
      BY <2>2 DEF Shape
    <2> QED BY <2>1, <2>2
  <1>1. Shape'
    BY <1>0 DEF Shape
  <1>2. AnswersFollow'
    BY <1>0 DEF Shape, AnswersFollow
  <1>3. RunsAreTrue'
    BY <1>0 DEF Shape, RunsAreTrue, RunOf
  <1>4. FlightsAreTrue'
    BY <1>0 DEF Shape, FlightsAreTrue, RunOf
  <1>5. LockIsHeld'
    BY <1>0 DEF Shape, LockIsHeld
  <1> QED BY <1>1, <1>2, <1>3, <1>4, <1>5

LEMMA RestartKeeps ==
  ASSUME StoreInv, StoreAssumption, NEW p \in Processes, Restart(p)
  PROVE  StoreInv'
  <1> USE DEF StoreInv, Restart, Steps, Updating, Ended
  <1>1. Shape'
    BY DEF Shape
  <1>2. AnswersFollow'
    BY DEF Shape, AnswersFollow
  <1>3. RunsAreTrue'
    BY DEF Shape, RunsAreTrue, RunOf
  <1>4. FlightsAreTrue'
    <2> DEFINE stopped == {c \in Calls : home[c] = p /\ pc[c] \notin Ended}
    <2>1. \A s \in flight : s.by \in Calls /\ s.by \notin stopped
      BY DEF FlightsAreTrue
    <2>2. \A s \in flight : pc'[s.by] = "done" /\ answer'[s.by] = "unknown"
      BY <2>1 DEF FlightsAreTrue, Shape
    <2>3. PICK late \in SUBSET {Swap(c) : c \in {d \in stopped : MaySwapLater(d)}} :
            flight' = flight \cup late
      OBVIOUS
    <2>4. \A s \in late : \E c \in stopped : s = Swap(c) /\ MaySwapLater(c)
      <3> HIDE DEF stopped, StoreInv, Restart
      <3>1. SUFFICES ASSUME NEW s \in late
                     PROVE  \E c \in stopped : s = Swap(c) /\ MaySwapLater(c)
        OBVIOUS
      <3>2. s \in {Swap(c) : c \in {d \in stopped : MaySwapLater(d)}}
        BY <2>3
      <3> QED BY <3>2
    <2>5. \A c \in stopped : MaySwapLater(c) => RunOf(c, run[c].raw, run[c].value)
      BY DEF MaySwapLater, RunsAreTrue
    <2>6. \A c \in stopped : pc'[c] = "done" /\ answer'[c] = "unknown"
      BY DEF Shape
    <2>7. \A c \in stopped : Swap(c).by = c /\ Swap(c).raw = run[c].raw
                               /\ Swap(c).value = run[c].value
      BY DEF Swap
    <2> HIDE DEF stopped
    <2>8. \A s \in late : s.by \in stopped /\ RunOf(s.by, s.raw, s.value)
      BY <2>4, <2>5, <2>7
    <2>9. \A s, t \in late : s.by = t.by => s = t
      BY <2>4, <2>7
    <2>10. \A c \in stopped : c \in Calls
      BY DEF stopped
    <2>11. \A s, t \in flight : s.by = t.by => s = t
      BY DEF FlightsAreTrue
    <2>12. \A s \in flight : RunOf(s.by, s.raw, s.value)
      BY DEF FlightsAreTrue
    <2>13. ASSUME NEW c \in Calls, NEW raw, NEW value, RunOf(c, raw, value)
           PROVE  RunOf(c, raw, value)'
      BY <2>13 DEF RunOf
    <2> HIDE DEF StoreInv, Restart
    <2>14. \A s \in flight \cup late :
             /\ s.by \in Calls /\ pc'[s.by] = "done" /\ answer'[s.by] = "unknown"
             /\ RunOf(s.by, s.raw, s.value)'
      BY <2>1, <2>2, <2>6, <2>8, <2>10, <2>12, <2>13
    <2>15. \A s, t \in flight \cup late : s.by = t.by => s = t
      BY <2>1, <2>8, <2>9, <2>11
    <2> QED BY <2>3, <2>14, <2>15 DEF FlightsAreTrue
  <1>5. LockIsHeld'
    BY DEF Shape, LockIsHeld, MaySwapLater, Swap
  <1> QED BY <1>1, <1>2, <1>3, <1>4, <1>5

LEMMA TickKeeps ==
  ASSUME StoreInv, Tick PROVE StoreInv'
  BY DEF StoreInv, Tick, Shape, AnswersFollow, RunsAreTrue, RunOf, FlightsAreTrue, LockIsHeld

LEMMA InvStep ==
  ASSUME StoreInv, StoreAssumption, [StoreNext]_vars
  PROVE  StoreInv'
  <1>1. CASE UNCHANGED vars
    BY <1>1 DEF vars, StoreInv, Shape, AnswersFollow, RunsAreTrue, RunOf, FlightsAreTrue,
                LockIsHeld
  <1>2. ASSUME NEW c \in Calls, Advance(c) PROVE StoreInv'
    BY <1>2, SkipCheckKeeps, ProbeReadKeeps, ProbeWriteKeeps, ProbeCleanKeeps,
       BeginUpdateKeeps, TakeLockKeeps, ReadRecordKeeps, CompareKeeps, CompareTextKeeps,
       PutRecordKeeps DEF Advance
  <1> QED
    BY <1>1, <1>2, InterruptKeeps, ArriveLateKeeps, RestartKeeps, TickKeeps DEF StoreNext

\* StoreInv holds in every reachable state, whatever the callbacks do.
THEOREM StoreInvariant ==
  ASSUME NoLatePuts
  PROVE  StoreSpec => []StoreInv
  <1>1. StoreInit => StoreInv
    BY InvInitial
  <1>2. StoreInv /\ [StoreNext]_vars => StoreInv'
    BY InvStep, StoreAssumption
  <1> QED BY <1>1, <1>2, PTL DEF StoreSpec

-----------------------------------------------------------------------------
(* The refinement: a step of the store is one of the atomic update or a stutter. *)

\* What a step that leaves these alone does to the abstract variables.
LEMMA Stutters ==
  ASSUME Shape, Shape', kv'[Channel] = kv[Channel], UNCHANGED <<began, answer, flight>>,
         \A c \in Calls : pc'[c] \in Updating <=> pc[c] \in Updating
  PROVE  UNCHANGED Atomic!avars
  <1>1. Record' = Record
    BY RecordIsStored DEF Shape, Record, Get, Entry
  <1>2. Open' = Open
    BY DEF Open
  <1> QED BY <1>1, <1>2 DEF Atomic!avars

LEMMA BeginsAtomically ==
  ASSUME StoreInv, StoreInv', StoreAssumption, NEW c \in Calls, BeginUpdate(c)
  PROVE  Atomic!Begin(c)
  <1>1. answer[c] = "waiting" /\ answer' = [answer EXCEPT ![c] = "running"]
    BY DEF BeginUpdate, StoreInv, AnswersFollow, Updating, Ended
  <1>2. began' = [began EXCEPT ![c] = clock] /\ clock \in Nat /\ DOMAIN began = Calls
    BY DEF BeginUpdate, StoreInv, Shape
  <1>3. Record' = Record
    BY DEF BeginUpdate, StoreInv, Shape, Record
  <1>4. Open' = Open \cup {c}
    BY DEF BeginUpdate, GoTo, Open, StoreInv, Shape, Updating, Steps
  <1> QED BY <1>1, <1>2, <1>3, <1>4 DEF Atomic!Begin, Atomic!Waiting, Atomic!Running

\* A call that leaves the record alone takes effect when it reads.
LEMMA LeavesAlone ==
  ASSUME StoreInv, StoreInv', StoreAssumption, NEW c \in Calls, pc[c] = "read",
         Change(c, began[c], Record).noop
           \/ (Record = Absent /\ Change(c, began[c], Record).value = Absent),
         Ends(c, Change(c, began[c], Record).result),
         UNCHANGED <<kv, clock, began, flight>>
  PROVE  Atomic!Apply(c)
  <1>1. answer[c] = "running" /\ DOMAIN answer = Calls
    BY DEF StoreInv, Shape, AnswersFollow, Updating
  <1>2. c \in Open
    BY DEF Open, Updating
  <1>3. Open' = Open \ {c}
    BY DEF Ends, EndsAt, GoTo, Open, StoreInv, Shape, FlightsAreTrue, Updating, Steps
  <1>4. Record' = Record
    BY DEF Record
  <1>5. answer' = [answer EXCEPT ![c] = Change(c, began[c], Record).result]
    BY DEF Ends, EndsAt
  <1> QED BY <1>1, <1>2, <1>3, <1>4, <1>5 DEF Atomic!Apply, Atomic!Running

\* A write by a call that read what is still stored takes effect then.
LEMMA WritesAtomically ==
  ASSUME StoreInv, StoreInv', StoreAssumption, NEW c \in Calls,
         pc[c] \in {"compare", "again", "put"}, run[c].raw = Record,
         Writes(c), UNCHANGED <<began, flight>>
  PROVE  Atomic!Apply(c)
  <1> DEFINE change == Change(c, began[c], Record)
  <1>1. ~change.noop /\ change.value = run[c].value /\ change.result = run[c].result
    BY DEF StoreInv, RunsAreTrue, RunOf
  <1>2. Record' = run[c].value
    <2>1. kv'[Channel] = Entry(run[c].value, Forever)
      BY SwapWrites DEF StoreInv, Writes
    <2> QED BY <2>1 DEF Record, Get, Entry
  <1>3. answer[c] = "running" /\ DOMAIN answer = Calls
    BY DEF StoreInv, Shape, AnswersFollow, Updating
  <1>4. c \in Open
    BY DEF Open, Updating
  <1>5. Open' = Open \ {c}
    BY DEF Writes, Ends, EndsAt, GoTo, Open, StoreInv, Shape, FlightsAreTrue, Updating, Steps
  <1>6. \/ answer' = [answer EXCEPT ![c] = change.result]
        \/ answer' = [answer EXCEPT ![c] = "unknown"]
    BY <1>1 DEF Writes, Ends, EndsAt
  <1> QED
    BY <1>1, <1>2, <1>3, <1>4, <1>5, <1>6 DEF Atomic!Apply, Atomic!Running, Atomic!Unknown

\* A call that ends without a write, alone or with a swap in flight, has failed.
LEMMA FailsAtomically ==
  ASSUME StoreInv, StoreInv', StoreAssumption, NEW gone \in SUBSET Calls,
         \A c \in gone : pc[c] \notin Ended,
         \A c \in Calls \ gone : pc'[c] = pc[c] /\ answer'[c] = answer[c],
         \A c \in gone : pc'[c] \in Ended /\ answer'[c] = "unknown",
         flight \subseteq flight',
         \A s \in flight' \ flight : s.by \in gone /\ pc[s.by] \in Updating,
         UNCHANGED <<kv, clock, began>>
  PROVE  Atomic!Fail
  <1>1. \A c \in gone : answer[c] \in {"waiting", "running"}
    BY DEF StoreInv, AnswersFollow
  <1>2. gone = {c \in Calls : answer'[c] # answer[c]}
    BY <1>1
  <1>3. answer' = [c \in Calls |-> IF c \in gone THEN "unknown" ELSE answer[c]]
    <2>1. answer' = [c \in Calls |-> answer'[c]]
      BY DEF StoreInv, Shape
    <2> QED BY <2>1
  <1>4. Open \ gone \subseteq Open' /\ Open' \subseteq Open
    BY DEF Open, Updating, Ended
  <1>5. Record' = Record
    BY DEF Record
  <1> QED
    BY <1>1, <1>2, <1>3, <1>4, <1>5 DEF Atomic!Fail, Atomic!Waiting, Atomic!Running, Atomic!Unknown

LEMMA ProbesAreInvisible ==
  ASSUME StoreInv, StoreInv', StoreAssumption, NEW c \in Calls,
         SkipCheck(c) \/ ProbeRead(c) \/ ProbeClean(c) \/ TakeLock(c)
  PROVE  UNCHANGED Atomic!avars
  <1>1. kv'[Channel] = kv[Channel]
    BY StoreAssumption DEF StoreInv, StoreAssumption, Shape, SkipCheck, ProbeRead, ProbeClean,
       TakeLock, Put, Delete
  <1>2. UNCHANGED <<began, answer, flight>>
    BY DEF SkipCheck, ProbeRead, ProbeClean, TakeLock
  <1>3. \A d \in Calls : pc'[d] \in Updating <=> pc[d] \in Updating
    BY DEF SkipCheck, ProbeRead, ProbeClean, TakeLock, GoTo, Updating, StoreInv, Shape
  <1> QED BY <1>1, <1>2, <1>3, Stutters DEF StoreInv

LEMMA ProbeWriteIsAtomic ==
  ASSUME StoreInv, StoreInv', StoreAssumption, NEW c \in Calls, ProbeWrite(c)
  PROVE  Atomic!Fail \/ UNCHANGED Atomic!avars
  <1>1. CASE ProbeSucceeds(c)
    <2>1. kv'[Channel] = kv[Channel]
      BY <1>1, StoreAssumption DEF StoreInv, StoreAssumption, Shape, ProbeWrite, Swapped, Put,
         Delete
    <2>2. \A d \in Calls : pc'[d] \in Updating <=> pc[d] \in Updating
      BY <1>1 DEF ProbeWrite, GoTo, Updating, StoreInv, Shape
    <2> QED BY <1>1, <2>1, <2>2, Stutters DEF ProbeWrite, StoreInv
  <1>2. CASE ~ProbeSucceeds(c)
    <2>1. PICK step \in {"refused", "done"} : EndsAt(c, step, "unknown")
      BY <1>2 DEF ProbeWrite
    <2>2. pc[c] \notin Ended /\ UNCHANGED <<kv, clock, began, flight>>
      BY <1>2 DEF ProbeWrite, Ended
    <2>3. /\ \A d \in Calls \ {c} : pc'[d] = pc[d] /\ answer'[d] = answer[d]
          /\ pc'[c] \in Ended /\ answer'[c] = "unknown"
      BY <2>1 DEF EndsAt, GoTo, Ended, StoreInv, Shape
    <2> DEFINE gone == {c}
    <2>4. /\ gone \in SUBSET Calls
          /\ \A d \in gone : pc[d] \notin Ended /\ pc'[d] \in Ended /\ answer'[d] = "unknown"
          /\ \A d \in Calls \ gone : pc'[d] = pc[d] /\ answer'[d] = answer[d]
          /\ flight \subseteq flight'
          /\ \A s \in flight' \ flight : s.by \in gone /\ pc[s.by] \in Updating
      BY <2>2, <2>3
    <2> HIDE DEF gone
    <2> QED BY <2>2, <2>4, FailsAtomically
  <1> QED BY <1>1, <1>2

\* A call that ends with an error has failed.
LEMMA ErrorsFail ==
  ASSUME StoreInv, StoreInv', StoreAssumption, NEW c \in Calls, pc[c] \notin Ended,
         Ends(c, "unknown"), flight \subseteq flight',
         \A s \in flight' \ flight : s.by = c /\ pc[c] \in Updating,
         UNCHANGED <<kv, clock, began>>
  PROVE  Atomic!Fail
  <1>1. /\ \A d \in Calls \ {c} : pc'[d] = pc[d] /\ answer'[d] = answer[d]
        /\ pc'[c] \in Ended /\ answer'[c] = "unknown"
    BY DEF Ends, EndsAt, GoTo, Ended, StoreInv, Shape
  <1> DEFINE gone == {c}
  <1>2. /\ gone \in SUBSET Calls
        /\ \A d \in gone : pc[d] \notin Ended /\ pc'[d] \in Ended /\ answer'[d] = "unknown"
        /\ \A d \in Calls \ gone : pc'[d] = pc[d] /\ answer'[d] = answer[d]
        /\ \A s \in flight' \ flight : s.by \in gone /\ pc[s.by] \in Updating
    BY <1>1
  <1> HIDE DEF gone
  <1> QED BY <1>2, FailsAtomically

LEMMA ReadIsAtomic ==
  ASSUME StoreInv, StoreInv', StoreAssumption, NEW c \in Calls, ReadRecord(c)
  PROVE  Atomic!Apply(c) \/ UNCHANGED Atomic!avars
  <1> DEFINE change == Change(c, began[c], Record)
  <1>1. CASE change.noop \/ (Record = Absent /\ change.value = Absent)
    BY <1>1, LeavesAlone DEF ReadRecord, ResultOf
  <1>2. CASE ~(change.noop \/ (Record = Absent /\ change.value = Absent))
    <2>1. \A d \in Calls : pc'[d] \in Updating <=> pc[d] \in Updating
      BY <1>2 DEF ReadRecord, GoTo, Updating, StoreInv, Shape
    <2> QED BY <1>2, <2>1, Stutters DEF ReadRecord, StoreInv
  <1> QED BY <1>1, <1>2

\* After a lost race nothing has happened.
LEMMA LostRacesAreInvisible ==
  ASSUME StoreInv, StoreInv', NEW c \in Calls, pc[c] \in {"compare", "again"},
         NEW step \in {"again", "read"}, GoTo(c, step),
         UNCHANGED <<kv, began, answer, flight>>
  PROVE  UNCHANGED Atomic!avars
  <1>1. \A d \in Calls : pc'[d] \in Updating <=> pc[d] \in Updating
    BY DEF GoTo, Updating, StoreInv, Shape
  <1> QED BY <1>1, Stutters DEF StoreInv

LEMMA CompareIsAtomic ==
  ASSUME StoreInv, StoreInv', StoreAssumption, NEW c \in Calls,
         Compare(c) \/ CompareText(c) \/ PutRecord(c)
  PROVE  Atomic!Apply(c) \/ Atomic!Fail \/ UNCHANGED Atomic!avars
  <1>1. CASE Writes(c) /\ (Current(c) \/ PutRecord(c))
    <2>1. run[c].raw = Record
      BY <1>1, RecordIsStored DEF Current, Matches, Record, PutRecord, StoreInv, LockIsHeld
    <2> QED BY <1>1, <2>1, WritesAtomically DEF Compare, CompareText, PutRecord
  <1>2. CASE Compare(c) /\ Ends(c, "unknown") /\ UNCHANGED kv
    BY <1>2, ErrorsFail DEF Compare, Ended
  <1>3. CASE /\ Compare(c) \/ CompareText(c)
             /\ GoTo(c, "again") \/ GoTo(c, "read")
             /\ UNCHANGED <<kv, answer>>
    BY <1>3, LostRacesAreInvisible DEF Compare, CompareText
  <1> QED BY <1>1, <1>2, <1>3 DEF Compare, CompareText, PutRecord, NoRoom, AfterLostRace

LEMMA InterruptIsAtomic ==
  ASSUME StoreInv, StoreInv', StoreAssumption, NEW c \in Calls, Interrupt(c)
  PROVE  Atomic!Fail
  BY ErrorsFail DEF Interrupt, MaySwapLater, Swap, Updating

LEMMA ArrivalIsAtomic ==
  ASSUME StoreInv, StoreInv', StoreAssumption, NEW s \in flight, ArriveLate(s)
  PROVE  Atomic!Apply(s.by) \/ Atomic!Drop(s.by)
  <1> DEFINE change == Change(s.by, began[s.by], Record)
  <1>1. s.by \in Open /\ answer[s.by] = "unknown"
    BY DEF Open, StoreInv, FlightsAreTrue
  <1>2. Open' = Open \ {s.by}
    <2>1. \A c \in Calls : c \in {t.by : t \in flight'} <=> c \in {t.by : t \in flight} /\ c # s.by
      BY DEF ArriveLate, StoreInv, FlightsAreTrue
    <2>2. pc[s.by] \notin Updating /\ pc' = pc
      BY DEF ArriveLate, StoreInv, FlightsAreTrue, Updating
    <2> QED BY <2>1, <2>2 DEF Open
  <1>0. flight # {} => backend.cas
    BY DEF StoreInv, LockIsHeld
  <1>3. CASE TakesEffect(s)
    <2>1. s.raw = Record
      BY <1>0, <1>3 DEF TakesEffect, Matches, Record
    <2>2. ~change.noop /\ change.value = s.value
      BY <2>1 DEF StoreInv, FlightsAreTrue, RunOf
    <2>3. kv'[Channel] = Entry(s.value, Forever)
      BY <1>3, SwapWrites DEF ArriveLate, StoreInv
    <2>4. Record' = s.value
      BY <2>3 DEF Record, Get, Entry
    <2>5. answer' = [answer EXCEPT ![s.by] = answer[s.by]]
      BY DEF ArriveLate, StoreInv, Shape
    <2> QED BY <1>1, <1>2, <2>2, <2>4, <2>5 DEF ArriveLate, Atomic!Apply, Atomic!Running, Atomic!Unknown
  <1>4. CASE ~TakesEffect(s)
    <2>1. Record' = Record
      BY <1>4 DEF ArriveLate, Record
    <2> QED BY <1>1, <1>2, <1>4, <2>1 DEF ArriveLate, Atomic!Drop, Atomic!Unknown
  <1> QED BY <1>3, <1>4

LEMMA RestartIsAtomic ==
  ASSUME StoreInv, StoreInv', StoreAssumption, NEW p \in Processes, Restart(p)
  PROVE  Atomic!Fail
  <1> DEFINE stopped == {c \in Calls : home[c] = p /\ pc[c] \notin Ended}
  <1>1. /\ \A c \in Calls \ stopped : pc'[c] = pc[c] /\ answer'[c] = answer[c]
        /\ \A c \in stopped : pc'[c] = "done" /\ answer'[c] = "unknown"
        /\ UNCHANGED <<kv, clock, began>>
    BY DEF Restart
  <1>2. PICK late \in SUBSET {Swap(c) : c \in {d \in stopped : MaySwapLater(d)}} :
          flight' = flight \cup late
    BY DEF Restart
  <1>3. \A c \in stopped : c \in Calls /\ pc[c] \notin Ended
    OBVIOUS
  <1> HIDE DEF stopped
  <1>4. \A s \in flight' \ flight : s.by \in stopped /\ pc[s.by] \in Updating
    <2>1. SUFFICES ASSUME NEW s \in late PROVE s.by \in stopped /\ pc[s.by] \in Updating
      BY <1>2
    <2>2. s \in {Swap(c) : c \in {d \in stopped : MaySwapLater(d)}}
      BY <1>2
    <2>3. PICK c \in stopped : s = Swap(c) /\ MaySwapLater(c)
      BY <2>2
    <2> QED BY <2>3 DEF Swap, MaySwapLater, Updating
  <1> QED BY <1>1, <1>2, <1>3, <1>4, FailsAtomically DEF Ended

LEMMA TickIsInvisible ==
  ASSUME StoreInv, StoreInv', Tick
  PROVE  UNCHANGED Atomic!avars
  BY Stutters DEF Tick, StoreInv

LEMMA StepIsAtomic ==
  ASSUME StoreInv, StoreInv', StoreAssumption, [StoreNext]_vars
  PROVE  [Atomic!Next]_(Atomic!avars)
  <1>1. CASE UNCHANGED vars
    BY <1>1, Stutters DEF vars, StoreInv
  <1>2. ASSUME NEW c \in Calls, Advance(c) \/ Interrupt(c)
        PROVE  [Atomic!Next]_(Atomic!avars)
    BY <1>2, ProbesAreInvisible, ProbeWriteIsAtomic, BeginsAtomically, ReadIsAtomic,
       CompareIsAtomic, InterruptIsAtomic DEF Advance, Atomic!Next
  <1>3. ASSUME NEW s \in flight, ArriveLate(s)
        PROVE  [Atomic!Next]_(Atomic!avars)
    BY <1>3, ArrivalIsAtomic DEF Atomic!Next, StoreInv, FlightsAreTrue
  <1>4. ASSUME NEW p \in Processes, Restart(p)
        PROVE  [Atomic!Next]_(Atomic!avars)
    BY <1>4, RestartIsAtomic DEF Atomic!Next
  <1>5. CASE Tick
    BY <1>5, TickIsInvisible
  <1> QED BY <1>1, <1>2, <1>3, <1>4, <1>5 DEF StoreNext

\* update_channel is an atomic update over every kind of store, if only none has
\* late puts without compare-and-set: processes that share only the store neither
\* lose each other's updates nor apply one twice, through lost races, lost replies,
\* late swaps, cancellations and restarts.
THEOREM StoreIsAtomic ==
  ASSUME NoLatePuts
  PROVE  StoreSpec => UpdatesAreAtomic
  <1>1. StoreInit => Atomic!Init
    BY DEF StoreInit, Atomic!Init, Atomic!Waiting, Open, Updating
  <1>2. StoreInv /\ StoreInv' /\ [StoreNext]_vars => [Atomic!Next]_(Atomic!avars)
    BY StepIsAtomic, StoreAssumption
  <1> QED BY <1>1, <1>2, StoreInvariant, PTL DEF StoreSpec, UpdatesAreAtomic, Atomic!Spec

-----------------------------------------------------------------------------
(* Keyed charges and credits.                                                   *)

(* The inductive invariant.                                                     *)

Stored == kv[Channel].value

Keyed(c) == OperationOf[c].key # NoKey

\* A marker of the kind and key of call c.
Marks(m, c) == m.kind = OperationOf[c].kind /\ m.key = OperationOf[c].key

KeyedTypeOK ==
  /\ clock \in Nat
  /\ Stored \in KeyedRecord \cup {NoRecord}
  /\ began \in [Calls -> Nat] /\ \A c \in Calls : began[c] <= clock
  /\ took \in [Calls -> Nat \cup {Forever}]

\* What took effect has ended, and does not begin again.
AppliedEnded == \A c \in Calls : Applied(c) => pc[c] = "done"

\* A keyed call that took effect left a marker, which is there until it expires.
Remembered ==
  \A c \in Calls : Applied(c) /\ Keyed(c) =>
    \/ clock >= began[c] + Retention
    \/ /\ Stored # NoRecord
       /\ \E m \in Stored.markers : Marks(m, c) /\ m.until = began[c] + Retention

\* And nobody else leaves markers.
MarkersAreTrue ==
  Stored # NoRecord =>
    \A m \in Stored.markers : \E c \in Calls : Applied(c) /\ Keyed(c) /\ Marks(m, c)

KeyedInv ==
  /\ KeyedTypeOK /\ AppliedEnded /\ Remembered /\ MarkersAreTrue
  /\ AppliedOncePerKey /\ AnswersAreTrue

Effects == {"charged", "credited", "declined", "accepted", "opened", "closing"}

Refusals == {"notFound", "refused", "conflict", "capacity", "closing"}

Replays == {"chargedBefore", "creditedBefore", "declinedBefore"}

-----------------------------------------------------------------------------
(* What the callbacks do.                                                       *)

\* One that leaves the record alone refuses, or replays what a marker tells.
LEMMA NoopAnswers ==
  ASSUME KeyedAssumption, NEW c \in Calls, NEW t, NEW r, KeyedChange(c, t, r).noop
  PROVE  /\ KeyedChange(c, t, r).result \in Refusals \cup Replays
         /\ KeyedChange(c, t, r).result \in Replays =>
              Keyed(c) /\ r # NoRecord /\ \E m \in r.markers : Marks(m, c)
  <1> DEFINE o == OperationOf[c]
  <1>1. o.kind \in {"charge", "credit", "voucher", "open", "close"}
    BY DEF KeyedAssumption, Operation
  <1>2. o.kind = "credit" => o.key # NoKey
    BY DEF KeyedAssumption, Operation
  <1> USE DEF Noop, Set, Refusals, Replays, Keyed, Marks
  <1>3. CASE o.kind = "charge" /\ o.key = NoKey
    BY <1>3 DEF KeyedChange, PlanCharge
  <1>4. CASE o.kind = "charge" /\ o.key # NoKey
    <2>1. KeyedChange(c, t, r) = PlanKeyedCharge(r, o.amount, o.key, t)
      BY <1>4 DEF KeyedChange
    <2> QED BY <1>4, <2>1 DEF PlanKeyedCharge, Recorded, LiveMarkers
  <1>5. CASE o.kind = "credit"
    <2>1. KeyedChange(c, t, r) = PlanCredit(r, o.amount, o.key, t)
      BY <1>5 DEF KeyedChange
    <2> QED BY <1>2, <1>5, <2>1 DEF PlanCredit, Recorded, LiveMarkers
  <1>6. CASE o.kind = "voucher"
    BY <1>6 DEF KeyedChange, PlanVoucher
  <1>7. CASE o.kind = "open"
    BY <1>7 DEF KeyedChange, PlanOpen
  <1>8. CASE o.kind = "close"
    BY <1>8 DEF KeyedChange, PlanClose
  <1> QED BY <1>1, <1>3, <1>4, <1>5, <1>6, <1>7, <1>8

\* A marker joins those that have not expired.
LEMMA WithMarkerIs ==
  ASSUME NEW r \in KeyedRecord, NEW m, NEW now
  PROVE  WithMarker(r, m, now).markers = LiveMarkers(r, now) \cup {m}
  BY DEF WithMarker, KeyedRecord

\* One that writes a record writes a whole one and says so.
LEMMA EffectAnswers ==
  ASSUME KeyedAssumption, AccountingAssumption, NEW c \in Calls, NEW t \in Nat,
         NEW r \in KeyedRecord \cup {NoRecord}, ~KeyedChange(c, t, r).noop
  PROVE  /\ KeyedChange(c, t, r).result \in Effects
         /\ KeyedChange(c, t, r).value \in KeyedRecord
  <1> DEFINE o == OperationOf[c]
             change == KeyedChange(c, t, r)
  <1>1. /\ o.kind \in {"charge", "credit", "voucher", "open", "close"} /\ o.amount \in Nat
        /\ NoRecord \notin KeyedRecord
    BY DEF KeyedAssumption, Operation
  <1>2. t + Retention \in Int
    BY DEF AccountingAssumption
  <1> USE DEF Noop, Set, Effects
  <1> DEFINE Outcomes == {"charged", "credited", "closing", "exceedsSpent", "belowSettled"}
             marker(outcome) == [kind |-> o.kind, key |-> o.key, amount |-> o.amount,
                                 outcome |-> outcome, until |-> t + Retention]
  <1>3. ASSUME NEW s \in KeyedRecord, NEW outcome \in Outcomes, o.kind \in {"charge", "credit"}
        PROVE  WithMarker(s, marker(outcome), t) \in KeyedRecord
    <2>1. marker(outcome) \in [kind : {"charge", "credit"}, key : {OperationOf[d].key : d \in Calls},
                               amount : Nat, until : Int, outcome : Outcomes]
      BY <1>1, <1>2, <1>3
    <2> HIDE DEF marker
    <2> QED BY <1>3, <2>1 DEF WithMarker, LiveMarkers, KeyedRecord
  <1>4. ASSUME r \in KeyedRecord PROVE Charged(r, o.amount) \in KeyedRecord
    BY <1>1, <1>4 DEF Charged, KeyedRecord
  <1>5. CASE o.kind = "charge" /\ o.key = NoKey
    BY <1>4, <1>5 DEF KeyedChange, PlanCharge
  <1>6. CASE o.kind = "charge" /\ o.key # NoKey
    <2>1. change = PlanKeyedCharge(r, o.amount, o.key, t)
      BY <1>6 DEF KeyedChange
    <2>2. /\ r \in KeyedRecord /\ change.result = "charged"
          /\ change.value = WithMarker(Charged(r, o.amount), marker("charged"), t)
      BY <1>6, <2>1 DEF PlanKeyedCharge
    <2>3. "charged" \in Outcomes
      OBVIOUS
    <2>4. WithMarker(Charged(r, o.amount), marker("charged"), t) \in KeyedRecord
      <3> HIDE DEF Outcomes, marker
      <3> QED BY <1>3, <1>4, <1>6, <2>2, <2>3
    <2> QED BY <2>2, <2>4
  <1>7. CASE o.kind = "credit"
    <2>1. change = PlanCredit(r, o.amount, o.key, t)
      BY <1>7 DEF KeyedChange
    <2> DEFINE outcome == CreditOutcome(r, o.amount)
               next == IF outcome = "credited" THEN [r EXCEPT !.spent = @ - o.amount] ELSE r
    <2>2. /\ r \in KeyedRecord /\ change.result \in Effects
          /\ change.value = WithMarker(next, marker(outcome), t)
      BY <1>7, <2>1 DEF PlanCredit
    <2>3. outcome \in Outcomes
      BY DEF CreditOutcome
    <2>4. next \in KeyedRecord
      BY <1>1, <2>2 DEF KeyedRecord
    <2> HIDE DEF outcome, next, Outcomes, marker
    <2> QED BY <1>3, <1>7, <2>2, <2>3, <2>4
  <1>8. CASE o.kind = "voucher"
    <2> DEFINE accepted == [r EXCEPT !.highest = @ + o.amount]
    <2>1. r \in KeyedRecord /\ change.result \in Effects
          /\ change.value \in {accepted, Charged(accepted, o.amount)}
      BY <1>8 DEF KeyedChange, PlanVoucher
    <2>2. accepted \in KeyedRecord
      BY <1>1, <2>1 DEF KeyedRecord
    <2> HIDE DEF accepted
    <2>3. Charged(accepted, o.amount) \in KeyedRecord
      BY <1>1, <2>2 DEF Charged, KeyedRecord
    <2> QED BY <2>1, <2>2, <2>3
  <1>9. CASE o.kind = "open"
    <2>1. KeyedChange(c, t, r) = PlanOpen(r, o.amount)
      BY <1>9 DEF KeyedChange
    <2>2. CASE r = NoRecord
      <3>1. change.value = ChargedRecord(o.amount, 0, 0) /\ change.result = "opened"
        BY <2>1, <2>2 DEF PlanOpen
      <3>2. ChargedRecord(o.amount, 0, 0) \in KeyedRecord
        BY <1>1 DEF ChargedRecord, KeyedRecord
      <3> QED BY <3>1, <3>2
    <2>3. CASE r # NoRecord
      BY <1>1, <2>1, <2>3 DEF PlanOpen, KeyedRecord
    <2> QED BY <2>2, <2>3
  <1>10. CASE o.kind = "close"
    BY <1>1, <1>10 DEF KeyedChange, PlanClose, KeyedRecord
  <1> QED BY <1>1, <1>5, <1>6, <1>7, <1>8, <1>9, <1>10

\* A keyed one finds no live marker of its key and leaves its own.
LEMMA KeyedEffect ==
  ASSUME KeyedAssumption, NEW c \in Calls, Keyed(c), NEW t \in Nat,
         NEW r \in KeyedRecord \cup {NoRecord}, ~KeyedChange(c, t, r).noop
  PROVE  /\ r \in KeyedRecord
         /\ \A m \in LiveMarkers(r, t) : ~Marks(m, c)
         /\ \E m : /\ Marks(m, c) /\ m.until = t + Retention
                  /\ KeyedChange(c, t, r).value.markers = LiveMarkers(r, t) \cup {m}
  <1> DEFINE o == OperationOf[c]
             change == KeyedChange(c, t, r)
             marker(outcome) == [kind |-> o.kind, key |-> o.key, amount |-> o.amount,
                                 outcome |-> outcome, until |-> t + Retention]
  <1>1. o.kind \in {"charge", "credit"} /\ o.amount \in Nat
    BY DEF KeyedAssumption, Operation, Keyed
  <1>2. \A outcome : Marks(marker(outcome), c) /\ marker(outcome).until = t + Retention
    BY DEF Marks
  <1>3. CASE o.kind = "charge"
    <2>1. change = PlanKeyedCharge(r, o.amount, o.key, t)
      BY <1>3 DEF KeyedChange, Keyed
    <2>2. /\ r \in KeyedRecord /\ Recorded(r, "charge", o.key, t) = {}
          /\ change.value = WithMarker(Charged(r, o.amount), marker("charged"), t)
      BY <1>3, <2>1 DEF PlanKeyedCharge, Noop, Set
    <2>3. Charged(r, o.amount) \in KeyedRecord /\ Charged(r, o.amount).markers = r.markers
      BY <1>1, <2>2 DEF Charged, KeyedRecord
    <2>4. change.value.markers = LiveMarkers(r, t) \cup {marker("charged")}
      BY <2>2, <2>3, WithMarkerIs DEF LiveMarkers
    <2> HIDE DEF marker, change
    <2> QED BY <1>2, <1>3, <2>2, <2>4 DEF Recorded, Marks, change
  <1>4. CASE o.kind = "credit"
    <2>1. change = PlanCredit(r, o.amount, o.key, t)
      BY <1>4 DEF KeyedChange
    <2> DEFINE outcome == CreditOutcome(r, o.amount)
               next == IF outcome = "credited" THEN [r EXCEPT !.spent = @ - o.amount] ELSE r
    <2>2. /\ r \in KeyedRecord /\ Recorded(r, "credit", o.key, t) = {}
          /\ change.value = WithMarker(next, marker(outcome), t)
      BY <1>4, <2>1 DEF PlanCredit, Noop, Set
    <2>3. next \in KeyedRecord /\ next.markers = r.markers
      BY <1>1, <2>2 DEF KeyedRecord
    <2>4. change.value.markers = LiveMarkers(r, t) \cup {marker(outcome)}
      <3> HIDE DEF next, marker, outcome, change
      <3> QED BY <2>2, <2>3, WithMarkerIs DEF LiveMarkers
    <2> HIDE DEF marker, change
    <2> QED BY <1>2, <1>4, <2>2, <2>4 DEF Recorded, Marks, change
  <1> QED BY <1>1, <1>3, <1>4

\* Any other leaves the markers alone, and finds none where there is no record.
LEMMA UnkeyedEffect ==
  ASSUME KeyedAssumption, NEW c \in Calls, ~Keyed(c), NEW t \in Nat,
         NEW r \in KeyedRecord \cup {NoRecord}, ~KeyedChange(c, t, r).noop
  PROVE  KeyedChange(c, t, r).value.markers = IF r = NoRecord THEN {} ELSE r.markers
  <1> DEFINE o == OperationOf[c]
  <1>1. /\ o.kind \in {"charge", "voucher", "open", "close"}
        /\ o.kind = "charge" => o.key = NoKey
        /\ NoRecord \notin KeyedRecord
    BY DEF KeyedAssumption, Operation, Keyed
  <1> USE DEF Noop, Set, KeyedRecord
  <1>2. CASE o.kind = "charge"
    BY <1>1, <1>2 DEF KeyedChange, PlanCharge, Charged
  <1>3. CASE o.kind = "voucher"
    BY <1>1, <1>3 DEF KeyedChange, PlanVoucher, Charged
  <1>4. CASE o.kind = "open"
    <2>1. KeyedChange(c, t, r) = PlanOpen(r, o.amount)
      BY <1>4 DEF KeyedChange
    <2> QED BY <2>1 DEF PlanOpen, ChargedRecord
  <1>5. CASE o.kind = "close"
    BY <1>1, <1>5 DEF KeyedChange, PlanClose
  <1> QED BY <1>1, <1>2, <1>3, <1>4, <1>5

-----------------------------------------------------------------------------
(* The invariant holds in every reachable state.                               *)

LEMMA KeyedInitial ==
  ASSUME KeyedAssumption, StoreAssumption, StoreInit PROVE KeyedInv
  <1>1. PICK r \in FirstRecords : kv = Put(EmptyStore, Channel, r, Forever)
    BY DEF StoreInit
  <1>2. Stored = r
    BY <1>1, StoreAssumption DEF StoreAssumption, Stored, Put, Entry, EmptyStore
  <1>3. /\ \A c \in Calls : ~Applied(c)
        /\ \A c \in Calls : pc[c] # "done"
    BY DEF StoreInit, Applied
  <1>4. KeyedTypeOK
    BY <1>2 DEF KeyedTypeOK, KeyedAssumption, StoreInit
  <1>5. MarkersAreTrue
    BY <1>2 DEF MarkersAreTrue, KeyedAssumption
  <1> QED
    BY <1>3, <1>4, <1>5 DEF KeyedInv, AppliedEnded, Remembered, AppliedOncePerKey, AnswersAreTrue

\* A step in which no call takes effect: it may end calls without an outcome.
LEMMA NothingApplied ==
  ASSUME KeyedInv, Stored' = Stored, took' = took, clock' \in Nat, clock <= clock',
         began' \in [Calls -> Nat], \A c \in Calls : began'[c] <= clock',
         \A c \in Calls : pc[c] = "done" => began'[c] = began[c] /\ pc'[c] = "done",
         \A c \in Calls : pc'[c] = "done" =>
           answer'[c] = "unknown" \/ (pc[c] = "done" /\ answer'[c] = answer[c]),
         AccountingAssumption
  PROVE  KeyedInv'
  <1>1. \A c, d \in Calls : Applied(c)' = Applied(c) /\ SameKey(c, d)' = SameKey(c, d)
    BY DEF Applied, SameKey
  <1>2. KeyedTypeOK'
    BY DEF KeyedInv, KeyedTypeOK
  <1>3. \A c \in Calls : Applied(c) => pc[c] = "done" /\ pc'[c] = "done" /\ began'[c] = began[c]
    BY DEF KeyedInv, AppliedEnded
  <1>4. AppliedEnded'
    BY <1>1, <1>3 DEF AppliedEnded
  <1>5. Remembered'
    <2>1. SUFFICES ASSUME NEW c \in Calls, Applied(c), Keyed(c)
                   PROVE  \/ clock' >= began[c] + Retention
                          \/ /\ Stored # NoRecord
                             /\ \E m \in Stored.markers : Marks(m, c) /\ m.until = began[c] + Retention
      BY <1>1, <1>3 DEF Remembered, Keyed, Marks
    <2>2. CASE clock >= began[c] + Retention
      BY <2>2, <1>2 DEF KeyedInv, KeyedTypeOK, AccountingAssumption
    <2> QED BY <2>1, <2>2 DEF KeyedInv, Remembered
  <1>6. MarkersAreTrue'
    BY <1>1 DEF KeyedInv, MarkersAreTrue, Keyed, Marks
  <1>7. AppliedOncePerKey'
    BY <1>1, <1>3 DEF KeyedInv, AppliedOncePerKey
  <1>8. AnswersAreTrue'
    BY <1>1 DEF KeyedInv, AnswersAreTrue
  <1> QED BY <1>2, <1>4, <1>5, <1>6, <1>7, <1>8 DEF KeyedInv

\* A call takes effect: the record becomes what its callback makes of it.
LEMMA CallApplied ==
  ASSUME KeyedAssumption, AccountingAssumption, KeyedInv, NEW c \in Calls,
         ~KeyedChange(c, began[c], Stored).noop,
         Stored' = KeyedChange(c, began[c], Stored).value,
         took' = [took EXCEPT ![c] = clock], UNCHANGED <<clock, began>>,
         pc[c] # "done" \/ answer[c] = "unknown",
         pc'[c] = "done", \A d \in Calls \ {c} : pc'[d] = pc[d] /\ answer'[d] = answer[d],
         answer'[c] \in {KeyedChange(c, began[c], Stored).result, "unknown"}
  PROVE  KeyedInv'
  <1> DEFINE now == began[c]
             change == KeyedChange(c, began[c], Stored)
  <1>1. /\ clock \in Nat /\ now \in Nat /\ now <= clock /\ Stored \in KeyedRecord \cup {NoRecord}
        /\ began \in [Calls -> Nat] /\ took \in [Calls -> Nat \cup {Forever}]
        /\ Forever \notin Nat /\ NoRecord \notin KeyedRecord /\ Retention \in Nat
    BY DEF KeyedInv, KeyedTypeOK, KeyedAssumption, AccountingAssumption
  <1>2. change.result \in Effects /\ change.value \in KeyedRecord /\ Stored' # NoRecord
    BY <1>1, EffectAnswers
  <1>3. /\ took'[c] = clock /\ Applied(c)'
        /\ \A d \in Calls \ {c} : took'[d] = took[d] /\ Applied(d)' = Applied(d)
        /\ \A d \in Calls : Applied(d) => Applied(d)'
    BY <1>1 DEF Applied
  <1>4. \A d, e \in Calls : SameKey(d, e)' = SameKey(d, e)
    BY DEF SameKey
  <1>5. KeyedTypeOK'
    BY <1>1, <1>2, <1>3 DEF KeyedInv, KeyedTypeOK
  <1>6. AppliedEnded'
    BY <1>3 DEF KeyedInv, AppliedEnded
  <1>7. ASSUME NEW m \in Stored.markers, Stored # NoRecord, m.until > clock
        PROVE  m \in (Stored').markers
    <2>1. m \in LiveMarkers(Stored, now)
      <3>1. m.until \in Int
        BY <1>1, <1>7 DEF KeyedRecord
      <3> QED BY <1>1, <1>7, <3>1 DEF LiveMarkers
    <2>2. CASE Keyed(c)
      BY <1>1, <2>1, <2>2, KeyedEffect
    <2>3. CASE ~Keyed(c)
      BY <1>1, <1>7, <2>3, UnkeyedEffect
    <2> QED BY <2>2, <2>3
  <1>8. Remembered'
    <2>1. SUFFICES ASSUME NEW d \in Calls, Applied(d)', Keyed(d)
                   PROVE  \/ clock >= began[d] + Retention
                          \/ \E m \in (Stored').markers : Marks(m, d) /\ m.until = began[d] + Retention
      BY <1>2 DEF Remembered, Keyed, Marks
    <2>2. CASE d = c
      BY <1>1, <2>1, <2>2, KeyedEffect
    <2>3. CASE d # c /\ clock < began[d] + Retention
      <3>1. Applied(d)
        BY <1>3, <2>1, <2>3
      <3>2. began[d] + Retention \in Nat
        BY <1>1
      <3>3. PICK m \in Stored.markers : Marks(m, d) /\ m.until = began[d] + Retention
        BY <1>1, <2>1, <2>3, <3>1, <3>2 DEF KeyedInv, Remembered
      <3>4. Stored # NoRecord
        BY <1>1, <2>1, <2>3, <3>1, <3>2 DEF KeyedInv, Remembered
      <3>5. m \in (Stored').markers
        BY <1>1, <1>7, <2>3, <3>2, <3>3, <3>4
      <3> QED BY <3>3, <3>5
    <2> QED BY <1>1, <2>2, <2>3
  <1>9. MarkersAreTrue'
    <2>1. SUFFICES ASSUME NEW m \in (Stored').markers
                   PROVE  \E d \in Calls : Applied(d)' /\ Keyed(d) /\ Marks(m, d)
      BY DEF MarkersAreTrue, Keyed, Marks
    <2>2. CASE Stored # NoRecord /\ m \in Stored.markers
      BY <1>3, <2>2 DEF KeyedInv, MarkersAreTrue
    <2>3. CASE ~(Stored # NoRecord /\ m \in Stored.markers)
      <3>1. Keyed(c)
        BY <1>1, <2>1, <2>3, UnkeyedEffect
      <3>2. Stored # NoRecord /\ m \notin LiveMarkers(Stored, now)
        BY <1>1, <2>3, <3>1, KeyedEffect DEF LiveMarkers
      <3>3. Marks(m, c)
        BY <1>1, <2>1, <3>1, <3>2, KeyedEffect
      <3> QED BY <1>3, <3>1, <3>3
    <2> QED BY <2>2, <2>3
  <1>10. ASSUME NEW d \in Calls, d # c, Applied(d), SameKey(c, d) \/ SameKey(d, c)
         PROVE  clock >= began[d] + Retention
    <2>1. Keyed(c) /\ Keyed(d) /\ \A m : Marks(m, d) <=> Marks(m, c)
      BY <1>10 DEF SameKey, Keyed, Marks
    <2>2. ASSUME NEW m \in Stored.markers, Marks(m, d), m.until = began[d] + Retention
          PROVE  began[d] + Retention <= now
      <3>1. m \notin LiveMarkers(Stored, now)
        BY <1>1, <2>1, <2>2, KeyedEffect
      <3> QED BY <1>1, <2>2, <3>1 DEF LiveMarkers
    <2>3. \/ clock >= began[d] + Retention
          \/ \E m \in Stored.markers : Marks(m, d) /\ m.until = began[d] + Retention
      BY <1>10, <2>1 DEF KeyedInv, Remembered
    <2>4. began[d] + Retention <= now => clock >= began[d] + Retention
      BY <1>1
    <2> QED BY <2>2, <2>3, <2>4
  <1>11. AppliedOncePerKey'
    <2>1. SUFFICES ASSUME NEW d \in Calls, NEW e \in Calls, d # e, SameKey(d, e),
                          Applied(d)', Applied(e)'
                   PROVE  \/ took'[e] >= began[d] + Retention
                          \/ took'[d] >= began[e] + Retention
      BY <1>4 DEF AppliedOncePerKey
    <2>2. CASE d = c
      BY <1>3, <1>10, <2>1, <2>2
    <2>3. CASE e = c
      BY <1>3, <1>10, <2>1, <2>3
    <2>4. CASE d # c /\ e # c
      BY <1>3, <2>1, <2>4 DEF KeyedInv, AppliedOncePerKey
    <2> QED BY <2>2, <2>3, <2>4
  <1>12. AnswersAreTrue'
    <2>1. SUFFICES ASSUME NEW d \in Calls, pc'[d] = "done"
                   PROVE
          /\ answer'[d] \in {"charged", "accepted", "opened", "credited", "declined"} => Applied(d)'
          /\ answer'[d] \in {"refused", "conflict", "capacity", "notFound"} => ~Applied(d)'
          /\ answer'[d] \in {"chargedBefore", "creditedBefore", "declinedBefore"} =>
               \E e \in Calls \ {d} : SameKey(d, e) /\ Applied(e)'
      BY <1>4 DEF AnswersAreTrue
    <2>2. CASE d = c
      BY <1>2, <1>3, <2>2 DEF Effects
    <2>3. CASE d # c
      BY <1>3, <2>1, <2>3 DEF KeyedInv, AnswersAreTrue
    <2> QED BY <2>2, <2>3
  <1> QED BY <1>5, <1>6, <1>8, <1>9, <1>11, <1>12 DEF KeyedInv

\* A call whose callback leaves the record alone ends with what it says.
LEMMA CallLeavesAlone ==
  ASSUME KeyedAssumption, KeyedInv, NEW c \in Calls, pc[c] # "done",
         KeyedChange(c, began[c], Stored).noop,
         Stored' = Stored, UNCHANGED <<took, clock, began>>,
         pc'[c] = "done", \A d \in Calls \ {c} : pc'[d] = pc[d] /\ answer'[d] = answer[d],
         answer'[c] = KeyedChange(c, began[c], Stored).result
  PROVE  KeyedInv'
  <1>1. \A d, e \in Calls : Applied(d)' = Applied(d) /\ SameKey(d, e)' = SameKey(d, e)
    BY DEF Applied, SameKey
  <1>2. KeyedTypeOK' /\ AppliedEnded' /\ AppliedOncePerKey'
    BY <1>1 DEF KeyedInv, KeyedTypeOK, AppliedEnded, AppliedOncePerKey
  <1>3. Remembered' /\ MarkersAreTrue'
    BY <1>1 DEF KeyedInv, Remembered, MarkersAreTrue, Keyed, Marks
  <1>4. ~Applied(c)
    BY DEF KeyedInv, AppliedEnded
  <1>5. answer'[c] \in Refusals \cup Replays
    BY NoopAnswers
  <1>6. ASSUME answer'[c] \in Replays
        PROVE  \E d \in Calls \ {c} : SameKey(c, d) /\ Applied(d)
    <2>1. Keyed(c) /\ Stored # NoRecord /\ \E m \in Stored.markers : Marks(m, c)
      BY <1>6, NoopAnswers
    <2>2. PICK m \in Stored.markers : Marks(m, c)
      BY <2>1
    <2>3. PICK d \in Calls : Applied(d) /\ Keyed(d) /\ Marks(m, d)
      BY <2>1, <2>2 DEF KeyedInv, MarkersAreTrue
    <2> QED BY <1>4, <2>1, <2>2, <2>3 DEF SameKey, Marks, Keyed
  <1>7. AnswersAreTrue'
    <2>1. SUFFICES ASSUME NEW d \in Calls, pc'[d] = "done"
                   PROVE
          /\ answer'[d] \in {"charged", "accepted", "opened", "credited", "declined"} => Applied(d)
          /\ answer'[d] \in {"refused", "conflict", "capacity", "notFound"} => ~Applied(d)
          /\ answer'[d] \in {"chargedBefore", "creditedBefore", "declinedBefore"} =>
               \E e \in Calls \ {d} : SameKey(d, e) /\ Applied(e)
      BY <1>1 DEF AnswersAreTrue
    <2>2. CASE d = c
      BY <1>4, <1>5, <1>6, <2>2 DEF Refusals, Replays
    <2>3. CASE d # c
      BY <2>1, <2>3 DEF KeyedInv, AnswersAreTrue
    <2> QED BY <2>2, <2>3
  <1> QED BY <1>2, <1>3, <1>7 DEF KeyedInv

-----------------------------------------------------------------------------
(* The steps.                                                                  *)

\* The callbacks are those of charges, credits, vouchers, opens and closes.
KeyedCallbacks == \A c, t, r : Change(c, t, r) = KeyedChange(c, t, r)

LEMMA NothingWritten ==
  ASSUME KeyedInv, AccountingAssumption, StoreInv,
         kv'[Channel] = kv[Channel], UNCHANGED <<took, began, clock>>,
         \A c \in Calls : pc[c] = "done" => pc'[c] = "done" /\ answer'[c] = answer[c],
         \A c \in Calls : pc'[c] = "done" => pc[c] = "done" \/ answer'[c] = "unknown"
  PROVE  KeyedInv'
  <1>1. Stored' = Stored
    BY DEF Stored
  <1>2. clock \in Nat /\ began \in [Calls -> Nat] /\ \A c \in Calls : began[c] <= clock
    BY DEF KeyedInv, KeyedTypeOK
  <1> QED BY <1>1, <1>2, NothingApplied

LEMMA BeginApplies ==
  ASSUME KeyedInv, AccountingAssumption, StoreInv, NEW c \in Calls, BeginUpdate(c)
  PROVE  KeyedInv'
  <1>1. /\ clock \in Nat /\ began \in [Calls -> Nat] /\ \A d \in Calls : began[d] <= clock
        /\ pc \in [Calls -> Steps] /\ answer = [d \in Calls |-> answer[d]]
    BY DEF KeyedInv, KeyedTypeOK, StoreInv, Shape
  <1>2. /\ Stored' = Stored /\ took' = took /\ clock' = clock
        /\ began' \in [Calls -> Nat] /\ \A d \in Calls : began'[d] <= clock
    BY <1>1 DEF BeginUpdate, Stored
  <1>3. \A d \in Calls : pc[d] = "done" =>
          began'[d] = began[d] /\ pc'[d] = "done" /\ answer'[d] = answer[d]
    BY <1>1 DEF BeginUpdate, GoTo
  <1>4. \A d \in Calls : pc'[d] = "done" => pc[d] = "done"
    BY <1>1 DEF BeginUpdate, GoTo
  <1> QED BY <1>1, <1>2, <1>3, <1>4, NothingApplied

LEMMA ReadApplies ==
  ASSUME KeyedCallbacks, KeyedAssumption, AccountingAssumption, KeyedInv, StoreInv,
         NEW c \in Calls, ReadRecord(c)
  PROVE  KeyedInv'
  <1> DEFINE change == KeyedChange(c, began[c], Stored)
  <1>1. Record = Stored /\ Change(c, began[c], Record) = change
    BY RecordIsStored DEF StoreInv, KeyedCallbacks, Stored
  <1>2. /\ pc \in [Calls -> Steps] /\ answer = [d \in Calls |-> answer[d]]
        /\ pc[c] = "read" /\ UNCHANGED <<kv, took, began, clock>> /\ Stored' = Stored
    BY DEF StoreInv, Shape, ReadRecord, Stored
  <1>3. change.noop \/ change.value # Absent
    <2>1. began[c] \in Nat /\ Stored \in KeyedRecord \cup {NoRecord}
      BY DEF KeyedInv, KeyedTypeOK
    <2> QED BY <2>1, EffectAnswers DEF KeyedAssumption
  <1>4. CASE change.noop
    <2>1. Ends(c, change.result)
      BY <1>1, <1>4 DEF ReadRecord, ResultOf
    <2>2. /\ pc'[c] = "done" /\ answer'[c] = change.result
          /\ \A d \in Calls \ {c} : pc'[d] = pc[d] /\ answer'[d] = answer[d]
      BY <1>2, <2>1 DEF Ends, EndsAt, GoTo
    <2> QED BY <1>2, <1>4, <2>2, CallLeavesAlone
  <1>5. CASE ~change.noop
    <2>1. PICK step \in {"compare", "put"} : GoTo(c, step) /\ answer' = answer
      BY <1>1, <1>3, <1>5 DEF ReadRecord
    <2>2. \A d \in Calls : (pc'[d] = "done" <=> pc[d] = "done") /\ answer'[d] = answer[d]
      BY <1>2, <2>1 DEF GoTo
    <2> QED BY <1>2, <2>2, NothingWritten
  <1> QED BY <1>4, <1>5

\* A write replaces the record that its callback was run on.
LEMMA WriteApplies ==
  ASSUME KeyedCallbacks, KeyedAssumption, AccountingAssumption, StoreAssumption,
         KeyedInv, StoreInv, NEW c \in Calls, pc[c] \in {"compare", "again", "put"},
         Writes(c), Current(c) \/ PutRecord(c), UNCHANGED <<clock, began>>
  PROVE  KeyedInv'
  <1> DEFINE change == KeyedChange(c, began[c], Stored)
  <1>1. run[c].raw = Stored
    <2>1. CASE Current(c)
      BY <2>1, RecordIsStored DEF Current, Matches, Record, StoreInv, Stored
    <2>2. CASE PutRecord(c)
      BY <2>2 DEF PutRecord, StoreInv, LockIsHeld, Stored
    <2> QED BY <2>1, <2>2
  <1>2. ~change.noop /\ change.value = run[c].value /\ change.result = run[c].result
    BY <1>1 DEF StoreInv, RunsAreTrue, RunOf, KeyedCallbacks
  <1>3. Stored' = change.value
    <2>1. kv'[Channel] = Entry(run[c].value, Forever)
      BY SwapWrites DEF StoreInv, Writes
    <2> QED BY <1>2, <2>1 DEF Stored, Entry
  <1>4. pc \in [Calls -> Steps] /\ answer = [d \in Calls |-> answer[d]]
    BY DEF StoreInv, Shape
  <1>5. PICK told \in {change.result, "unknown"} : Ends(c, told)
    BY <1>2 DEF Writes
  <1>6. /\ pc'[c] = "done" /\ answer'[c] \in {change.result, "unknown"}
        /\ \A d \in Calls \ {c} : pc'[d] = pc[d] /\ answer'[d] = answer[d]
    BY <1>4, <1>5 DEF Ends, EndsAt, GoTo
  <1>7. took' = [took EXCEPT ![c] = clock] /\ pc[c] # "done"
    BY DEF Writes
  <1> HIDE DEF change
  <1> QED BY <1>2, <1>3, <1>6, <1>7, CallApplied DEF change

LEMMA CompareApplies ==
  ASSUME KeyedCallbacks, KeyedAssumption, AccountingAssumption, StoreAssumption,
         KeyedInv, StoreInv, NEW c \in Calls, Compare(c) \/ CompareText(c) \/ PutRecord(c)
  PROVE  KeyedInv'
  <1>1. UNCHANGED <<clock, began>> /\ pc[c] \in {"compare", "again", "put"}
    BY DEF Compare, CompareText, PutRecord
  <1>2. pc \in [Calls -> Steps] /\ answer = [d \in Calls |-> answer[d]]
    BY DEF StoreInv, Shape
  <1>3. CASE Writes(c) /\ (Current(c) \/ PutRecord(c))
    BY <1>1, <1>3, WriteApplies
  <1>4. CASE Ends(c, "unknown") /\ UNCHANGED <<kv, took>>
    <2>1. \A d \in Calls : pc[d] = "done" => pc'[d] = "done" /\ answer'[d] = answer[d]
      BY <1>1, <1>2, <1>4 DEF Ends, EndsAt, GoTo
    <2>2. \A d \in Calls : pc'[d] = "done" => pc[d] = "done" \/ answer'[d] = "unknown"
      BY <1>2, <1>4 DEF Ends, EndsAt, GoTo
    <2> QED BY <1>1, <1>4, <2>1, <2>2, NothingWritten
  <1>5. CASE (GoTo(c, "again") \/ GoTo(c, "read")) /\ UNCHANGED <<kv, answer, took>>
    <2>1. \A d \in Calls : (pc'[d] = "done" <=> pc[d] = "done") /\ answer'[d] = answer[d]
      BY <1>1, <1>2, <1>5 DEF GoTo
    <2> QED BY <1>1, <1>5, <2>1, NothingWritten
  <1> QED BY <1>3, <1>4, <1>5 DEF Compare, CompareText, PutRecord, NoRoom, AfterLostRace

LEMMA ProbesApplyNothing ==
  ASSUME AccountingAssumption, StoreAssumption, KeyedInv, StoreInv, NEW c \in Calls,
         SkipCheck(c) \/ ProbeRead(c) \/ ProbeWrite(c) \/ ProbeClean(c) \/ TakeLock(c)
  PROVE  KeyedInv'
  <1>1. kv'[Channel] = kv[Channel]
    BY StoreAssumption DEF StoreInv, StoreAssumption, Shape, SkipCheck, ProbeRead, ProbeWrite,
       ProbeClean, TakeLock, Swapped, Put, Delete
  <1>2. UNCHANGED <<took, began, clock>>
    BY DEF SkipCheck, ProbeRead, ProbeWrite, ProbeClean, TakeLock
  <1>3. /\ pc \in [Calls -> Steps] /\ answer = [d \in Calls |-> answer[d]]
        /\ pc[c] \in {"check", "probe", "clean", "lock"}
    BY DEF StoreInv, Shape, SkipCheck, ProbeRead, ProbeWrite, ProbeClean, TakeLock
  <1>4. \/ \E step \in {"ready", "probe", "clean", "read"} : GoTo(c, step) /\ answer' = answer
        \/ \E step \in {"refused", "done"} : EndsAt(c, step, "unknown")
    BY DEF SkipCheck, ProbeRead, ProbeWrite, ProbeClean, TakeLock
  <1>5. \A d \in Calls : pc[d] = "done" => pc'[d] = "done" /\ answer'[d] = answer[d]
    BY <1>3, <1>4 DEF EndsAt, GoTo
  <1>6. \A d \in Calls : pc'[d] = "done" => pc[d] = "done" \/ answer'[d] = "unknown"
    BY <1>3, <1>4 DEF EndsAt, GoTo
  <1> QED BY <1>1, <1>2, <1>5, <1>6, NothingWritten

LEMMA FailuresApplyNothing ==
  ASSUME AccountingAssumption, KeyedInv, StoreInv,
         (\E c \in Calls : Interrupt(c)) \/ \E p \in Processes : Restart(p)
  PROVE  KeyedInv'
  <1>1. UNCHANGED <<kv, took, began, clock>>
    BY DEF Interrupt, Restart
  <1>2. /\ pc \in [Calls -> Steps] /\ answer = [d \in Calls |-> answer[d]]
    BY DEF StoreInv, Shape
  <1>3. \A d \in Calls : pc[d] = "done" => pc'[d] = "done" /\ answer'[d] = answer[d]
    BY <1>2 DEF Interrupt, Restart, Ends, EndsAt, GoTo, Ended
  <1>4. \A d \in Calls : pc'[d] = "done" => pc[d] = "done" \/ answer'[d] = "unknown"
    BY <1>2 DEF Interrupt, Restart, Ends, EndsAt, GoTo
  <1> QED BY <1>1, <1>3, <1>4, NothingWritten

\* A swap that arrives late takes effect when it still matches; its caller has
\* long been told that the outcome is unknown.
LEMMA ArrivalApplies ==
  ASSUME KeyedCallbacks, KeyedAssumption, AccountingAssumption, StoreAssumption,
         KeyedInv, StoreInv, NEW s \in flight, ArriveLate(s)
  PROVE  KeyedInv'
  <1> DEFINE c == s.by
             change == KeyedChange(c, began[c], Stored)
  <1>1. c \in Calls /\ pc[c] = "done" /\ answer[c] = "unknown" /\ RunOf(c, s.raw, s.value)
    BY DEF StoreInv, FlightsAreTrue
  <1>2. UNCHANGED <<clock, began, pc, answer>>
    BY DEF ArriveLate
  <1>0. flight # {} => backend.cas
    BY DEF StoreInv, LockIsHeld
  <1>3. CASE TakesEffect(s)
    <2>1. s.raw = Stored
      BY <1>0, <1>3, RecordIsStored DEF TakesEffect, Matches, Record, StoreInv, Stored
    <2>2. ~change.noop /\ change.value = s.value
      BY <1>1, <2>1 DEF RunOf, KeyedCallbacks
    <2>3. Stored' = change.value
      <3>1. kv'[Channel] = Entry(s.value, Forever)
        BY <1>3, SwapWrites DEF ArriveLate, StoreInv
      <3> QED BY <2>2, <3>1 DEF Stored, Entry
    <2>4. took' = [took EXCEPT ![c] = clock]
      BY <1>3 DEF ArriveLate
    <2> HIDE DEF c, change
    <2> QED BY <1>1, <1>2, <2>2, <2>3, <2>4, CallApplied DEF change
  <1>4. CASE ~TakesEffect(s)
    BY <1>2, <1>4, NothingWritten DEF ArriveLate
  <1> QED BY <1>3, <1>4

LEMMA TickApplies ==
  ASSUME AccountingAssumption, KeyedInv, StoreInv, Tick
  PROVE  KeyedInv'
  <1>1. /\ clock \in Nat /\ began \in [Calls -> Nat] /\ \A c \in Calls : began[c] <= clock
    BY DEF KeyedInv, KeyedTypeOK
  <1>2. /\ Stored' = Stored /\ UNCHANGED <<took, began, pc, answer>> /\ clock' = clock + 1
    BY DEF Tick, Stored
  <1>3. clock' \in Nat /\ clock <= clock' /\ \A c \in Calls : began[c] <= clock'
    BY <1>1, <1>2
  <1> QED BY <1>1, <1>2, <1>3, NothingApplied

LEMMA KeyedStep ==
  ASSUME KeyedCallbacks, KeyedAssumption, AccountingAssumption, StoreAssumption,
         KeyedInv, StoreInv, [StoreNext]_vars
  PROVE  KeyedInv'
  <1>1. CASE UNCHANGED vars
    BY <1>1, NothingWritten DEF vars
  <1>2. ASSUME NEW c \in Calls, Advance(c) PROVE KeyedInv'
    BY <1>2, ProbesApplyNothing, BeginApplies, ReadApplies, CompareApplies DEF Advance
  <1> QED BY <1>1, <1>2, FailuresApplyNothing, ArrivalApplies, TickApplies DEF StoreNext

\* KeyedInv holds in every reachable state.
THEOREM KeyedInvariant ==
  ASSUME KeyedCallbacks, NoLatePuts
  PROVE  StoreSpec => []KeyedInv
  <1>1. StoreInit => KeyedInv
    BY KeyedInitial, KeyedAssumption, StoreAssumption
  <1>2. StoreInv /\ KeyedInv /\ [StoreNext]_vars => KeyedInv'
    BY KeyedStep, KeyedAssumption, AccountingAssumption, StoreAssumption
  <1> QED BY <1>1, <1>2, StoreInvariant, PTL DEF StoreSpec

\* A charge or credit that is retried under its key moves the spend once for as
\* long as its marker is kept, through lost replies, late swaps, cancelled calls
\* and restarts.
THEOREM KeyedCallsApplyOnce ==
  ASSUME KeyedCallbacks, NoLatePuts
  PROVE  StoreSpec => []AppliedOncePerKey
  <1>1. KeyedInv => AppliedOncePerKey
    BY DEF KeyedInv
  <1> QED BY <1>1, KeyedInvariant, PTL

\* What a caller is told of a charge, credit, voucher or open is what the stored
\* record went through.
THEOREM CallersAreToldTheTruth ==
  ASSUME KeyedCallbacks, NoLatePuts
  PROVE  StoreSpec => []AnswersAreTrue
  <1>1. KeyedInv => AnswersAreTrue
    BY DEF KeyedInv
  <1> QED BY <1>1, KeyedInvariant, PTL

=============================================================================
