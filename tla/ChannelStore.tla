----------------------------- MODULE ChannelStore -----------------------------
(* StoreChannelStore of session/server/_store.py: update_channel over a         *)
(* key-value store.  Over a store with compare_and_set it reads, runs the       *)
(* callback and swaps, and starts again when the swap lost a race; over any     *)
(* other store it serializes the updates of its process with a lock.  Before a  *)
(* transaction is broadcast, check_atomic_update tries a swap on a key of its   *)
(* own, so that a store that cannot record the outcome fails the request first. *)
(*                                                                              *)
(* Processes stop, callers are cancelled, replies are lost, and a swap or a put *)
(* whose caller gave up may reach the store later.                              *)
EXTENDS KeyValue

CONSTANTS Processes, Channel,
          Calls,             \* the calls of update_channel
          Batches,           \* sets of calls that are made together
          Senders,           \* the calls that record a transaction they broadcast
          HomeOf,            \* the process each call runs in
          Change(_, _, _),   \* the callback of call c, begun at t, on a record
          FirstRecords,      \* the records, or Absent, that the calls may find
          Backends,          \* the stores to consider
          Capacity,          \* max_entries of a bounded store
          MaxTime, MaxFaults \* bounds: the clock, failures

ASSUME StoreAssumption ==
  /\ Keys = Processes \cup {Channel} /\ Channel \notin Processes
  /\ Senders \subseteq Calls /\ Batches \subseteq SUBSET Calls /\ HomeOf \in [Calls -> Processes]
  /\ Absent \notin Processes /\ Absent \notin Calls
  /\ MaxTime \in Nat /\ MaxFaults \in Nat

VARIABLES kv,       \* the store
          clock,
          backend,  \* which store it is
          home,     \* the process of each call
          pc,       \* where each call is
          began,    \* when its update began
          run,      \* the last run of its callback: what it read and made of it
          answer,   \* what its caller was told
          holder,   \* who holds the lock of the channel in each process
          prober,   \* who holds the lock of the probe in each process
          checked,  \* the processes whose adapter knows that its store swaps
          flight,   \* swaps and puts of calls given up that may still arrive
          sent,     \* history: the calls that broadcast their transaction
          took,     \* history: when each call took effect, or Forever
          faults    \* how many failures there were

vars == <<kv, clock, backend, home, pc, began, run, answer, holder, prober, checked,
          flight, sent, took, faults>>

-----------------------------------------------------------------------------
(* Stores.  cas: it has compare_and_set; refuses: its server never runs the    *)
(* script; remote: processes share it and replies may be lost; late: a command *)
(* may reach it after its caller gave up; bytes: it returns bytes; text: it    *)
(* compares the text it was given, never bytes.                                *)

Memory == [cas |-> TRUE, refuses |-> FALSE, remote |-> FALSE, late |-> FALSE,
           bounded |-> TRUE, bytes |-> FALSE, text |-> FALSE]
Shared == [Memory EXCEPT !.remote = TRUE, !.late = TRUE, !.bounded = FALSE]
SharedBytes == [Shared EXCEPT !.bytes = TRUE, !.text = TRUE]
Refusing == [Shared EXCEPT !.refuses = TRUE]
PlainLate == [Shared EXCEPT !.cas = FALSE]
Plain == [PlainLate EXCEPT !.late = FALSE]

\* Only compare-and-set over a remote store is atomic across processes.
OneProcess(b) == ~b.cas \/ ~b.remote

\* No put without compare-and-set arrives after its caller has given up.
NoLatePuts == \A b \in Backends : b.late => b.cas

Record == Get(kv, Channel, clock)

Room(k) == ~backend.bounded \/ HasRoom(kv, k, Capacity, clock)

-----------------------------------------------------------------------------

Steps == {"idle", "check", "probe", "clean", "ready", "lock", "read", "compare", "again",
          "put", "done", "refused"}

Ended == {"idle", "done", "refused"}

\* The steps of an update, from its begin to its effect.
Updating == {"lock", "read", "compare", "again", "put"}

NotRun == [raw |-> Absent, value |-> Absent, result |-> Absent]

StoreInit ==
  /\ \E r \in FirstRecords :
       kv = Put(EmptyStore, Channel, r, Forever)
  /\ clock = 0
  /\ backend \in Backends
  /\ home = IF OneProcess(backend) THEN [c \in Calls |-> CHOOSE p \in Processes : TRUE]
             ELSE HomeOf
  /\ \E batch \in Batches :
       pc = [c \in Calls |-> IF c \notin batch THEN "idle"
                             ELSE IF c \in Senders THEN "check" ELSE "ready"]
  /\ began = [c \in Calls |-> 0]
  /\ run = [c \in Calls |-> NotRun]
  /\ answer = [c \in Calls |-> "waiting"]
  /\ holder = [p \in Processes |-> Absent]
  /\ prober = [p \in Processes |-> Absent]
  /\ checked = {}
  /\ flight = {}
  /\ sent = {}
  /\ took = [c \in Calls |-> Forever]
  /\ faults = 0

GoTo(c, step) == pc' = [pc EXCEPT ![c] = step]

\* A call ends: its locks are released and its caller told.
EndsAt(c, step, told) ==
  /\ GoTo(c, step)
  /\ run' = [run EXCEPT ![c] = NotRun]
  /\ answer' = [answer EXCEPT ![c] = told]
  /\ holder' = [p \in Processes |-> IF holder[p] = c THEN Absent ELSE holder[p]]
  /\ prober' = [p \in Processes |-> IF prober[p] = c THEN Absent ELSE prober[p]]

Ends(c, told) == EndsAt(c, "done", told)

Fails == faults < MaxFaults /\ faults' = faults + 1

-----------------------------------------------------------------------------
(* check_atomic_update, before the broadcast.                                  *)

\* Nothing to check, or this adapter has: the transaction goes out.
SkipCheck(c) ==
  /\ pc[c] = "check"
  /\ ~backend.cas \/ home[c] \in checked
  /\ GoTo(c, "ready")
  /\ sent' = sent \cup {c}
  /\ UNCHANGED <<kv, clock, backend, home, began, run, answer, holder, prober, checked,
                 flight, took, faults>>

\* What an interrupted probe left is what the next one expects.
Probed(p) == Get(kv, p, clock)

\* One prober at a time reads the key of its adapter.
ProbeRead(c) ==
  /\ pc[c] = "check" /\ backend.cas /\ home[c] \notin checked
  /\ prober[home[c]] = Absent
  /\ prober' = [prober EXCEPT ![home[c]] = c]
  /\ run' = [run EXCEPT ![c].raw = Probed(home[c])]
  /\ GoTo(c, "probe")
  /\ UNCHANGED <<kv, clock, backend, home, began, answer, holder, checked, flight, sent,
                 took, faults>>

\* Whether the probe's write shows that the store swaps; bytes and text are
\* both tried, and nobody else writes this key.
ProbeSucceeds(c) ==
  ~backend.refuses /\ Room(home[c]) /\ Matches(kv, home[c], run[c].raw, clock)

\* The probe's value tells nothing (here it is the process itself).  A refused or
\* failed probe fails the request, and nothing is sent.
ProbeWrite(c) ==
  /\ pc[c] = "probe"
  /\ IF ProbeSucceeds(c)
     THEN /\ kv' = Swapped(kv, home[c], home[c], clock)
          /\ GoTo(c, "clean")
          /\ UNCHANGED <<run, answer, holder, prober>>
     ELSE /\ EndsAt(c, IF backend.refuses \/ Room(home[c]) THEN "refused" ELSE "done", "unknown")
          /\ UNCHANGED kv
  /\ UNCHANGED <<clock, backend, home, began, checked, flight, sent, took, faults>>

\* Removing the probe is best effort; then the transaction goes out.
ProbeClean(c) ==
  /\ pc[c] = "clean"
  /\ \/ kv' = Delete(kv, home[c]) /\ UNCHANGED faults
     \/ Fails /\ UNCHANGED kv
  /\ checked' = checked \cup {home[c]}
  /\ prober' = [prober EXCEPT ![home[c]] = Absent]
  /\ GoTo(c, "ready")
  /\ sent' = sent \cup {c}
  /\ UNCHANGED <<clock, backend, home, began, run, answer, holder, flight, took>>

-----------------------------------------------------------------------------
(* update_channel_result and _update_cas.                                      *)

\* A keyed charge or credit reads its time here, once for all its runs.
BeginUpdate(c) ==
  /\ pc[c] = "ready"
  /\ began' = [began EXCEPT ![c] = clock]
  /\ answer' = [answer EXCEPT ![c] = "running"]
  /\ GoTo(c, IF backend.cas THEN "read" ELSE "lock")
  /\ UNCHANGED <<kv, clock, backend, home, run, holder, prober, checked, flight, sent,
                 took, faults>>

\* A store without compare_and_set has a lock for each channel.
IsUnlocked(c) == holder[home[c]] = Absent

TakeLock(c) ==
  /\ pc[c] = "lock" /\ IsUnlocked(c)
  /\ holder' = [holder EXCEPT ![home[c]] = c]
  /\ GoTo(c, "read")
  /\ UNCHANGED <<kv, clock, backend, home, began, run, answer, prober, checked, flight,
                 sent, took, faults>>

\* Mutant: the result of the first run is kept.
ResultOfFirst(c, change) == IF run[c].result = Absent THEN change.result ELSE run[c].result

\* The callback may run again; its last result is the one that counts.
ResultOf(c, change) == change.result

\* The callback runs on what is stored; when it leaves it alone the call ends.
ReadRecord(c) ==
  /\ pc[c] = "read"
  /\ LET change == Change(c, began[c], Record)
         result == ResultOf(c, change) IN
     IF change.noop \/ (Record = Absent /\ change.value = Absent)
     THEN Ends(c, result)
     ELSE /\ run' = [run EXCEPT ![c] = [raw |-> Record, value |-> change.value,
                                        result |-> result]]
          /\ GoTo(c, IF backend.cas THEN "compare" ELSE "put")
          /\ UNCHANGED <<answer, holder, prober>>
  /\ UNCHANGED <<kv, clock, backend, home, began, checked, flight, sent, took, faults>>

\* The write of call c takes effect; its reply may be lost.
Writes(c) ==
  /\ kv' = Swapped(kv, Channel, run[c].value, clock)
  /\ took' = [took EXCEPT ![c] = clock]
  /\ \/ Ends(c, run[c].result) /\ UNCHANGED faults
     \/ backend.remote /\ Ends(c, "unknown") /\ Fails

Current(c) == Matches(kv, Channel, run[c].raw, clock)

\* A full store raises.
NoRoom(c) ==
  /\ Ends(c, "unknown")
  /\ UNCHANGED <<kv, took, faults>>

\* Mutant: a lost race tries the same swap again.
SwapsAgain(c) == "compare"

\* After a lost race the record is read again.
AfterLostRace(c) == "read"

\* The first swap compares what was read; a store that returned bytes but
\* compares text never matches it.
Compare(c) ==
  /\ pc[c] = "compare"
  /\ LET matches == Current(c) /\ ~(backend.text /\ run[c].raw # Absent) IN
     \/ backend.refuses /\ Ends(c, "unknown") /\ UNCHANGED <<kv, took, faults>>
     \/ ~backend.refuses /\ matches /\ Room(Channel) /\ Writes(c)
     \/ ~backend.refuses /\ matches /\ ~Room(Channel) /\ NoRoom(c)
     \/ /\ ~backend.refuses /\ ~matches
        /\ GoTo(c, IF backend.bytes /\ run[c].raw # Absent THEN "again" ELSE AfterLostRace(c))
        /\ UNCHANGED <<kv, run, answer, holder, prober, took, faults>>
  /\ UNCHANGED <<clock, backend, home, began, checked, flight, sent>>

\* The second swap compares the text of the bytes that were read.
CompareText(c) ==
  /\ pc[c] = "again"
  /\ \/ Current(c) /\ Writes(c)
     \/ /\ ~Current(c)
        /\ GoTo(c, AfterLostRace(c))
        /\ UNCHANGED <<kv, run, answer, holder, prober, took, faults>>
  /\ UNCHANGED <<clock, backend, home, began, checked, flight, sent>>

\* Under the lock the record is written as it was computed.
PutRecord(c) ==
  /\ pc[c] = "put"
  /\ Writes(c)
  /\ UNCHANGED <<clock, backend, home, began, checked, flight, sent>>

-----------------------------------------------------------------------------
(* Failures.                                                                   *)

Swap(c) == [by |-> c, raw |-> run[c].raw, value |-> run[c].value]

\* What a call has sent to the store when it is given up may still arrive; its
\* lock, if it has one, is released at once.
MaySwapLater(c) ==
  backend.late /\ ~backend.refuses /\ pc[c] \in {"compare", "again", "put"}

\* A call is cancelled, or a command of it times out.
Interrupt(c) ==
  /\ pc[c] \notin Ended
  /\ Fails
  /\ Ends(c, "unknown")
  /\ \/ UNCHANGED flight
     \/ MaySwapLater(c) /\ flight' = flight \cup {Swap(c)}
  /\ UNCHANGED <<kv, clock, backend, home, began, checked, sent, took>>

\* The swap of a call that was given up arrives, or its put, which compares nothing.
TakesEffect(s) == backend.cas => Matches(kv, Channel, s.raw, clock)

ArriveLate(s) ==
  /\ flight' = flight \ {s}
  /\ IF TakesEffect(s)
     THEN /\ kv' = Swapped(kv, Channel, s.value, clock)
          /\ took' = [took EXCEPT ![s.by] = clock]
     ELSE UNCHANGED <<kv, took>>
  /\ UNCHANGED <<clock, backend, home, pc, began, run, answer, holder, prober, checked,
                 sent, faults>>

\* A process stops, with its calls, and starts with a new adapter.
Restart(p) ==
  /\ backend.remote /\ Fails
  /\ LET stopped == {c \in Calls : home[c] = p /\ pc[c] \notin Ended} IN
     /\ pc' = [c \in Calls |-> IF c \in stopped THEN "done" ELSE pc[c]]
     /\ answer' = [c \in Calls |-> IF c \in stopped THEN "unknown" ELSE answer[c]]
     /\ \E late \in SUBSET {Swap(c) : c \in {d \in stopped : MaySwapLater(d)}} :
          flight' = flight \cup late
     /\ run' = [c \in Calls |-> IF c \in stopped THEN NotRun ELSE run[c]]
  /\ holder' = [holder EXCEPT ![p] = Absent]
  /\ prober' = [prober EXCEPT ![p] = Absent]
  /\ checked' = checked \ {p}
  /\ UNCHANGED <<kv, clock, backend, home, began, sent, took>>

Tick ==
  /\ clock < MaxTime
  /\ clock' = clock + 1
  /\ UNCHANGED <<kv, backend, home, pc, began, run, answer, holder, prober, checked,
                 flight, sent, took, faults>>

-----------------------------------------------------------------------------

Advance(c) ==
  \/ SkipCheck(c) \/ ProbeRead(c) \/ ProbeWrite(c) \/ ProbeClean(c)
  \/ BeginUpdate(c) \/ TakeLock(c) \/ ReadRecord(c)
  \/ Compare(c) \/ CompareText(c) \/ PutRecord(c)

StoreNext ==
  \/ \E c \in Calls : Advance(c) \/ Interrupt(c)
  \/ \E s \in flight : ArriveLate(s)
  \/ \E p \in Processes : Restart(p)
  \/ Tick

StoreSpec == StoreInit /\ [][StoreNext]_vars

\* The event loop runs a task that can take its next step.
FairStoreSpec == StoreSpec /\ \A c \in Calls : WF_vars(Advance(c))

-----------------------------------------------------------------------------
(* The store implements the atomic update: a call takes effect when its swap   *)
(* or put is applied, or when it reads a record it leaves alone, and is open   *)
(* until then or until nothing of it is left to arrive.                        *)

Open == {c \in Calls : c \in {s.by : s \in flight} \/ pc[c] \in Updating}

Atomic == INSTANCE AtomicUpdate WITH record <- Record, open <- Open

\* Concurrent updates of one record, by processes that share only the store, are
\* each applied as if alone: no update is lost and none is applied twice.
UpdatesAreAtomic == Atomic!Spec
===============================================================================
