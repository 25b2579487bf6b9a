------------------------------- MODULE KeyValue -------------------------------
(* The key-value stores of pympp: MemoryStore (mpp/store.py), SQLiteStore and   *)
(* RedisStore (mpp/stores).  A store maps each key to an entry, the value, or   *)
(* Absent, with the time it is kept until; an entry past its time is as good as *)
(* absent, whether it was pruned or not.  Each operation is one atomic step of  *)
(* the store: a loop turn, an SQL statement, a Redis command.                   *)
EXTENDS Integers, FiniteSets

CONSTANTS Keys, Absent, Forever

Entry(value, until) == [value |-> value, until |-> until]

EmptyStore == [k \in Keys |-> Entry(Absent, Forever)]

\* What a read at `now` finds.
Get(kv, k, now) ==
  IF kv[k].until = Forever \/ kv[k].until > now THEN kv[k].value ELSE Absent

\* What pruning at `now` leaves.
Live(kv, now) == {k \in Keys : Get(kv, k, now) # Absent}

\* MemoryStore(max_entries) refuses a new key at its capacity; it never evicts.
HasRoom(kv, k, capacity, now) ==
  k \in Live(kv, now) \/ Cardinality(Live(kv, now)) < capacity

Put(kv, k, value, until) == [kv EXCEPT ![k] = Entry(value, until)]

Delete(kv, k) == Put(kv, k, Absent, Forever)

\* put_if_absent and put_if_absent_until succeed on a key with no live entry.
IsFree(kv, k, now) == Get(kv, k, now) = Absent

\* Mutant: any write goes through.
MatchesAnything(kv, k, expected, now) == TRUE

\* compare_and_set writes only over the expected value; Absent expects none.
Matches(kv, k, expected, now) == Get(kv, k, now) = expected

\* An existing key keeps its expiry, a new one has none, Absent deletes.
Swapped(kv, k, value, now) ==
  IF value = Absent THEN Delete(kv, k)
  ELSE IF Get(kv, k, now) = Absent THEN Put(kv, k, value, Forever)
  ELSE Put(kv, k, value, kv[k].until)
===============================================================================
