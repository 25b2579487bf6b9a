----------------------------- MODULE AtomicUpdate -----------------------------
(* What the protocol ChannelStore of session/server/_store.py promises of      *)
(* update_channel: no concurrent mutation between reading the record and       *)
(* writing what the callback makes of it.  A call takes effect at most once,   *)
(* in one step, as its callback says of the record at that moment.  Its caller *)
(* learns the result of that step or only that the call failed; a failed call  *)
(* may still take effect later, as long as it is open.                         *)
EXTENDS Naturals

CONSTANTS Calls,
          Change(_, _, _)  \* what call c, begun at time t, makes of a record

VARIABLES record,  \* the stored record, or Absent
          began,   \* the time each call began
          answer,  \* what the caller of each call has been told
          open     \* the calls that may still take effect

avars == <<record, began, answer, open>>

Waiting == "waiting"
Running == "running"
Unknown == "unknown"

Init ==
  /\ answer = [c \in Calls |-> Waiting]
  /\ open = {}

Begin(c) ==
  /\ answer[c] = Waiting
  /\ began'[c] \in Nat /\ began' = [began EXCEPT ![c] = began'[c]]
  /\ answer' = [answer EXCEPT ![c] = Running]
  /\ open' = open \cup {c}
  /\ UNCHANGED record

Apply(c) ==
  /\ c \in open
  /\ LET change == Change(c, began[c], record) IN
     /\ record' = IF change.noop THEN record ELSE change.value
     /\ \E a \in {change.result, Unknown} :
          answer' = [answer EXCEPT ![c] = IF @ = Running THEN a ELSE @]
  /\ open' = open \ {c}
  /\ UNCHANGED began

\* Callers give up, all those of a process that stops; their calls may not have.
Fail ==
  LET failed == {c \in Calls : answer'[c] # answer[c]} IN
  /\ \A c \in failed : answer[c] \in {Waiting, Running}
  /\ answer' = [c \in Calls |-> IF c \in failed THEN Unknown ELSE answer[c]]
  /\ open \ failed \subseteq open' /\ open' \subseteq open
  /\ UNCHANGED <<record, began>>

Drop(c) ==
  /\ c \in open /\ answer[c] = Unknown
  /\ open' = open \ {c}
  /\ UNCHANGED <<record, began, answer>>

Next ==
  \/ \E c \in Calls : Begin(c) \/ Apply(c) \/ Drop(c)
  \/ Fail

Spec == Init /\ [][Next]_avars
===============================================================================
