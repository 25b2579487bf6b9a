--------------------------- MODULE MCSessionClients ---------------------------
(* The two front ends of the session method, each on its own behaviours of one  *)
(* service: a payment transport with concurrent requests, or a session manager  *)
(* with fetches and a manual top-up.  They share the channel store and the      *)
(* server, so the variables of SessionService, store, opened and unknown are     *)
(* the same; the variables of the other front end stay at rest.                 *)
EXTENDS SessionTransport, TLC

CONSTANTS ManagerCalls,   \* the calls of the manager, its TopUps among them
          TopUps, ManualAmount,
          ManagerLimit    \* its max_deposit; its server suggests no deposit

ASSUME ManagerAssumption ==
  /\ TopUps \subseteq ManagerCalls
  /\ ManualAmount \in Nat \ {0} /\ ManagerLimit \in Nat

VARIABLES front, mgr, funding, call

manager == <<mgr, funding, call>>

M == INSTANCE SessionManager
       WITH Requests <- ManagerCalls, MaxDeposit <- ManagerLimit, Suggested <- 0

AtRest == mgr = 0 /\ funding = {} /\ call = 0

EitherInit ==
  \/ front = "transport" /\ Init /\ AtRest
  \/ /\ front = "manager" /\ M!Init
     /\ scope = {} /\ signed = 0 /\ forsaken = {} /\ task = 0

EitherNext ==
  \/ front = "transport" /\ Next /\ UNCHANGED <<front, manager>>
  \/ front = "manager" /\ M!Next /\ UNCHANGED <<front, scope, task, signed, forsaken>>

Clients == EitherInit /\ [][EitherNext]_<<vars, front, manager>>

RequestSymmetry == Permutations(Requests)

-----------------------------------------------------------------------------
(* The properties of each front end, of its own behaviours (TLC has one         *)
(* instance of them both); those of the service are the same for both.          *)

Transport == front = "transport"
Manager == front = "manager"

\* SessionTransport: a second channel is opened only after every earlier open has
\* failed or lost its outcome: concurrent first requests share one channel.
TransportOneLiveChannel == Transport => OneLiveChannel

\* SessionTransport: the payer never signs past the deposit it stored, nor believes
\* in a larger deposit than the chain has.
TransportDepositBacked == Transport => StoredDepositBacked

\* SessionTransport: concurrent requests sign strictly increasing amounts on a
\* channel, also after lost answers, recoveries and repeated challenges.
TransportVouchersIncrease ==
  [][Transport => \A r \in Requests :
       Signs(r) => task'[r].sent.amount > signed[task'[r].sent.ch]]_vars

\* SessionManager: between calls the manager's channel is the stored one.
ManagerKeepsStore == Manager => M!ManagerMatchesStore

\* Both: the server charges each request of the application once, however often its
\* credential is refused, replaced or resent; once more only for each time that it
\* was charged and asked to pay again, as its scheduled settlement had failed.
ChargedOnceByEither == \A r \in DOMAIN charged : charged[r] <= 1 + unserved[r]

\* Of the code, a charged request "stays served": it is never asked to pay again.
ChargedStaysServed == \A p \in replies : charged[p.by] > 0 => ~AsksPayment(p)
=============================================================================
