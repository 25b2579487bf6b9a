--------------------------- MODULE SessionService ---------------------------
(***************************************************************************)
(* The server of a session as its payers meet it: requests and replies on  *)
(* the way, the escrow, and of the stored channel record what an HTTP      *)
(* request reads and changes (session/server/_session.py with the update   *)
(* callbacks it reaches; SessionChannel has the whole record).             *)
(*                                                                         *)
(* A request may be lost before the server takes it, at any step of its    *)
(* handler, or answered after the payer gave up waiting for it.  A 402 has *)
(* a fresh challenge, or the one that the credential echoes.               *)
(***************************************************************************)
EXTENDS ClientChannel

CONSTANTS Requests,   \* the requests (and manual top-ups) of the payer's application
          MaxFaults   \* bound: messages, handlers and settlements that fail

ASSUME ServiceAssumption == MaxFaults \in Nat

VARIABLES requests,  \* requests that the server may take or is working on
          replies,   \* replies that the payer may receive
          escrow,    \* the deposit of each channel on chain, 0 before its open
          served,    \* the stored record of each channel
          faults,    \* how many messages, handlers and settlements have failed
          charged,   \* history: how often each request was charged
          unserved   \* history: how often it was charged and then not served
                     \* but challenged, for its settlement had failed

service == <<requests, replies, escrow, served, faults, charged, unserved>>

Kinds == {"fetch", "open", "landedOpen", "storedOpen", "voucher", "storedVoucher",
          "topUp", "landedTopUp"}

\* snap is the snapshot of the challenge that the credential echoes.
Message == [kind : Kinds, by : Requests, ch : 0..MaxChannels, amount : Nat, deposit : Nat,
            snap : Snapshot]

\* 402 carries a challenge; "failed" stands for any other status that is no success.
Reply == [by : Requests, status : {"ok", "402", "failed"}, snap : Snapshot]

ServedRecord == [known : BOOLEAN, highest : Nat, spent : Nat, deposit : Nat]

ServiceTypeOK ==
  /\ requests \subseteq Message /\ replies \subseteq Reply
  /\ escrow \in [Channels -> Nat] /\ served \in [Channels -> ServedRecord]
  /\ faults \in 0..MaxFaults /\ charged \in [Requests -> Nat]
  /\ unserved \in [Requests -> Nat]

ServiceInit ==
  /\ requests = {} /\ replies = {}
  /\ escrow = [c \in Channels |-> 0]
  /\ served = [c \in Channels |->
                 [known |-> FALSE, highest |-> 0, spent |-> 0, deposit |-> 0]]
  /\ faults = 0
  /\ charged = [r \in Requests |-> 0] /\ unserved = [r \in Requests |-> 0]

Fetch(r) == [kind |-> "fetch", by |-> r, ch |-> 0, amount |-> 0, deposit |-> 0,
             snap |-> NoSnapshot]

-----------------------------------------------------------------------------
(* Replies.                                                                *)

\* What a snapshot says of a stored channel: the next voucher must cover
\* the spend and the price, and advance.
SnapshotOf(records, c) ==
  [ch |-> c, accepted |-> records[c].highest,
   required |-> Larger(records[c].spent + Price, records[c].highest + 1),
   spent |-> records[c].spent, deposit |-> records[c].deposit]

\* Which channel a challenge advertises, if any, is the application's choice.
Hints(records) ==
  {NoSnapshot} \cup {SnapshotOf(records, c) : c \in {c \in Channels : records[c].known}}

Answer(m, status, snap) ==
  /\ requests' = requests \ {m}
  /\ replies' = replies \cup {[by |-> m.by, status |-> status, snap |-> snap]}

\* Mutant: any failure of the request asks for payment again.
AsksAfterFailure(reply) == reply.status # "ok"

\* Only a 402 asks the transport to pay again.
AsksPayment(reply) == reply.status = "402"

\* A fresh challenge, or the one that the credential echoes.
Challenge(m) == \E snap \in Hints(served') \cup {m.snap} : Answer(m, "402", snap)

\* The application serves a charged request, with a receipt of what the
\* channel has accepted and spent, or fails to.
Serve(m) ==
  /\ \/ Answer(m, "ok", SnapshotOf(served', m.ch))
     \/ Answer(m, "failed", NoSnapshot)
  /\ UNCHANGED <<faults, unserved>>

\* The settlement that the charge makes due fails for good: the payer is
\* asked to pay for the request that it was charged for.
AskAgain(m) ==
  /\ faults < MaxFaults
  /\ faults' = faults + 1
  /\ unserved' = [unserved EXCEPT ![m.by] = @ + 1]
  /\ Answer(m, "402", m.snap)

\* Charges a request against a record that covers it.
Charge(m, record) ==
  /\ served' = [served EXCEPT ![m.ch] = [record EXCEPT !.spent = @ + Price]]
  /\ charged' = [charged EXCEPT ![m.by] = @ + 1]
  /\ Serve(m) \/ AskAgain(m)

Advance(m, kind) == requests' = (requests \ {m}) \cup {[m EXCEPT !.kind = kind]}

-----------------------------------------------------------------------------
(* Handlers.                                                               *)

ChallengeFetch(m) ==
  /\ m.kind = "fetch"
  /\ UNCHANGED <<escrow, served, faults, charged, unserved>>
  /\ Challenge(m)

\* The open transaction is mined: the deposit is in escrow.  One that is
\* sent again was mined before.
OpenLands(m) ==
  /\ m.kind = "open"
  /\ escrow' = [escrow EXCEPT ![m.ch] = Larger(@, m.deposit)]
  /\ Advance(m, "landedOpen")
  /\ UNCHANGED <<replies, served, faults, charged, unserved>>

\* Requires that the credential adds new funds.
RecordOpened(m) ==
  /\ m.kind = "landedOpen"
  /\ IF m.amount > served[m.ch].highest
     THEN /\ served' = [served EXCEPT ![m.ch] =
               [@ EXCEPT !.known = TRUE, !.highest = m.amount, !.deposit = escrow[m.ch]]]
          /\ Advance(m, "storedOpen")
          /\ UNCHANGED replies
     ELSE /\ UNCHANGED served
          /\ Challenge(m)
  /\ UNCHANGED <<escrow, faults, charged, unserved>>

Covers(record, amount) == record.highest - record.spent >= amount

\* A later update of the record charges the request.
ChargeAccepted(m) ==
  /\ m.kind \in {"storedOpen", "storedVoucher"}
  /\ IF Covers(served[m.ch], Price)
     THEN Charge(m, served[m.ch])
     ELSE /\ UNCHANGED <<served, faults, charged, unserved>>
          /\ Challenge(m)
  /\ UNCHANGED escrow

VoucherAdvances(record, deposit, v) == record.known /\ v > record.highest /\ v <= deposit

Accepted(record, deposit, v) ==
  [record EXCEPT !.highest = v, !.deposit = Larger(@, deposit)]

\* A voucher is accepted against the stored deposit or a fresh read.
AcceptVoucher(m) ==
  /\ m.kind = "voucher"
  /\ \E deposit \in {served[m.ch].deposit, escrow[m.ch]} :
       /\ VoucherAdvances(served[m.ch], deposit, m.amount)
       /\ served' = [served EXCEPT ![m.ch] = Accepted(@, deposit, m.amount)]
  /\ Advance(m, "storedVoucher")
  /\ UNCHANGED <<replies, escrow, faults, charged, unserved>>

\* charge_on_acceptance: the update that accepts it charges its request too.
AcceptPaidVoucher(m) ==
  /\ m.kind = "voucher"
  /\ \E deposit \in {served[m.ch].deposit, escrow[m.ch]} :
       LET accepted == Accepted(served[m.ch], deposit, m.amount) IN
       /\ VoucherAdvances(served[m.ch], deposit, m.amount)
       /\ IF Covers(accepted, Price)
          THEN Charge(m, accepted)
          ELSE /\ served' = [served EXCEPT ![m.ch] = accepted]
               /\ UNCHANGED <<faults, charged, unserved>>
               /\ Challenge(m)
  /\ UNCHANGED escrow

RefuseVoucher(m) ==
  /\ m.kind = "voucher"
  /\ \E deposit \in {served[m.ch].deposit, escrow[m.ch]} :
       ~VoucherAdvances(served[m.ch], deposit, m.amount)
  /\ UNCHANGED <<escrow, served, faults, charged, unserved>>
  /\ Challenge(m)

\* The top-up transaction is mined; a top-up is for a stored channel.
TopUpLands(m) ==
  /\ m.kind = "topUp" /\ served[m.ch].known
  /\ escrow' = [escrow EXCEPT ![m.ch] = @ + m.amount]
  /\ Advance(m, "landedTopUp")
  /\ UNCHANGED <<replies, served, faults, charged, unserved>>

RecordToppedUp(m) ==
  /\ m.kind = "landedTopUp"
  /\ served' = [served EXCEPT ![m.ch].deposit = Larger(@, escrow[m.ch])]
  /\ Answer(m, "ok", SnapshotOf(served', m.ch))
  /\ UNCHANGED <<escrow, faults, charged, unserved>>

\* A top-up of a channel that the server does not know.
RefuseTopUp(m) ==
  /\ m.kind = "topUp" /\ ~served[m.ch].known
  /\ UNCHANGED <<escrow, served, faults, charged, unserved>>
  /\ Challenge(m)

\* A transaction may be refused before it is broadcast, and a landed one
\* may fail its read-back or its update.
RefuseTransaction(m) ==
  /\ m.kind \in {"open", "landedOpen", "topUp", "landedTopUp"} /\ faults < MaxFaults
  /\ faults' = faults + 1
  /\ UNCHANGED <<escrow, served, charged, unserved>>
  /\ Challenge(m)

FailRequest(m) ==
  /\ faults < MaxFaults
  /\ faults' = faults + 1
  /\ Answer(m, "failed", NoSnapshot)
  /\ UNCHANGED <<escrow, served, charged, unserved>>

LoseRequest(m) ==
  /\ faults < MaxFaults
  /\ faults' = faults + 1
  /\ requests' = requests \ {m}
  /\ UNCHANGED <<replies, escrow, served, charged, unserved>>

LoseReply(r) ==
  /\ faults < MaxFaults
  /\ faults' = faults + 1
  /\ replies' = replies \ {r}
  /\ UNCHANGED <<requests, escrow, served, charged, unserved>>

ServiceNext ==
  \/ \E m \in requests :
       \/ ChallengeFetch(m) \/ OpenLands(m) \/ RecordOpened(m) \/ ChargeAccepted(m)
       \/ AcceptVoucher(m) \/ AcceptPaidVoucher(m) \/ RefuseVoucher(m) \/ TopUpLands(m)
       \/ RecordToppedUp(m) \/ RefuseTopUp(m) \/ RefuseTransaction(m) \/ FailRequest(m)
       \/ LoseRequest(m)
  \/ \E r \in replies : LoseReply(r)
=============================================================================
