------------------------ MODULE SessionClientsProofs ------------------------
(***************************************************************************)
(* What holds of a payment transport with concurrent requests and of a     *)
(* session manager, for every price, limit, number of requests, channels,  *)
(* retries and faults.                                                     *)
(*                                                                         *)
(* The transport's invariant says who holds the lock of the scope and what *)
(* a request signed last; that a request has at most one message or reply  *)
(* on the way, which belongs to what it signed; what the server's record   *)
(* and the escrow must have reached for each of them; and that a pending   *)
(* open has its channel for itself.  The manager's is stated below.        *)
(***************************************************************************)
EXTENDS MCSessionClients, FiniteSetTheorems, TLAPS

OpenKinds == {"open", "landedOpen", "storedOpen"}
VoucherKinds == {"voucher", "storedVoucher"}
TopUpKinds == {"topUp", "landedTopUp"}

Pending(r) == task[r].pc = "paying" /\ HasPendingOpen(r)

Holds(r) ==
  task[r].pc \in {"locked", "toppingUp", "toppingUpAgain", "funded"} \/ Pending(r)

\* One request at a time holds the lock, while it makes a credential or
\* waits for the outcome of an open.
LockInv ==
  /\ \A r \in Requests : r \in scope <=> Holds(r)
  /\ \A r, q \in scope : r = q

\* What the request posts covers the next voucher.
Covered(r) == store.cum + Price <= KnownDeposit(store, task[r].snap) + task[r].sent.amount

TaskOK(r) ==
  LET t == task[r] IN
  /\ t.pc \in {"new", "asked", "challenged", "locked", "done"} => t.sent = NoCredential
  /\ t.pc = "funded" => t.sent.kind \in {"none", "topUp"}
  /\ t.pc \notin {"paying", "done"} => t.round < MaxRetries
  /\ t.sent.kind # "none" => t.sent.ch \in 1..opened
  /\ t.pc = "paying" =>
       t.sent.kind \in {"open", "voucher"} /\ t.sent.by = r /\ t.sent.snap = t.paidFor
  /\ ToppingUp(r) =>
       /\ t.sent.kind = "topUp" /\ t.sent.by = r /\ t.sent.ch = store.ch
       /\ t.sent.snap = t.snap
       /\ store.ch # 0 /\ ~store.uncertain /\ Covered(r)
  /\ t.pc = "funded" /\ store.ch # 0 => store.cum + Price <= store.deposit
  /\ Pending(r) =>
       /\ t.sent.amount = Price /\ t.sent.deposit = OpeningDeposit
       /\ store.ch = 0

Silent(r) == (\A m \in requests : m.by # r) /\ (\A p \in replies : p.by # r)

\* A request has one message or one reply on the way.
FlightOK(r) ==
  /\ \A m, n \in requests : m.by = r /\ n.by = r => m = n
  /\ \A p, q \in replies : p.by = r /\ q.by = r => p = q
  /\ \A m \in requests, p \in replies : m.by = r => p.by # r
  /\ task[r].pc \in {"new", "challenged", "locked", "funded"} => Silent(r)

\* The deposit that the escrow has after the top-up of a request.
Landed(r) == KnownDeposit(store, task[r].snap) + task[r].sent.amount <= escrow[store.ch]

\* What the server has done for a message, and what it was sent for.
MessageOK(m) ==
  LET t == task[m.by] IN
  /\ m.kind # "fetch" => m.ch \in 1..opened
  /\ m.kind \in OpenKinds => m.amount = Price /\ m.deposit = OpeningDeposit
  /\ m.kind = "landedOpen" => OpeningDeposit <= escrow[m.ch]
  /\ m.kind \in {"storedOpen", "storedVoucher", "landedTopUp"} => served[m.ch].known
  /\ m.kind \in OpenKinds =>
       \A n \in requests : n.kind \in OpenKinds /\ n.ch = m.ch => n.by = m.by
  /\ m.kind \in OpenKinds \cup VoucherKinds => t.pc \in {"paying", "done"}
  /\ ToppingUp(m.by) =>
       /\ m.kind \in TopUpKinds /\ m.ch = t.sent.ch /\ m.amount = t.sent.amount
       /\ m.kind = "landedTopUp" => Landed(m.by)
  /\ t.pc = "paying" =>
       /\ m.ch = t.sent.ch
       /\ m.kind \in (IF t.sent.kind = "open" THEN OpenKinds ELSE VoucherKinds)

\* What an answer says of what was sent.
ReplyOK(p) ==
  LET t == task[p.by] IN
  /\ ToppingUp(p.by) /\ p.status = "ok" => Landed(p.by)
  /\ Pending(p.by) /\ p.status = "ok" => served[t.sent.ch].known

\* Nobody else signs or posts for the channel of a pending open.
PendingOK(r) ==
  LET c == task[r].sent.ch IN
  Pending(r) =>
    /\ \A m \in requests : m.kind # "fetch" /\ m.ch = c => m.by = r
    /\ \A q \in Requests : task[q].sent.ch = c => q = r

ChannelOK(c) ==
  LET s == served[c] IN
  /\ ~s.known => s.highest = 0 /\ s.spent = 0 /\ s.deposit = 0
  /\ s.known => /\ c <= opened /\ Price <= s.highest
                /\ s.deposit <= escrow[c] /\ OpeningDeposit <= escrow[c]

\* What a snapshot says is still true of the channel.
TrueOf(snap, records, chain) ==
  snap.ch # 0 => /\ records[snap.ch].known /\ snap.deposit <= chain[snap.ch]
                 /\ Price <= snap.accepted /\ snap.accepted < snap.required
SnapOK(snap) == TrueOf(snap, served, escrow)

\* The entry, and the histories of what was signed, posted and opened.
StoreInv ==
  /\ store.ch = 0 => store = NoEntry /\ \A c \in Channels : signed[c] <= Price
  /\ store.ch # 0 =>
       /\ served[store.ch].known /\ store.cum <= store.deposit
       /\ store.deposit <= escrow[store.ch] /\ signed[store.ch] <= store.cum
  /\ \A c \in Channels : opened < c => signed[c] = 0
  /\ \A c \in Channels :
       unknown[c] = 0 \/ (unknown[c] = 1 /\ store.ch = c /\ store.uncertain)
  /\ \A c \in (1..opened) \ forsaken :
       store.ch = c \/ \E r \in Requests : Pending(r) /\ task[r].sent.ch = c

\* A request is charged once for each time that it is not served after it; then
\* once more, and is not asked to pay again.
ChargeOK(r) ==
  \/ charged[r] = unserved[r]
  \/ /\ charged[r] = 1 + unserved[r] /\ task[r].pc \in {"paying", "done"}
     /\ \A m \in requests : m.by # r
     /\ \A p \in replies : p.by = r => p.status # "402"

Pcs ==
  {"new", "asked", "challenged", "locked", "toppingUp", "toppingUpAgain", "funded", "paying",
   "done"}

TaskRecord ==
  [pc : Pcs, round : 0..MaxRetries, snap : Snapshot, paidFor : Snapshot,
   sent : Message \cup {NoCredential}]

TransportInv ==
  /\ TypeOK /\ task \in [Requests -> TaskRecord]
  /\ LockInv
  /\ \A r \in Requests : TaskOK(r) /\ FlightOK(r) /\ PendingOK(r) /\ ChargeOK(r)
  /\ \A m \in requests : MessageOK(m)
  /\ \A p \in replies : ReplyOK(p)
  /\ \A c \in Channels : ChannelOK(c)
  /\ \A p \in replies : SnapOK(p.snap)
  /\ \A m \in requests : SnapOK(m.snap)
  /\ \A r \in Requests : SnapOK(task[r].snap)
  /\ StoreInv

-----------------------------------------------------------------------------
(* Amounts.                                                                *)

\* An open deposits at least the first voucher, within the payer's limit.
LEMMA Openings ==
  /\ OpeningDeposit \in Nat /\ Price <= OpeningDeposit /\ OpeningDeposit <= MaxDeposit
  BY ClientAssumption DEF OpeningDeposit, Smaller

\* Any hint of a challenge is one of the payer's snapshots, and true.
LEMMA HintTrue ==
  ASSUME NEW records \in [Channels -> ServedRecord], NEW chain,
         \A c \in Channels : records[c].known =>
           Price <= records[c].highest /\ records[c].deposit <= chain[c],
         NEW snap,
         snap \in Hints(records)
           \/ \E c \in Channels : records[c].known /\ snap = SnapshotOf(records, c)
  PROVE  snap \in Snapshot /\ TrueOf(snap, records, chain)
  <1>1. CASE snap = NoSnapshot
    BY <1>1, ClientAssumption DEF NoSnapshot, Snapshot, TrueOf
  <1>2. CASE snap # NoSnapshot
    <2>1. PICK c \in Channels : records[c].known /\ snap = SnapshotOf(records, c)
      BY <1>2 DEF Hints
    <2>2. records[c] \in ServedRecord
      OBVIOUS
    <2>3. snap \in Snapshot
      BY <2>1, <2>2, ClientAssumption DEF SnapshotOf, Snapshot, ServedRecord, Larger, Channels
    <2>4. /\ snap.ch = c /\ snap.deposit = records[c].deposit
          /\ snap.accepted = records[c].highest
          /\ snap.accepted < snap.required
      BY <2>1, <2>2, ClientAssumption DEF SnapshotOf, ServedRecord, Larger
    <2>5. QED
      BY <2>1, <2>3, <2>4 DEF TrueOf
  <1>3. QED
    BY <1>1, <1>2

-----------------------------------------------------------------------------
(* Initially.                                                              *)

LEMMA TransportInitial == Init => TransportInv
  <1> SUFFICES ASSUME Init PROVE TransportInv
    OBVIOUS
  <1> USE ClientAssumption, ServiceAssumption, TransportAssumption DEF Init, ServiceInit
  <1>1. \A r \in Requests :
          /\ task[r] = IdleTask /\ task[r].pc = "new" /\ task[r].round = 0
          /\ task[r].sent = NoCredential /\ task[r].snap = NoSnapshot
          /\ task[r].paidFor = NoSnapshot
    BY DEF IdleTask
  <1>2. NoSnapshot \in Snapshot /\ NoSnapshot.ch = 0
    BY DEF NoSnapshot, Snapshot
  <1>3. TypeOK
    <2>1. ServiceTypeOK
      BY DEF ServiceTypeOK, ServedRecord
    <2>2. store \in Entry
      BY DEF NoEntry, Entry
    <2>3. QED
      BY <1>1, <1>2, <2>1, <2>2 DEF TypeOK
  <1>4. LockInv
    BY <1>1 DEF LockInv, Holds, Pending
  <1>5. \A r \in Requests : TaskOK(r) /\ FlightOK(r) /\ PendingOK(r) /\ ChargeOK(r)
    BY <1>1 DEF TaskOK, FlightOK, PendingOK, ChargeOK, Silent, Pending, ToppingUp, NoCredential
  <1>6. \A c \in Channels : ChannelOK(c)
    BY DEF ChannelOK
  <1>7. \A r \in Requests : SnapOK(task[r].snap)
    BY <1>1, <1>2 DEF SnapOK, TrueOf
  <1>8. StoreInv
    BY DEF StoreInv, NoEntry, Channels
  <1>9. task \in [Requests -> TaskRecord]
    BY <1>2 DEF IdleTask, TaskRecord, Pcs
  <1>10. QED
    BY <1>3, <1>4, <1>5, <1>6, <1>7, <1>8, <1>9 DEF TransportInv

-----------------------------------------------------------------------------
(* Steps of the service.                                                   *)

\* What a step for the message m leaves alone, and may only increase.
ServiceFrame(m) ==
  /\ UNCHANGED client
  /\ \A n \in requests' : n.by # m.by => n \in requests
  /\ \A p \in replies' : p.by # m.by => p \in replies
  /\ \A n \in requests' : n.by = m.by =>
       /\ m.kind # "fetch" /\ n.ch = m.ch /\ n.snap = m.snap
       /\ n.kind \in OpenKinds => m.kind \in OpenKinds
  /\ \A q \in Requests \ {m.by} : charged'[q] = charged[q] /\ unserved'[q] = unserved[q]
  /\ m.kind = "fetch" => UNCHANGED <<served, escrow>>
  /\ \A c \in Channels : c # m.ch => served'[c] = served[c] /\ escrow'[c] = escrow[c]
  /\ m.ch \in Channels =>
       (served[m.ch].known => served'[m.ch].known) /\ escrow[m.ch] <= escrow'[m.ch]

\* What a top-up brought to the escrow stays there.
LEMMA LandedStays ==
  ASSUME TransportInv, UNCHANGED client, NEW q \in Requests, ToppingUp(q), Landed(q),
         escrow' \in [Channels -> Nat], \A c \in Channels : escrow[c] <= escrow'[c]
  PROVE  Landed(q)'
  <1>1. TypeOK /\ TaskOK(q)
    BY DEF TransportInv
  <1>2. store.ch # 0 /\ store \in Entry /\ task[q].snap \in Snapshot /\ store.ch \in Channels
    BY <1>1, ClientAssumption DEF TaskOK, TypeOK, Entry, Channels
  <1>3. task[q].sent.amount \in Nat
    <2>1. task[q].sent \in Message
      BY <1>1 DEF TypeOK, TaskOK, NoCredential
    <2>2. QED
      BY <2>1 DEF Message
  <1>4. KnownDeposit(store, task[q].snap) \in Nat
    BY <1>2 DEF KnownDeposit, Larger, Entry, Snapshot
  <1>5. /\ escrow[store.ch] \in Nat /\ escrow'[store.ch] \in Nat
        /\ escrow[store.ch] <= escrow'[store.ch]
    BY <1>1, <1>2 DEF TypeOK, ServiceTypeOK
  <1>6. store' = store /\ task' = task
    BY DEF client
  <1>7. QED
    BY <1>3, <1>4, <1>5, <1>6 DEF Landed

LEMMA ServiceKeeps ==
  ASSUME TransportInv, NEW m \in requests, ServiceFrame(m), TypeOK',
         \A c \in Channels : ChannelOK(c)',
         FlightOK(m.by)', PendingOK(m.by)', ChargeOK(m.by)',
         \A n \in requests' : n.by = m.by => MessageOK(n)',
         \A p \in replies' : p.by = m.by => ReplyOK(p)' /\ SnapOK(p.snap)'
  PROVE  TransportInv'
  <1> DEFINE r == m.by
  <1>1. /\ r \in Requests /\ m.kind \in Kinds /\ m.ch \in 0..MaxChannels
        /\ opened \in 0..MaxChannels /\ MaxChannels \in Nat
    BY ClientAssumption DEF TransportInv, TypeOK, ServiceTypeOK, Message
  <1>2. /\ store' = store /\ scope' = scope /\ task' = task /\ opened' = opened
        /\ signed' = signed /\ unknown' = unknown /\ forsaken' = forsaken
    BY DEF ServiceFrame, client
  <1>3. m.kind # "fetch" => m.ch \in 1..opened /\ m.ch \in Channels
    BY <1>1 DEF TransportInv, MessageOK, Channels
  <1>4. \A c \in Channels :
          (served[c].known => served'[c].known) /\ escrow[c] <= escrow'[c]
    BY DEF ServiceFrame, TransportInv, TypeOK, ServiceTypeOK
  <1>5. LockInv'
    BY <1>2 DEF TransportInv, LockInv, Holds, Pending, HasPendingOpen
  <1>6. \A q \in Requests : TaskOK(q)'
    BY <1>2 DEF TransportInv, TaskOK, Covered, Pending, HasPendingOpen, ToppingUp
  <1>7. ASSUME NEW q \in Requests PROVE FlightOK(q)'
    <2>1. CASE q = r
      BY <2>1
    <2>2. CASE q # r
      <3>1. FlightOK(q)
        BY DEF TransportInv
      <3>2. \A n \in requests' : n.by = q => n \in requests
        BY <2>2 DEF ServiceFrame
      <3>3. \A p \in replies' : p.by = q => p \in replies
        BY <2>2 DEF ServiceFrame
      <3>4. QED
        BY <1>2, <3>1, <3>2, <3>3 DEF FlightOK, Silent
    <2>3. QED
      BY <2>1, <2>2
  <1>8. ASSUME NEW q \in Requests PROVE PendingOK(q)'
    <2>1. CASE q = r
      BY <2>1
    <2>2. CASE q # r /\ Pending(q)
      <3> DEFINE c == task[q].sent.ch
      <3>1. PendingOK(q) /\ TaskOK(q)
        BY DEF TransportInv
      <3>2. c \in Channels
        BY <1>1, <2>2, <3>1 DEF TaskOK, Pending, HasPendingOpen, Channels
      <3>3. m.kind # "fetch" => m.ch # c
        BY <2>2, <3>1 DEF PendingOK
      <3>4. served'[c] = served[c]
        BY <3>2, <3>3 DEF ServiceFrame
      <3>5. \A n \in requests' : n.kind # "fetch" /\ n.ch = c => n.by = q
        BY <2>2, <3>1, <3>3 DEF ServiceFrame, PendingOK
      <3>6. \A n \in requests' : n.by = q => n \in requests
        BY <2>2 DEF ServiceFrame
      <3>7. QED
        BY <1>2, <2>2, <3>1, <3>4, <3>5, <3>6 DEF PendingOK, Pending, HasPendingOpen
    <2>3. CASE ~Pending(q)
      BY <1>2, <2>3 DEF PendingOK, Pending, HasPendingOpen
    <2>4. QED
      BY <2>1, <2>2, <2>3
  <1>9. ASSUME NEW q \in Requests PROVE ChargeOK(q)'
    <2>1. CASE q = r
      BY <2>1
    <2>2. CASE q # r
      <3>1. ChargeOK(q) /\ charged'[q] = charged[q] /\ unserved'[q] = unserved[q]
        BY <2>2 DEF TransportInv, ServiceFrame
      <3>2. QED
        BY <1>2, <2>2, <3>1 DEF ChargeOK, ServiceFrame
    <2>3. QED
      BY <2>1, <2>2
  <1>10. ASSUME NEW n \in requests' PROVE MessageOK(n)'
    <2>1. CASE n.by = r
      BY <2>1
    <2>2. CASE n.by # r
      <3>1. n \in requests /\ MessageOK(n) /\ n.by \in Requests /\ n.kind \in Kinds
        BY <2>2 DEF ServiceFrame, TransportInv, TypeOK, ServiceTypeOK, Message
      <3>2. n.kind # "fetch" => n.ch \in Channels
        BY <1>1, <3>1 DEF MessageOK, Channels
      <3>3. n.kind \in OpenKinds /\ m.kind \in OpenKinds => n.ch # m.ch
        BY <2>2, <3>1 DEF TransportInv, MessageOK
      <3>5. n.kind = "landedOpen" => OpeningDeposit <= escrow'[n.ch]
        <4>1. n.kind = "landedOpen" => escrow[n.ch] \in Nat /\ escrow'[n.ch] \in Nat
          BY <3>2 DEF TransportInv, TypeOK, ServiceTypeOK
        <4>2. QED
          BY <1>4, <3>1, <3>2, <4>1, Openings DEF MessageOK
      <3>6. n.kind \in {"storedOpen", "storedVoucher", "landedTopUp"} => served'[n.ch].known
        BY <1>4, <3>1, <3>2 DEF MessageOK
      <3>7. n.kind \in OpenKinds =>
              \A k \in requests' : k.kind \in OpenKinds /\ k.ch = n.ch => k.by = n.by
        BY <1>1, <2>2, <3>1, <3>3 DEF ServiceFrame, MessageOK
      <3>8. ToppingUp(n.by) /\ n.kind = "landedTopUp" => Landed(n.by)'
        <4> SUFFICES ASSUME ToppingUp(n.by), n.kind = "landedTopUp" PROVE Landed(n.by)'
          OBVIOUS
        <4>1. Landed(n.by) /\ UNCHANGED client /\ escrow' \in [Channels -> Nat]
          BY <3>1 DEF MessageOK, ServiceFrame, TypeOK, ServiceTypeOK
        <4>2. QED
          BY <1>4, <3>1, <4>1, LandedStays
      <3>9. /\ n.kind # "fetch" => n.ch \in 1..opened'
            /\ n.kind \in OpenKinds => n.amount = Price /\ n.deposit = OpeningDeposit
            /\ n.kind \in OpenKinds \cup VoucherKinds => task'[n.by].pc \in {"paying", "done"}
            /\ task'[n.by].pc = "paying" =>
                 /\ n.ch = task'[n.by].sent.ch
                 /\ n.kind \in (IF task'[n.by].sent.kind = "open" THEN OpenKinds
                                                                 ELSE VoucherKinds)
        BY <1>2, <3>1 DEF MessageOK
      <3>10. ToppingUp(n.by)' =>
               /\ n.kind \in TopUpKinds /\ n.ch = task'[n.by].sent.ch
               /\ n.amount = task'[n.by].sent.amount
               /\ n.kind = "landedTopUp" => Landed(n.by)'
        BY <1>2, <3>1, <3>8 DEF MessageOK, ToppingUp
      <3>11. QED
        BY <3>5, <3>6, <3>7, <3>9, <3>10 DEF MessageOK
    <2>3. QED
      BY <2>1, <2>2
  <1>11. ASSUME NEW p \in replies' PROVE ReplyOK(p)'
    <2>1. CASE p.by = r
      BY <2>1
    <2>2. CASE p.by # r
      <3>1. p \in replies /\ ReplyOK(p) /\ p.by \in Requests
        BY <2>2 DEF ServiceFrame, TransportInv, TypeOK, ServiceTypeOK, Reply
      <3>2. ToppingUp(p.by) /\ p.status = "ok" => Landed(p.by)'
        <4> SUFFICES ASSUME ToppingUp(p.by), p.status = "ok" PROVE Landed(p.by)'
          OBVIOUS
        <4>1. Landed(p.by) /\ UNCHANGED client /\ escrow' \in [Channels -> Nat]
          BY <3>1 DEF ReplyOK, ServiceFrame, TypeOK, ServiceTypeOK
        <4>2. QED
          BY <1>4, <3>1, <4>1, LandedStays
      <3>3. Pending(p.by) =>
              LET c == task[p.by].sent.ch IN served[c].known => served'[c].known
        BY <1>1, <1>4, <3>1
        DEF TransportInv, TaskOK, Pending, HasPendingOpen, Channels
      <3>4. QED
        BY <1>2, <3>1, <3>2, <3>3 DEF ReplyOK, Pending, HasPendingOpen, ToppingUp
    <2>3. QED
      BY <2>1, <2>2
  <1>12. ASSUME NEW snap \in Snapshot, SnapOK(snap) PROVE SnapOK(snap)'
    <2>1. CASE snap.ch = 0
      BY <2>1 DEF SnapOK, TrueOf
    <2>2. CASE snap.ch # 0
      <3>1. snap.ch \in Channels
        BY <2>2, ClientAssumption DEF Snapshot, Channels
      <3>2. /\ escrow[snap.ch] \in Nat /\ escrow'[snap.ch] \in Nat /\ snap.deposit \in Nat
            /\ escrow[snap.ch] <= escrow'[snap.ch] /\ served'[snap.ch].known
        BY <1>4, <1>12, <2>2, <3>1 DEF SnapOK, TrueOf, TransportInv, TypeOK, ServiceTypeOK, Snapshot
      <3>3. QED
        BY <1>12, <2>2, <3>1, <3>2 DEF SnapOK, TrueOf
    <2>3. QED
      BY <2>1, <2>2
  <1>13. \A p \in replies' : SnapOK(p.snap)'
    <2> SUFFICES ASSUME NEW p \in replies' PROVE SnapOK(p.snap)'
      OBVIOUS
    <2>1. CASE p.by = r
      BY <2>1
    <2>2. CASE p.by # r
      <3>1. p \in replies /\ SnapOK(p.snap) /\ p.snap \in Snapshot
        BY <2>2 DEF ServiceFrame, TransportInv, TypeOK, ServiceTypeOK, Reply
      <3>2. QED
        BY <3>1, <1>12
    <2>3. QED
      BY <2>1, <2>2
  <1>17. \A n \in requests' : SnapOK(n.snap)'
    <2> SUFFICES ASSUME NEW n \in requests' PROVE SnapOK(n.snap)'
      OBVIOUS
    <2>1. PICK k \in requests : n.snap = k.snap
      BY DEF ServiceFrame
    <2>2. SnapOK(k.snap) /\ k.snap \in Snapshot
      BY DEF TransportInv, TypeOK, ServiceTypeOK, Message
    <2>3. QED
      BY <1>12, <2>1, <2>2
  <1>14. \A q \in Requests : SnapOK(task[q].snap)'
    <2> SUFFICES ASSUME NEW q \in Requests PROVE SnapOK(task[q].snap)'
      OBVIOUS
    <2>1. PICK snap \in Snapshot : snap = task[q].snap /\ SnapOK(snap)
      BY DEF TransportInv, TypeOK
    <2>2. SnapOK(snap)'
      BY <2>1, <1>12
    <2>3. QED
      BY <1>2, <2>1, <2>2
  <1>15. StoreInv'
    <2>1. StoreInv
      BY DEF TransportInv
    <2>2. store.ch # 0 => /\ served'[store.ch].known
                          /\ store.deposit <= escrow'[store.ch]
      <3> SUFFICES ASSUME store.ch # 0 
                   PROVE  served'[store.ch].known /\ store.deposit <= escrow'[store.ch]
        OBVIOUS
      <3>1. store.ch \in Channels /\ store.deposit \in Nat
        BY ClientAssumption DEF TransportInv, TypeOK, Entry, Channels
      <3>2. escrow[store.ch] \in Nat /\ escrow'[store.ch] \in Nat
        BY <3>1 DEF TransportInv, TypeOK, ServiceTypeOK
      <3>3. QED
        BY <1>4, <2>1, <3>1, <3>2 DEF StoreInv
    <2>3. QED
      BY <1>2, <2>1, <2>2 DEF StoreInv, Pending, HasPendingOpen
  <1>16. QED
    BY <1>2, <1>5, <1>6, <1>7, <1>8, <1>9, <1>10, <1>11, <1>13, <1>14, <1>15, <1>17
    DEF TransportInv

\* The server answers a message; a charge goes with an answer that asks for no
\* payment, or counts as one after which the request was not served.
LEMMA AnswerKeeps ==
  ASSUME TransportInv, NEW m \in requests, NEW status \in {"ok", "402", "failed"},
         NEW snap, Answer(m, status, snap),
         UNCHANGED <<client, escrow>>, faults' \in 0..MaxFaults,
         snap \in Snapshot, SnapOK(snap)',
         served' \in [Channels -> ServedRecord], charged' \in [Requests -> Nat],
         unserved' \in [Requests -> Nat],
         \A c \in Channels : ChannelOK(c)',
         \A c \in Channels : served'[c].known = served[c].known,
         m.kind = "fetch" => UNCHANGED served,
         \A c \in Channels : c # m.ch => served'[c] = served[c],
         \/ UNCHANGED <<charged, unserved>>
         \/ /\ charged' = [charged EXCEPT ![m.by] = @ + 1]
            /\ m.kind \in {"storedOpen", "voucher", "storedVoucher"}
            /\ \/ unserved' = unserved /\ status # "402"
               \/ unserved' = [unserved EXCEPT ![m.by] = @ + 1],
         status = "ok" => m.kind \in {"storedOpen", "voucher", "storedVoucher", "landedTopUp"}
  PROVE  TransportInv'
  <1> DEFINE r == m.by
  <1> DEFINE reply == [by |-> r, status |-> status, snap |-> snap]
  <1>1. /\ r \in Requests /\ MessageOK(m) /\ FlightOK(r) /\ PendingOK(r) /\ ChargeOK(r)
        /\ TaskOK(r) /\ m \in Message
    BY DEF TransportInv, TypeOK, ServiceTypeOK, Message
  <1>2. requests' = requests \ {m} /\ replies' = replies \cup {reply}
    BY DEF Answer
  <1>3. task' = task /\ store' = store /\ escrow' = escrow
    BY DEF client
  <1>4. reply \in Reply
    BY <1>1 DEF Reply
  <1>5. TypeOK'
    BY <1>2, <1>4 DEF TransportInv, TypeOK, ServiceTypeOK, client
  <1>6. \A n \in requests' : n.by # r
    BY <1>1, <1>2 DEF FlightOK
  <1>7. \A p \in replies' : p.by = r => p = reply
    BY <1>1, <1>2 DEF FlightOK
  <1>8. ServiceFrame(m)
    <2>1. \A q \in Requests \ {r} : charged'[q] = charged[q] /\ unserved'[q] = unserved[q]
      BY DEF TransportInv, TypeOK, ServiceTypeOK
    <2>2. m.ch \in Channels => escrow[m.ch] \in Nat
      BY DEF TransportInv, TypeOK, ServiceTypeOK
    <2>3. QED
      BY <1>1, <1>2, <1>6, <2>1, <2>2 DEF ServiceFrame
  <1>9. FlightOK(r)'
    BY <1>1, <1>3, <1>6, <1>7 DEF FlightOK, Silent
  <1>10. PendingOK(r)'
    BY <1>1, <1>2, <1>3, <1>6 DEF PendingOK, Pending, HasPendingOpen
  <1>11. ChargeOK(r)'
    <2>1. CASE UNCHANGED <<charged, unserved>>
      BY <1>1, <1>3, <1>6, <1>7, <2>1 DEF ChargeOK
    <2>2. CASE ~UNCHANGED <<charged, unserved>>
      <3>1. charged[r] = unserved[r] /\ charged[r] \in Nat /\ unserved[r] \in Nat
        BY <1>1 DEF ChargeOK, TransportInv, TypeOK, ServiceTypeOK
      <3>2. /\ charged'[r] = charged[r] + 1
            /\ \/ unserved'[r] = unserved[r] /\ status # "402"
               \/ unserved'[r] = unserved[r] + 1
        BY <1>1, <2>2 DEF TransportInv, TypeOK, ServiceTypeOK
      <3>3. task[r].pc \in {"paying", "done"}
        BY <1>1, <2>2 DEF MessageOK, OpenKinds, VoucherKinds
      <3>4. QED
        BY <1>3, <1>6, <1>7, <3>1, <3>2, <3>3 DEF ChargeOK
    <2>3. QED
      BY <2>1, <2>2
  <1>12. ReplyOK(reply)'
    <2>1. ToppingUp(r) /\ status = "ok" => Landed(r)
      BY <1>1 DEF MessageOK, TopUpKinds
    <2>2. Pending(r) => m.ch = task[r].sent.ch /\ m.kind \in OpenKinds
      BY <1>1 DEF MessageOK, Pending, HasPendingOpen
    <2>3. Pending(r) => m.ch \in Channels
      BY <1>1, <2>2, ClientAssumption 
      DEF MessageOK, OpenKinds, Channels, TransportInv, TypeOK
    <2>4. Pending(r) /\ status = "ok" => served[m.ch].known
      BY <1>1, <2>2 DEF MessageOK, OpenKinds
    <2>5. QED
      BY <1>3, <2>1, <2>2, <2>3, <2>4 DEF ReplyOK, Landed, Pending, HasPendingOpen, ToppingUp
  <1>13. \A p \in replies' : p.by = r => ReplyOK(p)' /\ SnapOK(p.snap)'
    BY <1>7, <1>12
  <1>14. QED
    BY <1>5, <1>6, <1>8, <1>9, <1>10, <1>11, <1>13, ServiceKeeps

\* A message moves on to the next step of its handler.
LEMMA AdvanceKeeps ==
  ASSUME TransportInv, NEW m \in requests, NEW kind \in Kinds, Advance(m, kind),
         m.kind # "fetch", kind # "fetch",
         UNCHANGED <<client, replies, faults, charged, unserved>>,
         served' \in [Channels -> ServedRecord], escrow' \in [Channels -> Nat],
         \A c \in Channels : ChannelOK(c)',
         \A c \in Channels : c # m.ch => served'[c] = served[c] /\ escrow'[c] = escrow[c],
         (served[m.ch].known => served'[m.ch].known) /\ escrow[m.ch] <= escrow'[m.ch],
         PendingOK(m.by)', MessageOK([m EXCEPT !.kind = kind])',
         kind \in OpenKinds <=> m.kind \in OpenKinds
  PROVE  TransportInv'
  <1> DEFINE r == m.by
  <1> DEFINE next == [m EXCEPT !.kind = kind]
  <1>1. /\ r \in Requests /\ MessageOK(m) /\ FlightOK(r) /\ ChargeOK(r) /\ m \in Message
    BY DEF TransportInv, TypeOK, ServiceTypeOK, Message
  <1>2. requests' = (requests \ {m}) \cup {next} /\ replies' = replies
    BY DEF Advance
  <1>3. /\ next \in Message /\ next.by = r /\ next.ch = m.ch /\ next.kind = kind
        /\ next.snap = m.snap
    BY <1>1 DEF Message
  <1>4. TypeOK'
    BY <1>2, <1>3 DEF TransportInv, TypeOK, ServiceTypeOK, client
  <1> HIDE DEF next
  <1>5. \A n \in requests' : n.by = r => n = next
    BY <1>1, <1>2 DEF FlightOK
  <1>6. ServiceFrame(m)
    BY <1>1, <1>2, <1>3, <1>5 DEF ServiceFrame
  <1>7. /\ \A p \in replies : p.by # r
        /\ task[r].pc \notin {"new", "challenged", "locked", "funded"}
    BY <1>1 DEF FlightOK, Silent
  <1>8. FlightOK(r)'
    BY <1>2, <1>5, <1>7 DEF FlightOK, client
  <1>9. ChargeOK(r)'
    BY <1>1 DEF ChargeOK, client
  <1>10. \A n \in requests' : n.by = r => MessageOK(n)'
    BY <1>5 DEF next
  <1>11. QED
    BY <1>2, <1>4, <1>6, <1>7, <1>8, <1>9, <1>10, ServiceKeeps

\* Messages and replies may be lost.
LEMMA LossKeeps ==
  ASSUME TransportInv, requests' \subseteq requests, replies' \subseteq replies,
         UNCHANGED <<client, escrow, served, charged, unserved>>, faults' \in 0..MaxFaults
  PROVE  TransportInv'
  <1>1. TypeOK'
    BY DEF TransportInv, TypeOK, ServiceTypeOK, client
  <1>2. LockInv'
    BY DEF TransportInv, LockInv, Holds, Pending, HasPendingOpen, client
  <1>3. \A r \in Requests : TaskOK(r)'
    BY DEF TransportInv, TaskOK, Covered, Pending, HasPendingOpen, ToppingUp, client
  <1>4. \A r \in Requests : FlightOK(r)'
    BY DEF TransportInv, FlightOK, Silent, client
  <1>5. \A r \in Requests : PendingOK(r)'
    BY DEF TransportInv, PendingOK, Pending, HasPendingOpen, client
  <1>6. \A r \in Requests : ChargeOK(r)'
    BY DEF TransportInv, ChargeOK, client
  <1>7. \A m \in requests' : MessageOK(m)'
    BY DEF TransportInv, MessageOK, Landed, ToppingUp, client
  <1>8. \A p \in replies' : ReplyOK(p)'
    BY DEF TransportInv, ReplyOK, Landed, ToppingUp, Pending, HasPendingOpen, client
  <1>9. \A c \in Channels : ChannelOK(c)'
    BY DEF TransportInv, ChannelOK, client
  <1>10. /\ \A p \in replies' : SnapOK(p.snap)'
         /\ \A m \in requests' : SnapOK(m.snap)'
         /\ \A r \in Requests : SnapOK(task[r].snap)'
    BY DEF TransportInv, SnapOK, client
  <1>11. StoreInv'
    BY DEF TransportInv, StoreInv, Pending, HasPendingOpen, client
  <1>12. QED
    BY <1>1, <1>2, <1>3, <1>4, <1>5, <1>6, <1>7, <1>8, <1>9, <1>10, <1>11
    DEF TransportInv, client

\* Challenges that change no record.
LEMMA ChallengeKeeps ==
  ASSUME TransportInv, NEW m \in requests, Challenge(m),
         UNCHANGED <<client, escrow, served, charged, unserved>>, faults' \in 0..MaxFaults
  PROVE  TransportInv'
  <1>1. PICK snap \in Hints(served') \cup {m.snap} : Answer(m, "402", snap)
    BY DEF Challenge
  <1>2. \A c \in Channels : ChannelOK(c)'
    BY DEF TransportInv, ChannelOK, client
  <1>3. served' \in [Channels -> ServedRecord] /\ charged' \in [Requests -> Nat]
        /\ unserved' \in [Requests -> Nat]
    BY DEF TransportInv, TypeOK, ServiceTypeOK
  <1>4. snap \in Snapshot /\ SnapOK(snap)'
    <2>1. CASE snap = m.snap
      BY <2>1 DEF TransportInv, TypeOK, ServiceTypeOK, Message, SnapOK
    <2>2. CASE snap \in Hints(served')
      BY <1>2, <1>3, <2>2, HintTrue DEF ChannelOK, SnapOK
    <2>3. QED
      BY <1>1, <2>1, <2>2
  <1>5. QED
    BY <1>1, <1>2, <1>3, <1>4, AnswerKeeps

\* What the handlers of a message may assume of it.
LEMMA MessageFacts ==
  ASSUME TransportInv, NEW m \in requests
  PROVE  /\ m \in Message /\ m.by \in Requests /\ MessageOK(m)
         /\ PendingOK(m.by) /\ TaskOK(m.by)
         /\ m.kind # "fetch" => m.ch \in Channels /\ m.ch <= opened
         /\ m.ch \in Channels => served[m.ch] \in ServedRecord /\ escrow[m.ch] \in Nat /\ ChannelOK(m.ch)
         /\ Pending(m.by) => m.kind \in OpenKinds /\ m.ch = task[m.by].sent.ch
         /\ served \in [Channels -> ServedRecord] /\ escrow \in [Channels -> Nat]
         /\ charged \in [Requests -> Nat] /\ unserved \in [Requests -> Nat]
         /\ SnapOK(m.snap) /\ opened \in 0..MaxChannels /\ MaxChannels \in Nat
  <1>1. m \in Message /\ m.by \in Requests /\ MessageOK(m) /\ PendingOK(m.by) /\ TaskOK(m.by)
    BY DEF TransportInv, TypeOK, ServiceTypeOK, Message
  <1>2. /\ served \in [Channels -> ServedRecord] /\ escrow \in [Channels -> Nat]
        /\ charged \in [Requests -> Nat] /\ unserved \in [Requests -> Nat]
        /\ SnapOK(m.snap) /\ opened \in 0..MaxChannels /\ MaxChannels \in Nat
    BY ClientAssumption DEF TransportInv, TypeOK, ServiceTypeOK
  <1>3. m.kind # "fetch" => m.ch \in Channels /\ m.ch <= opened
    BY <1>1, <1>2 DEF MessageOK, Channels
  <1>4. m.ch \in Channels => ChannelOK(m.ch)
    BY DEF TransportInv
  <1>5. Pending(m.by) => m.kind \in OpenKinds /\ m.ch = task[m.by].sent.ch
    BY <1>1 DEF MessageOK, Pending, HasPendingOpen
  <1>6. QED
    BY <1>1, <1>2, <1>3, <1>4, <1>5

\* A new record of one channel, backed by its escrow.
LEMMA NewRecord ==
  ASSUME TransportInv, UNCHANGED <<escrow, opened>>,
         NEW d \in Channels, d <= opened, NEW next \in ServedRecord,
         served' = [served EXCEPT ![d] = next],
         next.known, Price <= next.highest,
         next.deposit <= escrow[d], OpeningDeposit <= escrow[d]
  PROVE  /\ served' \in [Channels -> ServedRecord] /\ served'[d] = next
         /\ \A c \in Channels : c # d => served'[c] = served[c]
         /\ \A c \in Channels : ChannelOK(c)'
         /\ served[d].known => \A c \in Channels : served'[c].known = served[c].known
  <1>1. served \in [Channels -> ServedRecord]
    BY DEF TransportInv, TypeOK, ServiceTypeOK
  <1>2. /\ served' \in [Channels -> ServedRecord] /\ served'[d] = next
        /\ \A c \in Channels : c # d => served'[c] = served[c]
    BY <1>1
  <1>3. served[d].known => \A c \in Channels : served'[c].known = served[c].known
    BY <1>1, <1>2 DEF ServedRecord
  <1>4. \A c \in Channels : ChannelOK(c)'
    <2> SUFFICES ASSUME NEW c \in Channels PROVE ChannelOK(c)'
      OBVIOUS
    <2>1. ChannelOK(c)
      BY DEF TransportInv
    <2>2. CASE c = d
      BY <1>2, <2>2 DEF ChannelOK
    <2>3. CASE c # d
      BY <1>2, <2>1, <2>3 DEF ChannelOK
    <2>4. QED
      BY <2>2, <2>3
  <1>5. QED
    BY <1>2, <1>3, <1>4

\* The server's answer to a request that it charged.
LEMMA ChargeKeeps ==
  ASSUME TransportInv, NEW m \in requests, NEW record \in ServedRecord, Charge(m, record),
         UNCHANGED <<client, escrow>>,
         m.kind \in {"storedOpen", "voucher", "storedVoucher"},
         served[m.ch].known, record.known, Price <= record.highest,
         record.deposit <= escrow[m.ch]
  PROVE  TransportInv'
  <1>1. /\ m.ch \in Channels /\ m.ch <= opened /\ OpeningDeposit <= escrow[m.ch]
        /\ charged \in [Requests -> Nat] /\ unserved \in [Requests -> Nat]
        /\ m.by \in Requests
    BY MessageFacts DEF ChannelOK
  <1>2. PICK next \in ServedRecord :
          /\ next = [record EXCEPT !.spent = @ + Price] /\ next.known
          /\ next.highest = record.highest /\ next.deposit = record.deposit
    <2> DEFINE paid == [record EXCEPT !.spent = @ + Price]
    <2>1. paid \in ServedRecord
      BY ClientAssumption DEF ServedRecord
    <2>2. paid.known /\ paid.highest = record.highest /\ paid.deposit = record.deposit
      BY DEF ServedRecord
    <2>3. QED
      BY <2>1, <2>2
  <1>3. /\ served' = [served EXCEPT ![m.ch] = next]
        /\ charged' = [charged EXCEPT ![m.by] = @ + 1]
        /\ Serve(m) \/ AskAgain(m)
    BY <1>2 DEF Charge
  <1>4. UNCHANGED <<escrow, opened>>
    BY DEF client
  <1>5. /\ served' \in [Channels -> ServedRecord] /\ served'[m.ch] = next
        /\ \A c \in Channels : c # m.ch => served'[c] = served[c]
        /\ \A c \in Channels : ChannelOK(c)'
        /\ \A c \in Channels : served'[c].known = served[c].known
    BY <1>1, <1>2, <1>3, <1>4, NewRecord
  <1>6. charged' \in [Requests -> Nat]
    <2>1. charged[m.by] \in Nat
      BY <1>1
    <2>2. QED
      BY <1>1, <1>3, <2>1
  <1>7. CASE Serve(m)
    <2>1. unserved' = unserved /\ faults' \in 0..MaxFaults /\ unserved' \in [Requests -> Nat]
      BY <1>1, <1>7 DEF Serve, TransportInv, TypeOK, ServiceTypeOK
    <2>2. CASE Answer(m, "ok", SnapshotOf(served', m.ch))
      <3>1. PICK snap : snap = SnapshotOf(served', m.ch)
        OBVIOUS
      <3>2. snap \in Snapshot /\ SnapOK(snap)'
        BY <1>1, <1>2, <1>5, <3>1, HintTrue DEF ChannelOK, SnapOK
      <3>3. QED
        BY <1>3, <1>4, <1>5, <1>6, <2>1, <2>2, <3>1, <3>2, AnswerKeeps
    <2>3. CASE Answer(m, "failed", NoSnapshot)
      <3>1. NoSnapshot \in Snapshot /\ SnapOK(NoSnapshot)'
        BY ClientAssumption DEF NoSnapshot, Snapshot, SnapOK, TrueOf
      <3>2. QED
        BY <1>3, <1>4, <1>5, <1>6, <2>1, <2>3, <3>1, AnswerKeeps
    <2>4. QED
      BY <1>7, <2>2, <2>3 DEF Serve
  <1>8. CASE AskAgain(m)
    <2>1. /\ unserved' = [unserved EXCEPT ![m.by] = @ + 1] /\ Answer(m, "402", m.snap)
          /\ faults' \in 0..MaxFaults
      BY <1>8, ServiceAssumption DEF AskAgain, TransportInv, TypeOK, ServiceTypeOK
    <2>2. unserved' \in [Requests -> Nat]
      <3>1. unserved[m.by] \in Nat
        BY <1>1
      <3>2. QED
        BY <1>1, <2>1, <3>1
    <2>3. m.snap \in Snapshot /\ SnapOK(m.snap)
      BY MessageFacts DEF Message
    <2>4. m.snap.ch # 0 => m.snap.ch \in Channels
      BY <2>3, ClientAssumption DEF Snapshot, Channels
    <2>5. SnapOK(m.snap)'
      BY <1>4, <1>5, <2>3, <2>4 DEF SnapOK, TrueOf
    <2>6. QED
      BY <1>3, <1>4, <1>5, <1>6, <2>1, <2>2, <2>3, <2>5, AnswerKeeps
  <1>9. QED
    BY <1>3, <1>7, <1>8

LEMMA StepChallengeFetch ==
  ASSUME TransportInv, UNCHANGED client, NEW m \in requests, ChallengeFetch(m)
  PROVE  TransportInv'
  <1>1. UNCHANGED <<escrow, served, charged, unserved>> /\ faults' \in 0..MaxFaults
    BY DEF ChallengeFetch, TransportInv, TypeOK, ServiceTypeOK
  <1>2. QED
    BY <1>1, ChallengeKeeps DEF ChallengeFetch

LEMMA StepOpenLands ==
  ASSUME TransportInv, UNCHANGED client, NEW m \in requests, OpenLands(m)
  PROVE  TransportInv'
  <1> USE MessageFacts
  <1>1. /\ m.kind = "open" /\ m.ch \in Channels /\ escrow[m.ch] \in Nat
        /\ m.deposit = OpeningDeposit /\ OpeningDeposit \in Nat
    BY Openings DEF OpenLands, MessageOK, OpenKinds
  <1>2. /\ escrow' = [escrow EXCEPT ![m.ch] = Larger(escrow[m.ch], OpeningDeposit)]
        /\ served' = served /\ Advance(m, "landedOpen")
        /\ UNCHANGED <<replies, faults, charged, unserved>>
    BY <1>1 DEF OpenLands
  <1>3. /\ escrow' \in [Channels -> Nat] /\ escrow[m.ch] <= escrow'[m.ch]
        /\ OpeningDeposit <= escrow'[m.ch]
        /\ \A c \in Channels : c # m.ch => escrow'[c] = escrow[c]
    <2>1. /\ Larger(escrow[m.ch], OpeningDeposit) \in Nat
          /\ escrow[m.ch] <= Larger(escrow[m.ch], OpeningDeposit)
          /\ OpeningDeposit <= Larger(escrow[m.ch], OpeningDeposit)
      BY <1>1 DEF Larger
    <2>2. QED
      BY <1>1, <1>2, <2>1
  <1>4. \A c \in Channels : ChannelOK(c)'
    <2> SUFFICES ASSUME NEW c \in Channels PROVE ChannelOK(c)'
      OBVIOUS
    <2>1. /\ ChannelOK(c) /\ served[c] \in ServedRecord /\ escrow[c] <= escrow'[c]
          /\ escrow[c] \in Nat /\ escrow'[c] \in Nat /\ served[c].deposit \in Nat
      BY <1>3 DEF TransportInv, ServedRecord
    <2>2. QED
      BY <1>1, <1>2, <2>1 DEF ChannelOK, client
  <1>5. PendingOK(m.by)'
    <2>1. ASSUME NEW n \in requests', n # [m EXCEPT !.kind = "landedOpen"] PROVE n \in requests
      BY <2>1 DEF OpenLands, Advance
    <2>2. /\ [m EXCEPT !.kind = "landedOpen"].by = m.by
          /\ [m EXCEPT !.kind = "landedOpen"].kind = "landedOpen"
      BY DEF Message
    <2>3. QED
      BY <1>2, <2>1, <2>2 DEF PendingOK, Pending, HasPendingOpen, client
  <1>6. MessageOK([m EXCEPT !.kind = "landedOpen"])'
    <2>1. PICK n \in Message : n = [m EXCEPT !.kind = "landedOpen"]
      BY DEF Message, Kinds
    <2>2. /\ n.by = m.by /\ n.kind = "landedOpen" /\ n.ch = m.ch /\ n.amount = m.amount
          /\ n.deposit = m.deposit
      BY <2>1 DEF Message
    <2>3. requests' = (requests \ {m}) \cup {n}
      BY <2>1 DEF OpenLands, Advance
    <2>4. \A k \in requests' : k.kind \in OpenKinds /\ k.ch = m.ch => k.by = m.by
      BY <1>1, <2>2, <2>3 DEF MessageOK, OpenKinds
    <2>5. MessageOK(n)'
      BY <1>1, <1>2, <1>3, <2>2, <2>4
      DEF MessageOK, OpenKinds, VoucherKinds, TopUpKinds, ToppingUp, client
    <2>6. QED
      BY <2>1, <2>5
  <1>7. "landedOpen" \in Kinds /\ "landedOpen" \in OpenKinds /\ m.kind \in OpenKinds
    BY <1>1 DEF Kinds, OpenKinds
  <1>8. QED
    BY <1>1, <1>2, <1>3, <1>4, <1>5, <1>6, <1>7, AdvanceKeeps

LEMMA StepRecordOpened ==
  ASSUME TransportInv, UNCHANGED client, NEW m \in requests, RecordOpened(m)
  PROVE  TransportInv'
  <1> USE MessageFacts
  <1>1. /\ m.kind = "landedOpen" /\ m.ch \in Channels /\ m.ch <= opened
        /\ m.amount = Price /\ OpeningDeposit <= escrow[m.ch] /\ Price \in Nat
        /\ served[m.ch] \in ServedRecord /\ escrow[m.ch] \in Nat
    BY ClientAssumption DEF RecordOpened, MessageOK, OpenKinds
  <1>2. CASE m.amount > served[m.ch].highest
    <2> DEFINE new == [served[m.ch] EXCEPT !.known = TRUE, !.highest = m.amount,
                                           !.deposit = escrow[m.ch]]
    <2>1. /\ served' = [served EXCEPT ![m.ch] = new] /\ escrow' = escrow
          /\ Advance(m, "storedOpen") /\ UNCHANGED <<replies, faults, charged, unserved>>
      BY <1>2 DEF RecordOpened
    <2>2. /\ new \in ServedRecord /\ new.known /\ Price <= new.highest
          /\ new.deposit <= escrow[m.ch]
      <3>1. new \in ServedRecord /\ new.known /\ new.highest = Price
            /\ new.deposit = escrow[m.ch]
        BY <1>1 DEF ServedRecord
      <3>2. QED
        BY <1>1, <3>1
    <2> HIDE DEF new
    <2>3. UNCHANGED <<escrow, opened>>
      BY <2>1 DEF client
    <2>4. /\ served' \in [Channels -> ServedRecord] /\ served'[m.ch] = new
          /\ \A c \in Channels : c # m.ch => served'[c] = served[c]
          /\ \A c \in Channels : ChannelOK(c)'
      BY <1>1, <2>1, <2>2, <2>3, NewRecord
    <2>5. PICK n \in Message : n = [m EXCEPT !.kind = "storedOpen"]
      BY DEF Message, Kinds
    <2>6. /\ n.by = m.by /\ n.kind = "storedOpen" /\ n.ch = m.ch /\ n.amount = m.amount
          /\ n.deposit = m.deposit
      BY <2>5 DEF Message
    <2>7. requests' = (requests \ {m}) \cup {n}
      BY <2>1, <2>5 DEF Advance
    <2>8. PendingOK(m.by)'
      BY <2>6, <2>7 DEF PendingOK, Pending, HasPendingOpen, client
    <2>9. MessageOK(n)'
      <3>1. \A k \in requests' : k.kind \in OpenKinds /\ k.ch = m.ch => k.by = m.by
        BY <1>1, <2>6, <2>7 DEF MessageOK, OpenKinds
      <3>2. QED
        BY <1>1, <2>2, <2>4, <2>6, <3>1
        DEF MessageOK, OpenKinds, VoucherKinds, TopUpKinds, ToppingUp, client
    <2>10. "storedOpen" \in Kinds /\ "storedOpen" \in OpenKinds /\ m.kind \in OpenKinds
      BY <1>1 DEF Kinds, OpenKinds
    <2>11. QED
      BY <1>1, <2>1, <2>2, <2>4, <2>5, <2>8, <2>9, <2>10, AdvanceKeeps
  <1>3. CASE ~(m.amount > served[m.ch].highest)
    <2>1. UNCHANGED <<escrow, served, charged, unserved>> /\ faults' \in 0..MaxFaults
      BY <1>3 DEF RecordOpened, TransportInv, TypeOK, ServiceTypeOK
    <2>2. QED
      BY <1>3, <2>1, ChallengeKeeps DEF RecordOpened
  <1>4. QED
    BY <1>2, <1>3

LEMMA StepChargeAccepted ==
  ASSUME TransportInv, UNCHANGED client, NEW m \in requests, ChargeAccepted(m)
  PROVE  TransportInv'
  <1>1. /\ m.kind \in {"storedOpen", "storedVoucher"} /\ served[m.ch].known
        /\ served[m.ch] \in ServedRecord /\ ChannelOK(m.ch)
    BY MessageFacts DEF ChargeAccepted, MessageOK
  <1>2. CASE Covers(served[m.ch], Price)
    <2>1. Charge(m, served[m.ch]) /\ escrow' = escrow
      BY <1>2 DEF ChargeAccepted
    <2>2. QED
      BY <1>1, <2>1, ChargeKeeps DEF ChannelOK
  <1>3. CASE ~Covers(served[m.ch], Price)
    <2>1. UNCHANGED <<client, escrow, served, charged, unserved>> /\ faults' \in 0..MaxFaults
      BY <1>3 DEF ChargeAccepted, TransportInv, TypeOK, ServiceTypeOK
    <2>2. QED
      BY <1>3, <2>1, ChallengeKeeps DEF ChargeAccepted
  <1>4. QED
    BY <1>2, <1>3

\* The record after a voucher was accepted.
LEMMA AcceptedFacts ==
  ASSUME TransportInv, NEW m \in requests, m.kind = "voucher",
         NEW deposit \in {served[m.ch].deposit, escrow[m.ch]},
         VoucherAdvances(served[m.ch], deposit, m.amount)
  PROVE  LET next == Accepted(served[m.ch], deposit, m.amount) IN
         /\ next \in ServedRecord /\ next.known /\ Price <= next.highest
         /\ next.deposit <= escrow[m.ch]
         /\ served[m.ch].known /\ m.ch \in Channels /\ m.ch <= opened
         /\ OpeningDeposit <= escrow[m.ch]
  <1> USE MessageFacts
  <1>1. /\ m.ch \in Channels /\ m.ch <= opened /\ m.amount \in Nat /\ ChannelOK(m.ch)
        /\ served[m.ch] \in ServedRecord /\ escrow[m.ch] \in Nat /\ Price \in Nat
    BY ClientAssumption DEF Message
  <1>2. /\ served[m.ch].known /\ m.amount > served[m.ch].highest
        /\ deposit \in Nat /\ deposit <= escrow[m.ch]
        /\ served[m.ch].deposit \in Nat /\ served[m.ch].deposit <= escrow[m.ch]
        /\ served[m.ch].highest \in Nat /\ Price <= served[m.ch].highest
        /\ OpeningDeposit <= escrow[m.ch]
    BY <1>1 DEF VoucherAdvances, ChannelOK, ServedRecord
  <1>3. PICK d \in Nat : d = Larger(served[m.ch].deposit, deposit) /\ d <= escrow[m.ch]
    BY <1>1, <1>2 DEF Larger
  <1>4. Accepted(served[m.ch], deposit, m.amount) =
          [served[m.ch] EXCEPT !.highest = m.amount, !.deposit = d]
    BY <1>3 DEF Accepted
  <1>5. PICK next : next = [served[m.ch] EXCEPT !.highest = m.amount, !.deposit = d]
    OBVIOUS
  <1>6. next \in ServedRecord /\ next.known /\ next.highest = m.amount /\ next.deposit = d
    BY <1>1, <1>2, <1>3, <1>5 DEF ServedRecord
  <1>7. Price <= next.highest /\ next.deposit <= escrow[m.ch]
    BY <1>1, <1>2, <1>3, <1>6
  <1>8. QED
    BY <1>1, <1>2, <1>4, <1>5, <1>6, <1>7

LEMMA StepAcceptVoucher ==
  ASSUME TransportInv, UNCHANGED client, NEW m \in requests, AcceptVoucher(m)
  PROVE  TransportInv'
  <1> USE MessageFacts
  <1>1. /\ m.kind = "voucher" /\ Advance(m, "storedVoucher") /\ escrow' = escrow
        /\ UNCHANGED <<client, replies, faults, charged, unserved>>
    BY DEF AcceptVoucher
  <1>2. PICK deposit \in {served[m.ch].deposit, escrow[m.ch]} :
          /\ VoucherAdvances(served[m.ch], deposit, m.amount)
          /\ served' = [served EXCEPT ![m.ch] =
                          Accepted(served[m.ch], deposit, m.amount)]
    BY DEF AcceptVoucher
  <1>3. PICK next : next = Accepted(served[m.ch], deposit, m.amount)
    OBVIOUS
  <1>4. /\ next \in ServedRecord /\ next.known /\ Price <= next.highest
        /\ next.deposit <= escrow[m.ch]
        /\ served[m.ch].known /\ m.ch \in Channels /\ m.ch <= opened
        /\ OpeningDeposit <= escrow[m.ch]
    BY <1>1, <1>2, <1>3, AcceptedFacts
  <1>5. UNCHANGED <<escrow, opened>>
    BY <1>1 DEF client
  <1>6. /\ served' \in [Channels -> ServedRecord] /\ served'[m.ch] = next
        /\ \A c \in Channels : c # m.ch => served'[c] = served[c]
        /\ \A c \in Channels : ChannelOK(c)'
    BY <1>2, <1>3, <1>4, <1>5, NewRecord
  <1>7. PICK n \in Message : n = [m EXCEPT !.kind = "storedVoucher"]
    BY DEF Message, Kinds
  <1>8. n.by = m.by /\ n.kind = "storedVoucher" /\ n.ch = m.ch
    BY <1>7 DEF Message
  <1>9. PendingOK(m.by)'
    <2>1. ~Pending(m.by)
      BY <1>1 DEF OpenKinds
    <2>2. QED
      BY <1>1, <2>1 DEF PendingOK, Pending, HasPendingOpen, client
  <1>10. MessageOK(n)'
    BY <1>1, <1>4, <1>6, <1>8
    DEF MessageOK, OpenKinds, VoucherKinds, TopUpKinds, ToppingUp, client
  <1>11. "storedVoucher" \in Kinds /\ "storedVoucher" \notin OpenKinds /\ m.kind \notin OpenKinds
    BY <1>1 DEF Kinds, OpenKinds
  <1>12. escrow' \in [Channels -> Nat] /\ escrow[m.ch] <= escrow'[m.ch]
    BY <1>1, <1>4
  <1>13. QED
    BY <1>1, <1>4, <1>6, <1>7, <1>9, <1>10, <1>11, <1>12, AdvanceKeeps

LEMMA StepAcceptPaidVoucher ==
  ASSUME TransportInv, UNCHANGED client, NEW m \in requests, AcceptPaidVoucher(m)
  PROVE  TransportInv'
  <1>1. m.kind = "voucher" /\ m.kind # "fetch" /\ escrow' = escrow
    BY DEF AcceptPaidVoucher
  <1>2. PICK deposit \in {served[m.ch].deposit, escrow[m.ch]} :
          /\ VoucherAdvances(served[m.ch], deposit, m.amount)
          /\ LET next == Accepted(served[m.ch], deposit, m.amount) IN
             IF Covers(next, Price)
             THEN Charge(m, next)
             ELSE /\ served' = [served EXCEPT ![m.ch] = next]
                  /\ UNCHANGED <<faults, charged, unserved>>
                  /\ Challenge(m)
    BY DEF AcceptPaidVoucher
  <1>3. PICK next : next = Accepted(served[m.ch], deposit, m.amount)
    OBVIOUS
  <1>4. /\ next \in ServedRecord /\ next.known /\ Price <= next.highest
        /\ next.deposit <= escrow[m.ch]
        /\ served[m.ch].known /\ m.ch \in Channels /\ m.ch <= opened
        /\ OpeningDeposit <= escrow[m.ch]
    BY <1>1, <1>2, <1>3, AcceptedFacts
  <1>5. CASE Covers(next, Price)
    <2>1. Charge(m, next)
      BY <1>2, <1>3, <1>5
    <2>2. QED
      BY <1>1, <1>4, <2>1, ChargeKeeps
  <1>6. CASE ~Covers(next, Price)
    <2>1. /\ served' = [served EXCEPT ![m.ch] = next] /\ Challenge(m)
          /\ UNCHANGED <<faults, charged, unserved>>
      BY <1>2, <1>3, <1>6
    <2>2. UNCHANGED <<escrow, opened>> /\ faults' \in 0..MaxFaults
      BY <1>1, <2>1 DEF client, TransportInv, TypeOK, ServiceTypeOK
    <2>3. /\ served' \in [Channels -> ServedRecord] /\ served'[m.ch] = next
          /\ \A c \in Channels : c # m.ch => served'[c] = served[c]
          /\ \A c \in Channels : ChannelOK(c)'
          /\ \A c \in Channels : served'[c].known = served[c].known
      BY <1>4, <2>1, <2>2, NewRecord
    <2>4. PICK snap \in Hints(served') \cup {m.snap} : Answer(m, "402", snap)
      BY <2>1 DEF Challenge
    <2>5. charged' \in [Requests -> Nat] /\ unserved' \in [Requests -> Nat]
      BY <2>1, MessageFacts
    <2>6. CASE snap = m.snap
      <3>1. m.snap \in Snapshot /\ SnapOK(m.snap)
        BY MessageFacts DEF Message
      <3>2. m.snap.ch # 0 => m.snap.ch \in Channels
        BY <3>1, ClientAssumption DEF Snapshot, Channels
      <3>3. snap \in Snapshot /\ SnapOK(snap)'
        BY <2>2, <2>3, <2>6, <3>1, <3>2 DEF SnapOK, TrueOf
      <3>4. QED
        BY <1>1, <2>1, <2>2, <2>3, <2>4, <2>5, <3>3, AnswerKeeps
    <2>7. CASE snap \in Hints(served')
      <3>1. snap \in Snapshot /\ SnapOK(snap)'
        BY <2>3, <2>7, HintTrue DEF ChannelOK, SnapOK
      <3>2. QED
        BY <1>1, <2>1, <2>2, <2>3, <2>4, <2>5, <3>1, AnswerKeeps
    <2>8. QED
      BY <2>4, <2>6, <2>7
  <1>7. QED
    BY <1>5, <1>6

LEMMA StepRefuseVoucher ==
  ASSUME TransportInv, UNCHANGED client, NEW m \in requests, RefuseVoucher(m)
  PROVE  TransportInv'
  <1>1. UNCHANGED <<escrow, served, charged, unserved>> /\ faults' \in 0..MaxFaults
    BY DEF RefuseVoucher, TransportInv, TypeOK, ServiceTypeOK
  <1>2. QED
    BY <1>1, ChallengeKeeps DEF RefuseVoucher

LEMMA StepTopUpLands ==
  ASSUME TransportInv, UNCHANGED client, NEW m \in requests, TopUpLands(m)
  PROVE  TransportInv'
  <1> USE MessageFacts
  <1>1. /\ m.kind = "topUp" /\ m.ch \in Channels /\ served[m.ch].known /\ m.amount \in Nat
        /\ escrow[m.ch] \in Nat /\ ~Pending(m.by) /\ m.ch <= opened /\ m.ch >= 1
    <2>1. m.kind = "topUp" /\ served[m.ch].known
      BY DEF TopUpLands
    <2>2. m.ch \in Channels /\ m.ch <= opened /\ escrow[m.ch] \in Nat /\ m \in Message
      BY <2>1
    <2>3. ~Pending(m.by)
      BY <2>1 DEF OpenKinds
    <2>4. m.ch >= 1 /\ m.amount \in Nat
      BY <2>2 DEF Channels, Message
    <2>5. QED
      BY <2>1, <2>2, <2>3, <2>4
  <1>2. /\ escrow' = [escrow EXCEPT ![m.ch] = escrow[m.ch] + m.amount] /\ served' = served
        /\ Advance(m, "landedTopUp") /\ UNCHANGED <<replies, faults, charged, unserved>>
    BY DEF TopUpLands
  <1>3. /\ escrow' \in [Channels -> Nat] /\ escrow'[m.ch] = escrow[m.ch] + m.amount
        /\ \A c \in Channels : c # m.ch => escrow'[c] = escrow[c]
    BY <1>1, <1>2
  <1>4. \A c \in Channels : ChannelOK(c)'
    <2> SUFFICES ASSUME NEW c \in Channels PROVE ChannelOK(c)'
      OBVIOUS
    <2>1. ChannelOK(c) /\ served[c] \in ServedRecord /\ escrow[c] <= escrow'[c]
          /\ escrow[c] \in Nat /\ escrow'[c] \in Nat /\ served[c].deposit \in Nat
          /\ OpeningDeposit \in Nat
      BY <1>1, <1>3, Openings DEF TransportInv, ServedRecord
    <2>2. QED
      BY <1>2, <2>1 DEF ChannelOK, client
  <1>5. PICK n \in Message : n = [m EXCEPT !.kind = "landedTopUp"]
    BY DEF Message, Kinds
  <1>6. /\ n.by = m.by /\ n.kind = "landedTopUp" /\ n.ch = m.ch /\ n.amount = m.amount
    BY <1>5 DEF Message
  <1>7. PendingOK(m.by)'
    BY <1>1 DEF PendingOK, Pending, HasPendingOpen, client
  <1>8. MessageOK(n)'
    <2>1. task[m.by].pc # "paying"
      BY <1>1 DEF MessageOK, OpenKinds, VoucherKinds
    <2>2. ASSUME ToppingUp(m.by) PROVE Landed(m.by)'
      <3>1. /\ m.ch = task[m.by].sent.ch /\ m.amount = task[m.by].sent.amount
            /\ m.ch = store.ch /\ store.ch # 0
        BY <2>2 DEF MessageOK, TaskOK
      <3>2. KnownDeposit(store, task[m.by].snap) <= escrow[store.ch]
        <4>1. store \in Entry /\ task[m.by].snap \in Snapshot /\ SnapOK(task[m.by].snap)
              /\ store.deposit <= escrow[store.ch]
          BY <3>1 DEF TransportInv, TypeOK, StoreInv
        <4>2. QED
          BY <3>1, <4>1 DEF KnownDeposit, Larger, SnapOK, TrueOf
      <3>3. KnownDeposit(store, task[m.by].snap) \in Nat
        BY DEF KnownDeposit, Larger, Entry, Snapshot, TransportInv, TypeOK
      <3>4. KnownDeposit(store, task[m.by].snap) + m.amount <= escrow'[m.ch]
        BY <1>1, <1>3, <3>1, <3>2, <3>3
      <3>5. QED
        BY <3>1, <3>4 DEF Landed, client
    <2>3. QED
      BY <1>1, <1>2, <1>6, <2>1, <2>2
      DEF MessageOK, OpenKinds, VoucherKinds, TopUpKinds, ToppingUp, client
  <1>9. "landedTopUp" \in Kinds /\ "landedTopUp" \notin OpenKinds /\ m.kind \notin OpenKinds
    BY <1>1 DEF Kinds, OpenKinds
  <1>10. escrow[m.ch] <= escrow'[m.ch]
    BY <1>1, <1>3
  <1>11. QED
    BY <1>1, <1>2, <1>3, <1>4, <1>5, <1>7, <1>8, <1>9, <1>10, AdvanceKeeps

LEMMA StepRecordToppedUp ==
  ASSUME TransportInv, UNCHANGED client, NEW m \in requests, RecordToppedUp(m)
  PROVE  TransportInv'
  <1>1. /\ m.kind = "landedTopUp" /\ m.ch \in Channels /\ served[m.ch].known
        /\ served[m.ch] \in ServedRecord /\ escrow[m.ch] \in Nat /\ ~Pending(m.by)
    BY MessageFacts DEF RecordToppedUp, MessageOK, OpenKinds
  <1>2. PICK new \in ServedRecord :
          /\ new = [served[m.ch] EXCEPT !.deposit = Larger(@, escrow[m.ch])]
          /\ new.known /\ new.highest = served[m.ch].highest
          /\ new.deposit = Larger(served[m.ch].deposit, escrow[m.ch])
    <2> DEFINE next == [served[m.ch] EXCEPT !.deposit = Larger(@, escrow[m.ch])]
    <2>1. next \in ServedRecord
      BY <1>1 DEF ServedRecord, Larger
    <2>2. /\ next.known /\ next.highest = served[m.ch].highest
          /\ next.deposit = Larger(served[m.ch].deposit, escrow[m.ch])
      BY <1>1 DEF ServedRecord
    <2>3. QED
      BY <2>1, <2>2
  <1>3. served' = [served EXCEPT ![m.ch] = new] /\ UNCHANGED <<escrow, faults, charged, unserved>>
    BY <1>2 DEF RecordToppedUp
  <1>4. /\ served' \in [Channels -> ServedRecord] /\ served'[m.ch] = new
        /\ \A c \in Channels : c # m.ch => served'[c] = served[c]
    BY <1>1, <1>2, <1>3, MessageFacts
  <1>5. \A c \in Channels : served'[c].known = served[c].known
    BY <1>1, <1>2, <1>4 DEF ServedRecord
  <1>6. \A c \in Channels : ChannelOK(c)'
    <2> SUFFICES ASSUME NEW c \in Channels PROVE ChannelOK(c)'
      OBVIOUS
    <2>1. ChannelOK(c)
      BY DEF TransportInv
    <2>2. new.deposit <= escrow[m.ch]
      BY <1>1, <1>2, MessageFacts DEF Larger, ChannelOK, ServedRecord
    <2>3. QED
      BY <1>1, <1>2, <1>3, <1>4, <2>1, <2>2 DEF ChannelOK, client
  <1>7. PICK snap : snap = SnapshotOf(served', m.ch)
    OBVIOUS
  <1>8. snap \in Snapshot /\ SnapOK(snap)'
    BY <1>1, <1>2, <1>4, <1>6, <1>7, HintTrue DEF ChannelOK, SnapOK
  <1>9. /\ charged' \in [Requests -> Nat] /\ unserved' \in [Requests -> Nat]
        /\ faults' \in 0..MaxFaults
    BY <1>3 DEF TransportInv, TypeOK, ServiceTypeOK
  <1>10. Answer(m, "ok", snap)
    BY <1>7 DEF RecordToppedUp
  <1>11. QED
    BY <1>1, <1>3, <1>4, <1>5, <1>6, <1>8, <1>9, <1>10, AnswerKeeps

LEMMA StepRefuseTopUp ==
  ASSUME TransportInv, UNCHANGED client, NEW m \in requests, RefuseTopUp(m)
  PROVE  TransportInv'
  <1>1. UNCHANGED <<escrow, served, charged, unserved>> /\ faults' \in 0..MaxFaults
    BY DEF RefuseTopUp, TransportInv, TypeOK, ServiceTypeOK
  <1>2. QED
    BY <1>1, ChallengeKeeps DEF RefuseTopUp

LEMMA StepRefuseTransaction ==
  ASSUME TransportInv, UNCHANGED client, NEW m \in requests, RefuseTransaction(m)
  PROVE  TransportInv'
  <1>1. UNCHANGED <<escrow, served, charged, unserved>> /\ faults' \in 0..MaxFaults
    BY ServiceAssumption DEF RefuseTransaction, TransportInv, TypeOK, ServiceTypeOK
  <1>2. QED
    BY <1>1, ChallengeKeeps DEF RefuseTransaction

LEMMA StepFailRequest ==
  ASSUME TransportInv, UNCHANGED client, NEW m \in requests, FailRequest(m)
  PROVE  TransportInv'
  <1>1. /\ UNCHANGED <<escrow, served, charged, unserved>> /\ faults' \in 0..MaxFaults
        /\ Answer(m, "failed", NoSnapshot)
    BY ServiceAssumption DEF FailRequest, TransportInv, TypeOK, ServiceTypeOK
  <1>2. NoSnapshot \in Snapshot /\ SnapOK(NoSnapshot)'
    BY ClientAssumption DEF NoSnapshot, Snapshot, SnapOK, TrueOf
  <1>3. \A c \in Channels : ChannelOK(c)'
    BY <1>1 DEF TransportInv, ChannelOK, client
  <1>4. /\ served' \in [Channels -> ServedRecord] /\ charged' \in [Requests -> Nat]
        /\ unserved' \in [Requests -> Nat]
    BY <1>1 DEF TransportInv, TypeOK, ServiceTypeOK
  <1>5. QED
    BY <1>1, <1>2, <1>3, <1>4, AnswerKeeps

\* Every step of the service keeps the invariant.
LEMMA ServiceStep ==
  ASSUME TransportInv, ServiceNext, UNCHANGED client
  PROVE  TransportInv'
  <1>1. ASSUME NEW m \in requests,
               \/ ChallengeFetch(m) \/ OpenLands(m) \/ RecordOpened(m) \/ ChargeAccepted(m)
               \/ AcceptVoucher(m) \/ AcceptPaidVoucher(m) \/ RefuseVoucher(m)
               \/ TopUpLands(m) \/ RecordToppedUp(m) \/ RefuseTopUp(m)
               \/ RefuseTransaction(m) \/ FailRequest(m)
        PROVE  TransportInv'
    BY <1>1, StepChallengeFetch, StepOpenLands, StepRecordOpened, StepChargeAccepted,
       StepAcceptVoucher, StepAcceptPaidVoucher, StepRefuseVoucher, StepTopUpLands,
       StepRecordToppedUp, StepRefuseTopUp, StepRefuseTransaction, StepFailRequest
  <1>2. ASSUME NEW m \in requests, LoseRequest(m)
        PROVE  TransportInv'
    BY <1>2, ServiceAssumption, LossKeeps
    DEF LoseRequest, TransportInv, TypeOK, ServiceTypeOK
  <1>3. ASSUME NEW p \in replies, LoseReply(p)
        PROVE  TransportInv'
    BY <1>3, ServiceAssumption, LossKeeps
    DEF LoseReply, TransportInv, TypeOK, ServiceTypeOK
  <1>4. QED
    BY <1>1, <1>2, <1>3 DEF ServiceNext

-----------------------------------------------------------------------------
(* Steps of a request.                                                     *)

\* What a step of the request r leaves alone; it writes the store, or sends
\* what it has not sent before, only under the lock.
RequestFrame(r) ==
  /\ UNCHANGED <<escrow, served, faults, charged, unserved>>
  /\ \A q \in Requests \ {r} : task'[q] = task[q]
  /\ \A n \in requests' : n.by # r => n \in requests
  /\ \A n \in requests' : n \in requests \/ n.snap = NoSnapshot \/ SnapOK(n.snap)
  /\ replies' \subseteq replies
  /\ opened <= opened'
  /\ scope' \ {r} = scope \ {r} /\ (r \in scope' => r \in scope \/ scope = {})
  /\ store' = store \/ Holds(r)
  /\ \/ Holds(r)
     \/ /\ \A n \in requests' : n \in requests \/ n.kind = "fetch" \/ n = task[r].sent
        /\ task'[r].sent \in {task[r].sent, NoCredential}
  /\ \A k \in requests' : k.by = r /\ k.kind \in OpenKinds =>
       \A n \in requests : n.kind \in OpenKinds /\ n.ch = k.ch => n.by = r

LEMMA RequestKeeps ==
  ASSUME TransportInv, NEW r \in Requests, RequestFrame(r), TypeOK',
         (task \in [Requests -> TaskRecord])',
         (r \in scope)' <=> Holds(r)',
         TaskOK(r)', FlightOK(r)', PendingOK(r)', ChargeOK(r)',
         SnapOK(task[r].snap)',
         \A n \in requests' : n.by = r => MessageOK(n)',
         \A p \in replies' : p.by = r => ReplyOK(p)',
         StoreInv'
  PROVE  TransportInv'
  <1>1. /\ UNCHANGED <<escrow, served, faults, charged, unserved>>
        /\ opened <= opened' /\ opened \in Nat /\ opened' \in Nat
        /\ replies' \subseteq replies /\ NoCredential.ch = 0
    BY ClientAssumption DEF RequestFrame, TransportInv, TypeOK, NoCredential
  <1>2. \A q \in Requests \ {r} :
          /\ task'[q] = task[q]
          /\ TaskOK(q) /\ FlightOK(q) /\ PendingOK(q) /\ ChargeOK(q)
    BY DEF RequestFrame, TransportInv
  <1>3. \A q \in Requests \ {r} : Holds(q) => store' = store /\ ~Holds(r)
    BY DEF RequestFrame, TransportInv, LockInv
  <1>4. LockInv'
    <2>1. \A q \in Requests : (q \in scope)' <=> Holds(q)'
      <3> SUFFICES ASSUME NEW q \in Requests PROVE (q \in scope)' <=> Holds(q)'
        OBVIOUS
      <3>1. CASE q = r
        BY <3>1
      <3>2. CASE q # r
        <4>1. q \in scope' <=> q \in scope
          BY <3>2 DEF RequestFrame
        <4>2. Holds(q)' <=> Holds(q)
          BY <1>2, <3>2 DEF Holds, Pending, HasPendingOpen
        <4>3. QED
          BY <4>1, <4>2 DEF TransportInv, LockInv
      <3>3. QED
        BY <3>1, <3>2
    <2>2. \A q, k \in scope' : q = k
      BY DEF RequestFrame, TransportInv, LockInv
    <2>3. QED
      BY <2>1, <2>2 DEF LockInv
  <1>5. ASSUME NEW q \in Requests PROVE TaskOK(q)'
    <2>1. CASE q # r /\ Holds(q)
      BY <1>1, <1>2, <1>3, <2>1 DEF TaskOK, Covered, Pending, HasPendingOpen, ToppingUp
    <2>2. CASE q # r /\ ~Holds(q)
      BY <1>1, <1>2, <2>2 DEF TaskOK, Holds, Pending, HasPendingOpen, ToppingUp
    <2>3. QED
      BY <2>1, <2>2
  <1>6. ASSUME NEW q \in Requests PROVE FlightOK(q)'
    <2>1. CASE q # r
      <3>1. \A n \in requests' : n.by = q => n \in requests
        BY <2>1 DEF RequestFrame
      <3>2. QED
        BY <1>1, <1>2, <2>1, <3>1 DEF FlightOK, Silent
    <2>2. QED
      BY <2>1
  <1>7. ASSUME NEW q \in Requests PROVE PendingOK(q)'
    <2>1. CASE q # r /\ Pending(q)
      <3> DEFINE c == task[q].sent.ch
      <3>1. c # 0
        BY <1>1, <1>2, <2>1 DEF TaskOK, Pending, HasPendingOpen
      <3>2. ~Holds(r)
        BY <1>3, <2>1 DEF Holds
      <3>3. task'[r].sent.ch # c /\ task[r].sent.ch # c
        BY <1>1, <1>2, <2>1, <3>1, <3>2 DEF PendingOK, RequestFrame
      <3>4. \A n \in requests' : n.kind # "fetch" /\ n.ch = c => n.by = q
        BY <1>2, <2>1, <3>2, <3>3 DEF PendingOK, RequestFrame
      <3>5. \A k \in Requests : task'[k].sent.ch = c => k = q
        BY <1>2, <2>1, <3>3 DEF PendingOK
      <3>6. \A n \in requests' : n.by = q => n \in requests
        BY <2>1 DEF RequestFrame
      <3>7. QED
        BY <1>1, <1>2, <2>1, <3>4, <3>5, <3>6 DEF PendingOK, Pending, HasPendingOpen
    <2>2. CASE q # r /\ ~Pending(q)
      BY <1>2, <2>2 DEF PendingOK, Pending, HasPendingOpen
    <2>3. QED
      BY <2>1, <2>2
  <1>8. ASSUME NEW q \in Requests PROVE ChargeOK(q)'
    <2>1. CASE q # r
      BY <1>1, <1>2, <2>1 DEF ChargeOK, RequestFrame
    <2>2. QED
      BY <2>1
  <1>9. ASSUME NEW n \in requests' PROVE MessageOK(n)'
    <2>1. CASE n.by # r
      <3>1. n \in requests /\ MessageOK(n) /\ n.by \in Requests \ {r}
        BY <2>1 DEF RequestFrame, TransportInv, TypeOK, ServiceTypeOK, Message
      <3>2. n.kind # "fetch" => n.ch \in 1..opened'
        BY <1>1, <3>1 DEF MessageOK
      <3>3. n.kind \in OpenKinds =>
              \A k \in requests' : k.kind \in OpenKinds /\ k.ch = n.ch => k.by = n.by
        BY <2>1, <3>1 DEF MessageOK, RequestFrame
      <3>4. ToppingUp(n.by) => store' = store
        BY <1>3, <3>1 DEF ToppingUp, Holds
      <3>5. task'[n.by] = task[n.by]
        BY <1>2, <3>1
      <3>6. QED
        BY <1>1, <3>1, <3>2, <3>3, <3>4, <3>5 DEF MessageOK, ToppingUp, Landed
    <2>2. QED
      BY <2>1
  <1>10. ASSUME NEW p \in replies' PROVE ReplyOK(p)'
    <2>1. CASE p.by # r
      <3>1. p \in replies /\ ReplyOK(p) /\ p.by \in Requests \ {r}
        BY <2>1 DEF RequestFrame, TransportInv, TypeOK, ServiceTypeOK, Reply
      <3>2. ToppingUp(p.by) => store' = store
        BY <1>3, <3>1 DEF ToppingUp, Holds
      <3>3. task'[p.by] = task[p.by]
        BY <1>2, <3>1
      <3>4. QED
        BY <1>1, <3>1, <3>2, <3>3 DEF ReplyOK, Pending, HasPendingOpen, ToppingUp, Landed
    <2>2. QED
      BY <2>1
  <1>11. \A c \in Channels : ChannelOK(c)'
    <2> SUFFICES ASSUME NEW c \in Channels PROVE ChannelOK(c)'
      OBVIOUS
    <2>1. ChannelOK(c) /\ c \in Nat
      BY ClientAssumption DEF TransportInv, Channels
    <2>2. QED
      BY <1>1, <2>1 DEF ChannelOK
  <1>12. \A p \in replies' : SnapOK(p.snap)'
    BY <1>1 DEF TransportInv, SnapOK
  <1>13. \A q \in Requests : SnapOK(task[q].snap)'
    BY <1>1, <1>2 DEF TransportInv, SnapOK
  <1>14. \A n \in requests' : SnapOK(n.snap)'
    <2>1. \A n \in requests' : SnapOK(n.snap)
      BY DEF RequestFrame, TransportInv, SnapOK, TrueOf, NoSnapshot
    <2>2. QED
      BY <1>1, <2>1 DEF SnapOK
  <1>15. QED
    BY <1>4, <1>5, <1>6, <1>7, <1>8, <1>9, <1>10, <1>11, <1>12, <1>13, <1>14
    DEF TransportInv

\* What the steps of a request may assume of it.
LEMMA RequestFacts ==
  ASSUME TransportInv, NEW r \in Requests
  PROVE  /\ TypeOK /\ task \in [Requests -> TaskRecord] /\ task[r] \in TaskRecord
         /\ TaskOK(r) /\ FlightOK(r) /\ PendingOK(r) /\ ChargeOK(r) /\ SnapOK(task[r].snap)
         /\ r \in scope <=> Holds(r)
         /\ StoreInv
         /\ \A n \in requests : MessageOK(n)
         /\ \A p \in replies : ReplyOK(p) /\ SnapOK(p.snap) /\ p.snap \in Snapshot
  BY DEF TransportInv, LockInv, TypeOK, ServiceTypeOK, Reply, TaskRecord

LEMMA Kinds0 == NoCredential.kind = "none" /\ NoCredential.ch = 0
  BY DEF NoCredential

\* A request moves on: only its own record changes, in the fields named.
LEMMA GotoFacts ==
  ASSUME TransportInv, NEW r \in Requests, NEW pc \in Pcs, Goto(r, pc)
  PROVE  /\ (task \in [Requests -> TaskRecord])' /\ task'[r].pc = pc
         /\ task'[r].sent = task[r].sent /\ task'[r].round = task[r].round
         /\ task'[r].snap = task[r].snap /\ task'[r].paidFor = task[r].paidFor
         /\ \A q \in Requests \ {r} : task'[q] = task[q]
  <1> DEFINE t == [task[r] EXCEPT !.pc = pc]
  <1>1. task[r] \in TaskRecord /\ task \in [Requests -> TaskRecord]
    BY RequestFacts
  <1>2. /\ t \in TaskRecord /\ t.pc = pc /\ t.sent = task[r].sent
        /\ t.round = task[r].round /\ t.snap = task[r].snap /\ t.paidFor = task[r].paidFor
    BY <1>1 DEF TaskRecord
  <1>3. task' = [task EXCEPT ![r] = t]
    BY <1>1 DEF Goto, TaskRecord
  <1> HIDE DEF t
  <1>4. QED
    BY <1>1, <1>2, <1>3

LEMMA EndFacts ==
  ASSUME TransportInv, NEW r \in Requests, End(r)
  PROVE  /\ (task \in [Requests -> TaskRecord])' /\ task'[r].pc = "done"
         /\ task'[r].sent = NoCredential /\ task'[r].round = 0
         /\ task'[r].snap = NoSnapshot
         /\ \A q \in Requests \ {r} : task'[q] = task[q]
  <1> DEFINE t == [IdleTask EXCEPT !.pc = "done"]
  <1>1. task \in [Requests -> TaskRecord]
    BY RequestFacts
  <1>2. NoSnapshot \in Snapshot
    BY ClientAssumption DEF NoSnapshot, Snapshot
  <1>3. /\ t \in TaskRecord /\ t.pc = "done" /\ t.sent = NoCredential
        /\ t.round = 0 /\ t.snap = NoSnapshot
    BY <1>2, TransportAssumption DEF IdleTask, TaskRecord, Pcs
  <1>4. task' = [task EXCEPT ![r] = t]
    BY DEF End
  <1> HIDE DEF t
  <1>5. QED
    BY <1>1, <1>3, <1>4

\* A step after which the request has nothing on the way, or has ended.
LEMMA RestKeeps ==
  ASSUME TransportInv, NEW r \in Requests,
         UNCHANGED <<requests, escrow, served, faults, charged, unserved, opened>>,
         replies' \subseteq replies,
         (task \in [Requests -> TaskRecord])',
         \A q \in Requests \ {r} : task'[q] = task[q],
         scope' \in SUBSET Requests, scope' \ {r} = scope \ {r},
         r \in scope' => r \in scope \/ scope = {},
         (r \in scope)' <=> Holds(r)',
         store' = store \/ (Holds(r) /\ store' \in Entry),
         signed' \in [Channels -> Nat], unknown' \in [Channels -> Nat],
         forsaken' \subseteq Channels,
         task'[r].sent \in {task[r].sent, NoCredential}, ~Pending(r)',
         Silent(r)' \/ task'[r].pc = "done",
         task'[r].pc = "done" \/ charged[r] = unserved[r],
         TaskOK(r)', SnapOK(task[r].snap)', StoreInv'
  PROVE  TransportInv'
  <1> USE RequestFacts
  <1>1. TypeOK'
    BY DEF TypeOK, ServiceTypeOK, TaskRecord, Pcs
  <1>2. RequestFrame(r)
    BY DEF RequestFrame, TypeOK, MessageOK
  <1>3. FlightOK(r)'
    BY DEF FlightOK, Silent
  <1>4. PendingOK(r)'
    BY DEF PendingOK
  <1>5. ChargeOK(r)'
    BY DEF ChargeOK
  <1>6. ASSUME NEW n \in requests', n.by = r PROVE MessageOK(n)'
    <2>1. task'[r].pc = "done" /\ MessageOK(n)
      BY <1>6 DEF Silent
    <2>2. QED
      BY <1>6, <2>1 DEF MessageOK, ToppingUp
  <1>7. \A p \in replies' : p.by = r => ReplyOK(p)'
    BY DEF Silent, ReplyOK, ToppingUp, Pending
  <1>8. QED
    BY <1>1, <1>2, <1>3, <1>4, <1>5, <1>6, <1>7, RequestKeeps

LEMMA StepAsk ==
  ASSUME TransportInv, NEW r \in Requests, Ask(r)
  PROVE  TransportInv'
  <1> USE RequestFacts, Kinds0
  <1>1. /\ (task \in [Requests -> TaskRecord])' /\ task'[r].pc = "asked"
        /\ task'[r].sent = task[r].sent /\ task'[r].round = task[r].round
        /\ task'[r].snap = task[r].snap
        /\ \A q \in Requests \ {r} : task'[q] = task[q]
    BY GotoFacts DEF Ask, Pcs
  <1>2. /\ task[r].pc = "new"
        /\ requests' = requests \cup {Fetch(r)}
        /\ UNCHANGED <<replies, escrow, served, faults, charged, unserved>>
        /\ UNCHANGED <<store, scope, opened, signed, unknown, forsaken>>
    BY DEF Ask, Send
  <1>3. /\ Fetch(r) \in Message /\ Fetch(r).by = r /\ Fetch(r).kind = "fetch"
        /\ Fetch(r).snap = NoSnapshot
    <2>1. NoSnapshot \in Snapshot
      BY ClientAssumption DEF NoSnapshot, Snapshot
    <2>2. QED
      BY <2>1, ClientAssumption DEF Fetch, Message, Kinds
  <1>4. TypeOK'
    BY <1>1, <1>2, <1>3 DEF TypeOK, ServiceTypeOK, TaskRecord, Pcs
  <1>5. Silent(r) /\ ~Holds(r) /\ task[r].sent = NoCredential
    BY <1>2 DEF FlightOK, TaskOK, Holds, Pending
  <1>6. RequestFrame(r)
    BY <1>1, <1>2, <1>3, <1>5 DEF RequestFrame, OpenKinds, TypeOK, Silent
  <1>7. (r \in scope)' <=> Holds(r)'
    BY <1>1, <1>2, <1>5 DEF Holds, Pending
  <1>8. TaskOK(r)'
    BY <1>1, <1>2, <1>5 DEF TaskOK, Pending, ToppingUp
  <1>9. FlightOK(r)'
    BY <1>1, <1>2, <1>3, <1>5 DEF FlightOK, Silent
  <1>10. PendingOK(r)' /\ ChargeOK(r)' /\ SnapOK(task[r].snap)'
    BY <1>1, <1>2 DEF PendingOK, Pending, ChargeOK, SnapOK
  <1>11. \A n \in requests' : n.by = r => MessageOK(n)'
    BY <1>1, <1>2, <1>3, <1>5 DEF Silent, MessageOK, ToppingUp, OpenKinds, VoucherKinds
  <1>12. \A p \in replies' : p.by = r => ReplyOK(p)'
    BY <1>2, <1>5 DEF Silent
  <1>13. StoreInv'
    BY <1>1, <1>2 DEF StoreInv, Pending, HasPendingOpen
  <1>14. QED
    BY <1>1, <1>4, <1>6, <1>7, <1>8, <1>9, <1>10, <1>11, <1>12, <1>13, RequestKeeps

\* The histories and the store when the request touches none of them, and has no
\* pending open.
LEMMA StoreStays ==
  ASSUME TransportInv, NEW r \in Requests, ~Pending(r),
         UNCHANGED <<store, served, escrow, opened, signed, unknown, forsaken>>,
         \A q \in Requests \ {r} : task'[q] = task[q]
  PROVE  StoreInv'
  <1>1. StoreInv
    BY RequestFacts
  <1>2. \A q \in Requests : Pending(q) => Pending(q)' /\ task'[q].sent = task[q].sent
    BY DEF Pending, HasPendingOpen
  <1>3. QED
    BY <1>1, <1>2 DEF StoreInv

LEMMA StepLockScope ==
  ASSUME TransportInv, NEW r \in Requests, LockScope(r)
  PROVE  TransportInv'
  <1> USE RequestFacts, Kinds0
  <1>1. /\ (task \in [Requests -> TaskRecord])' /\ task'[r].pc = "locked"
        /\ task'[r].sent = task[r].sent /\ task'[r].round = task[r].round
        /\ task'[r].snap = task[r].snap
        /\ \A q \in Requests \ {r} : task'[q] = task[q]
    BY GotoFacts DEF LockScope, Pcs
  <1>2. /\ task[r].pc = "challenged" /\ scope = {} /\ scope' = {r}
        /\ UNCHANGED <<service, store, opened, signed, unknown, forsaken>>
    BY DEF LockScope, ScopeFree
  <1>3. Silent(r) /\ ~Pending(r) /\ task[r].sent = NoCredential /\ charged[r] = unserved[r]
    BY <1>2 DEF FlightOK, TaskOK, Pending, ChargeOK
  <1>4. TaskOK(r)'
    BY <1>1, <1>2, <1>3 DEF TaskOK, Pending, ToppingUp
  <1>5. /\ Silent(r)' /\ ~Pending(r)' /\ Holds(r)' /\ SnapOK(task[r].snap)'
    BY <1>1, <1>2, <1>3 DEF Silent, Pending, Holds, SnapOK, service
  <1>6. StoreInv'
    BY <1>1, <1>2, <1>3, StoreStays DEF service
  <1>7. QED
    BY <1>1, <1>2, <1>3, <1>4, <1>5, <1>6, RestKeeps DEF service, TypeOK

LEMMA StepNeedNoFunds ==
  ASSUME TransportInv, NEW r \in Requests, NeedNoFunds(r)
  PROVE  TransportInv'
  <1> USE RequestFacts, Kinds0
  <1>1. /\ (task \in [Requests -> TaskRecord])' /\ task'[r].pc = "funded"
        /\ task'[r].sent = task[r].sent /\ task'[r].round = task[r].round
        /\ task'[r].snap = task[r].snap
        /\ \A q \in Requests \ {r} : task'[q] = task[q]
    BY GotoFacts DEF NeedNoFunds, Pcs
  <1>2. /\ task[r].pc = "locked"
        /\ UNCHANGED <<service, store, scope, opened, signed, unknown, forsaken>>
    BY DEF NeedNoFunds
  <1>3. /\ Silent(r) /\ ~Pending(r) /\ task[r].sent = NoCredential /\ charged[r] = unserved[r]
        /\ r \in scope
    BY <1>2 DEF FlightOK, TaskOK, Pending, ChargeOK, Holds
  <1>4. store.ch # 0 => store.cum + Price <= store.deposit
    <2> SUFFICES ASSUME store.ch # 0 PROVE store.cum + Price <= store.deposit
      OBVIOUS
    <2>1. /\ ~(Required(store, task[r].snap) > KnownDeposit(store, task[r].snap))
          /\ KnownDeposit(store, task[r].snap) = store.deposit
      BY DEF NeedNoFunds, Shortfall
    <2>2. store \in Entry /\ task[r].snap \in Snapshot
      BY DEF TypeOK
    <2>3. store.cum + Price <= Required(store, task[r].snap)
      BY <2>2, ClientAssumption DEF Required, Larger, Entry, Snapshot
    <2>4. /\ Required(store, task[r].snap) \in Nat /\ store.deposit \in Nat
          /\ store.cum + Price \in Nat
      BY <2>2, ClientAssumption DEF Required, Larger, Entry, Snapshot
    <2>5. QED
      BY <2>1, <2>3, <2>4
  <1>5. TaskOK(r)'
    BY <1>1, <1>2, <1>3, <1>4 DEF TaskOK, Pending, ToppingUp
  <1>6. /\ Silent(r)' /\ ~Pending(r)' /\ Holds(r)' /\ SnapOK(task[r].snap)'
    BY <1>1, <1>2, <1>3 DEF Silent, Pending, Holds, SnapOK, service
  <1>7. StoreInv'
    BY <1>1, <1>2, <1>3, StoreStays DEF service
  <1>8. QED
    BY <1>1, <1>2, <1>3, <1>5, <1>6, <1>7, RestKeeps DEF service, TypeOK

\* A credential that cannot be made ends the request.
LEMMA FailKeeps ==
  ASSUME TransportInv, NEW r \in Requests, FailCredential(r), ~Pending(r),
         UNCHANGED <<requests, escrow, served, faults, charged, unserved, opened>>,
         replies' \subseteq replies,
         store' = store \/ (Holds(r) /\ store' \in Entry),
         signed' \in [Channels -> Nat], unknown' \in [Channels -> Nat],
         forsaken' \subseteq Channels, StoreInv'
  PROVE  TransportInv'
  <1> USE RequestFacts, Kinds0
  <1>1. /\ (task \in [Requests -> TaskRecord])' /\ task'[r].pc = "done"
        /\ task'[r].sent = NoCredential /\ task'[r].snap = NoSnapshot
        /\ \A q \in Requests \ {r} : task'[q] = task[q]
    BY EndFacts DEF FailCredential
  <1>2. scope' = scope \ {r}
    BY DEF FailCredential
  <1>3. TaskOK(r)'
    BY <1>1 DEF TaskOK, Pending, ToppingUp
  <1>4. ~Pending(r)' /\ ~Holds(r)' /\ SnapOK(task[r].snap)'
    BY <1>1 DEF Pending, Holds, SnapOK, TrueOf, NoSnapshot
  <1>5. QED
    BY <1>1, <1>2, <1>3, <1>4, RestKeeps DEF TypeOK

LEMMA StepRefuseFunds ==
  ASSUME TransportInv, NEW r \in Requests, RefuseFunds(r)
  PROVE  TransportInv'
  <1>1. /\ ~Pending(r) /\ FailCredential(r)
        /\ UNCHANGED <<service, store, opened, signed, unknown, forsaken>>
    BY DEF RefuseFunds, Pending
  <1>2. \A q \in Requests \ {r} : task'[q] = task[q]
    BY <1>1, EndFacts DEF FailCredential
  <1>3. StoreInv'
    BY <1>1, <1>2, StoreStays DEF service
  <1>4. QED
    BY <1>1, <1>3, FailKeeps, RequestFacts DEF service, TypeOK

LEMMA StepSignNothing ==
  ASSUME TransportInv, NEW r \in Requests, SignNothing(r)
  PROVE  TransportInv'
  <1>1. /\ ~Pending(r) /\ FailCredential(r)
        /\ UNCHANGED <<service, store, opened, signed, unknown, forsaken>>
    BY DEF SignNothing, Pending
  <1>2. \A q \in Requests \ {r} : task'[q] = task[q]
    BY <1>1, EndFacts DEF FailCredential
  <1>3. StoreInv'
    BY <1>1, <1>2, StoreStays DEF service
  <1>4. QED
    BY <1>1, <1>3, FailKeeps, RequestFacts DEF service, TypeOK

LEMMA StepTopUpRefused ==
  ASSUME TransportInv, NEW r \in Requests, NEW p \in replies, TopUpRefused(r, p)
  PROVE  TransportInv'
  <1>1. /\ ~Pending(r) /\ FailCredential(r) /\ replies' \subseteq replies
        /\ UNCHANGED <<requests, escrow, served, faults, charged, unserved,
                       store, opened, signed, unknown, forsaken>>
    BY DEF TopUpRefused, ToppingUp, Pending, Receive
  <1>2. \A q \in Requests \ {r} : task'[q] = task[q]
    BY <1>1, EndFacts DEF FailCredential
  <1>3. StoreInv'
    BY <1>1, <1>2, StoreStays
  <1>4. QED
    BY <1>1, <1>3, FailKeeps, RequestFacts DEF TypeOK

LEMMA StepTopUpUnknown ==
  ASSUME TransportInv, NEW r \in Requests, TopUpUnknown(r)
  PROVE  TransportInv'
  <1> USE RequestFacts, Kinds0
  <1>1. /\ ~Pending(r) /\ FailCredential(r) /\ ToppingUp(r) /\ Holds(r)
        /\ UNCHANGED <<service, opened, signed, forsaken>>
    BY DEF TopUpUnknown, ToppingUp, Pending, Holds
  <1>2. store.ch # 0 /\ ~store.uncertain /\ store \in Entry /\ store.ch \in Channels
    BY <1>1, ClientAssumption DEF TaskOK, TypeOK, Entry, Channels
  <1>3. PICK e \in Entry : /\ e = MarkUncertain(store) /\ e.uncertain /\ e.ch = store.ch
                           /\ e.cum = store.cum /\ e.deposit = store.deposit
    <2>1. MarkUncertain(store) \in Entry
      BY <1>2 DEF MarkUncertain, Entry
    <2>2. /\ MarkUncertain(store).uncertain /\ MarkUncertain(store).ch = store.ch
          /\ MarkUncertain(store).cum = store.cum
          /\ MarkUncertain(store).deposit = store.deposit
      BY <1>2 DEF MarkUncertain, Entry
    <2>3. QED
      BY <2>1, <2>2
  <1>4. store' = e /\ unknown' = [unknown EXCEPT ![store.ch] = unknown[store.ch] + 1]
    BY <1>3 DEF TopUpUnknown
  <1>5. unknown \in [Channels -> Nat] /\ signed' \in [Channels -> Nat] /\ forsaken' \subseteq Channels
    BY <1>1 DEF TypeOK
  <1>6. unknown' \in [Channels -> Nat]
    BY <1>2, <1>4, <1>5
  <1>7. \A q \in Requests \ {r} : task'[q] = task[q]
    BY <1>1, EndFacts DEF FailCredential
  <1>8. \A q \in Requests : Pending(q) => Pending(q)' /\ task'[q].sent = task[q].sent
    BY <1>1, <1>7 DEF Pending, HasPendingOpen
  <1>9. \A c \in Channels :
          unknown'[c] = 0 \/ (unknown'[c] = 1 /\ store'.ch = c /\ store'.uncertain)
    BY <1>2, <1>3, <1>4, <1>5 DEF StoreInv
  <1>10. StoreInv'
    BY <1>1, <1>2, <1>3, <1>4, <1>8, <1>9 DEF StoreInv, service
  <1>11. QED
    BY <1>1, <1>3, <1>4, <1>5, <1>6, <1>10, FailKeeps DEF service

LEMMA StepLearnDeposit ==
  ASSUME TransportInv, NEW r \in Requests, LearnDeposit(r)
  PROVE  TransportInv'
  <1> USE RequestFacts, Kinds0
  <1>1. /\ (task \in [Requests -> TaskRecord])' /\ task'[r].pc = "funded"
        /\ task'[r].sent = task[r].sent /\ task'[r].round = task[r].round
        /\ task'[r].snap = task[r].snap
        /\ \A q \in Requests \ {r} : task'[q] = task[q]
    BY GotoFacts DEF LearnDeposit, Pcs
  <1>2. /\ task[r].pc = "locked" /\ store.ch # 0 /\ ~store.uncertain
        /\ ~(Required(store, task[r].snap) > KnownDeposit(store, task[r].snap))
        /\ UNCHANGED <<service, scope, opened, signed, unknown, forsaken>>
    BY DEF LearnDeposit, Shortfall
  <1>3. /\ Silent(r) /\ ~Pending(r) /\ task[r].sent = NoCredential /\ charged[r] = unserved[r]
        /\ r \in scope /\ Holds(r)
    BY <1>2 DEF FlightOK, TaskOK, Pending, ChargeOK, Holds
  <1>4. store \in Entry /\ task[r].snap \in Snapshot /\ store.ch \in Channels
    BY <1>2, ClientAssumption DEF TypeOK, Entry, Channels
  <1> DEFINE d == KnownDeposit(store, task[r].snap)
  <1>5. d \in Nat /\ store.deposit <= d /\ d <= escrow[store.ch] /\ store.cum + Price <= d
    <2>1. d \in Nat /\ store.deposit <= d
      BY <1>4 DEF KnownDeposit, Larger, Entry, Snapshot
    <2>2. d <= escrow[store.ch]
      BY <1>2, <1>4 DEF KnownDeposit, Larger, SnapOK, TrueOf, StoreInv
    <2>3. /\ store.cum + Price <= Required(store, task[r].snap)
          /\ Required(store, task[r].snap) \in Nat /\ store.cum + Price \in Nat
      BY <1>4, ClientAssumption DEF Required, Larger, Entry, Snapshot
    <2>4. QED
      BY <1>2, <2>1, <2>2, <2>3
  <1>6. store' = [store EXCEPT !.deposit = d]
    BY DEF LearnDeposit
  <1> HIDE DEF d
  <1>7. /\ store' \in Entry /\ store'.ch = store.ch /\ store'.cum = store.cum
        /\ store'.deposit = d /\ store'.uncertain = store.uncertain
    BY <1>4, <1>5, <1>6 DEF Entry
  <1>8. TaskOK(r)'
    BY <1>1, <1>2, <1>3, <1>5, <1>7 DEF TaskOK, Pending, ToppingUp
  <1>9. /\ Silent(r)' /\ ~Pending(r)' /\ Holds(r)' /\ SnapOK(task[r].snap)'
    BY <1>1, <1>2, <1>3 DEF Silent, Pending, Holds, SnapOK, service
  <1>10. \A q \in Requests : Pending(q) => Pending(q)' /\ task'[q].sent = task[q].sent
    BY <1>1, <1>3 DEF Pending, HasPendingOpen
  <1>11. store.cum <= d
    BY <1>4, <1>5, ClientAssumption DEF Entry
  <1>12. StoreInv'
    BY <1>2, <1>5, <1>7, <1>10, <1>11 DEF StoreInv, service
  <1>13. QED
    BY <1>1, <1>2, <1>3, <1>7, <1>8, <1>9, <1>12, RestKeeps DEF service, TypeOK

\* Settling the outcome of an open: it is stored when the server knows its
\* channel, or forsaken.
LEMMA SettleFacts ==
  ASSUME TransportInv, NEW r \in Requests, NEW accepted \in BOOLEAN, Settle(r, accepted),
         task[r].pc \in {"asked", "paying"},
         UNCHANGED <<served, escrow, opened, signed, unknown>>,
         accepted /\ Pending(r) => served[task[r].sent.ch].known,
         \A q \in Requests \ {r} : task'[q] = task[q]
  PROVE  /\ store' = store \/ (Holds(r) /\ store' \in Entry)
         /\ scope' = scope \ {r} /\ forsaken' \subseteq Channels
         /\ signed' \in [Channels -> Nat] /\ unknown' \in [Channels -> Nat]
         /\ StoreInv'
  <1> USE RequestFacts, Kinds0
  <1>1. /\ HasPendingOpen(r) <=> Pending(r)
        /\ signed' \in [Channels -> Nat] /\ unknown' \in [Channels -> Nat]
        /\ scope' = scope \ {r}
    BY DEF HasPendingOpen, Pending, TaskOK, Settle, TypeOK
  <1>2. CASE ~Pending(r)
    <2>1. UNCHANGED <<store, forsaken>>
      BY <1>1, <1>2 DEF Settle
    <2>2. QED
      BY <1>1, <1>2, <2>1, StoreStays DEF TypeOK
  <1>3. CASE Pending(r)
    <2> DEFINE m == task[r].sent
    <2>1. /\ m \in Message /\ m.ch \in 1..opened /\ m.ch \in Channels /\ m.amount = Price
          /\ m.deposit = OpeningDeposit /\ store = NoEntry /\ Holds(r)
          /\ store.ch = 0 /\ ~store.uncertain
      <3>1. m \in Message /\ m.ch \in 1..opened /\ m.amount = Price
            /\ m.deposit = OpeningDeposit /\ store.ch = 0
        BY <1>3 DEF TypeOK, TaskOK, Pending, HasPendingOpen
      <3>2. store = NoEntry /\ ~store.uncertain
        BY <3>1 DEF StoreInv, NoEntry
      <3>3. m.ch \in Channels
        BY <3>1, ClientAssumption DEF TypeOK, Channels
      <3>4. QED
        BY <1>3, <3>1, <3>2, <3>3 DEF Holds
    <2>2. \A q \in Requests : Pending(q) => q = r
      BY <1>3 DEF TransportInv, LockInv, Holds
    <2>3. \A c \in (1..opened) \ forsaken : c = m.ch
      BY <2>1, <2>2 DEF StoreInv
    <2>4. \A c \in Channels : signed[c] <= Price /\ unknown[c] = 0
      BY <2>1, ClientAssumption DEF StoreInv, Channels
    <2>5. CASE ~accepted
      <3>1. store' = store /\ forsaken' = forsaken \cup {m.ch}
        BY <1>1, <1>3, <2>5 DEF Settle
      <3>2. StoreInv'
        BY <2>1, <2>3, <3>1 DEF StoreInv
      <3>3. QED
        BY <1>1, <2>1, <3>1, <3>2 DEF TypeOK
    <2>6. CASE accepted
      <3>1. store' = Persisted(store, EntryOf(m)) /\ forsaken' = forsaken
        BY <1>1, <1>3, <2>1, <2>6 DEF Settle, StoreOpen, CanPersist
      <3>2. /\ store' \in Entry /\ store'.ch = m.ch /\ store'.cum = Price
            /\ store'.deposit = OpeningDeposit /\ store'.ch # 0
        <4> DEFINE e == EntryOf(m)
        <4>1. m.ch \in 0..MaxChannels /\ m.ch # 0 /\ Price \in 0..MaxDeposit
          BY <2>1, ClientAssumption DEF Channels
        <4>2. e \in Entry /\ e.ch = m.ch /\ e.cum = Price /\ e.deposit = OpeningDeposit
          BY <2>1, <4>1, Openings DEF EntryOf, Entry
        <4>3. store' = [e EXCEPT !.uncertain = @ \/ (store.uncertain /\ store.ch = e.ch)]
          BY <3>1 DEF Persisted
        <4>4. (store.uncertain /\ store.ch = e.ch) \in BOOLEAN /\ e.uncertain \in BOOLEAN
          BY <4>2 DEF Entry
        <4> HIDE DEF e
        <4>5. QED
          BY <4>1, <4>2, <4>3, <4>4 DEF Entry
      <3>3. OpeningDeposit <= escrow[m.ch] /\ served[m.ch].known
        BY <1>3, <2>1, <2>6 DEF TransportInv, ChannelOK
      <3>4. StoreInv'
        BY <2>1, <2>3, <2>4, <3>1, <3>2, <3>3, Openings DEF StoreInv
      <3>5. QED
        BY <1>1, <2>1, <3>1, <3>2, <3>4 DEF TypeOK
    <2>7. QED
      BY <2>5, <2>6
  <1>4. QED
    BY <1>2, <1>3

\* The request ends with its credential's outcome settled.
LEMMA SettledEnd ==
  ASSUME TransportInv, NEW r \in Requests, NEW accepted \in BOOLEAN, Settle(r, accepted),
         End(r), task[r].pc \in {"asked", "paying"},
         UNCHANGED <<requests, escrow, served, faults, charged, unserved, opened, signed, unknown>>,
         replies' \subseteq replies,
         accepted /\ Pending(r) => served[task[r].sent.ch].known
  PROVE  TransportInv'
  <1>1. /\ (task \in [Requests -> TaskRecord])' /\ task'[r].pc = "done"
        /\ task'[r].sent = NoCredential /\ task'[r].snap = NoSnapshot
        /\ \A q \in Requests \ {r} : task'[q] = task[q]
    BY EndFacts
  <1>2. /\ store' = store \/ (Holds(r) /\ store' \in Entry)
        /\ scope' = scope \ {r} /\ forsaken' \subseteq Channels
        /\ signed' \in [Channels -> Nat] /\ unknown' \in [Channels -> Nat]
        /\ StoreInv'
    BY <1>1, SettleFacts
  <1>3. TaskOK(r)'
    BY <1>1, Kinds0 DEF TaskOK, Pending, ToppingUp
  <1>4. ~Pending(r)' /\ ~Holds(r)' /\ SnapOK(task[r].snap)'
    BY <1>1 DEF Pending, Holds, SnapOK, TrueOf, NoSnapshot
  <1>5. QED
    BY <1>1, <1>2, <1>3, <1>4, RestKeeps, RequestFacts DEF TypeOK

LEMMA StepPaid ==
  ASSUME TransportInv, NEW r \in Requests, NEW p \in replies, Paid(r, p)
  PROVE  TransportInv'
  <1>1. /\ task[r].pc = "paying" /\ p.by = r /\ p.status = "ok"
        /\ Settle(r, TRUE) /\ End(r) /\ replies' \subseteq replies
        /\ UNCHANGED <<requests, escrow, served, faults, charged, unserved, opened, signed, unknown>>
    BY DEF Paid, Receive
  <1>2. Pending(r) => served[task[r].sent.ch].known
    BY <1>1, RequestFacts DEF ReplyOK
  <1>3. QED
    BY <1>1, <1>2, SettledEnd

\* An acknowledgement names the channel of the open, which the server knows.
LEMMA AcknowledgedKnown ==
  ASSUME TransportInv, NEW r \in Requests, NEW p \in replies, task[r].pc = "paying",
         Acknowledged(r, p.snap)
  PROVE  Pending(r) /\ served[task[r].sent.ch].known
  <1>1. Pending(r) /\ p.snap.ch = task[r].sent.ch
    BY DEF Acknowledged, Acknowledges, Pending
  <1>2. task[r].sent.ch # 0
    BY <1>1, RequestFacts DEF TaskOK, Pending, HasPendingOpen, TypeOK
  <1>3. QED
    BY <1>1, <1>2, RequestFacts DEF SnapOK, TrueOf

LEMMA StepRefused ==
  ASSUME TransportInv, NEW r \in Requests, NEW p \in replies, Refused(r, p)
  PROVE  TransportInv'
  <1>1. /\ task[r].pc = "paying" /\ Settle(r, Acknowledged(r, p.snap)) /\ End(r)
        /\ replies' \subseteq replies
        /\ UNCHANGED <<requests, escrow, served, faults, charged, unserved, opened, signed, unknown>>
    BY DEF Refused, Receive
  <1>2. Acknowledged(r, p.snap) => served[task[r].sent.ch].known
    BY <1>1, AcknowledgedKnown
  <1>3. Acknowledged(r, p.snap) \in BOOLEAN
    BY DEF Acknowledged, HasPendingOpen, Acknowledges
  <1>4. QED
    BY <1>1, <1>2, <1>3, SettledEnd

LEMMA StepUnanswered ==
  ASSUME TransportInv, NEW r \in Requests, Unanswered(r)
  PROVE  TransportInv'
  <1>1. /\ task[r].pc \in {"asked", "paying"} /\ Settle(r, FALSE) /\ End(r)
        /\ UNCHANGED <<service, opened, signed, unknown>>
    BY DEF Unanswered
  <1>2. QED
    BY <1>1, SettledEnd DEF service

\* A challenge, for the next round.
LEMMA ChallengedFacts ==
  ASSUME TransportInv, NEW r \in Requests, NEW p \in replies, PayAgain(r, p)
  PROVE  /\ (task \in [Requests -> TaskRecord])' /\ task'[r].pc = "challenged"
         /\ task'[r].sent = NoCredential /\ task'[r].round = task[r].round
         /\ task'[r].snap = p.snap
         /\ \A q \in Requests \ {r} : task'[q] = task[q]
  <1> DEFINE t == [task[r] EXCEPT !.pc = "challenged", !.snap = p.snap,
                                  !.sent = NoCredential]
  <1>1. task[r] \in TaskRecord /\ task \in [Requests -> TaskRecord] /\ p.snap \in Snapshot
    BY RequestFacts
  <1>2. /\ t \in TaskRecord /\ t.pc = "challenged" /\ t.sent = NoCredential
        /\ t.round = task[r].round /\ t.snap = p.snap
    BY <1>1 DEF TaskRecord, Pcs
  <1>3. task' = [task EXCEPT ![r] = t]
    BY <1>1 DEF PayAgain
  <1> HIDE DEF t
  <1>4. QED
    BY <1>1, <1>2, <1>3

LEMMA StepTakeChallenge ==
  ASSUME TransportInv, NEW r \in Requests, NEW p \in replies, TakeChallenge(r, p)
  PROVE  TransportInv'
  <1> USE RequestFacts, Kinds0
  <1>1. /\ task[r].pc = "asked" /\ p.by = r /\ replies' = replies \ {p}
        /\ task' = [task EXCEPT ![r] = [@ EXCEPT !.pc = "challenged", !.snap = p.snap]]
        /\ UNCHANGED <<requests, escrow, served, faults, charged, unserved,
                       store, scope, opened, signed, unknown, forsaken>>
    BY DEF TakeChallenge, Receive
  <1> DEFINE t == [task[r] EXCEPT !.pc = "challenged", !.snap = p.snap]
  <1>2. /\ t \in TaskRecord /\ t.pc = "challenged" /\ t.sent = task[r].sent
        /\ t.round = task[r].round /\ t.snap = p.snap
    BY DEF TaskRecord, Pcs
  <1>3. task' = [task EXCEPT ![r] = t]
    BY <1>1
  <1> HIDE DEF t
  <1>4. /\ (task \in [Requests -> TaskRecord])' /\ task'[r] = t
        /\ \A q \in Requests \ {r} : task'[q] = task[q]
    BY <1>2, <1>3
  <1>5. /\ ~Pending(r) /\ ~Holds(r) /\ task[r].sent = NoCredential /\ charged[r] = unserved[r]
    BY <1>1 DEF TaskOK, Pending, ChargeOK, Holds
  <1>6. Silent(r)'
    BY <1>1, <1>4 DEF FlightOK, Silent
  <1>7. TaskOK(r)'
    BY <1>1, <1>2, <1>4, <1>5 DEF TaskOK, Pending, ToppingUp
  <1>8. ~Pending(r)' /\ ~Holds(r)' /\ SnapOK(task[r].snap)'
    BY <1>1, <1>2, <1>4 DEF Pending, Holds, SnapOK
  <1>9. StoreInv'
    BY <1>1, <1>4, <1>5, StoreStays
  <1>10. QED
    BY <1>1, <1>2, <1>4, <1>5, <1>6, <1>7, <1>8, <1>9, RestKeeps DEF TypeOK

LEMMA StepPayAgain ==
  ASSUME TransportInv, NEW r \in Requests, NEW p \in replies, PayAgain(r, p)
  PROVE  TransportInv'
  <1> USE RequestFacts, Kinds0
  <1>1. /\ task[r].pc = "paying" /\ p.by = r /\ p.status = "402" /\ task[r].round < MaxRetries
        /\ replies' = replies \ {p} /\ Settle(r, Acknowledged(r, p.snap))
        /\ UNCHANGED <<requests, escrow, served, faults, charged, unserved, opened, signed, unknown>>
    BY DEF PayAgain, Receive, AsksPayment
  <1>2. /\ (task \in [Requests -> TaskRecord])' /\ task'[r].pc = "challenged"
        /\ task'[r].sent = NoCredential /\ task'[r].round = task[r].round
        /\ task'[r].snap = p.snap
        /\ \A q \in Requests \ {r} : task'[q] = task[q]
    BY ChallengedFacts
  <1>3. Acknowledged(r, p.snap) => served[task[r].sent.ch].known
    BY <1>1, AcknowledgedKnown
  <1>4. Acknowledged(r, p.snap) \in BOOLEAN
    BY DEF Acknowledged, HasPendingOpen, Acknowledges
  <1>5. /\ store' = store \/ (Holds(r) /\ store' \in Entry)
        /\ scope' = scope \ {r} /\ forsaken' \subseteq Channels
        /\ signed' \in [Channels -> Nat] /\ unknown' \in [Channels -> Nat]
        /\ StoreInv'
    BY <1>1, <1>2, <1>3, <1>4, SettleFacts
  <1>6. charged[r] = unserved[r]
    BY <1>1 DEF ChargeOK
  <1>7. Silent(r)'
    BY <1>1 DEF FlightOK, Silent
  <1>8. TaskOK(r)'
    BY <1>1, <1>2 DEF TaskOK, Pending, ToppingUp
  <1>9. ~Pending(r)' /\ ~Holds(r)' /\ SnapOK(task[r].snap)'
    BY <1>1, <1>2 DEF Pending, Holds, SnapOK
  <1>10. QED
    BY <1>1, <1>2, <1>5, <1>6, <1>7, <1>8, <1>9, RestKeeps DEF TypeOK

LEMMA StepToppedUp ==
  ASSUME TransportInv, NEW r \in Requests, NEW p \in replies, ToppedUp(r, p)
  PROVE  TransportInv'
  <1> USE RequestFacts, Kinds0
  <1>1. /\ (task \in [Requests -> TaskRecord])' /\ task'[r].pc = "funded"
        /\ task'[r].sent = task[r].sent /\ task'[r].round = task[r].round
        /\ task'[r].snap = task[r].snap
        /\ \A q \in Requests \ {r} : task'[q] = task[q]
    BY GotoFacts DEF ToppedUp, Pcs
  <1>2. /\ ToppingUp(r) /\ p.by = r /\ p.status = "ok" /\ replies' = replies \ {p}
        /\ UNCHANGED <<requests, escrow, served, faults, charged, unserved,
                       scope, opened, signed, unknown, forsaken>>
    BY DEF ToppedUp, Receive
  <1>3. /\ ~Pending(r) /\ Holds(r) /\ charged[r] = unserved[r] /\ r \in scope /\ store.ch # 0
        /\ task[r].sent.kind = "topUp" /\ task[r].round < MaxRetries
        /\ task[r].sent.ch \in 1..opened /\ Covered(r) /\ Landed(r)
    BY <1>2 DEF TaskOK, Pending, ChargeOK, Holds, ToppingUp, ReplyOK
  <1>4. /\ store \in Entry /\ store.ch \in Channels /\ task[r].snap \in Snapshot
        /\ task[r].sent \in Message /\ task[r].sent.amount \in Nat
    <2>1. store \in Entry /\ task[r].snap \in Snapshot /\ task[r].sent \in Message
      BY <1>3 DEF TypeOK
    <2>2. QED
      BY <1>3, <2>1, ClientAssumption DEF Entry, Channels, Message
  <1> DEFINE d == Larger(store.deposit, KnownDeposit(store, task[r].snap) + task[r].sent.amount)
  <1>5. d \in Nat /\ d <= escrow[store.ch] /\ store.cum + Price <= d /\ store.cum <= d
    <2>1. KnownDeposit(store, task[r].snap) \in Nat /\ store.deposit \in Nat
      BY <1>4 DEF KnownDeposit, Larger, Entry, Snapshot
    <2>2. store.deposit <= escrow[store.ch] /\ escrow[store.ch] \in Nat
      BY <1>3, <1>4 DEF StoreInv, TypeOK, ServiceTypeOK
    <2>3. store.cum \in Nat
      BY <1>4, ClientAssumption DEF Entry
    <2>4. QED
      BY <1>3, <1>4, <2>1, <2>2, <2>3, ClientAssumption DEF Covered, Landed, Larger
  <1>6. store' = [store EXCEPT !.deposit = d]
    BY <1>4 DEF ToppedUp, Entry
  <1> HIDE DEF d
  <1>7. /\ store' \in Entry /\ store'.ch = store.ch /\ store'.cum = store.cum
        /\ store'.deposit = d /\ store'.uncertain = store.uncertain
    BY <1>4, <1>5, <1>6 DEF Entry
  <1>8. TaskOK(r)'
    BY <1>1, <1>2, <1>3, <1>5, <1>7 DEF TaskOK, Pending, ToppingUp
  <1>9. Silent(r)'
    BY <1>2 DEF FlightOK, Silent
  <1>10. ~Pending(r)' /\ Holds(r)' /\ SnapOK(task[r].snap)'
    BY <1>1, <1>2, <1>3 DEF Pending, Holds, SnapOK
  <1>11. \A q \in Requests : Pending(q) => Pending(q)' /\ task'[q].sent = task[q].sent
    BY <1>1, <1>3 DEF Pending, HasPendingOpen
  <1>12. StoreInv'
    BY <1>2, <1>3, <1>5, <1>7, <1>11 DEF StoreInv
  <1>13. QED
    BY <1>1, <1>2, <1>3, <1>7, <1>8, <1>9, <1>10, <1>12, RestKeeps DEF TypeOK

-----------------------------------------------------------------------------
(* Steps that send.                                                        *)

LEMMA StepPostTopUp ==
  ASSUME TransportInv, NEW r \in Requests, PostTopUp(r)
  PROVE  TransportInv'
  <1> USE RequestFacts, Kinds0
  <1> DEFINE snap == task[r].snap
             m == Post("topUp", r, store.ch, Additional(r), 0)
             t == [task[r] EXCEPT !.pc = "toppingUp", !.sent = m]
  <1>1. /\ task[r].pc = "locked" /\ store.ch # 0 /\ ~store.uncertain
        /\ Required(store, snap) > KnownDeposit(store, snap)
        /\ Required(store, snap) <= MaxDeposit
        /\ requests' = requests \cup {m} /\ task' = [task EXCEPT ![r] = t]
        /\ UNCHANGED <<replies, escrow, served, faults, charged, unserved,
                       store, scope, opened, signed, unknown, forsaken>>
    BY DEF PostTopUp, Shortfall, WithinLimit, Send
  <1>2. store \in Entry /\ snap \in Snapshot /\ store.ch \in Channels
    BY <1>1, ClientAssumption DEF TypeOK, Entry, Channels
  <1>3. /\ Required(store, snap) \in Nat /\ KnownDeposit(store, snap) \in Nat
        /\ store.cum + Price <= Required(store, snap) /\ store.cum \in Nat
    BY <1>2, ClientAssumption DEF Required, KnownDeposit, Larger, Entry, Snapshot
  <1>4. /\ Additional(r) \in Nat
        /\ store.cum + Price <= KnownDeposit(store, snap) + Additional(r)
    BY <1>1, <1>3, ClientAssumption DEF Additional, TopUpFor, Smaller, Larger
  <1>5. /\ m \in Message /\ m.kind = "topUp" /\ m.by = r /\ m.ch = store.ch
        /\ m.amount = Additional(r) /\ m.snap = snap
    BY <1>2, <1>4 DEF Post, Message, Kinds, Entry, TypeOK
  <1> HIDE DEF m
  <1>6. /\ t \in TaskRecord /\ t.pc = "toppingUp" /\ t.sent = m
        /\ t.round = task[r].round /\ t.snap = snap
    BY <1>5 DEF TaskRecord, Pcs
  <1> HIDE DEF t
  <1>7. /\ (task \in [Requests -> TaskRecord])' /\ task'[r] = t
        /\ \A q \in Requests \ {r} : task'[q] = task[q]
    BY <1>1, <1>6
  <1>8. TypeOK'
    BY <1>1, <1>5, <1>7 DEF TypeOK, ServiceTypeOK, TaskRecord, Pcs
  <1>9. /\ Silent(r) /\ ~Pending(r) /\ Holds(r) /\ charged[r] = unserved[r]
        /\ r \in scope /\ task[r].round < MaxRetries
    BY <1>1 DEF FlightOK, TaskOK, Pending, ChargeOK, Holds
  <1>10. store.ch \in 1..opened
    <2>1. store.ch <= opened
      BY <1>1, <1>2 DEF TransportInv, ChannelOK, StoreInv
    <2>2. QED
      BY <1>2, <2>1, ClientAssumption DEF Channels, TypeOK
  <1>11. RequestFrame(r)
    BY <1>1, <1>5, <1>7, <1>9 DEF RequestFrame, OpenKinds, TypeOK, Silent
  <1>12. (r \in scope)' <=> Holds(r)'
    BY <1>1, <1>6, <1>7, <1>9 DEF Holds
  <1>13. TaskOK(r)'
    BY <1>1, <1>4, <1>5, <1>6, <1>7, <1>9, <1>10 DEF TaskOK, Pending, ToppingUp, Covered
  <1>14. FlightOK(r)'
    BY <1>1, <1>5, <1>6, <1>7, <1>9 DEF FlightOK, Silent
  <1>15. PendingOK(r)' /\ ChargeOK(r)' /\ SnapOK(task[r].snap)'
    BY <1>1, <1>6, <1>7, <1>9 DEF PendingOK, Pending, ChargeOK, SnapOK
  <1>16. \A n \in requests' : n.by = r => MessageOK(n)'
    BY <1>1, <1>5, <1>6, <1>7, <1>9, <1>10
    DEF Silent, MessageOK, ToppingUp, OpenKinds, VoucherKinds, TopUpKinds
  <1>17. \A p \in replies' : p.by = r => ReplyOK(p)'
    BY <1>1, <1>9 DEF Silent
  <1>18. StoreInv'
    BY <1>1, <1>7, <1>9, StoreStays
  <1>19. QED
    BY <1>7, <1>8, <1>11, <1>12, <1>13, <1>14, <1>15, <1>16, <1>17, <1>18, RequestKeeps

LEMMA StepRepeatTopUp ==
  ASSUME TransportInv, NEW r \in Requests, NEW p \in replies, RepeatTopUp(r, p)
  PROVE  TransportInv'
  <1> USE RequestFacts, Kinds0
  <1> DEFINE m == task[r].sent
  <1>1. /\ (task \in [Requests -> TaskRecord])' /\ task'[r].pc = "toppingUpAgain"
        /\ task'[r].sent = m /\ task'[r].round = task[r].round
        /\ task'[r].snap = task[r].snap
        /\ \A q \in Requests \ {r} : task'[q] = task[q]
    BY GotoFacts DEF RepeatTopUp, Pcs
  <1>2. /\ task[r].pc = "toppingUp" /\ p.by = r /\ replies' = replies \ {p}
        /\ requests' = requests \cup {m}
        /\ UNCHANGED <<escrow, served, faults, charged, unserved,
                       store, scope, opened, signed, unknown, forsaken>>
    BY DEF RepeatTopUp, Receive, Send
  <1>3. /\ ~Pending(r) /\ Holds(r) /\ charged[r] = unserved[r] /\ r \in scope /\ ToppingUp(r)
        /\ m.kind = "topUp" /\ m.by = r /\ m.ch \in 1..opened /\ m \in Message
        /\ task[r].round < MaxRetries /\ m.snap = task[r].snap
    <2>1. /\ ~Pending(r) /\ Holds(r) /\ charged[r] = unserved[r] /\ r \in scope /\ ToppingUp(r)
      BY <1>2 DEF Pending, ChargeOK, Holds, ToppingUp
    <2>2. /\ m.kind = "topUp" /\ m.by = r /\ m.ch \in 1..opened
          /\ task[r].round < MaxRetries /\ m.snap = task[r].snap
      BY <1>2, <2>1 DEF TaskOK
    <2>3. QED
      BY <2>1, <2>2 DEF TypeOK
  <1>4. /\ \A n \in requests : n.by # r
        /\ \A q \in replies' : q.by # r
    BY <1>2 DEF FlightOK
  <1>5. TypeOK'
    BY <1>1, <1>2, <1>3 DEF TypeOK, ServiceTypeOK, TaskRecord, Pcs
  <1>6. RequestFrame(r)
    BY <1>1, <1>2, <1>3, <1>4 DEF RequestFrame, OpenKinds, TypeOK
  <1>7. (r \in scope)' <=> Holds(r)'
    BY <1>1, <1>2, <1>3 DEF Holds
  <1>8. TaskOK(r)'
    BY <1>1, <1>2, <1>3 DEF TaskOK, Pending, ToppingUp, Covered
  <1>9. FlightOK(r)'
    BY <1>1, <1>2, <1>4 DEF FlightOK, Silent
  <1>10. PendingOK(r)' /\ ChargeOK(r)' /\ SnapOK(task[r].snap)'
    BY <1>1, <1>2, <1>3 DEF PendingOK, Pending, ChargeOK, SnapOK
  <1>11. \A n \in requests' : n.by = r => MessageOK(n)'
    BY <1>1, <1>2, <1>3, <1>4 DEF MessageOK, ToppingUp, OpenKinds, VoucherKinds, TopUpKinds
  <1>12. \A q \in replies' : q.by = r => ReplyOK(q)'
    BY <1>4
  <1>13. StoreInv'
    BY <1>1, <1>2, <1>3, StoreStays
  <1>14. QED
    BY <1>1, <1>5, <1>6, <1>7, <1>8, <1>9, <1>10, <1>11, <1>12, <1>13, RequestKeeps

\* Resending leaves everything as it was when the credential was first sent.
LEMMA StepResend ==
  ASSUME TransportInv, NEW r \in Requests, NEW p \in replies, Resend(r, p)
  PROVE  TransportInv'
  <1> USE RequestFacts, Kinds0
  <1> DEFINE m == task[r].sent
             t == [task[r] EXCEPT !.round = task[r].round + 1]
  <1>1. /\ task[r].pc = "paying" /\ p.by = r /\ p.status = "402" /\ task[r].round < MaxRetries
        /\ replies' = replies \ {p} /\ requests' = requests \cup {m}
        /\ p.snap = task[r].paidFor
        /\ task' = [task EXCEPT ![r] = t]
        /\ UNCHANGED <<escrow, served, faults, charged, unserved,
                       store, scope, opened, signed, unknown, forsaken>>
    BY DEF Resend, Receive, Send, AsksPayment, TaskRecord
  <1>2. /\ t \in TaskRecord /\ t.pc = "paying" /\ t.sent = m /\ t.snap = task[r].snap
        /\ t.paidFor = task[r].paidFor
    BY <1>1, TransportAssumption DEF TaskRecord
  <1> HIDE DEF t
  <1>3. /\ (task \in [Requests -> TaskRecord])' /\ task'[r] = t
        /\ \A q \in Requests \ {r} : task'[q] = task[q]
    BY <1>1, <1>2
  <1>4. /\ m \in Message /\ m.kind \in {"open", "voucher"} /\ m.by = r /\ m.ch \in 1..opened
        /\ charged[r] = unserved[r] /\ m.snap = task[r].paidFor /\ SnapOK(m.snap)
    BY <1>1 DEF TaskOK, TypeOK, ChargeOK
  <1>5. /\ \A n \in requests : n.by # r
        /\ \A q \in replies' : q.by # r
    BY <1>1 DEF FlightOK
  <1>6. TypeOK'
    BY <1>1, <1>3, <1>4 DEF TypeOK, ServiceTypeOK, TaskRecord, Pcs
  <1>7. Pending(r) <=> m.kind = "open"
    BY <1>1 DEF Pending, HasPendingOpen
  <1>8. m.kind = "open" => m.amount = Price /\ m.deposit = OpeningDeposit
    BY <1>1, <1>7 DEF TaskOK
  <1>9. m.kind = "open" =>
          \A n \in requests : n.kind \in OpenKinds /\ n.ch = m.ch => n.by = r
    BY <1>7 DEF PendingOK, OpenKinds
  <1>10. RequestFrame(r)
    BY <1>1, <1>2, <1>3, <1>4, <1>5, <1>9 DEF RequestFrame, OpenKinds, TypeOK
  <1>11. (r \in scope)' <=> Holds(r)'
    BY <1>1, <1>2, <1>3 DEF Holds, Pending, HasPendingOpen
  <1>12. TaskOK(r)'
    BY <1>1, <1>2, <1>3, <1>4 DEF TaskOK, Pending, HasPendingOpen, ToppingUp
  <1>13. FlightOK(r)'
    BY <1>1, <1>2, <1>3, <1>5 DEF FlightOK, Silent
  <1>14. PendingOK(r)'
    BY <1>1, <1>2, <1>3, <1>4 DEF PendingOK, Pending, HasPendingOpen
  <1>15. ChargeOK(r)' /\ SnapOK(task[r].snap)'
    BY <1>1, <1>2, <1>3, <1>4 DEF ChargeOK, SnapOK
  <1>16. \A n \in requests' : n.by = r => MessageOK(n)'
    BY <1>1, <1>2, <1>3, <1>4, <1>5, <1>8, <1>9
    DEF MessageOK, ToppingUp, OpenKinds, VoucherKinds, TopUpKinds
  <1>17. \A q \in replies' : q.by = r => ReplyOK(q)'
    BY <1>5
  <1>18. StoreInv'
    <2>1. \A q \in Requests : Pending(q) => Pending(q)' /\ task'[q].sent = task[q].sent
      BY <1>1, <1>2, <1>3 DEF Pending, HasPendingOpen
    <2>2. QED
      BY <1>1, <2>1 DEF StoreInv
  <1>19. QED
    BY <1>3, <1>6, <1>10, <1>11, <1>12, <1>13, <1>14, <1>15, <1>16, <1>17, <1>18,
       RequestKeeps

-----------------------------------------------------------------------------
(* Steps that sign.                                                        *)

\* Who signs has nothing on the way, and holds the lock: no open is pending.
LEMMA PayFacts ==
  ASSUME TransportInv, NEW r \in Requests, task[r].pc = "funded",
         NEW m \in Message, m.by = r, m.kind \in {"open", "voucher"}, m.ch \in Channels,
         Pay(r, m)
  PROVE  /\ (task \in [Requests -> TaskRecord])' /\ task'[r].pc = "paying"
         /\ task'[r].sent = m /\ task'[r].snap = task[r].snap
         /\ task'[r].paidFor = task[r].snap
         /\ \A q \in Requests \ {r} : task'[q] = task[q]
         /\ requests' = requests \cup {m}
         /\ signed' \in [Channels -> Nat] /\ signed'[m.ch] = m.amount
         /\ \A c \in Channels \ {m.ch} : signed'[c] = signed[c]
         /\ Silent(r) /\ Holds(r) /\ charged[r] = unserved[r] /\ r \in scope
         /\ \A q \in Requests : ~Pending(q)
  <1> USE RequestFacts, Kinds0
  <1> DEFINE t == [task[r] EXCEPT !.pc = "paying", !.round = task[r].round + 1, !.sent = m,
                                  !.paidFor = task[r].snap]
  <1>1. /\ task' = [task EXCEPT ![r] = t] /\ requests' = requests \cup {m}
        /\ signed' = [signed EXCEPT ![m.ch] = m.amount]
    BY DEF Pay, Send
  <1>2. task[r].round < MaxRetries
    BY DEF TaskOK
  <1>3. /\ t \in TaskRecord /\ t.pc = "paying" /\ t.sent = m /\ t.snap = task[r].snap
        /\ t.paidFor = task[r].snap
    <2>1. /\ task[r].round + 1 \in 0..MaxRetries /\ task[r].snap \in Snapshot
          /\ "paying" \in Pcs /\ m \in Message \cup {NoCredential}
      BY <1>2, TransportAssumption DEF TaskRecord, Pcs
    <2>2. QED
      BY <2>1 DEF TaskRecord
  <1> HIDE DEF t
  <1>4. /\ (task \in [Requests -> TaskRecord])' /\ task'[r] = t
        /\ \A q \in Requests \ {r} : task'[q] = task[q]
    BY <1>1, <1>3
  <1>5. m.amount \in Nat /\ signed \in [Channels -> Nat]
    BY DEF Message, TypeOK
  <1>6. /\ signed' \in [Channels -> Nat] /\ signed'[m.ch] = m.amount
        /\ \A c \in Channels \ {m.ch} : signed'[c] = signed[c]
    BY <1>1, <1>5
  <1>7. Silent(r) /\ Holds(r) /\ charged[r] = unserved[r] /\ r \in scope
    BY DEF FlightOK, ChargeOK, Holds
  <1>8. ASSUME NEW q \in Requests PROVE ~Pending(q)
    <2>1. Pending(q) => q \in scope /\ q = r
      BY <1>7 DEF Holds, TransportInv, LockInv
    <2>2. QED
      BY <2>1 DEF Pending
  <1>9. QED
    BY <1>1, <1>3, <1>4, <1>6, <1>7, <1>8

\* What remains to be shown of a step that signs.
LEMMA PayKeeps ==
  ASSUME TransportInv, NEW r \in Requests, task[r].pc = "funded",
         NEW m \in Message, m.by = r, m.kind \in {"open", "voucher"}, m.ch \in Channels,
         m.snap = task[r].snap, Pay(r, m),
         UNCHANGED <<replies, escrow, served, faults, charged, unserved, unknown, forsaken>>,
         opened' \in 0..MaxChannels, opened <= opened', m.ch <= opened',
         store' \in Entry,
         IF m.kind = "open" THEN scope' = scope ELSE scope' = scope \ {r},
         m.kind = "open" =>
           /\ m.amount = Price /\ m.deposit = OpeningDeposit
           /\ opened < m.ch /\ store'.ch = 0,
         StoreInv'
  PROVE  TransportInv'
  <1> USE RequestFacts, Kinds0
  <1>1. /\ (task \in [Requests -> TaskRecord])' /\ task'[r].pc = "paying"
        /\ task'[r].sent = m /\ task'[r].snap = task[r].snap
        /\ task'[r].paidFor = task[r].snap
        /\ \A q \in Requests \ {r} : task'[q] = task[q]
        /\ requests' = requests \cup {m} /\ signed' \in [Channels -> Nat]
        /\ Silent(r) /\ Holds(r) /\ charged[r] = unserved[r] /\ r \in scope
    BY PayFacts
  <1>2. /\ opened \in Nat /\ opened' \in Nat /\ m.ch \in Nat \ {0} /\ MaxChannels \in Nat
        /\ m.ch \in 1..opened'
    BY ClientAssumption DEF TypeOK, Channels
  <1>3. TypeOK'
    <2>1. ServiceTypeOK'
      BY <1>1 DEF TypeOK, ServiceTypeOK
    <2>2. scope' \subseteq Requests
      BY DEF TypeOK
    <2>3. \A q \in Requests : task'[q] \in TaskRecord
      BY <1>1
    <2>4. QED
      BY <1>1, <2>1, <2>2, <2>3 DEF TypeOK, TaskRecord, Pcs
  <1>4. \A n \in requests : n.kind # "fetch" => n.ch \in 1..opened
    BY DEF MessageOK
  <1>5. m.kind = "open" => \A n \in requests : n.kind # "fetch" => n.ch # m.ch
    BY <1>2, <1>4
  <1>6. \A q \in Requests : task[q].sent.ch = 0 \/ task[q].sent.ch \in 1..opened
    <2> SUFFICES ASSUME NEW q \in Requests
                 PROVE  task[q].sent.ch = 0 \/ task[q].sent.ch \in 1..opened
      OBVIOUS
    <2>1. task[q].sent \in Message \cup {NoCredential} /\ TaskOK(q)
      BY DEF TypeOK
    <2>2. task[q].sent.kind # "none" => task[q].sent.ch \in 1..opened
      BY <2>1 DEF TaskOK
    <2>3. task[q].sent \in Message => task[q].sent.kind # "none"
      BY DEF Message, Kinds
    <2>4. QED
      BY <2>1, <2>2, <2>3
  <1>7. (r \in scope)' <=> Holds(r)'
    BY <1>1 DEF Holds, Pending, HasPendingOpen
  <1>8. RequestFrame(r)
    <2>1. \A n \in requests' : n.by # r => n \in requests
      BY <1>1
    <2>2. \A k \in requests' : k.by = r /\ k.kind \in OpenKinds =>
            \A n \in requests : n.kind \in OpenKinds /\ n.ch = k.ch => n.by = r
      BY <1>1, <1>5 DEF Silent, OpenKinds
    <2>3. QED
      BY <1>1, <2>1, <2>2 DEF RequestFrame, TypeOK
  <1>9. TaskOK(r)'
    BY <1>1, <1>2 DEF TaskOK, Pending, HasPendingOpen, ToppingUp
  <1>10. FlightOK(r)'
    BY <1>1 DEF FlightOK, Silent
  <1>11. PendingOK(r)'
    <2> SUFFICES ASSUME m.kind = "open" PROVE PendingOK(r)'
      BY <1>1 DEF PendingOK, Pending, HasPendingOpen
    <2>1. \A n \in requests' : n.kind # "fetch" /\ n.ch = m.ch => n.by = r
      BY <1>1, <1>5
    <2>2. \A q \in Requests : task'[q].sent.ch = m.ch => q = r
      BY <1>1, <1>2, <1>6
    <2>3. QED
      BY <1>1, <2>1, <2>2 DEF PendingOK
  <1>12. ChargeOK(r)' /\ SnapOK(task[r].snap)'
    BY <1>1 DEF ChargeOK, SnapOK
  <1>13. MessageOK(m)'
    <2>1. m.kind \in OpenKinds => m.kind = "open"
      BY DEF OpenKinds
    <2>2. m.kind \in OpenKinds =>
            \A n \in requests' : n.kind \in OpenKinds /\ n.ch = m.ch => n.by = m.by
      BY <1>1, <1>5, <2>1 DEF OpenKinds
    <2>3. QED
      BY <1>1, <1>2, <2>1, <2>2 DEF MessageOK, ToppingUp, OpenKinds, VoucherKinds
  <1>14. \A n \in requests' : n.by = r => MessageOK(n)'
    BY <1>1, <1>13 DEF Silent
  <1>15. \A q \in replies' : q.by = r => ReplyOK(q)'
    BY <1>1 DEF Silent
  <1>16. QED
    BY <1>1, <1>3, <1>7, <1>8, <1>9, <1>10, <1>11, <1>12, <1>14, <1>15, RequestKeeps

LEMMA StepSignOpen ==
  ASSUME TransportInv, NEW r \in Requests, SignOpen(r)
  PROVE  TransportInv'
  <1> USE RequestFacts, Kinds0
  <1> DEFINE m == Post("open", r, opened + 1, Price, OpeningDeposit)
  <1>1. /\ task[r].pc = "funded" /\ store.ch = 0 /\ opened < MaxChannels
        /\ opened' = opened + 1 /\ Pay(r, m)
        /\ UNCHANGED <<replies, escrow, served, faults, charged, unserved, store, scope, unknown,
                       forsaken>>
    BY DEF SignOpen, PlanKind
  <1>2. /\ opened \in Nat /\ opened + 1 \in Channels /\ opened + 1 \in 0..MaxChannels
    BY <1>1, ClientAssumption DEF TypeOK, Channels
  <1>3. /\ m \in Message /\ m.kind = "open" /\ m.by = r /\ m.ch = opened + 1
        /\ m.amount = Price /\ m.deposit = OpeningDeposit /\ m.snap = task[r].snap
    BY <1>2, Openings, ClientAssumption DEF Post, Message, Kinds, TypeOK
  <1> HIDE DEF m
  <1>4. /\ task'[r].pc = "paying" /\ task'[r].sent = m
        /\ \A c \in Channels \ {m.ch} : signed'[c] = signed[c]
        /\ signed'[m.ch] = m.amount
        /\ \A q \in Requests : ~Pending(q)
    BY <1>1, <1>2, <1>3, PayFacts
  <1>5. StoreInv'
    <2>1. \A c \in Channels : signed'[c] <= Price
      BY <1>1, <1>3, <1>4, ClientAssumption DEF StoreInv
    <2>2. ASSUME NEW c \in Channels, opened' < c PROVE signed'[c] = 0
      BY <1>1, <1>2, <1>3, <1>4, <2>2, ClientAssumption DEF StoreInv, Channels
    <2>3. ASSUME NEW c \in (1..opened') \ forsaken'
          PROVE  Pending(r)' /\ task'[r].sent.ch = c
      <3>1. CASE c = opened + 1
        BY <1>3, <1>4, <3>1 DEF Pending, HasPendingOpen
      <3>2. CASE c # opened + 1
        <4>1. c \in (1..opened) \ forsaken /\ c # 0
          BY <1>1, <1>2, <2>3, <3>2
        <4>2. QED
          BY <1>1, <1>4, <4>1 DEF StoreInv
      <3>3. QED
        BY <3>1, <3>2
    <2>4. store = NoEntry /\ \A c \in Channels : unknown[c] = 0 \/ store.ch = c
      BY <1>1 DEF StoreInv
    <2>5. \A c \in Channels : unknown[c] = 0
      BY <1>1, <2>4, ClientAssumption DEF Channels
    <2>6. QED
      BY <1>1, <2>1, <2>2, <2>3, <2>4, <2>5 DEF StoreInv
  <1>6. store' \in Entry
    BY <1>1 DEF TypeOK
  <1>7. opened' \in 0..MaxChannels /\ opened <= opened' /\ m.ch <= opened' /\ opened < m.ch
    BY <1>1, <1>2, <1>3
  <1>8. QED
    BY <1>1, <1>2, <1>3, <1>5, <1>6, <1>7, PayKeeps

LEMMA StepSignVoucher ==
  ASSUME TransportInv, NEW r \in Requests, SignVoucher(r)
  PROVE  TransportInv'
  <1> USE RequestFacts, Kinds0
  <1> DEFINE m == Post("voucher", r, store.ch, store.cum + Price, 0)
  <1>1. /\ task[r].pc = "funded" /\ store.ch # 0 /\ store.cum + Price <= MaxDeposit
        /\ store' = [store EXCEPT !.cum = store.cum + Price] /\ Pay(r, m)
        /\ scope' = scope \ {r}
        /\ UNCHANGED <<replies, escrow, served, faults, charged, unserved, opened, unknown, forsaken>>
    BY DEF SignVoucher, PlanKind, WithinLimit
  <1>2. store \in Entry /\ store.ch \in Channels
    BY <1>1, ClientAssumption DEF TypeOK, Entry, Channels
  <1>3. store.cum + Price \in 0..MaxDeposit /\ store.cum + Price <= store.deposit
    BY <1>1, <1>2, ClientAssumption DEF Entry, TaskOK
  <1>4. /\ store' \in Entry /\ store'.ch = store.ch /\ store'.cum = store.cum + Price
        /\ store'.deposit = store.deposit /\ store'.uncertain = store.uncertain
    BY <1>1, <1>2, <1>3 DEF Entry
  <1>5. /\ m \in Message /\ m.kind = "voucher" /\ m.by = r /\ m.ch = store.ch
        /\ m.amount = store.cum + Price /\ m.snap = task[r].snap
    BY <1>2, <1>3 DEF Post, Message, Kinds, Entry, TypeOK
  <1> HIDE DEF m
  <1>6. /\ \A c \in Channels \ {m.ch} : signed'[c] = signed[c]
        /\ signed'[m.ch] = m.amount
        /\ \A q \in Requests : ~Pending(q)
    BY <1>1, <1>2, <1>5, PayFacts
  <1>7. store.ch <= opened
    BY <1>1, <1>2 DEF TransportInv, ChannelOK, StoreInv
  <1>8. StoreInv'
    <2>1. \A c \in Channels : opened' < c => signed'[c] = 0
      <3> SUFFICES ASSUME NEW c \in Channels, opened < c PROVE signed'[c] = 0
        BY <1>1
      <3>1. c # store.ch
        BY <1>2, <1>7, ClientAssumption DEF Channels, TypeOK
      <3>2. QED
        BY <1>5, <1>6, <3>1 DEF StoreInv
    <2>2. store'.cum <= store'.deposit /\ store'.deposit <= escrow'[store'.ch]
          /\ served'[store'.ch].known
      BY <1>1, <1>3, <1>4 DEF StoreInv
    <2>3. signed'[store'.ch] <= store'.cum
      BY <1>3, <1>4, <1>5, <1>6
    <2>4. \A c \in (1..opened') \ forsaken' : store'.ch = c
      BY <1>1, <1>4, <1>6 DEF StoreInv
    <2>5. \A c \in Channels :
            unknown'[c] = 0 \/ (unknown'[c] = 1 /\ store'.ch = c /\ store'.uncertain)
      BY <1>1, <1>4 DEF StoreInv
    <2>6. QED
      BY <1>1, <1>4, <2>1, <2>2, <2>3, <2>4, <2>5 DEF StoreInv
  <1>9. opened' \in 0..MaxChannels /\ opened <= opened' /\ m.ch <= opened'
    BY <1>1, <1>5, <1>7, ClientAssumption DEF TypeOK
  <1>10. QED
    BY <1>1, <1>2, <1>4, <1>5, <1>8, <1>9, PayKeeps

LEMMA StepSignRecovered ==
  ASSUME TransportInv, NEW r \in Requests, SignRecovered(r)
  PROVE  TransportInv'
  <1> USE RequestFacts, Kinds0
  <1> DEFINE snap == task[r].snap
             cum == RecoveredCumulative(snap)
             e == [ch |-> snap.ch, cum |-> cum, deposit |-> escrow[snap.ch],
                   uncertain |-> FALSE]
             m == Post("voucher", r, snap.ch, cum, 0)
  <1>1. /\ task[r].pc = "funded" /\ store.ch = 0 /\ snap.ch # 0
        /\ cum <= escrow[snap.ch] /\ cum <= MaxDeposit
        /\ store' = Persisted(store, e) /\ Pay(r, m) /\ scope' = scope \ {r}
        /\ UNCHANGED <<replies, escrow, served, faults, charged, unserved, opened, unknown, forsaken>>
    BY DEF SignRecovered, PlanKind, WithinLimit, CanRecover
  <1>2. /\ snap \in Snapshot /\ snap.ch \in Channels /\ escrow[snap.ch] \in Nat
    <2>1. snap \in Snapshot /\ escrow \in [Channels -> Nat]
      BY DEF TypeOK, ServiceTypeOK
    <2>2. snap.ch \in Channels
      BY <1>1, <2>1, ClientAssumption DEF Snapshot, Channels
    <2>3. QED
      BY <2>1, <2>2
  <1>3. cum \in Nat
    BY <1>2, ClientAssumption DEF RecoveredCumulative, Larger, Snapshot
  <1> HIDE DEF cum
  <1>4. /\ m \in Message /\ m.kind = "voucher" /\ m.by = r /\ m.ch = snap.ch /\ m.amount = cum
        /\ m.snap = snap
    BY <1>2, <1>3 DEF Post, Message, Kinds, Snapshot
  <1> HIDE DEF m
  <1>5. store = NoEntry /\ ~store.uncertain
    BY <1>1 DEF StoreInv, NoEntry
  <1>6. store' \in Entry /\ store'.ch = snap.ch /\ store'.cum = cum
        /\ store'.deposit = escrow[snap.ch]
    <2>1. /\ e \in Entry /\ e.ch = snap.ch /\ e.cum = cum /\ e.deposit = escrow[snap.ch]
          /\ e.uncertain = FALSE
      BY <1>1, <1>2, <1>3, ClientAssumption DEF Entry, Snapshot
    <2> HIDE DEF e
    <2>2. QED
      BY <1>1, <1>5, <2>1 DEF Persisted, Entry
  <1>7. /\ \A c \in Channels \ {m.ch} : signed'[c] = signed[c]
        /\ signed'[m.ch] = m.amount
        /\ \A q \in Requests : ~Pending(q)
    BY <1>1, <1>2, <1>4, PayFacts
  <1>8. served[snap.ch].known /\ snap.ch <= opened
    BY <1>1, <1>2 DEF TransportInv, ChannelOK, SnapOK, TrueOf
  <1>9. \A c \in Channels : unknown[c] = 0
    BY <1>1, ClientAssumption DEF StoreInv, Channels
  <1>10. StoreInv'
    <2>1. \A c \in Channels : opened' < c => signed'[c] = 0
      <3> SUFFICES ASSUME NEW c \in Channels, opened < c PROVE signed'[c] = 0
        BY <1>1
      <3>1. c # snap.ch
        BY <1>2, <1>8, ClientAssumption DEF Channels, TypeOK
      <3>2. QED
        BY <1>4, <1>7, <3>1 DEF StoreInv
    <2>2. signed'[store'.ch] <= store'.cum
      BY <1>3, <1>4, <1>6, <1>7
    <2>3. \A c \in (1..opened') \ forsaken' : FALSE
      <3> SUFFICES ASSUME NEW c \in (1..opened) \ forsaken PROVE FALSE
        BY <1>1
      <3>1. store.ch = c
        BY <1>7 DEF StoreInv
      <3>2. QED
        BY <1>1, <3>1, ClientAssumption DEF TypeOK
    <2>4. store'.ch # 0 /\ store'.cum <= store'.deposit
          /\ store'.deposit <= escrow'[store'.ch] /\ served'[store'.ch].known
      BY <1>1, <1>2, <1>6, <1>8
    <2>5. QED
      BY <1>1, <1>9, <2>1, <2>2, <2>3, <2>4 DEF StoreInv
  <1>11. opened' \in 0..MaxChannels /\ opened <= opened' /\ m.ch <= opened'
    BY <1>1, <1>4, <1>8, ClientAssumption DEF TypeOK
  <1>12. QED
    BY <1>1, <1>2, <1>4, <1>6, <1>10, <1>11, PayKeeps

-----------------------------------------------------------------------------
(* The transport.                                                          *)

LEMMA RequestStep ==
  ASSUME TransportInv, NEW r \in Requests, Fetching(r)
  PROVE  TransportInv'
  <1>1. CASE \/ Ask(r) \/ LockScope(r) \/ NeedNoFunds(r) \/ RefuseFunds(r)
             \/ LearnDeposit(r) \/ PostTopUp(r) \/ TopUpUnknown(r)
    BY <1>1, StepAsk, StepLockScope, StepNeedNoFunds, StepRefuseFunds, StepLearnDeposit,
       StepPostTopUp, StepTopUpUnknown
  <1>2. CASE \/ SignOpen(r) \/ SignVoucher(r) \/ SignRecovered(r) \/ SignNothing(r)
             \/ Unanswered(r)
    BY <1>2, StepSignOpen, StepSignVoucher, StepSignRecovered, StepSignNothing, StepUnanswered
  <1>3. ASSUME NEW reply \in replies,
               \/ TakeChallenge(r, reply) \/ ToppedUp(r, reply) \/ RepeatTopUp(r, reply)
               \/ TopUpRefused(r, reply) \/ Paid(r, reply) \/ PayAgain(r, reply)
               \/ Resend(r, reply) \/ Refused(r, reply)
        PROVE  TransportInv'
    BY <1>3, StepTakeChallenge, StepToppedUp, StepRepeatTopUp, StepTopUpRefused, StepPaid,
       StepPayAgain, StepResend, StepRefused
  <1>4. QED
    BY <1>1, <1>2, <1>3 DEF Fetching

LEMMA TransportStutters == TransportInv /\ UNCHANGED vars => TransportInv'
  <1> SUFFICES ASSUME TransportInv, UNCHANGED vars PROVE TransportInv'
    OBVIOUS
  <1> USE DEF vars, service, client
  <1>1. \A m \in requests' : MessageOK(m)'
    BY DEF TransportInv, MessageOK, ToppingUp, Landed
  <1>2. \A p \in replies' : ReplyOK(p)'
    BY DEF TransportInv, ReplyOK, ToppingUp, Pending, HasPendingOpen, Landed
  <1>3. \A r \in Requests : TaskOK(r)' /\ FlightOK(r)' /\ PendingOK(r)' /\ ChargeOK(r)'
    BY DEF TransportInv, TaskOK, FlightOK, PendingOK, ChargeOK, Silent, Covered, ToppingUp,
           Pending, HasPendingOpen
  <1>4. TypeOK' /\ (task \in [Requests -> TaskRecord])'
    BY DEF TransportInv, TypeOK, ServiceTypeOK
  <1>5. LockInv' /\ StoreInv'
    BY DEF TransportInv, LockInv, StoreInv, Holds, Pending, HasPendingOpen
  <1>6. \A c \in Channels : ChannelOK(c)'
    BY DEF TransportInv, ChannelOK
  <1>7. /\ \A p \in replies' : SnapOK(p.snap)'
        /\ \A m \in requests' : SnapOK(m.snap)'
        /\ \A r \in Requests : SnapOK(task[r].snap)'
    BY DEF TransportInv, SnapOK
  <1>8. QED
    BY <1>1, <1>2, <1>3, <1>4, <1>5, <1>6, <1>7 DEF TransportInv

LEMMA TransportStep == TransportInv /\ [Next]_vars => TransportInv'
  BY RequestStep, ServiceStep, TransportStutters DEF Next

\* Of the channels whose open was not given up there is at most one: the stored
\* one, or that of the open that holds the lock.
LEMMA LiveChannel == TransportInv => OneLiveChannel
  <1> SUFFICES ASSUME TransportInv PROVE Cardinality((1..opened) \ forsaken) <= 1
    BY DEF OneLiveChannel
  <1> DEFINE live == (1..opened) \ forsaken
  <1>1. StoreInv /\ LockInv /\ \A r \in Requests : TaskOK(r)
    BY DEF TransportInv
  <1>2. \A q, r \in Requests : Pending(q) /\ Pending(r) => q = r
    BY <1>1 DEF LockInv, Holds
  <1>3. \A r \in Requests : Pending(r) => store.ch = 0
    BY <1>1 DEF TaskOK
  <1>4. ASSUME NEW a \in live, NEW b \in live PROVE a = b
    <2>1. CASE store.ch # 0
      BY <1>1, <1>3, <2>1 DEF StoreInv
    <2>2. CASE store.ch = 0
      <3>1. /\ \E r \in Requests : Pending(r) /\ task[r].sent.ch = a
            /\ \E r \in Requests : Pending(r) /\ task[r].sent.ch = b
        BY <1>1, <2>2 DEF StoreInv
      <3>2. QED
        BY <1>2, <3>1
    <2>3. QED
      BY <2>1, <2>2
  <1>5. CASE live = {}
    <2>1. Cardinality(live) = 0
      BY <1>5, FS_EmptySet
    <2>2. QED
      BY <2>1
  <1>6. CASE live # {}
    <2>1. PICK a \in live : TRUE
      BY <1>6
    <2>2. live = {a}
      BY <1>4, <2>1
    <2>3. Cardinality(live) = 1
      BY <2>2, FS_Singleton
    <2>4. QED
      BY <2>3
  <1>7. QED
    BY <1>5, <1>6

LEMMA DepositBacked == TransportInv => StoredDepositBacked
  BY DEF TransportInv, StoreInv, StoredDepositBacked

LEMMA UnknownOnce == TransportInv => OneUnknownTopUp
  BY DEF TransportInv, StoreInv, OneUnknownTopUp

LEMMA TransportCharges ==
  TransportInv => \A r \in DOMAIN charged : charged[r] <= 1 + unserved[r]
  <1> SUFFICES ASSUME TransportInv, NEW r \in DOMAIN charged
               PROVE  charged[r] <= 1 + unserved[r]
    OBVIOUS
  <1>1. r \in Requests
    BY DEF TransportInv, TypeOK, ServiceTypeOK
  <1>2. ChargeOK(r) /\ charged[r] \in Nat /\ unserved[r] \in Nat
    BY <1>1 DEF TransportInv, TypeOK, ServiceTypeOK
  <1>3. QED
    BY <1>2 DEF ChargeOK

\* A step that signs is that of the request, and signs more than was signed on
\* the channel before.
LEMMA SignsMore ==
  ASSUME TransportInv, [Next]_vars, NEW r \in Requests, Signs(r)
  PROVE  task'[r].sent.amount > signed[task'[r].sent.ch]
  <1> USE RequestFacts
  <1>1. task[r].pc = "funded" /\ task'[r].pc = "paying"
    BY DEF Signs
  <1>2. PICK q \in Requests : Fetching(q)
    BY <1>1 DEF Next, vars, client
  <1>3. q = r
    <2> SUFFICES ASSUME q # r PROVE FALSE
      OBVIOUS
    <2>1. ASSUME NEW t, task' = [task EXCEPT ![q] = t] PROVE FALSE
      BY <1>1, <2>1
    <2>2. CASE \/ Ask(q) \/ LockScope(q) \/ NeedNoFunds(q) \/ LearnDeposit(q)
               \/ PostTopUp(q) \/ SignOpen(q) \/ SignVoucher(q) \/ SignRecovered(q)
      BY <2>1, <2>2
      DEF Ask, LockScope, NeedNoFunds, LearnDeposit, PostTopUp, SignOpen, SignVoucher,
          SignRecovered, Pay, Goto
    <2>3. CASE RefuseFunds(q) \/ TopUpUnknown(q) \/ SignNothing(q) \/ Unanswered(q)
      BY <2>1, <2>3
      DEF RefuseFunds, TopUpUnknown, SignNothing, Unanswered, End, FailCredential
    <2>4. ASSUME NEW reply \in replies,
                 \/ TakeChallenge(q, reply) \/ ToppedUp(q, reply) \/ RepeatTopUp(q, reply)
                 \/ TopUpRefused(q, reply)
          PROVE  FALSE
      BY <2>1, <2>4
      DEF TakeChallenge, ToppedUp, RepeatTopUp, TopUpRefused, Goto, End, FailCredential
    <2>5. ASSUME NEW reply \in replies,
                 \/ Paid(q, reply) \/ PayAgain(q, reply) \/ Resend(q, reply)
                 \/ Refused(q, reply)
          PROVE  FALSE
      BY <2>1, <2>5 DEF Paid, PayAgain, Resend, Refused, End
    <2>6. QED
      BY <1>2, <2>2, <2>3, <2>4, <2>5 DEF Fetching
  <1>4. SignOpen(r) \/ SignVoucher(r) \/ SignRecovered(r)
    <2>1. ~SignNothing(r)
      BY <1>1, EndFacts DEF SignNothing, FailCredential
    <2>2. /\ ~Ask(r) /\ ~LockScope(r) /\ ~NeedNoFunds(r) /\ ~RefuseFunds(r)
          /\ ~LearnDeposit(r) /\ ~PostTopUp(r) /\ ~TopUpUnknown(r) /\ ~Unanswered(r)
      BY <1>1
      DEF Ask, LockScope, NeedNoFunds, RefuseFunds, LearnDeposit, PostTopUp, TopUpUnknown,
          Unanswered, ToppingUp
    <2>3. \A reply \in replies :
            /\ ~TakeChallenge(r, reply) /\ ~ToppedUp(r, reply) /\ ~RepeatTopUp(r, reply)
            /\ ~TopUpRefused(r, reply) /\ ~Paid(r, reply) /\ ~PayAgain(r, reply)
            /\ ~Resend(r, reply) /\ ~Refused(r, reply)
      BY <1>1
      DEF TakeChallenge, ToppedUp, RepeatTopUp, TopUpRefused, Paid, PayAgain, Resend,
          Refused, ToppingUp
    <2>4. QED
      BY <1>2, <1>3, <2>1, <2>2, <2>3 DEF Fetching
  <1> DEFINE sent == task'[r].sent
  <1>5. ASSUME NEW m, Pay(r, m) PROVE sent = m
    BY <1>5 DEF Pay, TaskRecord
  <1>6. CASE SignOpen(r)
    <2>1. sent = Post("open", r, opened + 1, Price, OpeningDeposit)
      BY <1>5, <1>6 DEF SignOpen
    <2>2. sent.amount = Price /\ sent.ch = opened + 1
      BY <2>1 DEF Post
    <2>3. signed[opened + 1] = 0
      BY <1>6, ClientAssumption DEF SignOpen, StoreInv, TypeOK, Channels
    <2>4. QED
      BY <2>2, <2>3, ClientAssumption
  <1>7. CASE SignVoucher(r)
    <2>1. sent = Post("voucher", r, store.ch, store.cum + Price, 0)
      BY <1>5, <1>7 DEF SignVoucher
    <2>2. sent.amount = store.cum + Price /\ sent.ch = store.ch
      BY <2>1 DEF Post
    <2>3. store.ch # 0 /\ store.ch \in Channels /\ store.cum \in Nat
      BY <1>7, ClientAssumption DEF SignVoucher, PlanKind, TypeOK, Entry, Channels
    <2>4. signed[store.ch] <= store.cum /\ signed[store.ch] \in Nat
      BY <2>3 DEF StoreInv, TypeOK
    <2>5. QED
      BY <2>2, <2>3, <2>4, ClientAssumption
  <1>8. CASE SignRecovered(r)
    <2> DEFINE snap == task[r].snap
    <2>1. sent = Post("voucher", r, snap.ch, RecoveredCumulative(snap), 0)
      BY <1>5, <1>8 DEF SignRecovered
    <2>2. sent.amount = RecoveredCumulative(snap) /\ sent.ch = snap.ch
      BY <2>1 DEF Post
    <2>3. snap \in Snapshot /\ store.ch = 0 /\ snap.ch # 0 /\ snap.ch \in Channels
      BY <1>8, ClientAssumption DEF SignRecovered, PlanKind, TypeOK, Snapshot, Channels
    <2>4. signed[snap.ch] <= Price /\ signed[snap.ch] \in Nat
      BY <2>3 DEF StoreInv, TypeOK
    <2>5. Price <= snap.accepted /\ snap.accepted < snap.required
      BY <2>3 DEF SnapOK, TrueOf
    <2>6. snap.required <= RecoveredCumulative(snap) /\ RecoveredCumulative(snap) \in Nat
      BY <2>3, ClientAssumption DEF RecoveredCumulative, Larger, Snapshot
    <2>7. snap.required \in Nat /\ snap.accepted \in Nat
      BY <2>3 DEF Snapshot
    <2>8. QED
      BY <2>2, <2>4, <2>5, <2>6, <2>7, ClientAssumption
  <1>9. QED
    BY <1>4, <1>6, <1>7, <1>8

-----------------------------------------------------------------------------
(***************************************************************************)
(* The session manager.                                                    *)
(*                                                                         *)
(* Its invariant says that one fetch is in flight at a time; that a call   *)
(* has at most one message or reply on the way, and is asked to pay again  *)
(* only while no charge of it is left that it was served for; and that,    *)
(* until a top-up of unknown outcome blocks the manager, its channel is    *)
(* the stored one, created by the request in flight only if none was there *)
(* when the request began, and the channel that each call funds is still   *)
(* in force.                                                               *)
(***************************************************************************)

\* Shapes: what a record has, its amounts being any integers.
EntryShape == [ch : 0..MaxChannels, cum : Int, deposit : Int, uncertain : BOOLEAN]

SnapShape ==
  [ch : 0..MaxChannels, accepted : Int, required : Int, spent : Int, deposit : Int]

MessageShape ==
  [kind : M!Kinds, by : ManagerCalls, ch : 0..MaxChannels, amount : Int, deposit : Int,
   snap : SnapShape]

ReplyShape == [by : ManagerCalls, status : {"ok", "402", "failed"}, snap : SnapShape]

MgrShape ==
  [channel : EntryShape, spent : Int, busy : BOOLEAN, blocked : BOOLEAN,
   previous : EntryShape, previousSpent : Int, created : SUBSET M!Channels,
   received : Int, last : SnapShape, challenged : BOOLEAN]

CallPcs ==
  {"new", "begun", "bootstrapping", "recovered", "asked", "challenged", "accepted",
   "underfunded", "short", "toppingUp", "toppingUpAgain", "landed", "funded", "paying",
   "waiting", "refused", "uncertain", "done"}

CallShape ==
  [pc : CallPcs, round : Int, snap : SnapShape, paidFor : SnapShape, target : EntryShape,
   required : Int, sent : MessageShape \cup {M!NoCredential}]

ServiceShape ==
  /\ requests \subseteq MessageShape /\ replies \subseteq ReplyShape
  /\ escrow \in [M!Channels -> Int]
  /\ served \in [M!Channels -> [known : BOOLEAN, highest : Int, spent : Int, deposit : Int]]
  /\ charged \in [ManagerCalls -> Nat] /\ unserved \in [ManagerCalls -> Nat]
  /\ \A m \in requests : m.kind # "fetch" => m.ch # 0

ClientShape ==
  /\ store \in EntryShape /\ mgr \in MgrShape /\ call \in [ManagerCalls -> CallShape]
  /\ opened \in 0..MaxChannels

\* The kinds of what is sent to be charged.
PaidKinds == {"open", "landedOpen", "storedOpen", "voucher", "storedVoucher"}

CallSilent(r) == (\A m \in requests : m.by # r) /\ (\A p \in replies : p.by # r)

\* A call that funds a channel.
Funds(r) ==
  call[r].pc \in {"underfunded", "short", "toppingUp", "toppingUpAgain", "landed", "waiting"}

Waits(r) == call[r].pc \in {"asked", "toppingUp", "toppingUpAgain", "paying"}

\* A call has one message or reply on the way, and none between its requests;
\* after a charge that it was served for it is not asked to pay again.
CallFlight(r) ==
  /\ \A m, n \in requests : m.by = r /\ n.by = r => m = n
  /\ \A p, q \in replies : p.by = r /\ q.by = r => p = q
  /\ \A m \in requests, p \in replies : m.by = r => p.by # r
  /\ Waits(r) \/ call[r].pc \in {"uncertain", "done"} \/ CallSilent(r)
  /\ \A m \in requests :
       m.by = r /\ m.kind \in PaidKinds => call[r].pc \in {"paying", "done"}
  /\ call[r].pc = "paying" => call[r].sent \in MessageShape
                              /\ call[r].sent.kind \in {"open", "voucher"}
                              /\ call[r].sent.by = r /\ call[r].sent.ch # 0
  /\ M!ToppingUp(r) => call[r].sent \in MessageShape /\ call[r].sent.kind = "topUp"
                       /\ call[r].sent.by = r /\ call[r].sent.ch # 0
  /\ Funds(r) => call[r].target.ch # 0
  /\ call[r].pc = "bootstrapping" => call[r].snap.ch # 0
  /\ \/ charged[r] = unserved[r]
     \/ /\ charged[r] = 1 + unserved[r] /\ call[r].pc \in {"paying", "done"}
        /\ \A m \in requests : m.by # r
        /\ \A p \in replies : p.by = r => p.status # "402"

\* One fetch at a time.
Active(r) == r \notin TopUps /\ call[r].pc \notin {"new", "done"}

OneFetch ==
  /\ \A r \in ManagerCalls : Active(r) => mgr.busy
  /\ \A q, r \in ManagerCalls : Active(q) /\ Active(r) => q = r

\* What each call knows of the channel it funds, or recovers.
TargetOK(r) ==
  LET t == call[r] IN
  IF r \in TopUps
  THEN Funds(r) => ~t.target.uncertain
  ELSE /\ Funds(r) => t.target.ch = store.ch /\ ~t.target.uncertain
       /\ t.pc \in {"begun", "bootstrapping"} => mgr.created = {}

\* No top-up of unknown outcome has blocked the manager, or is about to.
Unblocked == ~mgr.blocked /\ \A r \in ManagerCalls : call[r].pc # "uncertain"

\* Then the manager's channel is the stored one; the request in flight created
\* it only if there was none when it began.
InStep ==
  /\ mgr.channel = store /\ ~store.uncertain
  /\ store.ch = 0 => store = M!NoEntry
  /\ mgr.busy =>
       /\ mgr.created # {} => mgr.previous = M!NoEntry /\ mgr.created = {store.ch}
       /\ store.ch = 0 => mgr.previous = M!NoEntry
  /\ \A r \in ManagerCalls : TargetOK(r)

ManagerInv ==
  /\ ServiceShape /\ ClientShape /\ OneFetch
  /\ \A r \in ManagerCalls : CallFlight(r)
  /\ Unblocked => InStep

-----------------------------------------------------------------------------
(* Steps of the service.                                                   *)

LEMMA ChannelsHere == M!Channels = 1..MaxChannels /\ MaxChannels \in Nat
  BY ClientAssumption DEF M!Channels

LEMMA NoSnapshotShape == M!NoSnapshot \in SnapShape
  BY ChannelsHere DEF M!NoSnapshot, SnapShape

\* A snapshot of a stored channel, and so any hint.
LEMMA SnapshotShape ==
  ASSUME NEW records \in
           [M!Channels -> [known : BOOLEAN, highest : Int, spent : Int, deposit : Int]],
         NEW c \in M!Channels
  PROVE  M!SnapshotOf(records, c) \in SnapShape
  BY ChannelsHere, ClientAssumption DEF M!SnapshotOf, M!Larger, SnapShape

LEMMA HintShape ==
  ASSUME NEW records \in
           [M!Channels -> [known : BOOLEAN, highest : Int, spent : Int, deposit : Int]],
         NEW snap \in M!Hints(records)
  PROVE  snap \in SnapShape
  BY SnapshotShape, NoSnapshotShape DEF M!Hints

\* What a call keeps while the service takes its message or loses its reply.
LEMMA InStepStays ==
  ASSUME ManagerInv, UNCHANGED M!client
  PROVE  ClientShape' /\ OneFetch' /\ (Unblocked => InStep)'
  <1> USE DEF M!client
  <1>1. ClientShape' /\ OneFetch'
    BY DEF ManagerInv, ClientShape, OneFetch, Active
  <1>2. (Unblocked => InStep)'
    BY DEF ManagerInv, Unblocked, InStep, TargetOK, Funds
  <1>3. QED
    BY <1>1, <1>2

LEMMA FlightOfOthers ==
  ASSUME ManagerInv, NEW r \in ManagerCalls,
         \A n \in requests' : n.by # r => n \in requests,
         \A p \in replies' : p.by # r => p \in replies,
         NEW q \in ManagerCalls, q # r, call'[q] = call[q], charged'[q] = charged[q],
         unserved'[q] = unserved[q]
  PROVE  CallFlight(q)'
  <1>1. CallFlight(q)
    BY DEF ManagerInv
  <1>2. /\ \A n \in requests' : n.by = q => n \in requests
        /\ \A p \in replies' : p.by = q => p \in replies
    OBVIOUS
  <1>3. CallSilent(q) => CallSilent(q)'
    BY <1>2 DEF CallSilent
  <1>4. QED
    BY <1>1, <1>2, <1>3 DEF CallFlight, Waits, Funds, M!ToppingUp

\* A message that is answered, with a charge or without one.
LEMMA AnswerStays ==
  ASSUME ManagerInv, NEW m \in requests, UNCHANGED M!client,
         NEW status \in {"ok", "402", "failed"}, NEW snap \in SnapShape,
         M!Answer(m, status, snap),
         escrow' \in [M!Channels -> Int],
         served' \in [M!Channels -> [known : BOOLEAN, highest : Int, spent : Int,
                                     deposit : Int]],
         \/ UNCHANGED <<charged, unserved>>
         \/ /\ m.kind \in PaidKinds /\ charged' = [charged EXCEPT ![m.by] = @ + 1]
            /\ \/ unserved' = unserved /\ status # "402"
               \/ unserved' = [unserved EXCEPT ![m.by] = @ + 1]
  PROVE  ManagerInv'
  <1> DEFINE r == m.by
             p == [by |-> m.by, status |-> status, snap |-> snap]
  <1>1. /\ m \in MessageShape /\ r \in ManagerCalls /\ ServiceShape
        /\ charged \in [ManagerCalls -> Nat] /\ unserved \in [ManagerCalls -> Nat]
        /\ CallFlight(r)
    BY DEF ManagerInv, ServiceShape, MessageShape
  <1>2. p \in ReplyShape /\ p.by = r /\ p.status = status
    BY <1>1 DEF ReplyShape
  <1>3. requests' = requests \ {m} /\ replies' = replies \cup {p}
    BY DEF M!Answer
  <1> HIDE DEF p
  <1>4. ServiceShape'
    BY <1>1, <1>2, <1>3 DEF ServiceShape
  <1>5. call' = call
    BY DEF M!client
  <1>6. ASSUME NEW q \in ManagerCalls, q # r PROVE CallFlight(q)'
    BY <1>1, <1>2, <1>3, <1>5, <1>6, FlightOfOthers
  <1>7. CallFlight(r)'
    <2>1. /\ \A n \in requests' : n.by # r
          /\ \A k \in replies' : k.by = r => k = p
      BY <1>1, <1>2, <1>3 DEF CallFlight
    <2>2. Waits(r) \/ call[r].pc \in {"uncertain", "done"}
      BY <1>1 DEF CallFlight, CallSilent
    <2>3. charged[r] = unserved[r] /\ charged[r] \in Nat /\ unserved[r] \in Nat
      BY <1>1 DEF CallFlight
    <2>4. \/ charged'[r] = unserved'[r]
          \/ /\ charged'[r] = 1 + unserved'[r]
             /\ call[r].pc \in {"paying", "done"} /\ status # "402"
      BY <1>1, <2>3 DEF CallFlight
    <2>5. QED
      BY <1>1, <1>2, <1>5, <2>1, <2>2, <2>3, <2>4 DEF CallFlight, Waits, Funds, M!ToppingUp
  <1>8. QED
    BY <1>4, <1>6, <1>7, InStepStays DEF ManagerInv

\* A message whose handler goes on.
LEMMA AdvanceStays ==
  ASSUME ManagerInv, NEW m \in requests, UNCHANGED <<replies, charged, unserved, M!client>>,
         NEW kind \in M!Kinds, m.kind # "fetch", kind \in PaidKinds <=> m.kind \in PaidKinds,
         M!Advance(m, kind),
         escrow' \in [M!Channels -> Int],
         served' \in [M!Channels -> [known : BOOLEAN, highest : Int, spent : Int,
                                     deposit : Int]]
  PROVE  ManagerInv'
  <1> DEFINE r == m.by
             n == [m EXCEPT !.kind = kind]
  <1>1. /\ m \in MessageShape /\ r \in ManagerCalls /\ ServiceShape /\ CallFlight(r)
        /\ m.ch # 0
    BY DEF ManagerInv, ServiceShape, MessageShape
  <1>2. n \in MessageShape /\ n.by = r /\ n.kind = kind /\ n.ch = m.ch
    BY <1>1 DEF MessageShape
  <1>3. requests' = (requests \ {m}) \cup {n}
    BY DEF M!Advance
  <1> HIDE DEF n
  <1>4. ServiceShape'
    BY <1>1, <1>2, <1>3 DEF ServiceShape
  <1>5. call' = call /\ charged' = charged /\ unserved' = unserved /\ replies' = replies
    BY DEF M!client
  <1>6. ASSUME NEW q \in ManagerCalls, q # r PROVE CallFlight(q)'
    BY <1>1, <1>2, <1>3, <1>5, <1>6, FlightOfOthers
  <1>7. CallFlight(r)'
    <2>1. /\ \A k \in requests' : k.by = r => k = n
          /\ \A k \in replies' : k.by # r
      BY <1>1, <1>2, <1>3, <1>5 DEF CallFlight
    <2>2. Waits(r) \/ call[r].pc \in {"uncertain", "done"}
      BY <1>1 DEF CallFlight, CallSilent
    <2>3. charged[r] = unserved[r]
      BY <1>1 DEF CallFlight
    <2>4. kind \in PaidKinds => call[r].pc \in {"paying", "done"}
      BY <1>1 DEF CallFlight
    <2>5. QED
      BY <1>1, <1>2, <1>5, <2>1, <2>2, <2>3, <2>4 DEF CallFlight, Waits, Funds, M!ToppingUp
  <1>8. QED
    BY <1>4, <1>6, <1>7, InStepStays, <1>5 DEF ManagerInv

\* A message or a reply that is lost.
LEMMA LossStays ==
  ASSUME ManagerInv, UNCHANGED <<escrow, served, charged, unserved, M!client>>,
         requests' \subseteq requests, replies' \subseteq replies
  PROVE  ManagerInv'
  <1>1. ServiceShape'
    BY DEF ManagerInv, ServiceShape
  <1>2. ASSUME NEW q \in ManagerCalls PROVE CallFlight(q)'
    <2>1. CallFlight(q)
      BY DEF ManagerInv
    <2>2. CallSilent(q) => CallSilent(q)'
      BY DEF CallSilent
    <2>3. call' = call /\ charged' = charged /\ unserved' = unserved
      BY DEF M!client
    <2>4. QED
      BY <2>1, <2>2, <2>3 DEF CallFlight, Waits, Funds, M!ToppingUp
  <1>3. QED
    BY <1>1, <1>2, InStepStays DEF ManagerInv

LEMMA ChallengeStays ==
  ASSUME ManagerInv, NEW m \in requests, UNCHANGED <<charged, unserved, M!client>>,
         M!Challenge(m), escrow' \in [M!Channels -> Int],
         served' \in [M!Channels -> [known : BOOLEAN, highest : Int, spent : Int,
                                     deposit : Int]]
  PROVE  ManagerInv'
  <1>0. PICK records : records = served'
    OBVIOUS
  <1>1. PICK snap \in M!Hints(records) \cup {m.snap} : M!Answer(m, "402", snap)
    BY <1>0 DEF M!Challenge
  <1>2. m.snap \in SnapShape
    BY DEF ManagerInv, ServiceShape, MessageShape
  <1>3. snap \in SnapShape
    BY <1>0, <1>1, <1>2, HintShape
  <1>4. QED
    BY <1>1, <1>3, AnswerStays

\* A charge, and the answer to it.
LEMMA ChargeStays ==
  ASSUME ManagerInv, NEW m \in requests, UNCHANGED <<escrow, M!client>>,
         NEW record \in [known : BOOLEAN, highest : Int, spent : Int, deposit : Int],
         M!Charge(m, record), m.kind \in PaidKinds
  PROVE  ManagerInv'
  <1> DEFINE R == [known : BOOLEAN, highest : Int, spent : Int, deposit : Int]
  <1>0. PICK records : records = served'
    OBVIOUS
  <1>1. /\ m.ch \in M!Channels /\ m.snap \in SnapShape
        /\ served \in [M!Channels -> R] /\ escrow' \in [M!Channels -> Int]
    <2>1. ServiceShape /\ m \in MessageShape
      BY DEF ManagerInv, ServiceShape
    <2>2. m.ch \in 0..MaxChannels /\ m.snap \in SnapShape
      BY <2>1 DEF MessageShape
    <2>3. m.ch # 0
      BY <2>1 DEF ServiceShape, PaidKinds
    <2>4. m.ch \in M!Channels
      BY ONLY <2>2, <2>3, ChannelsHere
    <2>5. served \in [M!Channels -> R] /\ escrow \in [M!Channels -> Int]
      BY <2>1 DEF ServiceShape
    <2>6. QED
      BY <2>2, <2>4, <2>5
  <1>2. PICK next \in R : next = [record EXCEPT !.spent = @ + Price]
    <2>1. record.spent + Price \in Int
      BY ClientAssumption
    <2>2. [record EXCEPT !.spent = @ + Price] \in R
      BY <2>1
    <2>3. QED
      BY <2>2
  <1>3. /\ served' = [served EXCEPT ![m.ch] = next]
        /\ charged' = [charged EXCEPT ![m.by] = @ + 1]
        /\ M!Serve(m) \/ M!AskAgain(m)
    BY <1>2 DEF M!Charge
  <1>4. served' \in [M!Channels -> R]
    BY <1>1, <1>3
  <1>5. M!SnapshotOf(records, m.ch) \in SnapShape /\ M!NoSnapshot \in SnapShape
    BY <1>0, <1>1, <1>4, SnapshotShape, NoSnapshotShape
  <1>6. ASSUME NEW status \in {"ok", "failed"}, NEW snap \in SnapShape,
               M!Answer(m, status, snap), unserved' = unserved
        PROVE  ManagerInv'
    <2>1. status \in {"ok", "402", "failed"} /\ status # "402"
      OBVIOUS
    <2>2. QED
      BY <1>1, <1>3, <1>4, <1>6, <2>1, AnswerStays
  <1>7. M!Serve(m) => ManagerInv'
    BY <1>0, <1>5, <1>6 DEF M!Serve
  <1>8. CASE M!AskAgain(m)
    <2>1. M!Answer(m, "402", m.snap) /\ unserved' = [unserved EXCEPT ![m.by] = @ + 1]
      BY <1>8 DEF M!AskAgain
    <2>2. QED
      BY <1>1, <1>3, <1>4, <2>1, AnswerStays
  <1>9. QED
    BY <1>3, <1>7, <1>8

LEMMA AcceptedShape ==
  ASSUME NEW record \in [known : BOOLEAN, highest : Int, spent : Int, deposit : Int],
         NEW deposit \in Int, NEW v \in Int
  PROVE  M!Accepted(record, deposit, v)
           \in [known : BOOLEAN, highest : Int, spent : Int, deposit : Int]
  <1>1. M!Larger(record.deposit, deposit) \in Int
    BY DEF M!Larger
  <1>2. QED
    BY <1>1 DEF M!Accepted

\* Every handler of the service.
LEMMA HandlerStays ==
  ASSUME ManagerInv, NEW m \in requests, UNCHANGED M!client,
         \/ M!ChallengeFetch(m) \/ M!OpenLands(m) \/ M!RecordOpened(m) \/ M!ChargeAccepted(m)
         \/ M!AcceptVoucher(m) \/ M!AcceptPaidVoucher(m) \/ M!RefuseVoucher(m)
         \/ M!TopUpLands(m) \/ M!RecordToppedUp(m) \/ M!RefuseTopUp(m)
         \/ M!RefuseTransaction(m) \/ M!FailRequest(m) \/ M!LoseRequest(m)
  PROVE  ManagerInv'
  <1> DEFINE R == [known : BOOLEAN, highest : Int, spent : Int, deposit : Int]
  <1>1. /\ served \in [M!Channels -> R] /\ escrow \in [M!Channels -> Int]
        /\ m \in MessageShape /\ m.amount \in Int /\ m.deposit \in Int /\ m.ch \in 0..MaxChannels
        /\ charged \in [ManagerCalls -> Nat] /\ unserved \in [ManagerCalls -> Nat]
    BY DEF ManagerInv, ServiceShape, MessageShape
  <1>2. m.kind # "fetch" => m.ch \in M!Channels /\ served[m.ch] \in R /\ escrow[m.ch] \in Int
    BY <1>1, ChannelsHere DEF ManagerInv, ServiceShape
  <1>3. CASE M!ChallengeFetch(m)
    BY <1>1, <1>3, ChallengeStays DEF M!ChallengeFetch
  <1>4. CASE M!OpenLands(m)
    <2>1. /\ m.kind = "open" /\ M!Advance(m, "landedOpen")
          /\ escrow' = [escrow EXCEPT ![m.ch] = M!Larger(escrow[m.ch], m.deposit)]
          /\ UNCHANGED <<replies, served, charged, unserved>>
      BY <1>4 DEF M!OpenLands
    <2>2. M!Larger(escrow[m.ch], m.deposit) \in Int
      BY <1>1, <1>2, <2>1 DEF M!Larger
    <2>3. escrow' \in [M!Channels -> Int]
      BY <1>1, <2>1, <2>2
    <2>4. QED
      BY <1>1, <2>1, <2>3, AdvanceStays DEF PaidKinds, M!Kinds
  <1>5. CASE M!RecordOpened(m)
    <2>1. CASE m.amount > served[m.ch].highest
      <3> DEFINE s == [served[m.ch] EXCEPT !.known = TRUE, !.highest = m.amount,
                                           !.deposit = escrow[m.ch]]
      <3>1. s \in R
        BY <1>1, <1>2, <1>5 DEF M!RecordOpened
      <3>2. /\ m.kind = "landedOpen" /\ served' = [served EXCEPT ![m.ch] = s]
            /\ M!Advance(m, "storedOpen") /\ UNCHANGED <<replies, escrow, charged, unserved>>
        BY <1>5, <2>1 DEF M!RecordOpened
      <3> HIDE DEF s
      <3>3. served' \in [M!Channels -> R]
        BY <1>1, <3>1, <3>2
      <3>4. QED
        BY <1>1, <3>2, <3>3, AdvanceStays DEF PaidKinds, M!Kinds
    <2>2. CASE ~(m.amount > served[m.ch].highest)
      BY <1>1, <1>5, <2>2, ChallengeStays DEF M!RecordOpened
    <2>3. QED
      BY <2>1, <2>2
  <1>6. CASE M!ChargeAccepted(m)
    <2>1. CASE M!Covers(served[m.ch], Price)
      <3>1. /\ m.kind \in {"storedOpen", "storedVoucher"} /\ UNCHANGED escrow
            /\ M!Charge(m, served[m.ch])
        BY <1>6, <2>1 DEF M!ChargeAccepted
      <3>2. served[m.ch] \in R /\ m.kind \in PaidKinds
        BY <1>2, <3>1 DEF PaidKinds
      <3>3. QED
        BY <3>1, <3>2, ChargeStays
    <2>2. CASE ~M!Covers(served[m.ch], Price)
      BY <1>1, <1>6, <2>2, ChallengeStays DEF M!ChargeAccepted
    <2>3. QED
      BY <2>1, <2>2
  <1>7. CASE M!AcceptVoucher(m)
    <2>1. /\ m.kind = "voucher" /\ M!Advance(m, "storedVoucher")
          /\ UNCHANGED <<replies, escrow, charged, unserved>>
      BY <1>7 DEF M!AcceptVoucher
    <2>2. PICK deposit \in {served[m.ch].deposit, escrow[m.ch]} :
            served' = [served EXCEPT ![m.ch] = M!Accepted(served[m.ch], deposit, m.amount)]
      BY <1>7 DEF M!AcceptVoucher
    <2>3. M!Accepted(served[m.ch], deposit, m.amount) \in R
      <3>1. deposit \in Int /\ served[m.ch] \in R
        BY <1>2, <2>1
      <3>2. QED
        BY <1>1, <3>1, AcceptedShape
    <2>4. served' \in [M!Channels -> R]
      BY <1>1, <2>2, <2>3
    <2>5. QED
      BY <1>1, <2>1, <2>4, AdvanceStays DEF PaidKinds, M!Kinds
  <1>8. CASE M!AcceptPaidVoucher(m)
    <2>1. m.kind = "voucher" /\ UNCHANGED escrow
      BY <1>8 DEF M!AcceptPaidVoucher
    <2>2. PICK deposit \in {served[m.ch].deposit, escrow[m.ch]} :
            LET next == M!Accepted(served[m.ch], deposit, m.amount) IN
            IF M!Covers(next, Price)
            THEN M!Charge(m, next)
            ELSE /\ served' = [served EXCEPT ![m.ch] = next]
                 /\ UNCHANGED <<charged, unserved>>
                 /\ M!Challenge(m)
      BY <1>8 DEF M!AcceptPaidVoucher
    <2>3. PICK next : next = M!Accepted(served[m.ch], deposit, m.amount)
      OBVIOUS
    <2>4. next \in R
      <3>1. deposit \in Int /\ served[m.ch] \in R
        BY <1>2, <2>1
      <3>2. QED
        BY <1>1, <2>3, <3>1, AcceptedShape
    <2>5. CASE M!Charge(m, next)
      BY <2>1, <2>4, <2>5, ChargeStays DEF PaidKinds
    <2>6. CASE /\ served' = [served EXCEPT ![m.ch] = next]
               /\ UNCHANGED <<charged, unserved>> /\ M!Challenge(m)
      <3>1. served' \in [M!Channels -> R] /\ escrow' \in [M!Channels -> Int]
        BY <1>1, <2>1, <2>4, <2>6
      <3>2. QED
        BY <2>6, <3>1, ChallengeStays
    <2>7. QED
      BY <2>2, <2>3, <2>5, <2>6
  <1>9. CASE M!RefuseVoucher(m)
    BY <1>1, <1>9, ChallengeStays DEF M!RefuseVoucher
  <1>10. CASE M!TopUpLands(m)
    <2>1. /\ m.kind = "topUp" /\ escrow' = [escrow EXCEPT ![m.ch] = @ + m.amount]
          /\ M!Advance(m, "landedTopUp") /\ UNCHANGED <<replies, served, charged, unserved>>
      BY <1>10 DEF M!TopUpLands
    <2>2. escrow' \in [M!Channels -> Int]
      BY <1>1, <1>2, <2>1
    <2>3. QED
      BY <1>1, <2>1, <2>2, AdvanceStays DEF PaidKinds, M!Kinds
  <1>11. CASE M!RecordToppedUp(m)
    <2>0. PICK records : records = served'
      OBVIOUS
    <2>1. /\ m.kind = "landedTopUp" /\ UNCHANGED <<escrow, charged, unserved>>
          /\ served' = [served EXCEPT ![m.ch].deposit =
                          M!Larger(served[m.ch].deposit, escrow[m.ch])]
          /\ M!Answer(m, "ok", M!SnapshotOf(records, m.ch))
      BY <1>11, <2>0 DEF M!RecordToppedUp
    <2>2. M!Larger(served[m.ch].deposit, escrow[m.ch]) \in Int
      BY <1>2, <2>1 DEF M!Larger
    <2>3. served' \in [M!Channels -> R]
      BY <1>1, <1>2, <2>1, <2>2
    <2>4. M!SnapshotOf(records, m.ch) \in SnapShape
      BY <1>2, <2>0, <2>1, <2>3, SnapshotShape
    <2>5. QED
      BY <1>1, <2>1, <2>3, <2>4, AnswerStays
  <1>12. CASE M!RefuseTopUp(m)
    BY <1>1, <1>12, ChallengeStays DEF M!RefuseTopUp
  <1>13. CASE M!RefuseTransaction(m)
    BY <1>1, <1>13, ChallengeStays DEF M!RefuseTransaction
  <1>14. CASE M!FailRequest(m)
    BY <1>1, <1>14, AnswerStays, NoSnapshotShape DEF M!FailRequest
  <1>15. CASE M!LoseRequest(m)
    BY <1>15, LossStays DEF M!LoseRequest
  <1>16. QED
    BY <1>3, <1>4, <1>5, <1>6, <1>7, <1>8, <1>9, <1>10, <1>11, <1>12, <1>13, <1>14, <1>15

LEMMA ServiceStays ==
  ASSUME ManagerInv, M!ServiceNext, UNCHANGED M!client
  PROVE  ManagerInv'
  <1>1. ASSUME NEW p \in replies, M!LoseReply(p) PROVE ManagerInv'
    BY <1>1, LossStays DEF M!LoseReply
  <1>2. QED
    BY <1>1, HandlerStays DEF M!ServiceNext

-----------------------------------------------------------------------------
(* Steps of a call.                                                        *)

LEMMA CallFacts ==
  ASSUME ManagerInv, NEW r \in ManagerCalls
  PROVE  /\ ServiceShape /\ ClientShape /\ CallFlight(r)
         /\ store \in EntryShape /\ mgr \in MgrShape /\ opened \in 0..MaxChannels
         /\ call \in [ManagerCalls -> CallShape] /\ call[r] \in CallShape
         /\ Unblocked => InStep /\ TargetOK(r)
         /\ \A p \in replies : p.snap \in SnapShape /\ p \in ReplyShape
  BY DEF ManagerInv, ClientShape, InStep, ServiceShape, ReplyShape

\* What remains to be shown of a step of the call r.
LEMMA CallKeeps ==
  ASSUME ManagerInv, NEW r \in ManagerCalls, UNCHANGED <<escrow, served, charged, unserved>>,
         \A q \in ManagerCalls \ {r} : call'[q] = call[q],
         requests' \subseteq MessageShape, replies' \subseteq replies,
         \A n \in requests' : n \in requests \/ (n.by = r /\ (n.kind # "fetch" => n.ch # 0)),
         ClientShape', CallFlight(r)', OneFetch', (Unblocked => InStep)'
  PROVE  ManagerInv'
  <1>1. ServiceShape'
    BY DEF ManagerInv, ServiceShape
  <1>2. ASSUME NEW q \in ManagerCalls, q # r PROVE CallFlight(q)'
    BY <1>2, FlightOfOthers
  <1>3. QED
    BY <1>1, <1>2 DEF ManagerInv

\* A step after which the call has nothing on the way, or has ended, or is blocked.
LEMMA RestStays ==
  ASSUME ManagerInv, NEW r \in ManagerCalls,
         UNCHANGED <<requests, escrow, served, charged, unserved>>, replies' \subseteq replies,
         \A q \in ManagerCalls \ {r} : call'[q] = call[q],
         ~Waits(r)',
         CallSilent(r)' \/ call'[r].pc \in {"done", "uncertain"},
         call'[r].pc = "done" \/ (charged[r] = unserved[r] /\ call[r].pc \notin {"paying", "done"})
           \/ (charged[r] = unserved[r] /\ CallSilent(r)'),
         Funds(r)' => call'[r].target.ch # 0,
         call'[r].pc = "bootstrapping" => call'[r].snap.ch # 0,
         ClientShape', OneFetch', (Unblocked => InStep)'
  PROVE  ManagerInv'
  <1>1. ServiceShape /\ CallFlight(r)
    BY CallFacts
  <1>2. /\ \A m, n \in requests' : m.by = r /\ n.by = r => m = n
        /\ \A p, q \in replies' : p.by = r /\ q.by = r => p = q
        /\ \A m \in requests', p \in replies' : m.by = r => p.by # r
    BY <1>1 DEF CallFlight
  <1>3. \A m \in requests' : m.by = r /\ m.kind \in PaidKinds => call'[r].pc \in {"paying", "done"}
    BY <1>1 DEF CallFlight, CallSilent
  <1>4. \/ charged'[r] = unserved'[r]
        \/ /\ charged'[r] = 1 + unserved'[r] /\ call'[r].pc \in {"paying", "done"}
           /\ \A m \in requests' : m.by # r
           /\ \A p \in replies' : p.by = r => p.status # "402"
    BY <1>1 DEF CallFlight
  <1>5. call'[r].pc # "paying" /\ ~M!ToppingUp(r)'
    BY DEF Waits, M!ToppingUp
  <1>6. CallFlight(r)'
    BY <1>2, <1>3, <1>4, <1>5 DEF CallFlight
  <1>7. QED
    BY <1>1, <1>6, CallKeeps DEF ServiceShape

\* The fetch in flight goes on, or ends.
LEMMA OneFetchStays ==
  ASSUME ManagerInv, NEW r \in ManagerCalls,
         \A q \in ManagerCalls \ {r} : call'[q] = call[q],
         Active(r)' => Active(r),
         mgr'.busy = mgr.busy \/ (Active(r) /\ ~Active(r)')
  PROVE  OneFetch'
  <1>1. \A q \in ManagerCalls : Active(q)' => Active(q)
    BY DEF Active
  <1>2. QED
    BY <1>1 DEF ManagerInv, OneFetch

\* The channel that others fund is no matter of the fetch in flight.
LEMMA OthersTargets ==
  ASSUME ManagerInv, NEW r \in ManagerCalls, Active(r), Unblocked,
         \A q \in ManagerCalls \ {r} : call'[q] = call[q]
  PROVE  \A q \in ManagerCalls \ {r} : TargetOK(q)'
  <1> SUFFICES ASSUME NEW q \in ManagerCalls \ {r} PROVE TargetOK(q)'
    OBVIOUS
  <1>1. TargetOK(q) /\ ~Active(q)
    BY DEF ManagerInv, InStep, OneFetch
  <1>2. QED
    BY <1>1 DEF TargetOK, Active, Funds

LEMMA UnblockedBefore ==
  ASSUME NEW r \in ManagerCalls, call[r].pc # "uncertain", mgr'.blocked = mgr.blocked,
         \A q \in ManagerCalls \ {r} : call'[q] = call[q], Unblocked'
  PROVE  Unblocked
  BY DEF Unblocked

\* A step that leaves the store and the manager alone.
LEMMA InStepKept ==
  ASSUME ManagerInv, NEW r \in ManagerCalls, UNCHANGED <<store, mgr>>,
         \A q \in ManagerCalls \ {r} : call'[q] = call[q],
         call[r].pc # "uncertain",
         Unblocked /\ call'[r].pc # "uncertain" => TargetOK(r)'
  PROVE  (Unblocked => InStep)'
  <1> SUFFICES ASSUME Unblocked' PROVE InStep'
    OBVIOUS
  <1>1. Unblocked /\ InStep
    BY UnblockedBefore DEF ManagerInv
  <1>2. \A q \in ManagerCalls : TargetOK(q)'
    <2>1. TargetOK(r)'
      BY <1>1 DEF Unblocked
    <2>2. \A q \in ManagerCalls \ {r} : TargetOK(q)'
      BY <1>1 DEF InStep, TargetOK, Funds
    <2>3. QED
      BY <2>1, <2>2
  <1>3. QED
    BY <1>1, <1>2 DEF InStep

LEMMA CallMoves ==
  ASSUME ManagerInv, NEW r \in ManagerCalls, NEW pc \in CallPcs, M!Goto(r, pc)
  PROVE  /\ call' \in [ManagerCalls -> CallShape] /\ call'[r].pc = pc
         /\ call'[r].target = call[r].target /\ call'[r].snap = call[r].snap
         /\ call'[r].sent = call[r].sent
         /\ \A q \in ManagerCalls \ {r} : call'[q] = call[q]
  <1> DEFINE t == [call[r] EXCEPT !.pc = pc]
  <1>1. call \in [ManagerCalls -> CallShape] /\ call[r] \in CallShape
    BY CallFacts
  <1>2. /\ t \in CallShape /\ t.pc = pc /\ t.target = call[r].target /\ t.snap = call[r].snap
        /\ t.sent = call[r].sent
    BY <1>1 DEF CallShape
  <1>3. call' = [call EXCEPT ![r] = t]
    BY <1>1 DEF M!Goto, CallShape
  <1> HIDE DEF t
  <1>4. QED
    BY <1>1, <1>2, <1>3

LEMMA CallEnds ==
  ASSUME ManagerInv, NEW r \in ManagerCalls, M!End(r)
  PROVE  /\ call' \in [ManagerCalls -> CallShape] /\ call'[r].pc = "done"
         /\ \A q \in ManagerCalls \ {r} : call'[q] = call[q]
  <1> DEFINE t == [M!IdleCall EXCEPT !.pc = "done"]
  <1>1. call \in [ManagerCalls -> CallShape]
    BY CallFacts
  <1>2. M!NoEntry \in EntryShape
    BY ChannelsHere DEF M!NoEntry, EntryShape
  <1>3. t \in CallShape /\ t.pc = "done"
    BY <1>2, NoSnapshotShape DEF M!IdleCall, CallShape, CallPcs
  <1>4. call' = [call EXCEPT ![r] = t]
    BY DEF M!End
  <1> HIDE DEF t
  <1>5. QED
    BY <1>1, <1>3, <1>4

\* A call that has ended.
LEMMA EndStays ==
  ASSUME ManagerInv, NEW r \in ManagerCalls, M!End(r), call[r].pc # "done",
         UNCHANGED <<requests, escrow, served, charged, unserved, opened>>,
         replies' \subseteq replies,
         store' \in EntryShape, mgr' \in MgrShape,
         mgr'.busy = mgr.busy \/ Active(r), (Unblocked => InStep)'
  PROVE  ManagerInv'
  <1>1. /\ call' \in [ManagerCalls -> CallShape] /\ call'[r].pc = "done"
        /\ \A q \in ManagerCalls \ {r} : call'[q] = call[q]
    BY CallEnds
  <1>2. ClientShape'
    BY <1>1, CallFacts DEF ClientShape
  <1>3. OneFetch'
    BY <1>1, OneFetchStays DEF Active
  <1>4. ~Waits(r)' /\ ~Funds(r)'
    BY <1>1 DEF Waits, Funds
  <1>5. QED
    BY <1>1, <1>2, <1>3, <1>4, RestStays

-----------------------------------------------------------------------------
(* Steps of a fetch before it pays.                                        *)

\* Between its requests a call is silent and uncharged.
LEMMA CallRests ==
  ASSUME ManagerInv, NEW r \in ManagerCalls, ~Waits(r),
         call[r].pc \notin {"uncertain", "done"}
  PROVE  CallSilent(r) /\ charged[r] = unserved[r]
  BY CallFacts DEF CallFlight, Waits

LEMMA MgrBegin ==
  ASSUME ManagerInv, NEW r \in ManagerCalls, M!BeginFetch(r)
  PROVE  ManagerInv'
  <1> USE CallFacts
  <1>1. /\ call' \in [ManagerCalls -> CallShape] /\ call'[r].pc = "begun"
        /\ \A q \in ManagerCalls \ {r} : call'[q] = call[q]
    BY CallMoves DEF M!BeginFetch, CallPcs
  <1>2. /\ r \notin TopUps /\ call[r].pc = "new" /\ ~mgr.busy /\ ~mgr.blocked
        /\ mgr' = [mgr EXCEPT !.busy = TRUE, !.previous = mgr.channel,
                              !.previousSpent = mgr.spent, !.created = {}, !.received = 0]
        /\ UNCHANGED <<requests, replies, escrow, served, charged, unserved, store, opened>>
    BY DEF M!BeginFetch, M!Ready, M!service
  <1>3. /\ mgr' \in MgrShape /\ mgr'.busy /\ mgr'.previous = mgr.channel /\ mgr'.created = {}
        /\ mgr'.channel = mgr.channel /\ mgr'.blocked = mgr.blocked
    <2>1. /\ mgr \in MgrShape
          /\ mgr.channel \in EntryShape /\ mgr.spent \in Int /\ {} \in SUBSET M!Channels
      BY DEF MgrShape
    <2> DEFINE a == [mgr EXCEPT !.busy = TRUE, !.previous = mgr.channel]
               b == [a EXCEPT !.previousSpent = mgr.spent, !.created = {}]
               c == [b EXCEPT !.received = 0]
    <2>2. /\ a \in MgrShape /\ a.busy = TRUE /\ a.previous = mgr.channel
          /\ a.channel = mgr.channel /\ a.blocked = mgr.blocked
      BY <2>1 DEF MgrShape
    <2>3. mgr' = c
      BY <1>2
    <2> HIDE DEF a
    <2>4. /\ b \in MgrShape /\ b.busy = a.busy /\ b.previous = a.previous /\ b.created = {}
          /\ b.channel = a.channel /\ b.blocked = a.blocked
      BY <2>1, <2>2 DEF MgrShape
    <2> HIDE DEF b
    <2>5. /\ c \in MgrShape /\ c.busy = b.busy /\ c.previous = b.previous
          /\ c.created = b.created /\ c.channel = b.channel /\ c.blocked = b.blocked
      BY <2>4 DEF MgrShape
    <2> HIDE DEF c
    <2>6. QED
      BY <2>2, <2>3, <2>4, <2>5
  <1>4. CallSilent(r) /\ charged[r] = unserved[r]
    BY <1>2, CallRests DEF Waits
  <1>5. ClientShape'
    BY <1>1, <1>2, <1>3 DEF ClientShape
  <1>6. \A q \in ManagerCalls : ~Active(q)
    BY <1>2 DEF ManagerInv, OneFetch
  <1>7. OneFetch'
    BY <1>1, <1>3, <1>6 DEF OneFetch, Active
  <1>8. ASSUME Unblocked' PROVE InStep'
    <2>1. Unblocked /\ InStep
      BY <1>1, <1>2, <1>3, <1>8, UnblockedBefore
    <2>2. TargetOK(r)'
      BY <1>1, <1>2, <1>3 DEF TargetOK, Funds
    <2>3. ASSUME NEW q \in ManagerCalls, q # r PROVE TargetOK(q)'
      <3>1. TargetOK(q) /\ ~Active(q)
        BY <1>6, <2>1 DEF InStep
      <3>2. QED
        BY <1>1, <2>3, <3>1 DEF TargetOK, Active, Funds
    <2>4. QED
      BY <1>2, <1>3, <2>1, <2>2, <2>3 DEF InStep
  <1>9. ~Waits(r)' /\ ~Funds(r)' /\ CallSilent(r)'
    BY <1>1, <1>2, <1>4 DEF Waits, Funds, CallSilent
  <1>10. QED
    BY <1>1, <1>2, <1>4, <1>5, <1>7, <1>8, <1>9, RestStays

LEMMA MgrAskSnapshot ==
  ASSUME ManagerInv, NEW r \in ManagerCalls, M!AskSnapshot(r)
  PROVE  ManagerInv'
  <1> USE CallFacts
  <1>1. PICK snap \in M!Hints(served) \ {M!NoSnapshot} :
          call' = [call EXCEPT ![r] = [call[r] EXCEPT !.pc = "bootstrapping", !.snap = snap]]
    BY DEF M!AskSnapshot
  <1>2. /\ r \notin TopUps /\ call[r].pc = "begun"
        /\ UNCHANGED <<requests, replies, escrow, served, charged, unserved, store, mgr, opened>>
    BY DEF M!AskSnapshot, M!Ready, M!service
  <1>3. snap \in SnapShape /\ snap.ch # 0
    <2>1. PICK c \in M!Channels : snap = M!SnapshotOf(served, c)
      BY <1>1 DEF M!Hints
    <2>2. snap.ch = c
      BY <2>1 DEF M!SnapshotOf
    <2>3. snap.ch # 0
      BY <2>2, ChannelsHere
    <2>4. QED
      BY <1>1, <2>3, HintShape DEF ServiceShape
  <1> DEFINE t == [call[r] EXCEPT !.pc = "bootstrapping", !.snap = snap]
  <1>4. t \in CallShape /\ t.pc = "bootstrapping" /\ t.snap = snap
    BY <1>3 DEF CallShape, CallPcs
  <1>5. call' = [call EXCEPT ![r] = t]
    BY <1>1
  <1> HIDE DEF t
  <1>6. /\ call' \in [ManagerCalls -> CallShape] /\ call'[r] = t
        /\ \A q \in ManagerCalls \ {r} : call'[q] = call[q]
    BY <1>4, <1>5
  <1>7. CallSilent(r) /\ charged[r] = unserved[r]
    BY <1>2, CallRests DEF Waits
  <1>8. ClientShape' /\ OneFetch'
    BY <1>2, <1>4, <1>6, OneFetchStays DEF ClientShape, Active
  <1>9. Unblocked => TargetOK(r)'
    BY <1>2, <1>3, <1>4, <1>6 DEF TargetOK, Funds
  <1>10. (Unblocked => InStep)'
    BY <1>2, <1>6, <1>9, InStepKept
  <1>11. ~Waits(r)' /\ ~Funds(r)' /\ CallSilent(r)'
    BY <1>2, <1>4, <1>6, <1>7 DEF Waits, Funds, CallSilent
  <1>12. QED
    BY <1>2, <1>3, <1>4, <1>6, <1>7, <1>8, <1>10, <1>11, RestStays

LEMMA MgrRecoverSnapshot ==
  ASSUME ManagerInv, NEW r \in ManagerCalls, M!RecoverSnapshot(r)
  PROVE  ManagerInv'
  <1> USE CallFacts
  <1>1. /\ call' \in [ManagerCalls -> CallShape] /\ call'[r].pc = "recovered"
        /\ \A q \in ManagerCalls \ {r} : call'[q] = call[q]
    BY CallMoves DEF M!RecoverSnapshot, CallPcs
  <1> DEFINE snap == call[r].snap
             entry == [ch |-> snap.ch, cum |-> M!BootstrapCumulative(snap),
                       deposit |-> escrow[snap.ch], uncertain |-> FALSE]
  <1>2. /\ r \notin TopUps /\ call[r].pc = "bootstrapping"
        /\ UNCHANGED <<requests, replies, escrow, served, charged, unserved, opened>>
        /\ \/ /\ store' = entry /\ store.ch = 0
              /\ mgr' = [mgr EXCEPT !.channel = entry, !.spent = snap.spent,
                                    !.previous = entry, !.previousSpent = snap.spent]
           \/ UNCHANGED <<store, mgr>>
    BY DEF M!RecoverSnapshot, M!Ready, M!service
  <1>3. CallSilent(r) /\ charged[r] = unserved[r] /\ Active(r)
    BY <1>2, CallRests DEF Waits, Active
  <1>4. ~Waits(r)' /\ ~Funds(r)' /\ CallSilent(r)'
    BY <1>1, <1>2, <1>3 DEF Waits, Funds, CallSilent
  <1>5. CASE UNCHANGED <<store, mgr>>
    <2>1. ClientShape' /\ OneFetch'
      BY <1>1, <1>2, <1>3, <1>5, OneFetchStays DEF ClientShape
    <2>2. Unblocked => TargetOK(r)'
      BY <1>1, <1>2 DEF TargetOK, Funds
    <2>3. (Unblocked => InStep)'
      BY <1>1, <1>2, <1>5, <2>2, InStepKept
    <2>4. QED
      BY <1>1, <1>2, <1>3, <1>4, <2>1, <2>3, RestStays
  <1>6. CASE ~UNCHANGED <<store, mgr>>
    <2>1. /\ store' = entry /\ store.ch = 0
          /\ mgr' = [mgr EXCEPT !.channel = entry, !.spent = snap.spent,
                                !.previous = entry, !.previousSpent = snap.spent]
      BY <1>2, <1>6
    <2>2. snap \in SnapShape
      BY DEF CallShape
    <2>3. snap.ch # 0 /\ (Unblocked => mgr.created = {})
      BY <1>2 DEF TargetOK, CallFlight
    <2>4. PICK e : e = entry
      OBVIOUS
    <2>5. e.ch = snap.ch /\ e.uncertain = FALSE
      BY <2>4
    <2>6. CASE e \in EntryShape
      <3>1. /\ mgr' \in MgrShape /\ mgr'.channel = e /\ mgr'.previous = e
            /\ mgr'.created = mgr.created /\ mgr'.busy = mgr.busy
            /\ mgr'.blocked = mgr.blocked /\ store' = e
        BY <2>1, <2>2, <2>4, <2>6 DEF MgrShape, SnapShape
      <3>2. ClientShape' /\ OneFetch'
        BY <1>1, <1>2, <1>3, <2>6, <3>1, OneFetchStays DEF ClientShape
      <3>3. ASSUME Unblocked' PROVE InStep'
        <4>1. Unblocked /\ InStep
          BY <1>1, <1>2, <3>1, <3>3, UnblockedBefore
        <4>2. TargetOK(r)'
          BY <1>1, <1>2 DEF TargetOK, Funds
        <4>3. \A q \in ManagerCalls \ {r} : TargetOK(q)'
          BY <1>1, <1>3, <4>1, OthersTargets
        <4>4. QED
          BY <2>3, <2>5, <3>1, <4>1, <4>2, <4>3 DEF InStep
      <3>4. QED
        BY <1>1, <1>2, <1>3, <1>4, <3>2, <3>3, RestStays
    <2>7. e \in EntryShape
      <3>1. M!BootstrapCumulative(snap) \in Int
        BY <2>2 DEF M!BootstrapCumulative, M!Larger, SnapShape
      <3>2. snap.ch \in M!Channels /\ escrow[snap.ch] \in Int
        <4>1. ServiceShape /\ snap.ch \in 0..MaxChannels
          BY <2>2 DEF SnapShape
        <4>2. QED
          BY ONLY <2>3, <4>1, ChannelsHere DEF ServiceShape
      <3>3. QED
        BY <2>2, <2>4, <3>1, <3>2 DEF EntryShape, SnapShape
    <2>8. QED
      BY <2>6, <2>7
  <1>7. QED
    BY <1>5, <1>6

\* A step that sends a message, of a call that has nothing else on the way.
LEMMA SendStays ==
  ASSUME ManagerInv, NEW r \in ManagerCalls, UNCHANGED <<escrow, served, charged, unserved>>,
         \A q \in ManagerCalls \ {r} : call'[q] = call[q],
         NEW m \in MessageShape, m.by = r, m.kind # "fetch" => m.ch # 0,
         requests' = requests \cup {m}, replies' \subseteq replies,
         \A n \in requests : n.by # r, \A p \in replies' : p.by # r,
         Waits(r)', m.kind \in PaidKinds => call'[r].pc = "paying",
         call'[r].pc = "paying" \/ M!ToppingUp(r)' => m = call'[r].sent,
         call'[r].pc = "paying" => m.kind \in {"open", "voucher"},
         M!ToppingUp(r)' => m.kind = "topUp",
         Funds(r)' => call'[r].target.ch # 0,
         charged[r] = unserved[r], ClientShape', OneFetch', (Unblocked => InStep)'
  PROVE  ManagerInv'
  <1>1. requests \subseteq MessageShape
    BY CallFacts DEF ServiceShape
  <1>2. /\ \A n, k \in requests' : n.by = r /\ k.by = r => n = k
        /\ \A p, q \in replies' : p.by = r /\ q.by = r => p = q
        /\ \A n \in requests', p \in replies' : n.by = r => p.by # r
        /\ \A n \in requests' : n.by = r => n = m
    OBVIOUS
  <1>3. call'[r].pc # "bootstrapping"
    BY DEF Waits
  <1>4. \A n \in requests' : n.by = r /\ n.kind \in PaidKinds => call'[r].pc \in {"paying", "done"}
    BY <1>2
  <1>5. call'[r].pc = "paying" =>
          call'[r].sent \in MessageShape /\ call'[r].sent.kind \in {"open", "voucher"}
          /\ call'[r].sent.by = r /\ call'[r].sent.ch # 0
    OBVIOUS
  <1>6. M!ToppingUp(r)' =>
          call'[r].sent \in MessageShape /\ call'[r].sent.kind = "topUp"
          /\ call'[r].sent.by = r /\ call'[r].sent.ch # 0
    OBVIOUS
  <1>7. CallFlight(r)'
    BY <1>2, <1>3, <1>4, <1>5, <1>6 DEF CallFlight
  <1>8. QED
    BY <1>1, <1>7, CallKeeps

LEMMA MgrAsk ==
  ASSUME ManagerInv, NEW r \in ManagerCalls, M!Ask(r)
  PROVE  ManagerInv'
  <1> USE CallFacts
  <1>1. /\ call' \in [ManagerCalls -> CallShape] /\ call'[r].pc = "asked"
        /\ \A q \in ManagerCalls \ {r} : call'[q] = call[q]
    BY CallMoves DEF M!Ask, CallPcs
  <1>2. /\ r \notin TopUps /\ call[r].pc \in {"begun", "recovered"}
        /\ requests' = requests \cup {M!Fetch(r)}
        /\ UNCHANGED <<replies, escrow, served, charged, unserved, store, mgr, opened>>
    BY DEF M!Ask, M!Ready, M!Send
  <1>3. CallSilent(r) /\ charged[r] = unserved[r] /\ Active(r)
    BY <1>2, CallRests DEF Waits, Active
  <1>4. /\ M!Fetch(r) \in MessageShape /\ M!Fetch(r).by = r /\ M!Fetch(r).kind = "fetch"
    BY ChannelsHere, NoSnapshotShape DEF M!Fetch, MessageShape, M!Kinds
  <1>5. ClientShape' /\ OneFetch'
    BY <1>1, <1>2, <1>3, OneFetchStays DEF ClientShape
  <1>6. Unblocked => TargetOK(r)'
    BY <1>1, <1>2 DEF TargetOK, Funds
  <1>7. (Unblocked => InStep)'
    BY <1>1, <1>2, <1>6, InStepKept
  <1>8. Waits(r)' /\ ~M!ToppingUp(r)' /\ ~Funds(r)' /\ call'[r].pc # "paying"
    BY <1>1 DEF Waits, M!ToppingUp, Funds
  <1>9. QED
    BY <1>1, <1>2, <1>3, <1>4, <1>5, <1>7, <1>8, SendStays DEF CallSilent, PaidKinds

\* The reply to the one message of a call leaves nothing on the way.
LEMMA ReceivedAll ==
  ASSUME ManagerInv, NEW r \in ManagerCalls, NEW p \in replies, p.by = r,
         requests' = requests, replies' = replies \ {p}
  PROVE  /\ CallSilent(r)' /\ \A n \in requests : n.by # r
         /\ p.status = "402" => charged[r] = unserved[r]
         /\ p.snap \in SnapShape
  BY CallFacts DEF CallFlight, CallSilent

LEMMA MgrTakeChallenge ==
  ASSUME ManagerInv, NEW r \in ManagerCalls, NEW p \in replies, M!TakeChallenge(r, p)
  PROVE  ManagerInv'
  <1> USE CallFacts
  <1> DEFINE t == [call[r] EXCEPT !.pc = "challenged", !.snap = p.snap]
  <1>1. /\ r \notin TopUps /\ call[r].pc = "asked" /\ p.by = r /\ p.status = "402"
        /\ replies' = replies \ {p} /\ call' = [call EXCEPT ![r] = t]
        /\ UNCHANGED <<requests, escrow, served, charged, unserved, store, mgr, opened>>
    BY DEF M!TakeChallenge, M!Ready, M!Receive
  <1>2. CallSilent(r)' /\ charged[r] = unserved[r] /\ p.snap \in SnapShape /\ Active(r)
    BY <1>1, ReceivedAll DEF Active
  <1>3. t \in CallShape /\ t.pc = "challenged"
    BY <1>2 DEF CallShape, CallPcs
  <1> HIDE DEF t
  <1>4. /\ call' \in [ManagerCalls -> CallShape] /\ call'[r] = t
        /\ \A q \in ManagerCalls \ {r} : call'[q] = call[q]
    BY <1>1, <1>3
  <1>5. ClientShape' /\ OneFetch'
    BY <1>1, <1>2, <1>3, <1>4, OneFetchStays DEF ClientShape, Active
  <1>6. Unblocked => TargetOK(r)'
    BY <1>1, <1>3, <1>4 DEF TargetOK, Funds
  <1>7. (Unblocked => InStep)'
    BY <1>1, <1>4, <1>6, InStepKept
  <1>8. ~Waits(r)' /\ ~Funds(r)'
    BY <1>3, <1>4 DEF Waits, Funds
  <1>9. QED
    BY <1>1, <1>2, <1>3, <1>4, <1>5, <1>7, <1>8, RestStays

-----------------------------------------------------------------------------
(* Writing, and rolling back.                                              *)

LEMMA PersistedShape ==
  ASSUME NEW current \in EntryShape, NEW entry \in EntryShape
  PROVE  /\ M!Persisted(current, entry) \in EntryShape
         /\ M!Persisted(current, entry).ch = entry.ch
         /\ ~current.uncertain => M!Persisted(current, entry) = entry
  <1> DEFINE u == entry.uncertain \/ (current.uncertain /\ current.ch = entry.ch)
             e == [entry EXCEPT !.uncertain = u]
  <1>1. u \in BOOLEAN
    BY DEF EntryShape
  <1>2. e \in EntryShape /\ e.ch = entry.ch
    BY <1>1 DEF EntryShape
  <1>3. ~current.uncertain => u = entry.uncertain
    BY DEF EntryShape
  <1> HIDE DEF u
  <1>4. u = entry.uncertain => e = entry
    BY DEF EntryShape
  <1>5. M!Persisted(current, entry) = e
    BY DEF M!Persisted, u
  <1>6. QED
    BY <1>2, <1>3, <1>4, <1>5

\* The store and the manager after a rollback, of a request in flight.
LEMMA RollbackFacts ==
  ASSUME ManagerInv, NEW m, m = M!RolledBack(mgr), NEW s, s = M!StoreRolledBack(mgr)
  PROVE  /\ m \in MgrShape /\ s \in EntryShape /\ m.created = {}
         /\ m.busy = mgr.busy /\ m.blocked = mgr.blocked
         /\ Unblocked /\ mgr.busy =>
              /\ m.channel = s /\ ~s.uncertain
              /\ s.ch = 0 => s = M!NoEntry /\ m.previous = M!NoEntry
              /\ s.ch # store.ch => mgr.created # {}
  <1> USE CallFacts
  <1>1. mgr \in MgrShape /\ store \in EntryShape /\ (Unblocked => InStep)
    BY DEF ManagerInv, ClientShape
  <1>2. /\ mgr.channel \in EntryShape /\ mgr.previous \in EntryShape
        /\ mgr.previousSpent \in Int /\ {} \in SUBSET M!Channels
    BY <1>1 DEF MgrShape
  <1>3. M!NoEntry \in EntryShape /\ M!NoEntry.ch = 0 /\ M!NoEntry.uncertain = FALSE
    BY ChannelsHere DEF M!NoEntry, EntryShape
  <1>4. CASE mgr.created # {}
    <2>1. /\ m = [mgr EXCEPT !.channel = mgr.previous, !.spent = mgr.previousSpent,
                             !.created = {}]
          /\ s = IF store.uncertain THEN store ELSE M!NoEntry
      BY <1>4 DEF M!RolledBack, M!StoreRolledBack, M!Deleted
    <2>2. /\ m \in MgrShape /\ m.created = {} /\ m.busy = mgr.busy /\ m.blocked = mgr.blocked
          /\ m.channel = mgr.previous /\ m.previous = mgr.previous
      BY <1>1, <1>2, <2>1 DEF MgrShape
    <2>3. Unblocked /\ mgr.busy => mgr.previous = M!NoEntry /\ s = M!NoEntry
      BY <1>1, <1>4, <2>1 DEF InStep
    <2>4. QED
      BY <1>1, <1>3, <1>4, <2>1, <2>2, <2>3
  <1>5. CASE mgr.created = {} /\ M!TakesBack(mgr)
    <2> DEFINE e == [mgr.channel EXCEPT !.cum = mgr.previous.cum]
    <2>1. e \in EntryShape /\ e.ch = mgr.channel.ch /\ e.uncertain = mgr.channel.uncertain
      BY <1>2 DEF EntryShape
    <2>2. m = [mgr EXCEPT !.channel = e]
      BY <1>5 DEF M!RolledBack
    <2> HIDE DEF e
    <2>3. /\ m \in MgrShape /\ m.channel = e /\ m.created = mgr.created
          /\ m.busy = mgr.busy /\ m.blocked = mgr.blocked
      BY <1>1, <2>1, <2>2 DEF MgrShape
    <2>4. s = M!Persisted(store, e)
      BY <1>5, <2>3 DEF M!StoreRolledBack
    <2>5. /\ s \in EntryShape /\ s.ch = e.ch
          /\ Unblocked => s = e
      BY <1>1, <2>1, <2>4, PersistedShape DEF InStep
    <2>6. mgr.channel.ch # 0
      BY <1>5 DEF M!TakesBack
    <2>7. QED
      BY <1>1, <1>5, <2>1, <2>3, <2>5, <2>6 DEF InStep
  <1>6. CASE mgr.created = {} /\ ~M!TakesBack(mgr)
    <2>1. m = mgr /\ s = store
      BY <1>6 DEF M!RolledBack, M!StoreRolledBack
    <2>2. QED
      BY <1>1, <1>6, <2>1 DEF InStep
  <1>7. QED
    BY <1>4, <1>5, <1>6

\* A fetch that fails is rolled back.
LEMMA RollbackEnds ==
  ASSUME ManagerInv, NEW r \in ManagerCalls, Active(r), M!Rollback, M!End(r),
         call[r].pc # "uncertain",
         UNCHANGED <<requests, escrow, served, charged, unserved, opened>>,
         replies' \subseteq replies
  PROVE  ManagerInv'
  <1>1. mgr \in MgrShape
    BY CallFacts
  <1>2. PICK m : m = M!RolledBack(mgr)
    OBVIOUS
  <1>3. PICK s : s = M!StoreRolledBack(mgr)
    OBVIOUS
  <1>4. /\ m \in MgrShape /\ s \in EntryShape /\ m.created = {} /\ m.blocked = mgr.blocked
        /\ Unblocked /\ mgr.busy =>
              m.channel = s /\ ~s.uncertain /\ (s.ch = 0 => s = M!NoEntry)
    BY <1>2, <1>3, RollbackFacts
  <1>5. store' = s /\ mgr' = [m EXCEPT !.busy = FALSE]
    BY <1>2, <1>3 DEF M!Rollback
  <1>6. /\ mgr' \in MgrShape /\ mgr'.busy = FALSE /\ mgr'.channel = m.channel
        /\ mgr'.blocked = m.blocked
    BY <1>4, <1>5 DEF MgrShape
  <1>7. /\ call'[r].pc = "done" /\ \A q \in ManagerCalls \ {r} : call'[q] = call[q]
    BY CallEnds
  <1>8. mgr.busy
    BY DEF ManagerInv, OneFetch
  <1>9. ASSUME Unblocked' PROVE InStep'
    <2>1. Unblocked /\ InStep
      BY <1>4, <1>6, <1>7, <1>9, UnblockedBefore, CallFacts
    <2>2. TargetOK(r)'
      BY <1>7 DEF TargetOK, Funds
    <2>3. \A q \in ManagerCalls \ {r} : TargetOK(q)'
      BY <1>7, <2>1, OthersTargets
    <2>4. QED
      BY <1>4, <1>5, <1>6, <1>8, <2>1, <2>2, <2>3 DEF InStep
  <1>10. QED
    BY <1>4, <1>5, <1>6, <1>9, EndStays DEF Active

LEMMA MgrFetchRefused ==
  ASSUME ManagerInv, NEW r \in ManagerCalls, NEW p \in replies, M!FetchRefused(r, p)
  PROVE  ManagerInv'
  BY RollbackEnds DEF M!FetchRefused, M!Ready, M!Receive, Active

LEMMA MgrFetchFails ==
  ASSUME ManagerInv, NEW r \in ManagerCalls, M!FetchFails(r)
  PROVE  ManagerInv'
  BY RollbackEnds DEF M!FetchFails, M!service, Active

LEMMA MgrReceiveChallenge ==
  ASSUME ManagerInv, NEW r \in ManagerCalls, M!ReceiveChallenge(r)
  PROVE  ManagerInv'
  <1> USE CallFacts
  <1> DEFINE snap == call[r].snap
  <1>1. /\ call' \in [ManagerCalls -> CallShape] /\ call'[r].pc = "accepted"
        /\ \A q \in ManagerCalls \ {r} : call'[q] = call[q]
    BY CallMoves DEF M!ReceiveChallenge, CallPcs
  <1>2. /\ r \notin TopUps /\ call[r].pc = "challenged"
        /\ UNCHANGED <<requests, replies, escrow, served, charged, unserved, opened>>
    BY DEF M!ReceiveChallenge, M!Ready, M!service
  <1>3. CallSilent(r) /\ charged[r] = unserved[r] /\ Active(r) /\ mgr.busy
    BY <1>2, CallRests DEF Waits, Active, ManagerInv, OneFetch
  <1>4. snap \in SnapShape /\ mgr \in MgrShape /\ store \in EntryShape
    BY DEF CallShape
  <1>5. ASSUME NEW m \in MgrShape
        PROVE  /\ M!Note(m, snap) \in MgrShape
               /\ M!Note(m, snap).channel = m.channel /\ M!Note(m, snap).busy = m.busy
               /\ M!Note(m, snap).blocked = m.blocked /\ M!Note(m, snap).created = m.created
               /\ M!Note(m, snap).previous = m.previous
    <2> DEFINE a == [m EXCEPT !.received = m.received + 1]
               b == [a EXCEPT !.last = snap, !.challenged = TRUE]
    <2>1. /\ a \in MgrShape
          /\ a.channel = m.channel /\ a.busy = m.busy /\ a.blocked = m.blocked
          /\ a.created = m.created /\ a.previous = m.previous
      BY DEF MgrShape
    <2>2. M!Note(m, snap) = b
      BY DEF M!Note
    <2> HIDE DEF a
    <2>3. b \in MgrShape
      BY <1>4, <2>1 DEF MgrShape
    <2>4. /\ b.channel = a.channel /\ b.busy = a.busy /\ b.blocked = a.blocked
          /\ b.created = a.created /\ b.previous = a.previous
      BY <2>1 DEF MgrShape
    <2> HIDE DEF b
    <2>5. QED
      BY <2>1, <2>2, <2>3, <2>4
  <1>6. PICK m \in MgrShape :
          /\ mgr' = M!Note(m, snap) /\ store' \in EntryShape
          /\ m.busy = mgr.busy /\ m.blocked = mgr.blocked
          /\ Unblocked =>
               /\ m.channel = store' /\ ~store'.uncertain
               /\ store'.ch = 0 => store' = M!NoEntry /\ m.previous = M!NoEntry
               /\ m.created # {} => m.previous = M!NoEntry /\ m.created = {store'.ch}
    <2>1. CASE /\ mgr.received > 0 /\ M!CommitsReferenced(snap) /\ UNCHANGED store
               /\ mgr' = M!Note([mgr EXCEPT !.created = mgr.created \ {snap.ch},
                                            !.previous = mgr.channel,
                                            !.previousSpent = mgr.spent], snap)
      <3> DEFINE m == [mgr EXCEPT !.created = mgr.created \ {snap.ch},
                                  !.previous = mgr.channel, !.previousSpent = mgr.spent]
      <3>1. /\ mgr.channel \in EntryShape /\ mgr.spent \in Int
            /\ mgr.created \ {snap.ch} \in SUBSET M!Channels
        BY <1>4 DEF MgrShape
      <3>2. /\ m \in MgrShape /\ m.channel = mgr.channel /\ m.previous = mgr.channel
            /\ m.busy = mgr.busy /\ m.blocked = mgr.blocked
            /\ m.created = mgr.created \ {snap.ch}
        BY <1>4, <3>1 DEF MgrShape
      <3> HIDE DEF m
      <3>3. snap.ch = mgr.channel.ch /\ snap.ch \in mgr.created
        BY <2>1 DEF M!CommitsReferenced
      <3>4. Unblocked => m.created = {}
        BY <1>3, <3>2, <3>3 DEF InStep
      <3>5. mgr' = M!Note(m, snap)
        BY <2>1 DEF m
      <3>6. QED
        BY <1>4, <2>1, <3>2, <3>4, <3>5 DEF InStep
    <2>2. CASE mgr' = M!Note(M!RolledBack(mgr), snap) /\ store' = M!StoreRolledBack(mgr)
      <3>1. PICK m : m = M!RolledBack(mgr)
        OBVIOUS
      <3>2. PICK s : s = M!StoreRolledBack(mgr)
        OBVIOUS
      <3>3. QED
        BY <1>3, <2>2, <3>1, <3>2, RollbackFacts
    <2>3. CASE mgr' = M!Note(mgr, snap) /\ UNCHANGED store
      BY <1>3, <1>4, <2>3 DEF InStep
    <2>4. QED
      BY <2>1, <2>2, <2>3 DEF M!ReceiveChallenge
  <1>7. /\ mgr' \in MgrShape /\ mgr'.channel = m.channel /\ mgr'.busy = mgr.busy
        /\ mgr'.blocked = mgr.blocked /\ mgr'.created = m.created
        /\ mgr'.previous = m.previous
    BY <1>5, <1>6
  <1>8. ClientShape' /\ OneFetch'
    BY <1>1, <1>2, <1>3, <1>6, <1>7, OneFetchStays DEF ClientShape
  <1>9. ASSUME Unblocked' PROVE InStep'
    <2>1. Unblocked /\ InStep
      BY <1>1, <1>2, <1>7, <1>9, UnblockedBefore
    <2>2. TargetOK(r)'
      BY <1>1, <1>2 DEF TargetOK, Funds
    <2>3. \A q \in ManagerCalls \ {r} : TargetOK(q)'
      BY <1>1, <1>3, <2>1, OthersTargets
    <2>4. QED
      BY <1>6, <1>7, <2>1, <2>2, <2>3 DEF InStep
  <1>10. ~Waits(r)' /\ ~Funds(r)' /\ CallSilent(r)'
    BY <1>1, <1>2, <1>3 DEF Waits, Funds, CallSilent
  <1>11. QED
    BY <1>1, <1>2, <1>3, <1>8, <1>9, <1>10, RestStays

\* Whatever is written becomes the manager's channel; one that the request in
\* flight did not have yet counts as created by it.
LEMMA WriteFacts ==
  ASSUME ManagerInv, NEW entry \in EntryShape, entry.ch # 0, M!Write(entry)
  PROVE  /\ store' \in EntryShape /\ mgr' \in MgrShape /\ store'.ch = entry.ch
         /\ mgr'.channel = store' /\ mgr'.busy = mgr.busy /\ mgr'.blocked = mgr.blocked
         /\ mgr'.previous = mgr.previous
         /\ ~store.uncertain => store' = entry
         /\ mgr'.created = IF entry.ch # mgr.channel.ch /\ mgr.busy
                           THEN mgr.created \cup {entry.ch} ELSE mgr.created
  <1>1. store \in EntryShape /\ mgr \in MgrShape
    BY DEF ManagerInv, ClientShape
  <1>2. PICK s : s = M!Persisted(store, entry)
    OBVIOUS
  <1>3. /\ s \in EntryShape /\ s.ch = entry.ch /\ (~store.uncertain => s = entry)
    BY <1>1, <1>2, PersistedShape
  <1>4. store' = s /\ mgr' = M!Updated(mgr, s)
    BY <1>2 DEF M!Write
  <1>5. s.ch \in M!Channels
    BY <1>3, ChannelsHere DEF EntryShape
  <1>6. CASE s.ch = mgr.channel.ch
    <2>1. mgr' = [mgr EXCEPT !.channel = s]
      BY <1>4, <1>6 DEF M!Updated
    <2>2. QED
      BY <1>1, <1>3, <1>4, <1>6, <2>1 DEF MgrShape
  <1>7. CASE s.ch # mgr.channel.ch
    <2> DEFINE c == IF mgr.busy THEN mgr.created \cup {s.ch} ELSE mgr.created
    <2>1. c \in SUBSET M!Channels
      BY <1>1, <1>5 DEF MgrShape
    <2>2. mgr' = [mgr EXCEPT !.channel = s, !.spent = 0, !.created = c]
      BY <1>4, <1>7 DEF M!Updated
    <2>3. c = IF entry.ch # mgr.channel.ch /\ mgr.busy
              THEN mgr.created \cup {entry.ch} ELSE mgr.created
      BY <1>3, <1>7
    <2> HIDE DEF c
    <2> DEFINE a0 == [mgr EXCEPT !.channel = s]
               a == [a0 EXCEPT !.spent = 0]
    <2>4. mgr' \in MgrShape
      <3>0. a0 \in MgrShape
        BY <1>1, <1>3 DEF MgrShape
      <3>1. a \in MgrShape
        <4> HIDE DEF a0
        <4>1. QED
          BY <3>0 DEF MgrShape
      <3>2. mgr' = [a EXCEPT !.created = c]
        BY <2>2
      <3> HIDE DEF a
      <3>3. QED
        BY <2>1, <3>1, <3>2 DEF MgrShape
    <2>5. /\ mgr'.channel = s /\ mgr'.busy = mgr.busy /\ mgr'.blocked = mgr.blocked
          /\ mgr'.previous = mgr.previous /\ mgr'.created = c
      BY <1>1, <2>2 DEF MgrShape
    <2>6. QED
      BY <1>3, <1>4, <2>3, <2>4, <2>5
  <1>8. QED
    BY <1>6, <1>7

LEMMA AmountShapes ==
  ASSUME NEW e \in EntryShape, NEW snap \in SnapShape
  PROVE  M!Required(e, snap) \in Int /\ M!KnownDeposit(e, snap) \in Int
  BY ClientAssumption DEF M!Required, M!KnownDeposit, M!Larger, EntryShape, SnapShape

LEMMA TopUpShape ==
  ASSUME NEW deposit \in Int, NEW required \in Int
  PROVE  M!TopUpFor(deposit, required) \in Int
  <1>1. TopUpAmount \in Int /\ ManagerLimit \in Int
    BY ClientAssumption, ManagerAssumption
  <1>2. QED
    BY <1>1 DEF M!TopUpFor, M!Smaller, M!Larger

-----------------------------------------------------------------------------
(* Steps of a fetch that funds and pays.                                   *)

LEMMA MgrCheckFunds ==
  ASSUME ManagerInv, NEW r \in ManagerCalls, M!CheckFunds(r)
  PROVE  ManagerInv'
  <1> USE CallFacts
  <1> DEFINE snap == call[r].snap
             required == M!Required(store, snap)
             deposit == M!KnownDeposit(store, snap)
             target == [store EXCEPT !.deposit = deposit]
             t == [call[r] EXCEPT !.pc = "underfunded", !.required = required,
                                  !.target = target]
  <1>1. /\ r \notin TopUps /\ call[r].pc = "accepted"
        /\ UNCHANGED <<requests, replies, escrow, served, charged, unserved, store, mgr, opened>>
    BY DEF M!CheckFunds, M!Ready, M!service
  <1>2. CallSilent(r) /\ charged[r] = unserved[r] /\ Active(r)
    BY <1>1, CallRests DEF Waits, Active
  <1>3. M!Goto(r, "funded") \/ (store.ch # 0 /\ call' = [call EXCEPT ![r] = t])
    BY DEF M!CheckFunds
  <1>4. snap \in SnapShape /\ store \in EntryShape /\ call \in [ManagerCalls -> CallShape]
    BY DEF CallShape
  <1>5. required \in Int /\ deposit \in Int
    BY <1>4, AmountShapes
  <1> HIDE DEF required, deposit
  <1>6. target \in EntryShape /\ target.ch = store.ch /\ target.uncertain = store.uncertain
    BY <1>4, <1>5 DEF EntryShape
  <1> HIDE DEF target
  <1>7. t \in CallShape /\ t.pc = "underfunded" /\ t.target = target
    BY <1>4, <1>5, <1>6 DEF CallShape, CallPcs
  <1> HIDE DEF t
  <1>8. /\ call' \in [ManagerCalls -> CallShape]
        /\ \A q \in ManagerCalls \ {r} : call'[q] = call[q]
        /\ \/ call'[r].pc = "funded"
           \/ /\ store.ch # 0 /\ call'[r].pc = "underfunded" /\ call'[r].target = target
    <2>1. CASE M!Goto(r, "funded")
      BY <2>1, CallMoves DEF CallPcs
    <2>2. CASE store.ch # 0 /\ call' = [call EXCEPT ![r] = t]
      BY <1>4, <1>7, <2>2
    <2>3. QED
      BY <1>3, <2>1, <2>2
  <1>9. ClientShape' /\ OneFetch'
    BY <1>1, <1>2, <1>8, OneFetchStays DEF ClientShape
  <1>10. Unblocked => TargetOK(r)'
    BY <1>1, <1>6, <1>8 DEF TargetOK, Funds, InStep
  <1>11. (Unblocked => InStep)'
    BY <1>1, <1>8, <1>10, InStepKept
  <1>12. ~Waits(r)' /\ CallSilent(r)' /\ (Funds(r)' => call'[r].target.ch # 0)
    BY <1>1, <1>2, <1>6, <1>8 DEF Waits, Funds, CallSilent
  <1>13. QED
    BY <1>1, <1>2, <1>8, <1>9, <1>11, <1>12, RestStays

LEMMA MgrLockFunding ==
  ASSUME ManagerInv, NEW r \in ManagerCalls, M!LockFunding(r)
  PROVE  ManagerInv'
  <1> USE CallFacts
  <1> DEFINE seen == call[r].target
             entry == IF store.ch = seen.ch
                      THEN [store EXCEPT !.deposit = M!Larger(store.deposit, seen.deposit)]
                      ELSE seen
  <1>1. PICK next \in {"uncertain", "short", "landed"} :
          /\ next = "uncertain" <=> entry.uncertain
          /\ call' = [call EXCEPT ![r] = [call[r] EXCEPT !.target = entry, !.pc = next]]
    BY DEF M!LockFunding
  <1>2. /\ r \notin TopUps /\ call[r].pc = "underfunded"
        /\ UNCHANGED <<requests, replies, escrow, served, charged, unserved, store, mgr, opened>>
    BY DEF M!LockFunding, M!Ready, M!service
  <1>3. /\ CallSilent(r) /\ charged[r] = unserved[r] /\ Active(r) /\ seen.ch # 0
        /\ call \in [ManagerCalls -> CallShape]
    BY <1>2, CallRests DEF Waits, Active, CallFlight, Funds
  <1>4. seen \in EntryShape /\ store \in EntryShape
    BY DEF CallShape
  <1>5. /\ entry \in EntryShape /\ entry.ch = seen.ch
    <2>1. M!Larger(store.deposit, seen.deposit) \in Int
      BY <1>4 DEF M!Larger, EntryShape
    <2>2. QED
      BY <1>4, <2>1 DEF EntryShape
  <1> HIDE DEF entry
  <1> DEFINE t == [call[r] EXCEPT !.target = entry, !.pc = next]
  <1>6. t \in CallShape /\ t.pc = next /\ t.target = entry
    BY <1>5 DEF CallShape, CallPcs
  <1>7. call' = [call EXCEPT ![r] = t]
    BY <1>1
  <1> HIDE DEF t
  <1>8. /\ call' \in [ManagerCalls -> CallShape] /\ call'[r] = t
        /\ \A q \in ManagerCalls \ {r} : call'[q] = call[q]
    BY <1>3, <1>6, <1>7
  <1>9. ClientShape' /\ OneFetch'
    BY <1>2, <1>3, <1>8, OneFetchStays DEF ClientShape
  <1>10. Unblocked /\ next # "uncertain" => TargetOK(r)'
    <2> SUFFICES ASSUME Unblocked, next # "uncertain" PROVE TargetOK(r)'
      OBVIOUS
    <2>1. seen.ch = store.ch /\ ~entry.uncertain
      BY <1>1, <1>2 DEF TargetOK, Funds
    <2>2. QED
      BY <1>2, <1>5, <1>6, <1>8, <2>1 DEF TargetOK
  <1>11. (Unblocked => InStep)'
    BY <1>2, <1>6, <1>8, <1>10, InStepKept
  <1>12. ~Waits(r)' /\ CallSilent(r)' /\ (Funds(r)' => call'[r].target.ch # 0)
    BY <1>2, <1>3, <1>5, <1>6, <1>8 DEF Waits, Funds, CallSilent
  <1>13. QED
    BY <1>2, <1>3, <1>6, <1>8, <1>9, <1>11, <1>12, RestStays

LEMMA MgrPostTopUp ==
  ASSUME ManagerInv, NEW r \in ManagerCalls, M!PostTopUp(r)
  PROVE  ManagerInv'
  <1> USE CallFacts
  <1> DEFINE target == call[r].target
             amount == M!TopUpFor(target.deposit, call[r].required)
             m == M!Post("topUp", r, target.ch, amount, 0)
             t == [call[r] EXCEPT !.pc = "toppingUp", !.sent = m]
  <1>1. /\ r \notin TopUps /\ call[r].pc = "short"
        /\ requests' = requests \cup {m} /\ call' = [call EXCEPT ![r] = t]
        /\ UNCHANGED <<replies, escrow, served, charged, unserved, store, mgr, opened>>
    BY DEF M!PostTopUp, M!Ready, M!Send
  <1>2. /\ CallSilent(r) /\ charged[r] = unserved[r] /\ Active(r) /\ target.ch # 0
        /\ call \in [ManagerCalls -> CallShape]
    BY <1>1, CallRests DEF Waits, Active, CallFlight, Funds
  <1>3. target \in EntryShape /\ call[r].required \in Int /\ call[r].snap \in SnapShape
    BY DEF CallShape
  <1>4. amount \in Int
    BY <1>3, TopUpShape DEF EntryShape
  <1> HIDE DEF amount
  <1>5. /\ m \in MessageShape /\ m.kind = "topUp" /\ m.by = r /\ m.ch = target.ch
    BY <1>3, <1>4 DEF M!Post, MessageShape, M!Kinds, EntryShape
  <1> HIDE DEF m
  <1>6. t \in CallShape /\ t.pc = "toppingUp" /\ t.target = target /\ t.sent = m
    BY <1>5 DEF CallShape, CallPcs
  <1> HIDE DEF t
  <1>7. /\ call' \in [ManagerCalls -> CallShape] /\ call'[r] = t
        /\ \A q \in ManagerCalls \ {r} : call'[q] = call[q]
    BY <1>1, <1>2, <1>6
  <1>8. ClientShape' /\ OneFetch'
    BY <1>1, <1>2, <1>7, OneFetchStays DEF ClientShape
  <1>9. Unblocked => TargetOK(r)'
    BY <1>1, <1>6, <1>7 DEF TargetOK, Funds
  <1>10. (Unblocked => InStep)'
    BY <1>1, <1>7, <1>9, InStepKept
  <1>11. Waits(r)' /\ call'[r].pc # "paying"
    BY <1>6, <1>7 DEF Waits
  <1>12. QED
    BY <1>1, <1>2, <1>5, <1>6, <1>7, <1>8, <1>10, <1>11, SendStays
    DEF CallSilent, PaidKinds

\* A fetch that writes the store while no top-up has blocked the manager: the
\* entry is of the stored channel, or there was none.
LEMMA WriteStays ==
  ASSUME ManagerInv, NEW r \in ManagerCalls, Active(r),
         NEW entry \in EntryShape, entry.ch # 0, M!Write(entry),
         \A q \in ManagerCalls \ {r} : call'[q] = call[q],
         call[r].pc # "uncertain", call'[r].pc \in {"funded", "paying"},
         Unblocked => ~entry.uncertain /\ (entry.ch = store.ch \/ store.ch = 0)
  PROVE  (Unblocked => InStep)'
  <1> SUFFICES ASSUME Unblocked' PROVE InStep'
    OBVIOUS
  <1>1. /\ mgr'.channel = store' /\ mgr'.busy = mgr.busy /\ mgr'.blocked = mgr.blocked
        /\ mgr'.previous = mgr.previous
        /\ ~store.uncertain => store' = entry
        /\ mgr'.created = IF entry.ch # mgr.channel.ch /\ mgr.busy
                          THEN mgr.created \cup {entry.ch} ELSE mgr.created
    BY WriteFacts
  <1>2. Unblocked /\ InStep /\ mgr.busy
    BY <1>1, UnblockedBefore, CallFacts DEF ManagerInv, OneFetch
  <1>3. TargetOK(r)'
    BY DEF TargetOK, Funds, Active
  <1>4. \A q \in ManagerCalls \ {r} : TargetOK(q)'
    BY <1>2, OthersTargets
  <1>5. store' = entry /\ ~entry.uncertain /\ mgr.channel = store
    BY <1>1, <1>2 DEF InStep
  <1>6. CASE entry.ch = store.ch
    BY <1>1, <1>2, <1>3, <1>4, <1>5, <1>6 DEF InStep
  <1>7. CASE entry.ch # store.ch
    <2>1. store.ch = 0 /\ mgr.previous = M!NoEntry
      BY <1>2, <1>7 DEF InStep
    <2>2. mgr.created = {}
      <3>1. mgr.created \in SUBSET M!Channels /\ 0 \notin M!Channels
        BY ChannelsHere, CallFacts DEF MgrShape
      <3>2. QED
        BY <1>2, <2>1, <3>1 DEF InStep
    <2>3. mgr'.created = {entry.ch}
      BY <1>1, <1>2, <1>5, <1>7, <2>2
    <2>4. QED
      BY <1>1, <1>2, <1>3, <1>4, <1>5, <2>1, <2>3 DEF InStep
  <1>8. QED
    BY <1>6, <1>7

LEMMA MgrRecordFunds ==
  ASSUME ManagerInv, NEW r \in ManagerCalls, M!RecordFunds(r)
  PROVE  ManagerInv'
  <1> USE CallFacts
  <1> DEFINE target == call[r].target
             latest == IF store.ch = target.ch THEN store ELSE target
             entry == [latest EXCEPT !.deposit = M!Larger(latest.deposit, target.deposit)]
  <1>1. /\ r \notin TopUps /\ call[r].pc = "landed"
        /\ UNCHANGED <<requests, replies, escrow, served, charged, unserved, opened>>
        /\ \/ M!Write(entry) /\ M!Goto(r, "funded")
           \/ M!Goto(r, "uncertain") /\ UNCHANGED <<store, mgr>>
    BY DEF M!RecordFunds, M!Ready, M!service
  <1>2. /\ CallSilent(r) /\ charged[r] = unserved[r] /\ Active(r) /\ target.ch # 0
    BY <1>1, CallRests DEF Waits, Active, CallFlight, Funds
  <1>3. target \in EntryShape /\ store \in EntryShape
    BY DEF CallShape
  <1>4. /\ entry \in EntryShape /\ entry.ch = target.ch
        /\ entry.uncertain = latest.uncertain
    <2>1. latest \in EntryShape /\ latest.ch = target.ch
      BY <1>3
    <2> HIDE DEF latest
    <2>2. M!Larger(latest.deposit, target.deposit) \in Int
      BY <1>3, <2>1 DEF M!Larger, EntryShape
    <2>3. QED
      BY <2>1, <2>2 DEF EntryShape
  <1>5. Unblocked => entry.ch = store.ch /\ ~entry.uncertain
    BY <1>1, <1>2, <1>4 DEF TargetOK, Funds, InStep
  <1> HIDE DEF entry
  <1>6. CASE M!Write(entry) /\ M!Goto(r, "funded")
    <2>1. /\ call' \in [ManagerCalls -> CallShape] /\ call'[r].pc = "funded"
          /\ \A q \in ManagerCalls \ {r} : call'[q] = call[q]
      BY <1>6, CallMoves DEF CallPcs
    <2>2. store' \in EntryShape /\ mgr' \in MgrShape /\ mgr'.busy = mgr.busy
      BY <1>2, <1>4, <1>6, WriteFacts
    <2>3. ClientShape' /\ OneFetch'
      BY <1>1, <1>2, <2>1, <2>2, OneFetchStays DEF ClientShape
    <2>4. (Unblocked => InStep)'
      BY <1>1, <1>2, <1>4, <1>5, <1>6, <2>1, WriteStays
    <2>5. ~Waits(r)' /\ CallSilent(r)' /\ ~Funds(r)'
      BY <1>1, <1>2, <2>1 DEF Waits, Funds, CallSilent
    <2>6. QED
      BY <1>1, <1>2, <2>1, <2>3, <2>4, <2>5, RestStays
  <1>7. CASE M!Goto(r, "uncertain") /\ UNCHANGED <<store, mgr>>
    <2>1. /\ call' \in [ManagerCalls -> CallShape] /\ call'[r].pc = "uncertain"
          /\ \A q \in ManagerCalls \ {r} : call'[q] = call[q]
      BY <1>7, CallMoves DEF CallPcs
    <2>2. ClientShape' /\ OneFetch'
      BY <1>1, <1>2, <1>7, <2>1, OneFetchStays DEF ClientShape
    <2>3. (Unblocked => InStep)'
      BY <2>1 DEF Unblocked
    <2>4. ~Waits(r)' /\ CallSilent(r)' /\ ~Funds(r)'
      BY <1>1, <1>2, <2>1 DEF Waits, Funds, CallSilent
    <2>5. QED
      BY <1>1, <1>2, <2>1, <2>2, <2>3, <2>4, RestStays
  <1>8. QED
    BY <1>1, <1>6, <1>7

\* A fetch that writes what it signs, and sends it.
LEMMA PayStays ==
  ASSUME ManagerInv, NEW r \in ManagerCalls, r \notin TopUps, call[r].pc = "funded",
         NEW m \in MessageShape, m.by = r, m.kind \in {"open", "voucher"}, m.ch # 0,
         NEW entry \in EntryShape, entry.ch # 0, M!Write(entry), M!Pay(r, m),
         Unblocked => ~entry.uncertain /\ (entry.ch = store.ch \/ store.ch = 0),
         UNCHANGED <<replies, escrow, served, charged, unserved>>, opened' \in 0..MaxChannels
  PROVE  ManagerInv'
  <1> USE CallFacts
  <1> DEFINE t == [call[r] EXCEPT !.pc = "paying", !.round = call[r].round + 1, !.sent = m,
                                  !.paidFor = call[r].snap]
  <1>1. /\ requests' = requests \cup {m} /\ call' = [call EXCEPT ![r] = t]
        /\ call \in [ManagerCalls -> CallShape]
    BY DEF M!Pay, M!Send
  <1>2. CallSilent(r) /\ charged[r] = unserved[r] /\ Active(r)
    BY CallRests DEF Waits, Active
  <1>3. t \in CallShape /\ t.pc = "paying" /\ t.sent = m
    <2>1. call[r] \in CallShape /\ call[r].round + 1 \in Int /\ call[r].snap \in SnapShape
      BY DEF CallShape
    <2>2. QED
      BY <2>1 DEF CallShape, CallPcs
  <1> HIDE DEF t
  <1>4. /\ call' \in [ManagerCalls -> CallShape] /\ call'[r] = t
        /\ \A q \in ManagerCalls \ {r} : call'[q] = call[q]
    BY <1>1, <1>3
  <1>5. store' \in EntryShape /\ mgr' \in MgrShape /\ mgr'.busy = mgr.busy
    BY WriteFacts
  <1>6. ClientShape' /\ OneFetch'
    BY <1>2, <1>4, <1>5, OneFetchStays DEF ClientShape
  <1>7. (Unblocked => InStep)'
    BY <1>2, <1>3, <1>4, WriteStays
  <1>8. Waits(r)' /\ ~M!ToppingUp(r)' /\ ~Funds(r)'
    BY <1>3, <1>4 DEF Waits, M!ToppingUp, Funds
  <1>9. QED
    BY <1>1, <1>2, <1>3, <1>4, <1>6, <1>7, <1>8, SendStays DEF CallSilent

LEMMA MgrSignOpen ==
  ASSUME ManagerInv, NEW r \in ManagerCalls, M!SignOpen(r)
  PROVE  ManagerInv'
  <1> USE CallFacts
  <1> DEFINE m == M!Post("open", r, opened + 1, Price, M!OpeningDeposit)
             entry == [ch |-> opened + 1, cum |-> Price, deposit |-> M!OpeningDeposit,
                       uncertain |-> FALSE]
  <1>1. /\ r \notin TopUps /\ call[r].pc = "funded" /\ store.ch = 0 /\ opened < MaxChannels
        /\ opened' = opened + 1 /\ M!Write(entry) /\ M!Pay(r, m)
        /\ UNCHANGED <<replies, escrow, served, charged, unserved>>
    BY DEF M!SignOpen, M!Ready, M!PlanKind
  <1>2. opened + 1 \in 0..MaxChannels /\ opened + 1 # 0 /\ call[r].snap \in SnapShape
    BY <1>1, ChannelsHere DEF CallShape
  <1>3. M!OpeningDeposit \in Int
    BY ClientAssumption, ManagerAssumption DEF M!OpeningDeposit, M!Smaller
  <1>4. m \in MessageShape /\ m.by = r /\ m.kind = "open" /\ m.ch # 0
    BY <1>2, <1>3, ClientAssumption DEF M!Post, MessageShape, M!Kinds
  <1>5. entry \in EntryShape /\ entry.ch # 0 /\ ~entry.uncertain
    BY <1>2, <1>3, ClientAssumption DEF EntryShape
  <1> HIDE DEF m, entry
  <1>6. QED
    BY <1>1, <1>2, <1>4, <1>5, PayStays

LEMMA MgrSignVoucher ==
  ASSUME ManagerInv, NEW r \in ManagerCalls, M!SignVoucher(r)
  PROVE  ManagerInv'
  <1> USE CallFacts
  <1> DEFINE m == M!Post("voucher", r, store.ch, store.cum + Price, 0)
             entry == [store EXCEPT !.cum = store.cum + Price]
  <1>1. /\ r \notin TopUps /\ call[r].pc = "funded" /\ store.ch # 0
        /\ M!Write(entry) /\ M!Pay(r, m)
        /\ UNCHANGED <<replies, escrow, served, charged, unserved, opened>>
    BY DEF M!SignVoucher, M!Ready, M!PlanKind
  <1>2. store \in EntryShape /\ store.cum + Price \in Int /\ call[r].snap \in SnapShape
    BY ClientAssumption DEF EntryShape, CallShape
  <1>3. m \in MessageShape /\ m.by = r /\ m.kind = "voucher" /\ m.ch # 0
    BY <1>1, <1>2 DEF M!Post, MessageShape, M!Kinds, EntryShape
  <1>4. entry \in EntryShape /\ entry.ch = store.ch /\ entry.uncertain = store.uncertain
    BY <1>2 DEF EntryShape
  <1> HIDE DEF m, entry
  <1>5. Unblocked => ~entry.uncertain
    BY <1>4 DEF InStep
  <1>6. QED
    BY <1>1, <1>3, <1>4, <1>5, PayStays

LEMMA MgrSignRecovered ==
  ASSUME ManagerInv, NEW r \in ManagerCalls, M!SignRecovered(r)
  PROVE  ManagerInv'
  <1> USE CallFacts
  <1> DEFINE snap == call[r].snap
             cum == M!RecoveredCumulative(snap)
             m == M!Post("voucher", r, snap.ch, cum, 0)
             entry == [ch |-> snap.ch, cum |-> cum, deposit |-> escrow[snap.ch],
                       uncertain |-> FALSE]
  <1>1. /\ r \notin TopUps /\ call[r].pc = "funded" /\ store.ch = 0 /\ snap.ch # 0
        /\ M!Write(entry) /\ M!Pay(r, m)
        /\ UNCHANGED <<replies, escrow, served, charged, unserved, opened>>
    BY DEF M!SignRecovered, M!Ready, M!PlanKind
  <1>2. snap \in SnapShape /\ ServiceShape
    BY DEF CallShape
  <1>3. cum \in Int
    BY <1>2, ClientAssumption DEF M!RecoveredCumulative, M!Larger, SnapShape
  <1> HIDE DEF cum
  <1>4. snap.ch \in 0..MaxChannels /\ escrow[snap.ch] \in Int
    <2>1. snap.ch \in 0..MaxChannels /\ escrow \in [M!Channels -> Int]
      BY <1>2 DEF SnapShape, ServiceShape
    <2>2. QED
      BY ONLY <1>1, <2>1, ChannelsHere
  <1>5. m \in MessageShape /\ m.by = r /\ m.kind = "voucher" /\ m.ch # 0
    BY <1>1, <1>2, <1>3, <1>4 DEF M!Post, MessageShape, M!Kinds
  <1>6. entry \in EntryShape /\ entry.ch # 0 /\ ~entry.uncertain
    BY <1>1, <1>3, <1>4 DEF EntryShape
  <1> HIDE DEF m, entry
  <1>7. QED
    BY <1>1, <1>5, <1>6, PayStays

LEMMA ConfirmedShape ==
  ASSUME NEW m \in MgrShape, NEW receipt \in SnapShape
  PROVE  /\ M!Confirmed(m, receipt) \in MgrShape
         /\ M!Confirmed(m, receipt).channel = m.channel
         /\ M!Confirmed(m, receipt).busy = m.busy
         /\ M!Confirmed(m, receipt).blocked = m.blocked
         /\ M!Confirmed(m, receipt).created = m.created
         /\ M!Confirmed(m, receipt).previous = m.previous
  <1> DEFINE s == M!Larger(m.spent, receipt.spent)
             c == [m EXCEPT !.spent = s]
  <1>1. s \in Int
    BY DEF M!Larger, MgrShape, SnapShape
  <1> HIDE DEF s
  <1>2. /\ c \in MgrShape /\ c.channel = m.channel /\ c.busy = m.busy
        /\ c.blocked = m.blocked /\ c.created = m.created /\ c.previous = m.previous
    BY <1>1 DEF MgrShape
  <1> HIDE DEF c
  <1>3. M!Confirmed(m, receipt) \in {m, c}
    BY DEF M!Confirmed, c, s
  <1>4. QED
    BY <1>2, <1>3

LEMMA MgrFetchPaid ==
  ASSUME ManagerInv, NEW r \in ManagerCalls, NEW p \in replies, M!FetchPaid(r, p)
  PROVE  ManagerInv'
  <1> USE CallFacts
  <1>1. PICK m : m = M!Confirmed(mgr, p.snap)
    OBVIOUS
  <1>2. /\ r \notin TopUps /\ call[r].pc = "paying" /\ M!End(r)
        /\ mgr' = [m EXCEPT !.busy = FALSE] /\ replies' = replies \ {p}
        /\ UNCHANGED <<requests, escrow, served, charged, unserved, store, opened>>
    BY <1>1 DEF M!FetchPaid, M!Ready, M!Receive
  <1>3. /\ m \in MgrShape /\ m.channel = mgr.channel /\ m.blocked = mgr.blocked
    BY <1>1, ConfirmedShape
  <1>4. /\ mgr' \in MgrShape /\ mgr'.channel = mgr.channel /\ mgr'.busy = FALSE
        /\ mgr'.blocked = mgr.blocked
    BY <1>2, <1>3 DEF MgrShape
  <1>5. /\ call'[r].pc = "done" /\ \A q \in ManagerCalls \ {r} : call'[q] = call[q]
    BY <1>2, CallEnds
  <1>6. Active(r)
    BY <1>2 DEF Active
  <1>7. ASSUME Unblocked' PROVE InStep'
    <2>1. Unblocked /\ InStep
      BY <1>2, <1>4, <1>5, <1>7, UnblockedBefore
    <2>2. TargetOK(r)'
      BY <1>5 DEF TargetOK, Funds
    <2>3. \A q \in ManagerCalls \ {r} : TargetOK(q)'
      BY <1>5, <1>6, <2>1, OthersTargets
    <2>4. QED
      BY <1>2, <1>4, <2>1, <2>2, <2>3 DEF InStep
  <1>8. QED
    BY <1>2, <1>4, <1>6, <1>7, EndStays

LEMMA MgrPayAgain ==
  ASSUME ManagerInv, NEW r \in ManagerCalls, NEW p \in replies, M!PayAgain(r, p)
  PROVE  ManagerInv'
  <1> USE CallFacts
  <1> DEFINE a == [call[r] EXCEPT !.pc = "challenged", !.snap = p.snap]
             b == [call[r] EXCEPT !.round = call[r].round + 1]
  <1>1. /\ r \notin TopUps /\ call[r].pc = "paying" /\ p.by = r /\ p.status = "402"
        /\ replies' = replies \ {p} /\ call \in [ManagerCalls -> CallShape]
        /\ UNCHANGED <<escrow, served, charged, unserved, store, mgr, opened>>
        /\ \/ call' = [call EXCEPT ![r] = a] /\ UNCHANGED requests
           \/ call' = [call EXCEPT ![r] = b] /\ requests' = requests \cup {call[r].sent}
    BY DEF M!PayAgain, M!Ready, M!Receive, M!Send, M!AsksPayment
  <1>2. /\ \A n \in requests : n.by # r
        /\ \A q \in replies' : q.by # r
        /\ charged[r] = unserved[r] /\ p.snap \in SnapShape /\ Active(r)
    BY <1>1 DEF CallFlight, Active
  <1>3. a \in CallShape /\ a.pc = "challenged"
    BY <1>2 DEF CallShape, CallPcs
  <1>4. b \in CallShape /\ b.pc = "paying" /\ b.sent = call[r].sent
    BY <1>1 DEF CallShape
  <1> HIDE DEF a, b
  <1>5. CASE call' = [call EXCEPT ![r] = a] /\ UNCHANGED requests
    <2>1. /\ call' \in [ManagerCalls -> CallShape] /\ call'[r] = a
          /\ \A q \in ManagerCalls \ {r} : call'[q] = call[q]
      BY <1>1, <1>3, <1>5
    <2>2. ClientShape' /\ OneFetch'
      BY <1>1, <1>2, <2>1, OneFetchStays DEF ClientShape
    <2>3. (Unblocked => InStep)'
      <3>1. TargetOK(r)'
        BY <1>1, <1>3, <2>1 DEF TargetOK, Funds
      <3>2. QED
        BY <1>1, <2>1, <3>1, InStepKept
    <2>4. ~Waits(r)' /\ ~Funds(r)' /\ CallSilent(r)'
      BY <1>2, <1>3, <1>5, <2>1 DEF Waits, Funds, CallSilent
    <2>5. QED
      BY <1>1, <1>2, <1>3, <1>5, <2>1, <2>2, <2>3, <2>4, RestStays
  <1>6. CASE call' = [call EXCEPT ![r] = b] /\ requests' = requests \cup {call[r].sent}
    <2>1. /\ call' \in [ManagerCalls -> CallShape] /\ call'[r] = b
          /\ \A q \in ManagerCalls \ {r} : call'[q] = call[q]
      BY <1>1, <1>4, <1>6
    <2>2. ClientShape' /\ OneFetch'
      BY <1>1, <1>2, <2>1, OneFetchStays DEF ClientShape
    <2>3. (Unblocked => InStep)'
      <3>1. TargetOK(r)'
        BY <1>1, <1>4, <2>1 DEF TargetOK, Funds
      <3>2. QED
        BY <1>1, <2>1, <3>1, InStepKept
    <2>4. Waits(r)' /\ ~Funds(r)' /\ ~M!ToppingUp(r)'
      BY <1>4, <2>1 DEF Waits, Funds, M!ToppingUp
    <2>5. /\ call[r].sent \in MessageShape /\ call[r].sent.kind \in {"open", "voucher"}
          /\ call[r].sent.by = r /\ call[r].sent.ch # 0
      BY <1>1 DEF CallFlight
    <2>6. QED
      BY <1>1, <1>2, <1>4, <1>6, <2>1, <2>2, <2>3, <2>4, <2>5, SendStays
  <1>7. QED
    BY <1>1, <1>5, <1>6

-----------------------------------------------------------------------------
(* Top-ups.                                                                *)

LEMMA MgrBeginTopUp ==
  ASSUME ManagerInv, NEW r \in ManagerCalls, M!BeginTopUp(r)
  PROVE  ManagerInv'
  <1> USE CallFacts
  <1> DEFINE t == [call[r] EXCEPT !.pc = "waiting", !.target = mgr.channel]
  <1>1. /\ r \in TopUps /\ call[r].pc = "new" /\ mgr.channel.ch # 0
        /\ call' = [call EXCEPT ![r] = t] /\ call \in [ManagerCalls -> CallShape]
        /\ UNCHANGED <<requests, replies, escrow, served, charged, unserved, store, mgr, opened>>
    BY DEF M!BeginTopUp, M!service
  <1>2. mgr.channel \in EntryShape
    BY DEF MgrShape
  <1>3. t \in CallShape /\ t.pc = "waiting" /\ t.target = mgr.channel
    BY <1>2 DEF CallShape, CallPcs
  <1> HIDE DEF t
  <1>4. /\ call' \in [ManagerCalls -> CallShape] /\ call'[r] = t
        /\ \A q \in ManagerCalls \ {r} : call'[q] = call[q]
    BY <1>1, <1>3
  <1>5. CallSilent(r) /\ charged[r] = unserved[r]
    BY <1>1, CallRests DEF Waits
  <1>6. ClientShape' /\ OneFetch'
    BY <1>1, <1>4, OneFetchStays DEF ClientShape, Active
  <1>7. Unblocked => TargetOK(r)'
    BY <1>1, <1>3, <1>4 DEF TargetOK, InStep
  <1>8. (Unblocked => InStep)'
    BY <1>1, <1>4, <1>7, InStepKept
  <1>9. ~Waits(r)' /\ CallSilent(r)' /\ (Funds(r)' => call'[r].target.ch # 0)
    BY <1>1, <1>3, <1>4, <1>5 DEF Waits, Funds, CallSilent
  <1>10. QED
    BY <1>1, <1>3, <1>4, <1>5, <1>6, <1>8, <1>9, RestStays

LEMMA MgrPostManualTopUp ==
  ASSUME ManagerInv, NEW r \in ManagerCalls, M!PostManualTopUp(r)
  PROVE  ManagerInv'
  <1> USE CallFacts
  <1> DEFINE target == call[r].target
             entry == IF store.ch = target.ch THEN store ELSE target
             m == M!Post("topUp", r, entry.ch, ManualAmount, 0)
             t == [call[r] EXCEPT !.pc = "toppingUp", !.target = entry, !.sent = m]
             u == [call[r] EXCEPT !.pc = "uncertain"]
  <1>1. /\ r \in TopUps /\ call[r].pc = "waiting" /\ call \in [ManagerCalls -> CallShape]
        /\ UNCHANGED <<replies, escrow, served, charged, unserved, store, mgr, opened>>
        /\ \/ call' = [call EXCEPT ![r] = u] /\ UNCHANGED requests
           \/ /\ ~entry.uncertain /\ requests' = requests \cup {m}
              /\ call' = [call EXCEPT ![r] = t]
    BY DEF M!PostManualTopUp, M!Send, CallShape
  <1>2. CallSilent(r) /\ charged[r] = unserved[r] /\ target.ch # 0
    BY <1>1, CallRests DEF Waits, CallFlight, Funds
  <1>3. entry \in EntryShape /\ entry.ch = target.ch /\ call[r].snap \in SnapShape
    BY DEF CallShape
  <1> HIDE DEF entry
  <1>4. /\ m \in MessageShape /\ m.kind = "topUp" /\ m.by = r /\ m.ch = target.ch
    BY <1>3, ManagerAssumption DEF M!Post, MessageShape, M!Kinds, EntryShape
  <1> HIDE DEF m
  <1>5. /\ t \in CallShape /\ t.pc = "toppingUp" /\ t.target = entry /\ t.sent = m
        /\ u \in CallShape /\ u.pc = "uncertain"
    BY <1>3, <1>4 DEF CallShape, CallPcs
  <1> HIDE DEF t, u
  <1>6. CASE call' = [call EXCEPT ![r] = u] /\ UNCHANGED requests
    <2>1. /\ call' \in [ManagerCalls -> CallShape] /\ call'[r] = u
          /\ \A q \in ManagerCalls \ {r} : call'[q] = call[q]
      BY <1>1, <1>5, <1>6
    <2>2. ClientShape' /\ OneFetch'
      BY <1>1, <2>1, OneFetchStays DEF ClientShape, Active
    <2>3. (Unblocked => InStep)'
      BY <1>5, <2>1 DEF Unblocked
    <2>4. ~Waits(r)' /\ CallSilent(r)' /\ ~Funds(r)'
      BY <1>1, <1>2, <1>5, <1>6, <2>1 DEF Waits, Funds, CallSilent
    <2>5. QED
      BY <1>1, <1>2, <1>5, <1>6, <2>1, <2>2, <2>3, <2>4, RestStays
  <1>7. CASE /\ ~entry.uncertain /\ requests' = requests \cup {m}
             /\ call' = [call EXCEPT ![r] = t]
    <2>1. /\ call' \in [ManagerCalls -> CallShape] /\ call'[r] = t
          /\ \A q \in ManagerCalls \ {r} : call'[q] = call[q]
      BY <1>1, <1>5, <1>7
    <2>2. ClientShape' /\ OneFetch'
      BY <1>1, <2>1, OneFetchStays DEF ClientShape, Active
    <2>3. TargetOK(r)'
      BY <1>1, <1>5, <1>7, <2>1 DEF TargetOK
    <2>4. (Unblocked => InStep)'
      BY <1>1, <2>1, <2>3, InStepKept
    <2>5. Waits(r)' /\ call'[r].pc # "paying"
      BY <1>5, <2>1 DEF Waits
    <2>6. QED
      BY <1>1, <1>2, <1>3, <1>4, <1>5, <1>7, <2>1, <2>2, <2>4, <2>5, SendStays
      DEF CallSilent, PaidKinds
  <1>8. QED
    BY <1>1, <1>6, <1>7

LEMMA MgrToppedUp ==
  ASSUME ManagerInv, NEW r \in ManagerCalls, NEW p \in replies, M!ToppedUp(r, p)
  PROVE  ManagerInv'
  <1> USE CallFacts
  <1> DEFINE target == [call[r].target EXCEPT
                          !.deposit = call[r].target.deposit + call[r].sent.amount]
             t == [call[r] EXCEPT !.pc = "landed", !.target = target]
  <1>1. /\ r \notin TopUps /\ call[r].pc \in {"toppingUp", "toppingUpAgain"} /\ p.by = r
        /\ replies' = replies \ {p} /\ call \in [ManagerCalls -> CallShape]
        /\ UNCHANGED <<requests, escrow, served, charged, unserved, store, mgr, opened>>
    BY DEF M!ToppedUp, M!Ready, M!Receive
  <1>2. /\ call[r].target \in EntryShape /\ call[r].sent \in MessageShape
        /\ call[r].target.ch # 0
    BY <1>1 DEF CallShape, CallFlight, M!ToppingUp, Funds
  <1>3. /\ target \in EntryShape /\ target.ch = call[r].target.ch
        /\ target.uncertain = call[r].target.uncertain
    BY <1>2 DEF EntryShape, MessageShape
  <1>4. call' = [call EXCEPT ![r] = t]
    BY DEF M!ToppedUp, CallShape
  <1> HIDE DEF target
  <1>5. t \in CallShape /\ t.pc = "landed" /\ t.target = target
    BY <1>3 DEF CallShape, CallPcs
  <1> HIDE DEF t
  <1>6. /\ call' \in [ManagerCalls -> CallShape] /\ call'[r] = t
        /\ \A q \in ManagerCalls \ {r} : call'[q] = call[q]
    BY <1>1, <1>4, <1>5
  <1>7. CallSilent(r)' /\ charged[r] = unserved[r] /\ Active(r)
    BY <1>1, ReceivedAll DEF Active, CallFlight
  <1>8. ClientShape' /\ OneFetch'
    BY <1>1, <1>6, <1>7, OneFetchStays DEF ClientShape
  <1>9. Unblocked => TargetOK(r)'
    BY <1>1, <1>3, <1>5, <1>6 DEF TargetOK, Funds
  <1>10. (Unblocked => InStep)'
    BY <1>1, <1>6, <1>9, InStepKept
  <1>11. ~Waits(r)' /\ (Funds(r)' => call'[r].target.ch # 0)
    BY <1>2, <1>3, <1>5, <1>6 DEF Waits
  <1>12. QED
    BY <1>1, <1>5, <1>6, <1>7, <1>8, <1>10, <1>11, RestStays

LEMMA MgrRepeatTopUp ==
  ASSUME ManagerInv, NEW r \in ManagerCalls, NEW p \in replies, M!RepeatTopUp(r, p)
  PROVE  ManagerInv'
  <1> USE CallFacts
  <1>1. /\ call' \in [ManagerCalls -> CallShape] /\ call'[r].pc = "toppingUpAgain"
        /\ call'[r].target = call[r].target /\ call'[r].sent = call[r].sent
        /\ \A q \in ManagerCalls \ {r} : call'[q] = call[q]
    BY CallMoves DEF M!RepeatTopUp, CallPcs
  <1>2. /\ call[r].pc = "toppingUp" /\ p.by = r
        /\ replies' = replies \ {p} /\ requests' = requests \cup {call[r].sent}
        /\ UNCHANGED <<escrow, served, charged, unserved, store, mgr, opened>>
    BY DEF M!RepeatTopUp, M!Receive, M!Send
  <1>3. /\ call[r].sent \in MessageShape /\ call[r].sent.kind = "topUp"
        /\ call[r].sent.by = r /\ call[r].sent.ch # 0 /\ charged[r] = unserved[r]
        /\ call[r].target.ch # 0
    BY <1>2 DEF CallFlight, M!ToppingUp, Funds
  <1>4. /\ \A n \in requests : n.by # r
        /\ \A q \in replies' : q.by # r
    BY <1>2 DEF CallFlight
  <1>5. ClientShape' /\ OneFetch'
    BY <1>1, <1>2, OneFetchStays DEF ClientShape, Active
  <1>6. Unblocked => TargetOK(r)'
    BY <1>1, <1>2 DEF TargetOK, Funds
  <1>7. (Unblocked => InStep)'
    BY <1>1, <1>2, <1>6, InStepKept
  <1>8. Waits(r)' /\ call'[r].pc # "paying"
    BY <1>1 DEF Waits
  <1>9. QED
    BY <1>1, <1>2, <1>3, <1>4, <1>5, <1>7, <1>8, SendStays DEF PaidKinds

LEMMA MgrTopUpRefused ==
  ASSUME ManagerInv, NEW r \in ManagerCalls, NEW p \in replies, M!TopUpRefused(r, p)
  PROVE  ManagerInv'
  <1> USE CallFacts
  <1>1. /\ call' \in [ManagerCalls -> CallShape] /\ call'[r].pc = "refused"
        /\ \A q \in ManagerCalls \ {r} : call'[q] = call[q]
    BY CallMoves DEF M!TopUpRefused, CallPcs
  <1>2. /\ call[r].pc \in {"toppingUp", "toppingUpAgain"} /\ p.by = r
        /\ replies' = replies \ {p}
        /\ UNCHANGED <<requests, escrow, served, charged, unserved, store, mgr, opened>>
    BY DEF M!TopUpRefused, M!Receive, M!ToppingUp
  <1>3. CallSilent(r)' /\ charged[r] = unserved[r]
    BY <1>2, ReceivedAll DEF CallFlight
  <1>4. ClientShape' /\ OneFetch'
    BY <1>1, <1>2, OneFetchStays DEF ClientShape, Active
  <1>5. TargetOK(r)'
    BY <1>1 DEF TargetOK, Funds
  <1>6. (Unblocked => InStep)'
    BY <1>1, <1>2, <1>5, InStepKept
  <1>7. ~Waits(r)' /\ ~Funds(r)'
    BY <1>1 DEF Waits, Funds
  <1>8. QED
    BY <1>1, <1>2, <1>3, <1>4, <1>6, <1>7, RestStays

LEMMA MgrEndTopUp ==
  ASSUME ManagerInv, NEW r \in ManagerCalls, M!EndTopUp(r)
  PROVE  ManagerInv'
  <1> USE CallFacts
  <1>1. /\ r \in TopUps /\ call[r].pc = "refused" /\ M!End(r)
        /\ UNCHANGED <<requests, replies, escrow, served, charged, unserved, store, mgr, opened>>
    BY DEF M!EndTopUp, M!service
  <1>2. /\ call'[r].pc = "done" /\ \A q \in ManagerCalls \ {r} : call'[q] = call[q]
    BY <1>1, CallEnds
  <1>3. TargetOK(r)'
    BY <1>1, <1>2 DEF TargetOK, Funds
  <1>4. (Unblocked => InStep)'
    BY <1>1, <1>2, <1>3, InStepKept
  <1>5. QED
    BY <1>1, <1>4, EndStays

LEMMA MgrTopUpUnknown ==
  ASSUME ManagerInv, NEW r \in ManagerCalls, M!TopUpUnknown(r)
  PROVE  ManagerInv'
  <1> USE CallFacts
  <1> DEFINE target == call[r].target
             entry == IF store.ch = target.ch THEN store ELSE target
  <1>1. /\ call' \in [ManagerCalls -> CallShape] /\ call'[r].pc = "uncertain"
        /\ \A q \in ManagerCalls \ {r} : call'[q] = call[q]
    BY CallMoves DEF M!TopUpUnknown, CallPcs
  <1>2. /\ call[r].pc \in {"toppingUp", "toppingUpAgain"}
        /\ UNCHANGED <<requests, replies, escrow, served, charged, unserved, opened>>
        /\ M!Write(M!MarkUncertain(entry)) \/ UNCHANGED <<store, mgr>>
    BY DEF M!TopUpUnknown, M!ToppingUp, M!service
  <1>3. charged[r] = unserved[r] /\ target.ch # 0 /\ target \in EntryShape
    BY <1>2 DEF CallFlight, Funds, CallShape
  <1>4. M!MarkUncertain(entry) \in EntryShape /\ M!MarkUncertain(entry).ch = target.ch
    BY <1>3 DEF M!MarkUncertain, EntryShape
  <1>5. store' \in EntryShape /\ mgr' \in MgrShape /\ mgr'.busy = mgr.busy
    <2>1. PICK e : e = M!MarkUncertain(entry)
      OBVIOUS
    <2>2. e \in EntryShape /\ e.ch # 0
      BY <1>3, <1>4, <2>1
    <2>3. CASE M!Write(e)
      BY <2>2, <2>3, WriteFacts
    <2>4. CASE UNCHANGED <<store, mgr>>
      BY <2>4
    <2>5. QED
      BY <1>2, <2>1, <2>3, <2>4
  <1>6. ClientShape' /\ OneFetch'
    BY <1>1, <1>2, <1>5, OneFetchStays DEF ClientShape, Active
  <1>7. (Unblocked => InStep)'
    BY <1>1 DEF Unblocked
  <1>8. ~Waits(r)' /\ ~Funds(r)'
    BY <1>1 DEF Waits, Funds
  <1>9. QED
    BY <1>1, <1>2, <1>3, <1>6, <1>7, <1>8, RestStays

LEMMA MgrBlock ==
  ASSUME ManagerInv, NEW r \in ManagerCalls, M!Block(r)
  PROVE  ManagerInv'
  <1> USE CallFacts
  <1>1. /\ call[r].pc = "uncertain" /\ M!End(r)
        /\ mgr' = [mgr EXCEPT !.blocked = TRUE,
                              !.busy = IF r \in TopUps THEN mgr.busy ELSE FALSE]
        /\ UNCHANGED <<requests, replies, escrow, served, charged, unserved, store, opened>>
    BY DEF M!Block, M!service
  <1> DEFINE b == IF r \in TopUps THEN mgr.busy ELSE FALSE
  <1>2. b \in BOOLEAN /\ mgr' = [mgr EXCEPT !.blocked = TRUE, !.busy = b]
    BY <1>1 DEF MgrShape
  <1>3. b = mgr.busy \/ Active(r)
    BY <1>1 DEF Active
  <1> HIDE DEF b
  <1>4. mgr' \in MgrShape /\ mgr'.blocked = TRUE /\ mgr'.busy = b
    BY <1>2 DEF MgrShape
  <1>5. (Unblocked => InStep)'
    BY <1>4 DEF Unblocked
  <1>6. QED
    BY <1>1, <1>3, <1>4, <1>5, EndStays

\* The channel that a manual top-up has funded.
LEMMA FundedShape ==
  ASSUME NEW entry \in EntryShape, NEW target \in EntryShape
  PROVE  LET e == [entry EXCEPT !.deposit = M!Larger(entry.deposit, target.deposit)
                                              + ManualAmount]
         IN e \in EntryShape /\ e.ch = entry.ch /\ e.uncertain = entry.uncertain
  <1> DEFINE d == M!Larger(entry.deposit, target.deposit) + ManualAmount
  <1>1. M!Larger(entry.deposit, target.deposit) \in Int
    BY DEF M!Larger, EntryShape
  <1>2. d \in Int
    BY <1>1, ManagerAssumption
  <1> HIDE DEF d
  <1>3. /\ [entry EXCEPT !.deposit = d] \in EntryShape
        /\ [entry EXCEPT !.deposit = d].ch = entry.ch
        /\ [entry EXCEPT !.deposit = d].uncertain = entry.uncertain
    BY <1>2 DEF EntryShape
  <1>4. QED
    BY <1>3 DEF d

\* A manual top-up that ends with an unblocked manager leaves its channel stored.
LEMMA ManualInStep ==
  ASSUME ManagerInv, Unblocked, NEW r \in TopUps, r \in ManagerCalls, M!ToppingUp(r),
         call'[r].pc = "done", \A q \in ManagerCalls \ {r} : call'[q] = call[q],
         mgr'.busy = mgr.busy, mgr'.created = mgr.created, mgr'.previous = mgr.previous,
         mgr'.channel = store', ~store'.uncertain,
         store' = store \/ (store'.ch = store.ch /\ store.ch # 0)
           \/ (store.ch = 0 /\ store'.ch # 0)
  PROVE  InStep'
  <1> USE CallFacts
  <1>1. InStep /\ mgr.created \subseteq 1..MaxChannels /\ M!NoEntry.ch = 0
    BY ChannelsHere DEF MgrShape, M!NoEntry
  <1>2. mgr.busy /\ store.ch = 0 => mgr.created = {}
    <2>1. 0 \notin 1..MaxChannels
      BY ChannelsHere
    <2>2. QED
      BY <1>1, <2>1 DEF InStep
  <1>3. TargetOK(r)'
    BY DEF TargetOK, Funds
  <1>4. ASSUME NEW q \in ManagerCalls \ {r} PROVE TargetOK(q)'
    <2>1. TargetOK(q) /\ (Funds(q) => call[q].target.ch # 0) /\ call'[q] = call[q]
      BY <1>4 DEF CallFlight
    <2>2. Funds(q) /\ q \notin TopUps => store'.ch = store.ch
      BY <2>1 DEF TargetOK
    <2>3. QED
      BY <2>1, <2>2 DEF TargetOK, Funds
  <1>5. QED
    BY <1>1, <1>2, <1>3, <1>4 DEF InStep

LEMMA MgrManualToppedUp ==
  ASSUME ManagerInv, NEW r \in ManagerCalls, NEW p \in replies, M!ManualToppedUp(r, p)
  PROVE  ManagerInv'
  <1> USE CallFacts
  <1> DEFINE target == call[r].target
             latest == IF mgr.channel.ch = 0 THEN target ELSE mgr.channel
             funded(entry) == [entry EXCEPT !.deposit = M!Larger(entry.deposit, target.deposit)
                                                          + ManualAmount]
  <1>1. PICK m : m = M!Confirmed(mgr, p.snap)
    OBVIOUS
  <1>2. /\ r \in TopUps /\ M!ToppingUp(r) /\ M!End(r) /\ replies' = replies \ {p}
        /\ UNCHANGED <<requests, escrow, served, charged, unserved, opened>>
        /\ \/ /\ latest.ch = target.ch
              /\ store' = M!Persisted(store, funded(latest))
              /\ mgr' = [m EXCEPT !.channel = store']
           \/ latest.ch # target.ch /\ store.ch = target.ch /\ store' = funded(store) /\ mgr' = m
           \/ mgr' = m /\ UNCHANGED store
    BY <1>1 DEF M!ManualToppedUp, M!Receive
  <1>3. /\ m \in MgrShape /\ m.channel = mgr.channel /\ m.busy = mgr.busy
        /\ m.blocked = mgr.blocked /\ m.created = mgr.created /\ m.previous = mgr.previous
    BY <1>1, ConfirmedShape
  <1>4. /\ target \in EntryShape /\ target.ch # 0 /\ mgr.channel \in EntryShape
        /\ call[r].pc # "done" /\ (Unblocked => ~target.uncertain)
    BY <1>2 DEF CallShape, MgrShape, CallFlight, Funds, M!ToppingUp, TargetOK
  <1>5. call'[r].pc = "done" /\ \A q \in ManagerCalls \ {r} : call'[q] = call[q]
    BY <1>2, CallEnds
  <1> DEFINE Same == /\ mgr'.busy = mgr.busy /\ mgr'.blocked = mgr.blocked
                     /\ mgr'.created = mgr.created /\ mgr'.previous = mgr.previous
             Kept == /\ mgr'.channel = store' /\ ~store'.uncertain
                     /\ store' = store \/ (store'.ch = store.ch /\ store.ch # 0)
                          \/ (store.ch = 0 /\ store'.ch # 0)
  <1>6. /\ store' \in EntryShape /\ mgr' \in MgrShape /\ Same /\ (Unblocked => Kept)
    <2>1. /\ funded(latest) \in EntryShape /\ funded(latest).ch = latest.ch
          /\ funded(latest).uncertain = latest.uncertain
          /\ funded(store) \in EntryShape /\ funded(store).ch = store.ch
      BY <1>4, FundedShape
    <2>2. Unblocked => mgr.channel = store /\ ~store.uncertain
      BY DEF InStep
    <2>3. CASE /\ latest.ch = target.ch
               /\ store' = M!Persisted(store, funded(latest))
               /\ mgr' = [m EXCEPT !.channel = store']
      <3>1. PICK e : e = funded(latest)
        OBVIOUS
      <3>2. PICK s : s = M!Persisted(store, e)
        OBVIOUS
      <3>3. e \in EntryShape /\ e.ch = target.ch /\ e.uncertain = latest.uncertain
        BY <2>1, <2>3, <3>1
      <3>4. s \in EntryShape /\ s.ch = target.ch /\ (~store.uncertain => s = e)
        BY <3>2, <3>3, PersistedShape
      <3>5. store' = s /\ mgr' = [m EXCEPT !.channel = s]
        BY <2>3, <3>1, <3>2
      <3>6. mgr' \in MgrShape /\ mgr'.channel = s /\ Same
        BY <1>3, <3>4, <3>5 DEF MgrShape
      <3>7. Unblocked => s.ch = store.ch \/ store.ch = 0
        BY <2>2, <2>3, <3>4
      <3>8. Unblocked => ~s.uncertain
        BY <1>4, <2>2, <3>3, <3>4
      <3>9. QED
        BY <1>4, <3>4, <3>5, <3>6, <3>7, <3>8
    <2>4. CASE latest.ch # target.ch /\ store.ch = target.ch /\ store' = funded(store) /\ mgr' = m
      <3>1. ~Unblocked
        BY <2>2, <2>4
      <3> HIDE DEF funded
      <3>2. QED
        BY <1>3, <2>1, <2>4, <3>1
    <2>5. CASE mgr' = m /\ UNCHANGED store
      BY <1>3, <2>2, <2>5
    <2>6. QED
      BY <1>2, <2>3, <2>4, <2>5
  <1>7. Unblocked' => Unblocked
    BY <1>2, <1>5, <1>6, UnblockedBefore DEF M!ToppingUp
  <1>8. (Unblocked => InStep)'
    BY <1>2, <1>5, <1>6, <1>7, ManualInStep
  <1>9. QED
    BY <1>2, <1>4, <1>6, <1>8, EndStays

-----------------------------------------------------------------------------
(* Every step, and the runs.                                               *)

LEMMA MgrStep ==
  ASSUME ManagerInv, NEW r \in ManagerCalls, M!Step(r)
  PROVE  ManagerInv'
  <1>1. CASE M!BeginFetch(r) \/ M!AskSnapshot(r) \/ M!RecoverSnapshot(r) \/ M!Ask(r)
             \/ M!ReceiveChallenge(r)
    BY <1>1, MgrBegin, MgrAskSnapshot, MgrRecoverSnapshot, MgrAsk, MgrReceiveChallenge
  <1>2. CASE M!CheckFunds(r) \/ M!LockFunding(r) \/ M!PostTopUp(r) \/ M!RecordFunds(r)
    BY <1>2, MgrCheckFunds, MgrLockFunding, MgrPostTopUp, MgrRecordFunds
  <1>3. CASE M!SignOpen(r) \/ M!SignVoucher(r) \/ M!SignRecovered(r) \/ M!FetchFails(r)
    BY <1>3, MgrSignOpen, MgrSignVoucher, MgrSignRecovered, MgrFetchFails
  <1>4. CASE M!BeginTopUp(r) \/ M!PostManualTopUp(r) \/ M!EndTopUp(r) \/ M!TopUpUnknown(r)
             \/ M!Block(r)
    BY <1>4, MgrBeginTopUp, MgrPostManualTopUp, MgrEndTopUp, MgrTopUpUnknown, MgrBlock
  <1>5. CASE \E p \in replies : M!TakeChallenge(r, p) \/ M!FetchPaid(r, p) \/ M!PayAgain(r, p)
                                \/ M!FetchRefused(r, p)
    BY <1>5, MgrTakeChallenge, MgrFetchPaid, MgrPayAgain, MgrFetchRefused
  <1>6. CASE \E p \in replies : M!ToppedUp(r, p) \/ M!ManualToppedUp(r, p)
                                \/ M!RepeatTopUp(r, p) \/ M!TopUpRefused(r, p)
    BY <1>6, MgrToppedUp, MgrManualToppedUp, MgrRepeatTopUp, MgrTopUpRefused
  <1>7. QED
    BY <1>1, <1>2, <1>3, <1>4, <1>5, <1>6 DEF M!Step

LEMMA MgrStutters ==
  ASSUME ManagerInv, UNCHANGED M!vars
  PROVE  ManagerInv'
  <1>1. UNCHANGED <<escrow, served, charged, unserved, M!client>> /\ requests' = requests
        /\ replies' = replies
    BY DEF M!vars, M!service
  <1>2. QED
    BY <1>1, LossStays

LEMMA MgrNext == ManagerInv /\ [M!Next]_(M!vars) => ManagerInv'
  BY MgrStep, ServiceStays, MgrStutters DEF M!Next

LEMMA MgrInitial == M!Init => ManagerInv
  <1> SUFFICES ASSUME M!Init PROVE ManagerInv
    OBVIOUS
  <1> USE DEF M!Init, M!ServiceInit
  <1>1. \A r \in ManagerCalls : call[r] = M!IdleCall /\ call[r].pc = "new"
    BY DEF M!IdleCall
  <1>2. M!NoEntry \in EntryShape /\ M!NoEntry.uncertain = FALSE /\ M!NoEntry.ch = 0
    BY ChannelsHere DEF M!NoEntry, EntryShape
  <1>3. M!IdleCall \in CallShape
    BY <1>2, NoSnapshotShape DEF M!IdleCall, CallShape, CallPcs
  <1>4. mgr \in MgrShape
    BY <1>2, NoSnapshotShape DEF MgrShape
  <1>5. ClientShape
    BY <1>2, <1>3, <1>4, ChannelsHere DEF ClientShape
  <1>6. ServiceShape
    BY DEF ServiceShape
  <1>7. OneFetch
    BY <1>1 DEF OneFetch, Active
  <1>8. \A r \in ManagerCalls : CallFlight(r)
    BY <1>1 DEF CallFlight, CallSilent, Funds, M!ToppingUp
  <1>9. InStep
    BY <1>1, <1>2 DEF InStep, TargetOK, Funds
  <1>10. QED
    BY <1>5, <1>6, <1>7, <1>8, <1>9 DEF ManagerInv

LEMMA ManagerCharges ==
  ManagerInv => \A r \in DOMAIN charged : charged[r] <= 1 + unserved[r]
  <1> SUFFICES ASSUME ManagerInv, NEW r \in DOMAIN charged
               PROVE  charged[r] <= 1 + unserved[r]
    OBVIOUS
  <1>1. r \in ManagerCalls
    BY DEF ManagerInv, ServiceShape
  <1>2. CallFlight(r) /\ charged[r] \in Nat /\ unserved[r] \in Nat
    BY <1>1 DEF ManagerInv, ServiceShape
  <1>3. QED
    BY <1>2 DEF CallFlight

LEMMA ManagerMatches == ManagerInv => M!ManagerMatchesStore
  BY DEF ManagerInv, Unblocked, InStep, M!ManagerMatchesStore, M!Quiet

-----------------------------------------------------------------------------
(* Both.                                                                   *)

ClientsInv == (Transport => TransportInv) /\ (Manager => ManagerInv)

LEMMA ClientsInitial == EitherInit => ClientsInv
  BY TransportInitial, MgrInitial DEF EitherInit, ClientsInv, Transport, Manager

\* While a front end runs, every step is one of its own.
LEMMA TransportSteps == Transport /\ [EitherNext]_<<vars, front, manager>> => [Next]_vars
  BY DEF EitherNext, Transport

LEMMA ManagerSteps == Manager /\ [EitherNext]_<<vars, front, manager>> => [M!Next]_(M!vars)
  <1> SUFFICES ASSUME Manager, [EitherNext]_<<vars, front, manager>> PROVE [M!Next]_(M!vars)
    OBVIOUS
  <1>1. CASE EitherNext
    BY <1>1 DEF EitherNext, Manager
  <1>2. CASE UNCHANGED <<vars, front, manager>>
    BY <1>2 DEF vars, service, client, manager, M!vars, M!service, M!client
  <1>3. QED
    BY <1>1, <1>2

LEMMA ClientsStep == ClientsInv /\ [EitherNext]_<<vars, front, manager>> => ClientsInv'
  <1> SUFFICES ASSUME ClientsInv, [EitherNext]_<<vars, front, manager>> PROVE ClientsInv'
    OBVIOUS
  <1>1. front' = front
    BY DEF EitherNext
  <1>2. Transport => TransportInv'
    BY TransportSteps, TransportStep DEF ClientsInv
  <1>3. Manager => ManagerInv'
    BY ManagerSteps, MgrNext DEF ClientsInv
  <1>4. QED
    BY <1>1, <1>2, <1>3 DEF ClientsInv, Transport, Manager

\* MCSessionClients: the invariant of each front end, of its own behaviours.
THEOREM ClientsInvariant == Clients => []ClientsInv
  <1>1. EitherInit => ClientsInv
    BY ClientsInitial
  <1>2. ClientsInv /\ [EitherNext]_<<vars, front, manager>> => ClientsInv'
    BY ClientsStep
  <1>3. QED
    BY <1>1, <1>2, PTL DEF Clients

\* SessionTransport: concurrent first requests share one channel; another is opened
\* only after every earlier open has failed or lost its outcome.
THEOREM TransportSharesAChannel == Clients => []TransportOneLiveChannel
  <1>1. ClientsInv => TransportOneLiveChannel
    BY LiveChannel DEF ClientsInv, TransportOneLiveChannel
  <1>2. QED
    BY <1>1, ClientsInvariant, PTL

\* SessionTransport: what the payer signs is covered by the deposit it stored, and
\* that by the deposit on chain.
THEOREM TransportStaysBacked == Clients => []TransportDepositBacked
  <1>1. ClientsInv => TransportDepositBacked
    BY DepositBacked DEF ClientsInv, TransportDepositBacked
  <1>2. QED
    BY <1>1, ClientsInvariant, PTL

\* SessionTransport: each credential signs more than any before it on its channel.
THEOREM TransportSignsMore == Clients => TransportVouchersIncrease
  <1>1. ClientsInv /\ [EitherNext]_<<vars, front, manager>> =>
          [Transport => \A r \in Requests :
             Signs(r) => task'[r].sent.amount > signed[task'[r].sent.ch]]_vars
    BY SignsMore, TransportSteps DEF ClientsInv
  <1>2. QED
    BY <1>1, ClientsInvariant, PTL DEF Clients, TransportVouchersIncrease

\* SessionTransport: while the outcome of a top-up is unknown no other one is posted,
\* so that no channel has two.
THEOREM TransportTopsUpOnce == Spec => []OneUnknownTopUp
  <1>1. TransportInv => OneUnknownTopUp
    BY UnknownOnce
  <1>2. QED
    BY <1>1, TransportInitial, TransportStep, PTL DEF Spec

\* SessionManager: between calls the manager's channel is the stored one, whatever
\* was rolled back, committed, topped up or recovered, unless it is blocked.
THEOREM ManagerStaysInStep == Clients => []ManagerKeepsStore
  <1>1. ClientsInv => ManagerKeepsStore
    BY ManagerMatches DEF ClientsInv, ManagerKeepsStore
  <1>2. QED
    BY <1>1, ClientsInvariant, PTL

\* Both: however often a credential is refused, replaced, resent or lost, a request
\* or a call is charged once, and once more for each time that it was charged and
\* then asked to pay again, its settlement having failed.
THEOREM EitherIsChargedOnce == Clients => []ChargedOnceByEither
  <1>1. EitherInit => Transport \/ Manager
    BY DEF EitherInit, Transport, Manager
  <1>2. (Transport \/ Manager) /\ [EitherNext]_<<vars, front, manager>>
          => (Transport \/ Manager)'
    BY DEF EitherNext, Transport, Manager
  <1>3. ClientsInv /\ (Transport \/ Manager) => ChargedOnceByEither
    BY TransportCharges, ManagerCharges DEF ClientsInv, ChargedOnceByEither
  <1>4. QED
    BY <1>1, <1>2, <1>3, ClientsInvariant, PTL DEF Clients

=============================================================================
