---------------------------- MODULE MCKeyedChannel ----------------------------
(* Instances of KeyedChannel. *)
EXTENDS KeyedChannel

CONSTANTS charge1, charge2, credit1, credit2, voucher, close, open1, open2, p1, p2

\* Two attempts at one keyed charge, two at one keyed credit, and one other.
Operations ==
  [c \in Calls |->
     CASE c \in {charge1, charge2} -> [kind |-> "charge", key |-> "k", amount |-> 1]
       [] c \in {credit1, credit2} -> [kind |-> "credit", key |-> "k", amount |-> 1]
       [] c \in {open1, open2} -> [kind |-> "open", key |-> NoKey, amount |-> 1]
       [] c = voucher -> [kind |-> "voucher", key |-> NoKey, amount |-> 1]
       [] c = close -> [kind |-> "close", key |-> NoKey, amount |-> 0]]

Homes == [c \in Calls |-> IF c \in {charge1, credit1, close} THEN p1 ELSE p2]

Stores == {Memory, Shared, SharedBytes, Refusing, Plain}

Retries == {{charge1, charge2, credit1, credit2}, {charge1, open1, open2}}

Found == {ChargedRecord(2, 1, 1), Absent}
===============================================================================
