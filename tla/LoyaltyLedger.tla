--------------------------- MODULE LoyaltyLedger ---------------------------
(***************************************************************************)
(* What the loyalty program promises, with no Redis, no requests and no     *)
(* failures: an append-only ledger of loyalty_events rows in which a key    *)
(* appears once and a customer never redeems more rewards than the steeps   *)
(* on the ledger have earned.  Loyalty.tla is the code that implements it.  *)
(***************************************************************************)
EXTENDS Integers, FiniteSets

CONSTANTS RowIds,           \* ids of loyalty_events rows
          Customers,        \* customer ids
          Keys,             \* idempotency keys
          SteepsPerReward   \* steeps that make one free drink (9 in the code)

VARIABLE rows   \* the loyalty_events table

EventTypes == {"steep_earned", "reward_redeemed"}
Row == [id : RowIds, cust : Customers, type : EventTypes, key : Keys]

\* The two COUNT(*) FILTERs every balance is derived from.
RowsOf(c, type) == {r \in rows : r.cust = c /\ r.type = type}
Earned(c)   == Cardinality(RowsOf(c, "steep_earned"))
Redeemed(c) == Cardinality(RowsOf(c, "reward_redeemed"))

\* Rewards left to a customer who earned e steeps and redeemed r rewards.
Rewards(e, r) == (e \div SteepsPerReward) - r
Available(c)  == Rewards(Earned(c), Redeemed(c))

\* The UNIQUE constraint on idempotency_key.
Recorded(k) == \E r \in rows : r.key = k

Append(i, c, type, k) ==
  /\ \A r \in rows : r.id # i
  /\ ~Recorded(k)
  /\ rows' = rows \cup {[id |-> i, cust |-> c, type |-> type, key |-> k]}

Init == rows = {}

Credit(i, c, k) == Append(i, c, "steep_earned", k)

Redeem(i, c, k) == Available(c) > 0 /\ Append(i, c, "reward_redeemed", k)

Next == \E i \in RowIds, c \in Customers, k \in Keys : Credit(i, c, k) \/ Redeem(i, c, k)

Spec == Init /\ [][Next]_rows
-----------------------------------------------------------------------------
TypeOK == rows \subseteq Row

\* No customer has redeemed more rewards than the steeps recorded for them
\* paid for: the balance never goes below zero.
NoOverRedemption == \A c \in Customers : Redeemed(c) <= Earned(c) \div SteepsPerReward

\* A key is on the ledger at most once, whoever sent it and however often.
OneRowPerKey == \A r1, r2 \in rows : r1.key = r2.key => r1 = r2
=============================================================================
