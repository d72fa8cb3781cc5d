------------------------ MODULE LoyaltyLedgerProofs ------------------------
(***************************************************************************)
(* The ledger keeps its promises for any customers, keys and reward size.   *)
(***************************************************************************)
EXTENDS LoyaltyLedger, FiniteSetTheorems, TLAPS

(* The two counts a balance is computed from, and the division that turns    *)
(* steeps into rewards.                                                     *)

Count(R, c, ty) == Cardinality({r \in R : r.cust = c /\ r.type = ty})

\* One more row x adds one to the count of its own customer and type, and to
\* no other.
LEMMA CountAppend ==
  ASSUME NEW R, IsFiniteSet(R), NEW x, x \notin R, NEW c, NEW ty
  PROVE  /\ IsFiniteSet(R \cup {x})
         /\ Count(R, c, ty) \in Nat
         /\ Count(R \cup {x}, c, ty) =
              IF x.cust = c /\ x.type = ty THEN Count(R, c, ty) + 1 ELSE Count(R, c, ty)
<1> DEFINE old == {r \in R : r.cust = c /\ r.type = ty}
           new == {r \in R \cup {x} : r.cust = c /\ r.type = ty}
<1>1. IsFiniteSet(R \cup {x})
  BY FS_AddElement
<1>2. IsFiniteSet(old)
  <2>1. old \in SUBSET R
    OBVIOUS
  <2>2. QED
    BY <2>1, FS_Subset
<1>3. Cardinality(old) \in Nat
  BY <1>2, FS_CardinalityType
<1>4. CASE x.cust = c /\ x.type = ty
  <2>1. new = old \cup {x} /\ x \notin old
    BY <1>4
  <2>2. Cardinality(old \cup {x}) = Cardinality(old) + 1
    <3> HIDE DEF old
    <3>1. QED
      BY <1>2, <2>1, FS_AddElement
  <2>3. Cardinality(new) = Cardinality(old) + 1
    <3> HIDE DEF old, new
    <3>1. QED
      BY <2>1, <2>2
  <2>4. QED
    BY <1>1, <1>3, <1>4, <2>3 DEF Count
<1>5. CASE ~(x.cust = c /\ x.type = ty)
  <2>1. new = old
    BY <1>5
  <2>2. Cardinality(new) = Cardinality(old)
    <3> HIDE DEF old, new
    <3>1. QED
      BY <2>1
  <2>3. QED
    BY <1>1, <1>3, <1>5, <2>2 DEF Count
<1>6. QED
  BY <1>4, <1>5

\* A finite ledger has a count for every customer and type.
LEMMA CountIsNat ==
  ASSUME NEW R, IsFiniteSet(R), NEW c, NEW ty
  PROVE  Count(R, c, ty) \in Nat
<1> DEFINE S == {r \in R : r.cust = c /\ r.type = ty}
<1>1. S \in SUBSET R
  OBVIOUS
<1>2. IsFiniteSet(S)
  BY <1>1, FS_Subset
<1>3. QED
  BY <1>2, FS_CardinalityType DEF Count

\* More steeps never make fewer rewards.
LEMMA DivMonotone ==
  ASSUME NEW n \in Nat \ {0}, NEW a \in Nat, NEW b \in Nat, a <= b
  PROVE  a \div n \in Nat /\ b \div n \in Nat /\ a \div n <= b \div n
<1> DEFINE qa == a \div n
           qb == b \div n
<1>1. /\ qa \in Int /\ n * qa <= a /\ a < n * qa + n
      /\ qb \in Int /\ n * qb <= b /\ b < n * qb + n
  BY SMTT(30)
<1>2. qa \in Nat /\ qb \in Nat
  BY SMTT(30)
<1> HIDE DEF qa, qb
<1>3. qa <= qb
  <2> SUFFICES ASSUME qb + 1 <= qa PROVE FALSE
    BY <1>1
  <2>1. n * (qb + 1) <= n * qa
    BY <1>1, SMTT(30)
  <2>2. n * (qb + 1) = n * qb + n
    BY <1>1, SMTT(30)
  <2>3. QED
    BY <1>1, <2>1, <2>2, SMTT(30)
<1>4. QED
  BY <1>2, <1>3 DEF qa, qb
-----------------------------------------------------------------------------

\* A reward costs at least one steep.
RewardSize == SteepsPerReward \in Nat \ {0}

\* NoOverRedemption is inductive once the rows are known to be finite.
LedgerInv == TypeOK /\ IsFiniteSet(rows) /\ OneRowPerKey /\ NoOverRedemption

\* The ledger (loyalty_events with its UNIQUE key and the redemption check)
\* never holds a key twice nor more redemptions than its steeps paid for.
THEOREM LedgerSafe == ASSUME RewardSize PROVE Spec => []LedgerInv
<1>1. Init => LedgerInv
  <2> SUFFICES ASSUME Init PROVE LedgerInv
    OBVIOUS
  <2>1. rows = {} /\ IsFiniteSet(rows)
    BY FS_EmptySet DEF Init
  <2>2. ASSUME NEW c \in Customers
        PROVE  Redeemed(c) <= Earned(c) \div SteepsPerReward
    <3>1. RowsOf(c, "reward_redeemed") = {} /\ RowsOf(c, "steep_earned") = {}
      BY <2>1 DEF RowsOf
    <3>2. Redeemed(c) = 0 /\ Earned(c) = 0
      BY <3>1, FS_EmptySet DEF Redeemed, Earned
    <3>3. QED
      BY <3>2, DivMonotone DEF RewardSize
  <2>3. QED
    BY <2>1, <2>2 DEF LedgerInv, TypeOK, OneRowPerKey, NoOverRedemption
<1>2. LedgerInv /\ [Next]_rows => LedgerInv'
  <2> SUFFICES ASSUME LedgerInv, [Next]_rows PROVE LedgerInv'
    OBVIOUS
  <2> USE DEF LedgerInv
  <2>1. CASE UNCHANGED rows
    BY <2>1 DEF TypeOK, OneRowPerKey, NoOverRedemption, Redeemed, Earned, RowsOf
  <2>2. ASSUME NEW i \in RowIds, NEW c \in Customers, NEW k \in Keys,
               NEW ty \in EventTypes, Append(i, c, ty, k),
               ty = "reward_redeemed" => Available(c) > 0
        PROVE  LedgerInv'
    <3> DEFINE x == [id |-> i, cust |-> c, type |-> ty, key |-> k]
    <3>1. rows' = rows \cup {x} /\ x \notin rows /\ x \in Row
      BY <2>2 DEF Append, Recorded, Row
    <3>2. TypeOK' /\ IsFiniteSet(rows)'
      BY <3>1, FS_AddElement DEF TypeOK
    <3>3. OneRowPerKey'
      BY <2>2, <3>1 DEF OneRowPerKey, Append, Recorded
    <3>4. ASSUME NEW d \in Customers
          PROVE  Redeemed(d)' <= Earned(d)' \div SteepsPerReward
      <4>0. /\ Earned(d) = Count(rows, d, "steep_earned")
            /\ Redeemed(d) = Count(rows, d, "reward_redeemed")
            /\ Earned(d)' = Count(rows \cup {x}, d, "steep_earned")
            /\ Redeemed(d)' = Count(rows \cup {x}, d, "reward_redeemed")
        BY <3>1 DEF Earned, Redeemed, RowsOf, Count
      <4>a. ASSUME NEW t
            PROVE  Count(rows \cup {x}, d, t) = IF c = d /\ ty = t THEN Count(rows, d, t) + 1
                                                                 ELSE Count(rows, d, t)
        <5>1. x.cust = c /\ x.type = ty
          OBVIOUS
        <5>2. IsFiniteSet(rows) /\ x \notin rows
          BY <3>1
        <5> HIDE DEF x, LedgerInv
        <5>3. Count(rows \cup {x}, d, t) =
                IF x.cust = d /\ x.type = t THEN Count(rows, d, t) + 1 ELSE Count(rows, d, t)
          BY ONLY <5>2, CountAppend
        <5>4. QED
          BY ONLY <5>1, <5>3
      <4>1. /\ Earned(d) \in Nat /\ Redeemed(d) \in Nat
            /\ Redeemed(d) <= Earned(d) \div SteepsPerReward
        BY <4>0, CountIsNat DEF NoOverRedemption
      <4>2. Earned(d)' = IF c = d /\ ty = "steep_earned" THEN Earned(d) + 1 ELSE Earned(d)
        BY <4>0, <4>a
      <4>3. Redeemed(d)' = IF c = d /\ ty = "reward_redeemed" THEN Redeemed(d) + 1
                                                            ELSE Redeemed(d)
        BY <4>0, <4>a
      <4>4. CASE c = d /\ ty = "reward_redeemed"
        <5>1. (Earned(d) \div SteepsPerReward) - Redeemed(d) > 0 /\ Earned(d)' = Earned(d)
          BY <2>2, <4>2, <4>4 DEF Available, Rewards
        <5>2. Earned(d) \div SteepsPerReward \in Nat
          BY <4>1, DivMonotone DEF RewardSize
        <5>3. QED
          BY <4>1, <4>3, <4>4, <5>1, <5>2
      <4>5. CASE ~(c = d /\ ty = "reward_redeemed")
        <5>1. Redeemed(d)' = Redeemed(d) /\ Earned(d)' \in Nat /\ Earned(d) <= Earned(d)'
          BY <4>1, <4>2, <4>3, <4>5
        <5>2. /\ Earned(d) \div SteepsPerReward \in Nat
              /\ Earned(d)' \div SteepsPerReward \in Nat
              /\ Earned(d) \div SteepsPerReward <= Earned(d)' \div SteepsPerReward
          BY <4>1, <5>1, DivMonotone DEF RewardSize
        <5>3. QED
          BY <4>1, <5>1, <5>2
      <4>6. QED
        BY <4>4, <4>5
    <3>5. QED
      BY <3>2, <3>3, <3>4 DEF NoOverRedemption
  <2>3. ASSUME NEW i \in RowIds, NEW c \in Customers, NEW k \in Keys, Credit(i, c, k)
        PROVE  LedgerInv'
    BY <2>2, <2>3 DEF Credit, EventTypes
  <2>4. ASSUME NEW i \in RowIds, NEW c \in Customers, NEW k \in Keys, Redeem(i, c, k)
        PROVE  LedgerInv'
    BY <2>2, <2>4 DEF Redeem, EventTypes
  <2>5. QED
    BY <2>1, <2>3, <2>4 DEF Next
<1>3. QED
  BY <1>1, <1>2, PTL DEF Spec
=============================================================================
