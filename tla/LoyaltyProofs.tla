--------------------------- MODULE LoyaltyProofs ---------------------------
(***************************************************************************)
(* The loyalty handlers, for any requests, customers, keys, reward size and *)
(* any faults: types; and, as long as Redis answers and no redemption       *)
(* outlives its lock, that they implement LoyaltyLedger and so never        *)
(* redeem more than was earned.                                             *)
(***************************************************************************)
EXTENDS LoyaltyRaces, FiniteSetTheorems, TLAPS

Proved == INSTANCE LoyaltyLedgerProofs WITH RowIds <- Requests

TypeInv == TypeOK /\ KeyInv /\ IsFiniteSet(rows)

\* The instances' Cardinality and IsFiniteSet are the library's.
LEMMA SameCardinality ==
  ASSUME NEW S
  PROVE  /\ Ledger!Cardinality(S) = Cardinality(S) /\ Proved!Cardinality(S) = Cardinality(S)
         /\ Proved!IsFiniteSet(S) <=> IsFiniteSet(S)
BY DEF Ledger!Cardinality, Proved!Cardinality, Cardinality, Proved!IsFiniteSet, IsFiniteSet

\* A finite table has a count for every customer and type.
LEMMA CountIsNat ==
  ASSUME NEW R, IsFiniteSet(R), NEW c, NEW ty
  PROVE  Proved!Count(R, c, ty) \in Nat
BY SameCardinality, Proved!CountIsNat

\* The ledger's counts, in the form the counting lemmas speak of.
LEMMA LedgerCounts ==
  ASSUME NEW c
  PROVE  /\ Ledger!Earned(c) = Proved!Count(rows, c, "steep_earned")
         /\ Ledger!Redeemed(c) = Proved!Count(rows, c, "reward_redeemed")
         /\ Ledger!Earned(c)' = Proved!Count(rows', c, "steep_earned")
         /\ Ledger!Redeemed(c)' = Proved!Count(rows', c, "reward_redeemed")
BY SameCardinality DEF Ledger!Earned, Ledger!Redeemed, Ledger!RowsOf, Proved!Count

\* The rows a handler appends are rows of the table.
LEMMA AppendTyped ==
  ASSUME rows \subseteq Ledger!Row, IsFiniteSet(rows),
         NEW h \in Requests, cust[h] \in Customers,
         NEW k, k \in Keys, NEW ty \in Ledger!EventTypes,
         Ledger!Append(h, cust[h], ty, k)
  PROVE  rows' \subseteq Ledger!Row /\ IsFiniteSet(rows')
<1>1. [id |-> h, cust |-> cust[h], type |-> ty, key |-> k] \in Ledger!Row
  BY DEF Ledger!Row
<1>2. QED
  BY <1>1, FS_AddElement DEF Ledger!Append

\* Every variable keeps its type, and a request that writes under its key has
\* one, in every behaviour of the handlers, whatever goes wrong.
THEOREM TypeCorrect == Spec => []TypeInv
<1>1. Init => TypeInv
  BY FS_EmptySet DEF Init, TypeInv, TypeOK, KeyInv, Ledger!Init
<1>2. TypeInv /\ [Next]_vars => TypeInv'
  <2> SUFFICES ASSUME TypeInv, [Next]_vars PROVE TypeInv'
    OBVIOUS
  <2> USE DEF TypeInv, TypeOK, KeyInv, Goto, Finish, Leave, stores, local
  <2>1. ASSUME NEW h \in Requests, NEW k \in StampKeys, Stamp(h, k) PROVE TypeInv'
    BY <2>1 DEF Stamp, EarnEntry, Keys
  <2>2. ASSUME NEW h \in Requests, NEW k \in ShopifyKeys \cup SquareKeys, Webhook(h, k) PROVE TypeInv'
    <3>1. (key' = key /\ Finish(h, "ok")) \/ EarnEntry(h, k, "ok")
      BY <2>2 DEF Webhook
    <3>2. UNCHANGED <<rows, stores, cust, owns, seen, gone>> /\ k \in Keys
      BY <2>2 DEF Webhook, Keys
    <3>3. QED
      BY <3>1, <3>2 DEF EarnEntry
  <2>3. ASSUME NEW h \in Requests, Redeem(h) PROVE TypeInv'
    BY <2>3 DEF Redeem
  <2>4. ASSUME NEW h \in Requests, IssueStampToken(h) PROVE TypeInv'
    BY <2>4 DEF IssueStampToken
  <2>5. ASSUME NEW h \in Requests, NEW t \in Requests, StampViaToken(h, t) PROVE TypeInv'
    <3>1. [kind |-> "qr", id |-> t] \in Keys
      BY DEF Keys, QRKeys
    <3>2. CASE ScanToken(h, t) /\ qr' = qr \ {t}
      <4>1. TypeOK'
        BY <2>5, <3>1, <3>2 DEF StampViaToken, ScanToken
      <4>2. KeyInv'
        BY <2>5, <3>1, <3>2 DEF ScanToken
      <4>3. QED
        BY <2>5, <4>1, <4>2 DEF StampViaToken
    <3>3. CASE Finish(h, "notfound") /\ UNCHANGED <<cust, key>> /\ qr' \in {qr, qr \ {t}}
      BY <2>5, <3>3 DEF StampViaToken
    <3>4. QED
      BY <2>5, <3>2, <3>3 DEF StampViaToken
  <2>6. ASSUME NEW h \in Requests, EarnSetNX(h) PROVE TypeInv'
    BY <2>6 DEF EarnSetNX
  <2>7. ASSUME NEW h \in Requests, EarnInsert(h) PROVE TypeInv'
    <3>1. key[h] \in Keys /\ cust[h] \in Customers /\ "steep_earned" \in Ledger!EventTypes
      BY <2>7 DEF EarnInsert, Ledger!EventTypes
    <3>2. rows' = rows \/ Ledger!Append(h, cust[h], "steep_earned", key[h])
      BY <2>7 DEF EarnInsert, Ledger!Credit
    <3>3. rows' \subseteq Ledger!Row /\ IsFiniteSet(rows')
      BY <3>1, <3>2, AppendTyped
    <3>4. QED
      BY <2>7, <3>1, <3>3 DEF EarnInsert
  <2>8. ASSUME NEW h \in Requests, EarnUndo(h) PROVE TypeInv'
    BY <2>8 DEF EarnUndo
  <2>9. ASSUME NEW h \in Requests, Audit(h) PROVE TypeInv'
    BY <2>9 DEF Audit
  <2>10. ASSUME NEW h \in Requests, Balance(h) PROVE TypeInv'
    BY <2>10 DEF Balance
  <2>11. ASSUME NEW h \in Requests, RedeemLock(h) PROVE TypeInv'
    <3>1. /\ lock' \in {lock, lock \cup {cust[h]}}
          /\ owns' \in {owns, [owns EXCEPT ![h] = TRUE]}
          /\ Goto(h, "count") \/ Finish(h, "conflict")
          /\ UNCHANGED <<rows, marker, qr, audited, cust, key, seen, gone>>
      BY <2>11 DEF RedeemLock
    <3>2. KeyInv'
      BY <3>1
    <3>3. TypeOK' /\ IsFiniteSet(rows)'
      <4>0. cust[h] \in Customers /\ [owns EXCEPT ![h] = TRUE] \in [Requests -> BOOLEAN]
        OBVIOUS
      <4>1. lock' \subseteq Customers /\ owns' \in [Requests -> BOOLEAN]
        BY ONLY <3>1, <4>0, lock \subseteq Customers, owns \in [Requests -> BOOLEAN]
      <4>2. /\ pc' = [pc EXCEPT ![h] = "count"] \/ pc' = [pc EXCEPT ![h] = "done"]
            /\ reply' = reply \/ reply' = [reply EXCEPT ![h] = "conflict"]
        BY <3>1
      <4>3. QED
        BY <3>1, <4>1, <4>2
    <3>4. QED
      BY <3>2, <3>3
  <2>12. ASSUME NEW h \in Requests, RedeemCount(h) PROVE TypeInv'
    <3>1. Ledger!Earned(cust[h]) \in Nat /\ Ledger!Redeemed(cust[h]) \in Nat
      BY LedgerCounts, CountIsNat
    <3>2. QED
      BY <2>12, <3>1 DEF RedeemCount
  <2>13. ASSUME NEW h \in Requests, NEW t \in Instants, RedeemCommit(h, t) PROVE TypeInv'
    <3> DEFINE k == [kind |-> "redeem", id |-> <<cust[h], t>>]
    <3>1. k \in Keys
      BY DEF Keys, RedeemKeys
    <3>2. rows' = rows \/ Ledger!Append(h, cust[h], "reward_redeemed", k)
      BY <2>13 DEF RedeemCommit
    <3>3. rows' \subseteq Ledger!Row /\ IsFiniteSet(rows')
      <4>1. cust[h] \in Customers /\ "reward_redeemed" \in Ledger!EventTypes
        BY DEF Ledger!EventTypes
      <4>2. QED
        BY <3>1, <3>2, <4>1, AppendTyped
    <3>4. Goto(h, "audit") \/ Leave(h, "error")
      BY <2>13 DEF RedeemCommit
    <3> HIDE DEF k
    <3>5. /\ key' = [key EXCEPT ![h] = k]
          /\ UNCHANGED <<stores, cust, owns, seen, gone>>
      BY <2>13 DEF RedeemCommit, k
    <3>6. QED
      BY <3>1, <3>3, <3>4, <3>5
  <2>14. ASSUME NEW h \in Requests, RedeemUnlock(h) PROVE TypeInv'
    BY <2>14 DEF RedeemUnlock
  <2>15. ASSUME NEW h \in Requests, StampPageCustomer(h) PROVE TypeInv'
    BY <2>15 DEF StampPageCustomer, EarnEntry
  <2>16. ASSUME NEW h \in Requests, ClientGone(h) PROVE TypeInv'
    BY <2>16 DEF ClientGone
  <2>17. ASSUME NEW k \in marker, MarkerExpires(k) PROVE TypeInv'
    BY <2>17 DEF MarkerExpires
  <2>18. ASSUME NEW t \in qr, TokenExpires(t) PROVE TypeInv'
    BY <2>18 DEF TokenExpires
  <2>19. ASSUME NEW c \in lock, LockExpires(c) PROVE TypeInv'
    BY <2>19 DEF LockExpires
  <2>20. ASSUME Crash PROVE TypeInv'
    BY <2>20 DEF Crash, InFlight, Waiting
  <2>21. ASSUME UNCHANGED vars PROVE TypeInv'
    BY <2>21 DEF vars
  <2>22. QED
    BY <2>1, <2>2, <2>3, <2>4, <2>5, <2>6, <2>7, <2>8, <2>9, <2>10, <2>11, <2>12, <2>13, <2>14,
       <2>15, <2>16, <2>17, <2>18, <2>19, <2>20, <2>21 DEF Next, Arrive, OrderPaid, PaymentCompleted, Proceed
<1>3. QED
  BY <1>1, <1>2, PTL DEF Spec
-----------------------------------------------------------------------------
\* Redis answers, and a redemption ends before its lock expires.
RedisReliable == "redis" \notin Faults /\ "expiry" \notin Faults

RedeemInv == LockInv /\ HoldInv

\* With a reliable Redis the redemption lock is one: every request past its
\* count, and every one that still has a client, holds it alone.
THEOREM LockSafe == ASSUME RedisReliable PROVE Spec => []RedeemInv
<1>1. Init => RedeemInv
  BY DEF Init, RedeemInv, LockInv, HoldInv
<1>2. TypeInv /\ RedeemInv /\ [Next]_vars => RedeemInv'
  <2> SUFFICES ASSUME TypeInv, RedeemInv, [Next]_vars PROVE RedeemInv'
    OBVIOUS
  <2>0. /\ pc \in [Requests -> {"new", "lookup", "setnx", "insert", "undo", "lock", "count",
                                "commit", "audit", "balance", "unlock", "done", "lost"}]
        /\ cust \in [Requests -> Customers]
        /\ owns \in [Requests -> BOOLEAN]
    BY DEF TypeInv, TypeOK
  <2> USE <2>0 DEF RedeemInv, LockInv, HoldInv, Goto, Finish, Leave, stores, local
  <2>1. ASSUME NEW h \in Requests, NEW k \in StampKeys, Stamp(h, k) PROVE RedeemInv'
    BY <2>1 DEF Stamp, EarnEntry
  <2>2. ASSUME NEW h \in Requests, NEW k \in ShopifyKeys \cup SquareKeys, Webhook(h, k) PROVE RedeemInv'
    BY <2>2 DEF Webhook, EarnEntry
  <2>3. ASSUME NEW h \in Requests, Redeem(h) PROVE RedeemInv'
    BY <2>3 DEF Redeem
  <2>4. ASSUME NEW h \in Requests, IssueStampToken(h) PROVE RedeemInv'
    BY <2>4 DEF IssueStampToken
  <2>5. ASSUME NEW h \in Requests, NEW t \in Requests, StampViaToken(h, t) PROVE RedeemInv'
    BY <2>5 DEF StampViaToken, ScanToken
  <2>6. ASSUME NEW h \in Requests, EarnSetNX(h) PROVE RedeemInv'
    BY <2>6 DEF EarnSetNX
  <2>7. ASSUME NEW h \in Requests, EarnInsert(h) PROVE RedeemInv'
    BY <2>7 DEF EarnInsert
  <2>8. ASSUME NEW h \in Requests, EarnUndo(h) PROVE RedeemInv'
    BY <2>8 DEF EarnUndo
  <2>9. ASSUME NEW h \in Requests, Audit(h) PROVE RedeemInv'
    BY <2>9 DEF Audit
  <2>10. ASSUME NEW h \in Requests, Balance(h) PROVE RedeemInv'
    BY <2>10 DEF Balance
  <2>11. ASSUME NEW h \in Requests, RedeemLock(h) PROVE RedeemInv'
    <3>1. CASE /\ cust[h] \notin lock
               /\ lock' = lock \cup {cust[h]}
               /\ owns' = [owns EXCEPT ![h] = TRUE]
               /\ Goto(h, "count")
      BY <2>11, <3>1 DEF RedeemLock
    <3>2. CASE Finish(h, "conflict") /\ UNCHANGED <<lock, owns>>
      BY <2>11, <3>2 DEF RedeemLock
    <3>3. CASE h \in gone /\ Goto(h, "count") /\ UNCHANGED <<lock, owns>>
      BY <2>11, <3>3 DEF RedeemLock
    <3>4. QED
      BY <2>11, <3>1, <3>2, <3>3 DEF RedeemLock, RedisFails, RedisReliable
  <2>12. ASSUME NEW h \in Requests, RedeemCount(h) PROVE RedeemInv'
    BY <2>12 DEF RedeemCount
  <2>13. ASSUME NEW h \in Requests, NEW t \in Instants, RedeemCommit(h, t) PROVE RedeemInv'
    BY <2>13 DEF RedeemCommit
  <2>14. ASSUME NEW h \in Requests, RedeemUnlock(h) PROVE RedeemInv'
    BY <2>14 DEF RedeemUnlock
  <2>15. ASSUME NEW h \in Requests, StampPageCustomer(h) PROVE RedeemInv'
    BY <2>15 DEF StampPageCustomer, EarnEntry
  <2>16. ASSUME NEW h \in Requests, ClientGone(h) PROVE RedeemInv'
    BY <2>16 DEF ClientGone
  <2>17. ASSUME NEW k \in marker, MarkerExpires(k) PROVE RedeemInv'
    BY <2>17 DEF MarkerExpires
  <2>18. ASSUME NEW t \in qr, TokenExpires(t) PROVE RedeemInv'
    BY <2>18 DEF TokenExpires
  <2>19. ASSUME NEW c \in lock, LockExpires(c) PROVE RedeemInv'
    BY <2>19 DEF LockExpires, RedisReliable
  <2>20. ASSUME Crash PROVE RedeemInv'
    BY <2>20 DEF Crash, InFlight, Waiting
  <2>21. ASSUME UNCHANGED vars PROVE RedeemInv'
    BY <2>21 DEF vars
  <2>22. QED
    BY <2>1, <2>2, <2>3, <2>4, <2>5, <2>6, <2>7, <2>8, <2>9, <2>10, <2>11, <2>12, <2>13,
       <2>14, <2>15, <2>16, <2>17, <2>18, <2>19, <2>20, <2>21 DEF Next, Arrive, OrderPaid, PaymentCompleted, Proceed
<1>3. QED
  BY <1>1, <1>2, TypeCorrect, PTL DEF Spec
-----------------------------------------------------------------------------
\* A step that is not one of the three that touch the ledger or what a
\* redemption read of it.
Quiet ==
  /\ rows' = rows /\ seen' = seen
  /\ \A g \in Requests : pc'[g] = "commit" => pc[g] = "commit" /\ cust'[g] = cust[g]

\* Only an insert, a count and a commit are not quiet.
LEMMA QuietSteps ==
  ASSUME TypeInv, [Next]_vars
  PROVE  \/ Quiet
         \/ \E h \in Requests : EarnInsert(h)
         \/ \E h \in Requests : RedeemCount(h)
         \/ \E h \in Requests, t \in Instants : RedeemCommit(h, t)
<1>0. /\ pc \in [Requests -> {"new", "lookup", "setnx", "insert", "undo", "lock", "count",
                              "commit", "audit", "balance", "unlock", "done", "lost"}]
      /\ cust \in [Requests -> Customers]
  BY DEF TypeInv, TypeOK
<1> USE <1>0 DEF Quiet, Goto, Finish, Leave, stores, local
<1>1. ASSUME NEW h \in Requests, NEW k \in StampKeys, Stamp(h, k) PROVE Quiet
  BY <1>1 DEF Stamp, EarnEntry
<1>2. ASSUME NEW h \in Requests, NEW k \in ShopifyKeys \cup SquareKeys, Webhook(h, k) PROVE Quiet
  BY <1>2 DEF Webhook, EarnEntry
<1>3. ASSUME NEW h \in Requests,
             Redeem(h) \/ IssueStampToken(h) \/ EarnSetNX(h) \/ EarnUndo(h) \/ Audit(h)
      PROVE  Quiet
  BY <1>3 DEF Redeem, IssueStampToken, EarnSetNX, EarnUndo, Audit
<1>4. ASSUME NEW h \in Requests, NEW t \in Requests, StampViaToken(h, t) PROVE Quiet
  BY <1>4 DEF StampViaToken, ScanToken
<1>5. ASSUME NEW h \in Requests,
             Balance(h) \/ RedeemLock(h) \/ RedeemUnlock(h) \/ ClientGone(h)
      PROVE  Quiet
  BY <1>5 DEF Balance, RedeemLock, RedeemUnlock, ClientGone
<1>6. ASSUME NEW h \in Requests, StampPageCustomer(h) PROVE Quiet
  BY <1>6 DEF StampPageCustomer, EarnEntry
<1>7. ASSUME \/ \E k \in marker : MarkerExpires(k)
             \/ \E t \in qr : TokenExpires(t)
             \/ \E c \in lock : LockExpires(c)
      PROVE  Quiet
  BY <1>7 DEF MarkerExpires, TokenExpires, LockExpires
<1>8. ASSUME Crash PROVE Quiet
  BY <1>8 DEF Crash, InFlight, Waiting
<1>9. ASSUME UNCHANGED vars PROVE Quiet
  BY <1>9 DEF vars
<1>10. QED
  BY <1>1, <1>2, <1>3, <1>4, <1>5, <1>6, <1>7, <1>8, <1>9 DEF Next, Arrive, OrderPaid, PaymentCompleted, Proceed

\* A row appended for a customer counts once, for that customer, under its type.
LEMMA AppendCounts ==
  ASSUME IsFiniteSet(rows), NEW h, NEW ty, NEW k,
         Ledger!Append(h, cust[h], ty, k), NEW d
  PROVE  /\ Ledger!Earned(d) \in Nat /\ Ledger!Redeemed(d) \in Nat
         /\ Ledger!Earned(d)' =
              IF cust[h] = d /\ ty = "steep_earned" THEN Ledger!Earned(d) + 1
                                                   ELSE Ledger!Earned(d)
         /\ Ledger!Redeemed(d)' =
              IF cust[h] = d /\ ty = "reward_redeemed" THEN Ledger!Redeemed(d) + 1
                                                      ELSE Ledger!Redeemed(d)
<1> DEFINE x == [id |-> h, cust |-> cust[h], type |-> ty, key |-> k]
<1>1. rows' = rows \cup {x} /\ x \notin rows
  BY DEF Ledger!Append, Ledger!Recorded
<1>2. x.cust = cust[h] /\ x.type = ty
  OBVIOUS
<1> HIDE DEF x
<1>3. ASSUME NEW t
      PROVE  /\ Proved!Count(rows, d, t) \in Nat
             /\ Proved!Count(rows', d, t) = IF cust[h] = d /\ ty = t THEN Proved!Count(rows, d, t) + 1
                                                            ELSE Proved!Count(rows, d, t)
  <2>1. /\ Proved!Count(rows, d, t) \in Nat
        /\ Proved!Count(rows \cup {x}, d, t) =
             IF x.cust = d /\ x.type = t THEN Proved!Count(rows, d, t) + 1 ELSE Proved!Count(rows, d, t)
    BY ONLY IsFiniteSet(rows), <1>1, SameCardinality, Proved!CountAppend
  <2>2. QED
    BY ONLY <1>1, <1>2, <2>1
<1>4. QED
  BY ONLY <1>3, LedgerCounts

\* A key leaves one row, whatever fails, Redis included: the UNIQUE constraint
\* is the backstop that Earn falls through to.
THEOREM KeysUnique == Spec => []OneRowPerKey
<1>1. Init => OneRowPerKey
  BY DEF Init, Ledger!Init, OneRowPerKey, Ledger!OneRowPerKey
<1>2. TypeInv /\ OneRowPerKey /\ [Next]_vars => OneRowPerKey'
  <2> SUFFICES ASSUME TypeInv, OneRowPerKey, [Next]_vars PROVE OneRowPerKey'
    OBVIOUS
  <2>1. ASSUME rows' = rows PROVE OneRowPerKey'
    BY <2>1 DEF OneRowPerKey, Ledger!OneRowPerKey
  <2>2. ASSUME NEW h, NEW ty, NEW k, Ledger!Append(h, cust[h], ty, k) PROVE OneRowPerKey'
    BY <2>2 DEF OneRowPerKey, Ledger!OneRowPerKey, Ledger!Append, Ledger!Recorded
  <2>3. ASSUME NEW h \in Requests, EarnInsert(h) PROVE OneRowPerKey'
    BY <2>1, <2>2, <2>3 DEF EarnInsert, Ledger!Credit
  <2>4. ASSUME NEW h \in Requests, RedeemCount(h) PROVE OneRowPerKey'
    BY <2>1, <2>4 DEF RedeemCount
  <2>5. ASSUME NEW h \in Requests, NEW t \in Instants, RedeemCommit(h, t)
        PROVE  OneRowPerKey'
    BY <2>1, <2>2, <2>5 DEF RedeemCommit
  <2>6. QED
    BY <2>1, <2>3, <2>4, <2>5, QuietSteps DEF Quiet
<1>3. QED
  BY <1>1, <1>2, TypeCorrect, PTL DEF Spec

\* What the lock is for: two redemptions of one customer never decide at once.
THEOREM Exclusive == ASSUME RedisReliable PROVE Spec => []RedemptionsExclusive
<1>1. RedeemInv => RedemptionsExclusive
  BY DEF RedeemInv, LockInv, HoldInv, RedemptionsExclusive, Deciding
<1>2. QED
  BY <1>1, LockSafe, PTL

LedgerInv == TypeInv /\ RedeemInv /\ SeenInv

\* What a redemption decided on still holds when it commits.
THEOREM SeenSafe == ASSUME RedisReliable PROVE Spec => []LedgerInv
<1>1. Init => SeenInv
  BY DEF Init, SeenInv
<1>2. TypeInv /\ RedeemInv /\ SeenInv /\ [Next]_vars => SeenInv'
  <2> SUFFICES ASSUME TypeInv, RedeemInv, SeenInv, [Next]_vars,
                      NEW g \in Requests, pc'[g] = "commit"
               PROVE  /\ seen'[g].redeemed = Ledger!Redeemed(cust[g])'
                      /\ seen'[g].earned <= Ledger!Earned(cust[g])'
                      /\ Ledger!Rewards(seen[g].earned, seen[g].redeemed)' > 0
    BY DEF SeenInv
  <2>0. /\ pc \in [Requests -> {"new", "lookup", "setnx", "insert", "undo", "lock", "count",
                                "commit", "audit", "balance", "unlock", "done", "lost"}]
        /\ IsFiniteSet(rows) /\ cust[g] \in Customers
        /\ seen \in [Requests -> [earned : Nat, redeemed : Nat]]
    BY DEF TypeInv, TypeOK
  <2>1. CASE Quiet
    <3>1. pc[g] = "commit" /\ cust'[g] = cust[g] /\ seen' = seen /\ rows' = rows
      BY <2>1 DEF Quiet
    <3>2. /\ Ledger!Redeemed(cust[g])' = Ledger!Redeemed(cust[g])
          /\ Ledger!Earned(cust[g])' = Ledger!Earned(cust[g])
      BY <3>1 DEF Ledger!Redeemed, Ledger!Earned, Ledger!RowsOf
    <3>3. QED
      BY <3>1, <3>2 DEF SeenInv, Ledger!Rewards
  <2>2. ASSUME NEW h \in Requests, RedeemCount(h)
        PROVE  /\ seen'[g].redeemed = Ledger!Redeemed(cust[g])'
               /\ seen'[g].earned <= Ledger!Earned(cust[g])'
               /\ Ledger!Rewards(seen[g].earned, seen[g].redeemed)' > 0
    <3>1. rows' = rows /\ cust' = cust
      BY <2>2 DEF RedeemCount, stores
    <3>2. /\ Ledger!Redeemed(cust[g])' = Ledger!Redeemed(cust[g])
          /\ Ledger!Earned(cust[g])' = Ledger!Earned(cust[g])
      BY <3>1 DEF Ledger!Redeemed, Ledger!Earned, Ledger!RowsOf
    <3>3. CASE g = h
      <4>1. /\ seen'[h] = [earned |-> Ledger!Earned(cust[h]), redeemed |-> Ledger!Redeemed(cust[h])]
            /\ Ledger!Rewards(seen'[h].earned, seen'[h].redeemed) > 0
        BY <2>0, <2>2, <3>3 DEF RedeemCount, Goto, Leave
      <4>2. Ledger!Earned(cust[h]) \in Nat
        BY <2>0, LedgerCounts, CountIsNat
      <4>3. QED
        BY <3>2, <3>3, <4>1, <4>2 DEF Ledger!Rewards
    <3>4. CASE g # h
      <4>1. pc[g] = "commit" /\ seen'[g] = seen[g]
        BY <2>0, <2>2, <3>4 DEF RedeemCount, Goto, Leave
      <4>2. QED
        BY <3>2, <4>1 DEF SeenInv, Ledger!Rewards
    <3>5. QED
      BY <3>3, <3>4
  <2>3. ASSUME NEW h \in Requests, pc[g] = "commit", seen' = seen, cust' = cust, NEW k,
               NEW ty, ty = "reward_redeemed" => cust[h] # cust[g],
               rows' = rows \/ Ledger!Append(h, cust[h], ty, k)
        PROVE  /\ seen'[g].redeemed = Ledger!Redeemed(cust[g])'
               /\ seen'[g].earned <= Ledger!Earned(cust[g])'
               /\ Ledger!Rewards(seen[g].earned, seen[g].redeemed)' > 0
    <3>1. /\ Ledger!Redeemed(cust[g])' = Ledger!Redeemed(cust[g])
          /\ Ledger!Earned(cust[g])' \in {Ledger!Earned(cust[g]), Ledger!Earned(cust[g]) + 1}
          /\ Ledger!Earned(cust[g]) \in Nat
      <4>1. CASE rows' = rows
        <5>1. Ledger!Earned(cust[g]) \in Nat
          BY <2>0, LedgerCounts, CountIsNat
        <5>2. /\ Ledger!Redeemed(cust[g])' = Ledger!Redeemed(cust[g])
              /\ Ledger!Earned(cust[g])' = Ledger!Earned(cust[g])
          BY <2>3, <4>1 DEF Ledger!Redeemed, Ledger!Earned, Ledger!RowsOf
        <5>3. QED
          BY <5>1, <5>2
      <4>2. CASE Ledger!Append(h, cust[h], ty, k)
        <5>1. PICK d : d = cust[g]
          OBVIOUS
        <5>2. /\ Ledger!Earned(d)' \in {Ledger!Earned(d), Ledger!Earned(d) + 1}
              /\ Ledger!Redeemed(d)' = Ledger!Redeemed(d)
              /\ Ledger!Earned(d) \in Nat
          BY <2>0, <2>3, <4>2, <5>1, AppendCounts
        <5>3. cust'[g] = d
          BY <2>3, <5>1
        <5>4. QED
          BY <5>1, <5>2, <5>3 DEF Ledger!Redeemed, Ledger!Earned, Ledger!RowsOf
      <4>3. QED
        BY <2>3, <4>1, <4>2
    <3>2. QED
      BY <2>0, <2>3, <3>1 DEF SeenInv, Ledger!Rewards
  <2>4. ASSUME NEW h \in Requests, EarnInsert(h)
        PROVE  /\ seen'[g].redeemed = Ledger!Redeemed(cust[g])'
               /\ seen'[g].earned <= Ledger!Earned(cust[g])'
               /\ Ledger!Rewards(seen[g].earned, seen[g].redeemed)' > 0
    <3>1. pc[g] = "commit" /\ seen' = seen /\ cust' = cust
      BY <2>0, <2>4 DEF EarnInsert, Goto, local
    <3>2. rows' = rows \/ Ledger!Append(h, cust[h], "steep_earned", key[h])
      BY <2>4 DEF EarnInsert, Ledger!Credit
    <3>3. QED
      BY <2>3, <3>1, <3>2
  <2>5. ASSUME NEW h \in Requests, NEW t \in Instants, RedeemCommit(h, t)
        PROVE  /\ seen'[g].redeemed = Ledger!Redeemed(cust[g])'
               /\ seen'[g].earned <= Ledger!Earned(cust[g])'
               /\ Ledger!Rewards(seen[g].earned, seen[g].redeemed)' > 0
    <3>1. /\ pc[h] = "commit" /\ pc[g] = "commit" /\ g # h
          /\ seen' = seen /\ cust' = cust
      BY <2>0, <2>5 DEF RedeemCommit, Goto, Leave
    <3>2. cust[h] # cust[g]
      BY <3>1 DEF RedeemInv, LockInv, HoldInv
    <3>3. rows' = rows
            \/ Ledger!Append(h, cust[h], "reward_redeemed", [kind |-> "redeem", id |-> <<cust[h], t>>])
      BY <2>5 DEF RedeemCommit
    <3>4. QED
      BY <2>3, <3>1, <3>2, <3>3
  <2>6. QED
    BY <2>1, <2>2, <2>4, <2>5, QuietSteps
<1>3. QED
  BY <1>1, <1>2, TypeCorrect, LockSafe, PTL DEF Spec, LedgerInv
-----------------------------------------------------------------------------
\* Under a reliable Redis the handlers implement the ledger: every insert of
\* Earn is a Credit of the ledger and every commit of Redeem a Redeem that the
\* ledger allows at that moment, although the count it rests on is older.
THEOREM Implements == ASSUME RedisReliable PROVE Spec => LedgerSpec
<1>1. Init => Ledger!Init
  BY DEF Init
<1>2. LedgerInv /\ [Next]_vars => [Ledger!Next]_rows
  <2> SUFFICES ASSUME LedgerInv, [Next]_vars PROVE [Ledger!Next]_rows
    OBVIOUS
  <2>0. /\ IsFiniteSet(rows)
        /\ cust \in [Requests -> Customers]
        /\ seen \in [Requests -> [earned : Nat, redeemed : Nat]]
    BY DEF LedgerInv, TypeInv, TypeOK
  <2>1. CASE Quiet
    BY <2>1 DEF Quiet
  <2>2. ASSUME NEW h \in Requests, RedeemCount(h) PROVE [Ledger!Next]_rows
    BY <2>2 DEF RedeemCount
  <2>3. ASSUME NEW h \in Requests, EarnInsert(h) PROVE [Ledger!Next]_rows
    <3>1. key[h] \in Keys /\ cust[h] \in Customers
      BY <2>0, <2>3 DEF LedgerInv, TypeInv, KeyInv, EarnInsert
    <3>2. rows' = rows \/ Ledger!Credit(h, cust[h], key[h])
      BY <2>3 DEF EarnInsert
    <3>3. QED
      BY <3>1, <3>2 DEF Ledger!Next
  <2>4. ASSUME NEW h \in Requests, NEW t \in Instants, RedeemCommit(h, t)
        PROVE  [Ledger!Next]_rows
    <3> DEFINE k == [kind |-> "redeem", id |-> <<cust[h], t>>]
    <3>1. k \in Keys /\ cust[h] \in Customers
      BY <2>0 DEF Keys, RedeemKeys
    <3>2. rows' = rows \/ Ledger!Append(h, cust[h], "reward_redeemed", k)
      BY <2>4 DEF RedeemCommit
    <3>3. Ledger!Available(cust[h]) > 0
      <4>1. /\ seen[h].redeemed = Ledger!Redeemed(cust[h])
            /\ seen[h].earned <= Ledger!Earned(cust[h])
            /\ Ledger!Rewards(seen[h].earned, seen[h].redeemed) > 0
        BY <2>4 DEF RedeemCommit, LedgerInv, SeenInv
      <4>2. /\ Ledger!Earned(cust[h]) \in Nat /\ Ledger!Redeemed(cust[h]) \in Nat
            /\ seen[h].earned \in Nat
        BY <2>0, LedgerCounts, CountIsNat
      <4>3. /\ seen[h].earned \div SteepsPerReward \in Nat
            /\ Ledger!Earned(cust[h]) \div SteepsPerReward \in Nat
            /\ seen[h].earned \div SteepsPerReward <= Ledger!Earned(cust[h]) \div SteepsPerReward
        BY <4>1, <4>2, Proved!DivMonotone, SteepsPerRewardAssumption
      <4>4. QED
        BY <4>1, <4>2, <4>3 DEF Ledger!Available, Ledger!Rewards
    <3>4. QED
      BY <3>1, <3>2, <3>3 DEF Ledger!Next, Ledger!Redeem
  <2>5. QED
    BY <2>1, <2>2, <2>3, <2>4, QuietSteps DEF LedgerInv
<1>3. QED
  BY <1>1, <1>2, SeenSafe, PTL DEF Spec, LedgerSpec, Ledger!Spec

\* The ledger's own theorem, for the handlers' ledger.

\* Under a reliable Redis no customer ever redeems more than was earned,
\* through any interleaving, database failure, cancelled request or crash.
THEOREM NeverOverRedeemed == ASSUME RedisReliable PROVE Spec => []NoOverRedemption
<1>1. Ledger!Init => Proved!Init
  BY DEF Ledger!Init, Proved!Init
<1>2. [Ledger!Next]_rows => [Proved!Next]_rows
  BY DEF Ledger!Next, Proved!Next, Ledger!Credit, Proved!Credit, Ledger!Redeem,
         Proved!Redeem, Ledger!Append, Proved!Append, Ledger!Recorded, Proved!Recorded,
         Ledger!Available, Proved!Available, Ledger!Rewards, Proved!Rewards,
         Ledger!Earned, Proved!Earned, Ledger!Redeemed, Proved!Redeemed,
         Ledger!RowsOf, Proved!RowsOf, Ledger!Cardinality, Proved!Cardinality
<1>3. Proved!LedgerInv => NoOverRedemption
  BY DEF Proved!LedgerInv, Proved!NoOverRedemption, NoOverRedemption, Ledger!NoOverRedemption,
         Ledger!Earned, Proved!Earned, Ledger!Redeemed, Proved!Redeemed,
         Ledger!RowsOf, Proved!RowsOf, Ledger!Cardinality, Proved!Cardinality
<1>4. Proved!Spec => []Proved!LedgerInv
  BY Proved!LedgerSafe, SteepsPerRewardAssumption DEF Proved!RewardSize
<1>5. QED
  BY <1>1, <1>2, <1>3, <1>4, Implements, PTL DEF LedgerSpec, Ledger!Spec, Proved!Spec
-----------------------------------------------------------------------------
\* The types alone.
THEOREM HandlerTypes == Spec => []TypeOK
<1>1. TypeInv => TypeOK
  BY DEF TypeInv
<1>2. QED
  BY <1>1, TypeCorrect, PTL

\* What is written down about a request is on the ledger before.
AuditInv ==
  /\ AuditTruthful
  /\ \A h \in Requests : pc[h] = "audit" => Ledger!Recorded(key[h])

\* Rows are never removed.
LEMMA RowsStay == ASSUME TypeInv, [Next]_vars PROVE rows \subseteq rows'
<1>1. ASSUME NEW h \in Requests, EarnInsert(h) PROVE rows \subseteq rows'
  BY <1>1 DEF EarnInsert, Ledger!Credit, Ledger!Append
<1>2. ASSUME NEW h \in Requests, NEW t \in Instants, RedeemCommit(h, t)
      PROVE  rows \subseteq rows'
  BY <1>2 DEF RedeemCommit, Ledger!Append
<1>3. ASSUME NEW h \in Requests, RedeemCount(h) PROVE rows \subseteq rows'
  BY <1>3 DEF RedeemCount
<1>4. QED
  BY <1>1, <1>2, <1>3, QuietSteps DEF Quiet

\* A key that is on the ledger stays there.
LEMMA RecordedStays ==
  ASSUME TypeInv, [Next]_vars, NEW k, Ledger!Recorded(k)
  PROVE  Ledger!Recorded(k)'
BY RowsStay DEF Ledger!Recorded

\* A row that is appended records its key.
LEMMA AppendRecords ==
  ASSUME NEW h, NEW c, NEW ty, NEW k, Ledger!Append(h, c, ty, k)
  PROVE  Ledger!Recorded(k)'
<1>1. PICK x : x = [id |-> h, cust |-> c, type |-> ty, key |-> k]
  OBVIOUS
<1>2. x \in rows' /\ x.key = k
  BY <1>1 DEF Ledger!Append
<1>3. QED
  BY <1>2 DEF Ledger!Recorded

\* The audit log names only what is on the ledger, whatever fails: the entry is
\* written after the row, by a request that knows the row is there.
THEOREM AuditsTrue == Spec => []AuditTruthful
<1>1. Init => AuditInv
  BY DEF Init, AuditInv, AuditTruthful
<1>2. TypeInv /\ AuditInv /\ [Next]_vars => AuditInv'
  <2> SUFFICES ASSUME TypeInv, AuditInv, [Next]_vars PROVE AuditInv'
    OBVIOUS
  <2>0. /\ pc \in [Requests -> {"new", "lookup", "setnx", "insert", "undo", "lock", "count",
                                "commit", "audit", "balance", "unlock", "done", "lost"}]
        /\ key \in [Requests -> Keys \cup {NoKey}]
        /\ marker \subseteq Keys /\ qr \subseteq Requests
    BY DEF TypeInv, TypeOK
  <2>a. \A k : Ledger!Recorded(k) => Ledger!Recorded(k)'
    BY RecordedStays
  <2> HIDE DEF TypeInv
  <2> USE <2>0, <2>a DEF AuditInv, AuditTruthful, Goto, Finish, Leave, stores, local
  <2>1. ASSUME NEW h \in Requests, NEW k \in StampKeys, Stamp(h, k) PROVE AuditInv'
    BY <2>1 DEF Stamp, EarnEntry
  <2>2. ASSUME NEW h \in Requests, NEW k \in ShopifyKeys \cup SquareKeys, Webhook(h, k) PROVE AuditInv'
    BY <2>2 DEF Webhook, EarnEntry
  <2>3. ASSUME NEW h \in Requests, Redeem(h) PROVE AuditInv'
    BY <2>3 DEF Redeem
  <2>4. ASSUME NEW h \in Requests, IssueStampToken(h) PROVE AuditInv'
    BY <2>4 DEF IssueStampToken
  <2>5. ASSUME NEW h \in Requests, NEW t \in Requests, StampViaToken(h, t) PROVE AuditInv'
    BY <2>5 DEF StampViaToken, ScanToken
  <2>6. ASSUME NEW h \in Requests, EarnSetNX(h) PROVE AuditInv'
    BY <2>6 DEF EarnSetNX
  <2>7. ASSUME NEW h \in Requests, EarnInsert(h) PROVE AuditInv'
    <3>1. \/ Goto(h, "audit") /\ Ledger!Recorded(key[h])'
          \/ Goto(h, "balance") \/ Goto(h, "undo")
      BY <2>a, <2>7, AppendRecords DEF EarnInsert, Ledger!Credit
    <3>2. UNCHANGED <<audited, key>>
      BY <2>7 DEF EarnInsert
    <3>3. QED
      BY <3>1, <3>2
  <2>8. ASSUME NEW h \in Requests, EarnUndo(h) PROVE AuditInv'
    BY <2>8 DEF EarnUndo
  <2>9. ASSUME NEW h \in Requests, Audit(h) PROVE AuditInv'
    BY <2>9 DEF Audit
  <2>10. ASSUME NEW h \in Requests, Balance(h) PROVE AuditInv'
    BY <2>10 DEF Balance
  <2>11. ASSUME NEW h \in Requests, RedeemLock(h) PROVE AuditInv'
    BY <2>11 DEF RedeemLock
  <2>12. ASSUME NEW h \in Requests, RedeemCount(h) PROVE AuditInv'
    BY <2>12 DEF RedeemCount
  <2>13. ASSUME NEW h \in Requests, NEW t \in Instants, RedeemCommit(h, t) PROVE AuditInv'
    <3>0. PICK k : k = [kind |-> "redeem", id |-> <<cust[h], t>>]
      OBVIOUS
    <3>1. key' = [key EXCEPT ![h] = k] /\ UNCHANGED audited
      BY <2>13, <3>0 DEF RedeemCommit
    <3>2. Ledger!Append(h, cust[h], "reward_redeemed", k) => Ledger!Recorded(k)'
      BY AppendRecords
    <3>3. \/ Goto(h, "audit") /\ Ledger!Recorded(k)'
          \/ Leave(h, "error")
      BY <2>a, <2>13, <3>0, <3>2 DEF RedeemCommit
    <3>4. QED
      BY <3>1, <3>3
  <2>14. ASSUME NEW h \in Requests, RedeemUnlock(h) PROVE AuditInv'
    BY <2>14 DEF RedeemUnlock
  <2>15. ASSUME NEW h \in Requests, StampPageCustomer(h) PROVE AuditInv'
    BY <2>15 DEF StampPageCustomer, EarnEntry
  <2>16. ASSUME NEW h \in Requests, ClientGone(h) PROVE AuditInv'
    BY <2>16 DEF ClientGone
  <2>17. ASSUME NEW k \in marker, MarkerExpires(k) PROVE AuditInv'
    BY <2>17 DEF MarkerExpires
  <2>18. ASSUME NEW t \in qr, TokenExpires(t) PROVE AuditInv'
    BY <2>18 DEF TokenExpires
  <2>19. ASSUME NEW c \in lock, LockExpires(c) PROVE AuditInv'
    BY <2>19 DEF LockExpires
  <2>20. ASSUME Crash PROVE AuditInv'
    BY <2>20 DEF Crash, InFlight, Waiting
  <2>21. ASSUME UNCHANGED vars PROVE AuditInv'
    BY <2>21 DEF vars
  <2>22. QED
    BY <2>1, <2>2, <2>3, <2>4, <2>5, <2>6, <2>7, <2>8, <2>9, <2>10, <2>11, <2>12, <2>13,
       <2>14, <2>15, <2>16, <2>17, <2>18, <2>19, <2>20, <2>21 DEF Next, Arrive, OrderPaid, PaymentCompleted, Proceed
<1>3. AuditInv => AuditTruthful
  BY DEF AuditInv
<1>4. QED
  BY <1>1, <1>2, <1>3, TypeCorrect, PTL DEF Spec
-----------------------------------------------------------------------------
\* A token that somebody scanned is gone and is not issued again.
ScanInv ==
  /\ TokenScannedOnce
  /\ \A t \in qr : pc[t] # "new"
  /\ \A h \in Requests : key[h].kind = "qr" =>
       /\ key[h].id \in Requests /\ key[h].id \notin qr
       /\ pc[key[h].id] # "new" /\ key[h] = [kind |-> "qr", id |-> key[h].id]

\* One of the devices that scan a code gets past the GETDEL, whatever fails.
THEOREM ScansExclusive == Spec => []TokenScannedOnce
<1>1. Init => ScanInv
  BY DEF Init, ScanInv, TokenScannedOnce, NoKey
<1>2. TypeInv /\ ScanInv /\ [Next]_vars => ScanInv'
  <2> SUFFICES ASSUME TypeInv, ScanInv, [Next]_vars PROVE ScanInv'
    OBVIOUS
  <2>0. /\ pc \in [Requests -> {"new", "lookup", "setnx", "insert", "undo", "lock", "count",
                                "commit", "audit", "balance", "unlock", "done", "lost"}]
        /\ key \in [Requests -> Keys \cup {NoKey}]
        /\ marker \subseteq Keys /\ qr \subseteq Requests
    BY DEF TypeInv, TypeOK
  <2> USE <2>0 DEF ScanInv, TokenScannedOnce, Goto, Finish, Leave, stores, local
  <2>1. ASSUME NEW h \in Requests, NEW k \in StampKeys, Stamp(h, k) PROVE ScanInv'
    <3>1. k.kind # "qr"
      BY DEF StampKeys
    <3>2. key' = [key EXCEPT ![h] = k] /\ UNCHANGED qr
      BY <2>1 DEF Stamp, EarnEntry
    <3>3. pc' = [pc EXCEPT ![h] = "setnx"] \/ pc' = [pc EXCEPT ![h] = "done"]
      BY <2>1 DEF Stamp, EarnEntry
    <3>4. QED
      BY <3>1, <3>2, <3>3
  <2>2. ASSUME NEW h \in Requests, NEW k \in ShopifyKeys \cup SquareKeys, Webhook(h, k) PROVE ScanInv'
    <3>1. k.kind # "qr"
      BY DEF ShopifyKeys, SquareKeys
    <3>2. (key' = [key EXCEPT ![h] = k] \/ UNCHANGED key) /\ UNCHANGED qr
      BY <2>2 DEF Webhook, EarnEntry
    <3>3. pc' = [pc EXCEPT ![h] = "setnx"] \/ pc' = [pc EXCEPT ![h] = "done"]
      BY <2>2 DEF Webhook, EarnEntry
    <3>4. QED
      BY <3>1, <3>2, <3>3
  <2>3. ASSUME NEW h \in Requests, Redeem(h) PROVE ScanInv'
    BY <2>3 DEF Redeem
  <2>4. ASSUME NEW h \in Requests, IssueStampToken(h) PROVE ScanInv'
    BY <2>4 DEF IssueStampToken
  <2>5. ASSUME NEW h \in Requests, NEW t \in Requests, StampViaToken(h, t) PROVE ScanInv'
    BY <2>5 DEF StampViaToken, ScanToken
  <2>6. ASSUME NEW h \in Requests, EarnSetNX(h) PROVE ScanInv'
    BY <2>6 DEF EarnSetNX
  <2>7. ASSUME NEW h \in Requests, EarnInsert(h) PROVE ScanInv'
    BY <2>7 DEF EarnInsert
  <2>8. ASSUME NEW h \in Requests, EarnUndo(h) PROVE ScanInv'
    BY <2>8 DEF EarnUndo
  <2>9. ASSUME NEW h \in Requests, Audit(h) PROVE ScanInv'
    BY <2>9 DEF Audit
  <2>10. ASSUME NEW h \in Requests, Balance(h) PROVE ScanInv'
    BY <2>10 DEF Balance
  <2>11. ASSUME NEW h \in Requests, RedeemLock(h) PROVE ScanInv'
    BY <2>11 DEF RedeemLock
  <2>12. ASSUME NEW h \in Requests, RedeemCount(h) PROVE ScanInv'
    BY <2>12 DEF RedeemCount
  <2>13. ASSUME NEW h \in Requests, NEW t \in Instants, RedeemCommit(h, t) PROVE ScanInv'
    BY <2>13 DEF RedeemCommit
  <2>14. ASSUME NEW h \in Requests, RedeemUnlock(h) PROVE ScanInv'
    BY <2>14 DEF RedeemUnlock
  <2>15. ASSUME NEW h \in Requests, StampPageCustomer(h) PROVE ScanInv'
    BY <2>15 DEF StampPageCustomer, EarnEntry
  <2>16. ASSUME NEW h \in Requests, ClientGone(h) PROVE ScanInv'
    BY <2>16 DEF ClientGone
  <2>17. ASSUME NEW k \in marker, MarkerExpires(k) PROVE ScanInv'
    BY <2>17 DEF MarkerExpires
  <2>18. ASSUME NEW t \in qr, TokenExpires(t) PROVE ScanInv'
    BY <2>18 DEF TokenExpires
  <2>19. ASSUME NEW c \in lock, LockExpires(c) PROVE ScanInv'
    BY <2>19 DEF LockExpires
  <2>20. ASSUME Crash PROVE ScanInv'
    BY <2>20 DEF Crash, InFlight, Waiting
  <2>21. ASSUME UNCHANGED vars PROVE ScanInv'
    BY <2>21 DEF vars
  <2>22. QED
    BY <2>1, <2>2, <2>3, <2>4, <2>5, <2>6, <2>7, <2>8, <2>9, <2>10, <2>11, <2>12, <2>13,
       <2>14, <2>15, <2>16, <2>17, <2>18, <2>19, <2>20, <2>21 DEF Next, Arrive, OrderPaid, PaymentCompleted, Proceed
<1>3. ScanInv => TokenScannedOnce
  BY DEF ScanInv
<1>4. QED
  BY <1>1, <1>2, <1>3, TypeCorrect, PTL DEF Spec
-----------------------------------------------------------------------------
\* A request takes its key when it arrives; a redemption when it commits.
MarkInv ==
  /\ MarkerBacked
  /\ \A h \in Requests : pc[h] \in {"new", "lock", "count", "commit"} => key[h] = NoKey

\* With Redis answering, what MarkInv says of the markers always holds.
LEMMA MarksHold == ASSUME "redis" \notin Faults PROVE Spec => []MarkInv
<1>1. Init => MarkInv
  BY DEF Init, MarkInv, MarkerBacked
<1>2. TypeInv /\ MarkInv /\ [Next]_vars => MarkInv'
  <2> SUFFICES ASSUME TypeInv, MarkInv, [Next]_vars PROVE MarkInv'
    OBVIOUS
  <2>0. /\ pc \in [Requests -> {"new", "lookup", "setnx", "insert", "undo", "lock", "count",
                                "commit", "audit", "balance", "unlock", "done", "lost"}]
        /\ key \in [Requests -> Keys \cup {NoKey}]
        /\ marker \subseteq Keys /\ qr \subseteq Requests
    BY DEF TypeInv, TypeOK
  <2>a. \A k : Ledger!Recorded(k) => Ledger!Recorded(k)'
    BY RecordedStays
  <2>b. NoKey \notin Keys
    BY DEF Keys, NoKey, StampKeys, ShopifyKeys, SquareKeys, QRKeys, RedeemKeys
  <2> HIDE DEF TypeInv
  <2> USE <2>0, <2>a, <2>b DEF MarkInv, MarkerBacked, Goto, Finish, Leave, stores, local
  <2>1. ASSUME NEW h \in Requests, NEW k \in StampKeys, Stamp(h, k) PROVE MarkInv'
    BY <2>1 DEF Stamp, EarnEntry
  <2>2. ASSUME NEW h \in Requests, NEW k \in ShopifyKeys \cup SquareKeys, Webhook(h, k) PROVE MarkInv'
    BY <2>2 DEF Webhook, EarnEntry
  <2>3. ASSUME NEW h \in Requests, Redeem(h) PROVE MarkInv'
    BY <2>3 DEF Redeem
  <2>4. ASSUME NEW h \in Requests, IssueStampToken(h) PROVE MarkInv'
    BY <2>4 DEF IssueStampToken
  <2>5. ASSUME NEW h \in Requests, NEW t \in Requests, StampViaToken(h, t) PROVE MarkInv'
    BY <2>5 DEF StampViaToken, ScanToken
  <2>6. ASSUME NEW h \in Requests, EarnSetNX(h) PROVE MarkInv'
    BY <2>6 DEF EarnSetNX
  <2>7. ASSUME NEW h \in Requests, EarnInsert(h) PROVE MarkInv'
    <3>1. \/ Goto(h, "audit") /\ Ledger!Recorded(key[h])'
          \/ Goto(h, "balance") /\ Ledger!Recorded(key[h])'
          \/ Goto(h, "undo")
      BY <2>a, <2>7, AppendRecords DEF EarnInsert, Ledger!Credit
    <3>2. UNCHANGED <<marker, key, gone>>
      BY <2>7 DEF EarnInsert
    <3>3. QED
      BY <3>1, <3>2
  <2>8. ASSUME NEW h \in Requests, EarnUndo(h) PROVE MarkInv'
    <3>1. \/ marker' = marker \ {key[h]}
          \/ h \in gone /\ marker' = marker
      BY <2>8 DEF EarnUndo, RedisFails
    <3>2. UNCHANGED <<key, gone>> /\ pc[h] = "undo" /\ pc' = [pc EXCEPT ![h] = "done"]
      BY <2>8 DEF EarnUndo
    <3>3. QED
      BY <3>1, <3>2
  <2>9. ASSUME NEW h \in Requests, Audit(h) PROVE MarkInv'
    BY <2>9 DEF Audit
  <2>10. ASSUME NEW h \in Requests, Balance(h) PROVE MarkInv'
    BY <2>10 DEF Balance
  <2>11. ASSUME NEW h \in Requests, RedeemLock(h) PROVE MarkInv'
    BY <2>11 DEF RedeemLock
  <2>12. ASSUME NEW h \in Requests, RedeemCount(h) PROVE MarkInv'
    BY <2>12 DEF RedeemCount
  <2>13. ASSUME NEW h \in Requests, NEW t \in Instants, RedeemCommit(h, t) PROVE MarkInv'
    BY <2>13 DEF RedeemCommit
  <2>14. ASSUME NEW h \in Requests, RedeemUnlock(h) PROVE MarkInv'
    BY <2>14 DEF RedeemUnlock
  <2>15. ASSUME NEW h \in Requests, StampPageCustomer(h) PROVE MarkInv'
    BY <2>15 DEF StampPageCustomer, EarnEntry
  <2>16. ASSUME NEW h \in Requests, ClientGone(h) PROVE MarkInv'
    BY <2>16 DEF ClientGone
  <2>17. ASSUME NEW k \in marker, MarkerExpires(k) PROVE MarkInv'
    BY <2>17 DEF MarkerExpires
  <2>18. ASSUME NEW t \in qr, TokenExpires(t) PROVE MarkInv'
    BY <2>18 DEF TokenExpires
  <2>19. ASSUME NEW c \in lock, LockExpires(c) PROVE MarkInv'
    BY <2>19 DEF LockExpires
  <2>20. ASSUME Crash PROVE MarkInv'
    BY <2>20 DEF Crash, InFlight, Waiting
  <2>21. ASSUME UNCHANGED vars PROVE MarkInv'
    BY <2>21 DEF vars
  <2>22. QED
    BY <2>1, <2>2, <2>3, <2>4, <2>5, <2>6, <2>7, <2>8, <2>9, <2>10, <2>11, <2>12, <2>13,
       <2>14, <2>15, <2>16, <2>17, <2>18, <2>19, <2>20, <2>21 DEF Next, Arrive, OrderPaid, PaymentCompleted, Proceed
<1>3. QED
  BY <1>1, <1>2, TypeCorrect, PTL DEF Spec

\* With Redis answering, a marker without a row has somebody at work on it, or was
\* left by a request that was interrupted.
THEOREM MarkersBacked == ASSUME "redis" \notin Faults PROVE Spec => []MarkerBacked
<1>1. MarkInv => MarkerBacked
  BY DEF MarkInv
<1>2. QED
  BY <1>1, MarksHold, PTL
-----------------------------------------------------------------------------
(* What interrupted requests leave in Redis, and what clients were told. *)

\* A request that has a deferred Del pending is past its SETNX, and the client of
\* one that has not begun is still there.
LeftInv ==
  /\ LockExplained
  /\ \A h \in Requests : owns[h] => pc[h] \in {"count", "commit", "audit", "balance", "unlock"}
  /\ \A h \in gone : pc[h] # "new"

\* With Redis answering, a lock is somebody's, or was left by a request that lost
\* its process or its client: whatever else fails, and also when redemptions
\* outlive their locks and delete those of others.
THEOREM LocksExplained == ASSUME "redis" \notin Faults PROVE Spec => []LockExplained
<1>1. Init => LeftInv
  BY DEF Init, LeftInv, LockExplained
<1>2. TypeInv /\ LeftInv /\ [Next]_vars => LeftInv'
  <2> SUFFICES ASSUME TypeInv, LeftInv, [Next]_vars PROVE LeftInv'
    OBVIOUS
  <2>0. /\ pc \in [Requests -> {"new", "lookup", "setnx", "insert", "undo", "lock", "count",
                                "commit", "audit", "balance", "unlock", "done", "lost"}]
        /\ cust \in [Requests -> Customers] /\ owns \in [Requests -> BOOLEAN]
        /\ lock \subseteq Customers /\ gone \subseteq Requests
    BY DEF TypeInv, TypeOK
  <2> HIDE DEF TypeInv
  <2> USE <2>0 DEF LeftInv, LockExplained, InFlight, Waiting, Goto, Finish, Leave, stores, local
  <2>1. ASSUME NEW h \in Requests, NEW k \in StampKeys, Stamp(h, k) PROVE LeftInv'
    BY <2>1 DEF Stamp, EarnEntry
  <2>2. ASSUME NEW h \in Requests, NEW k \in ShopifyKeys \cup SquareKeys, Webhook(h, k) PROVE LeftInv'
    BY <2>2 DEF Webhook, EarnEntry
  <2>3. ASSUME NEW h \in Requests, Redeem(h) PROVE LeftInv'
    BY <2>3 DEF Redeem
  <2>4. ASSUME NEW h \in Requests, IssueStampToken(h) PROVE LeftInv'
    BY <2>4 DEF IssueStampToken
  <2>5. ASSUME NEW h \in Requests, NEW t \in Requests, StampViaToken(h, t) PROVE LeftInv'
    BY <2>5 DEF StampViaToken, ScanToken
  <2>6. ASSUME NEW h \in Requests, EarnSetNX(h) PROVE LeftInv'
    BY <2>6 DEF EarnSetNX
  <2>7. ASSUME NEW h \in Requests, EarnInsert(h) PROVE LeftInv'
    BY <2>7 DEF EarnInsert
  <2>8. ASSUME NEW h \in Requests, EarnUndo(h) PROVE LeftInv'
    BY <2>8 DEF EarnUndo
  <2>9. ASSUME NEW h \in Requests, Audit(h) PROVE LeftInv'
    BY <2>9 DEF Audit
  <2>10. ASSUME NEW h \in Requests, Balance(h) PROVE LeftInv'
    BY <2>10 DEF Balance
  <2>11. ASSUME NEW h \in Requests, RedeemLock(h) PROVE LeftInv'
    <3>1. CASE /\ lock' = lock \cup {cust[h]} /\ owns' = [owns EXCEPT ![h] = TRUE]
               /\ Goto(h, "count")
      BY <2>11, <3>1 DEF RedeemLock
    <3>2. CASE UNCHANGED <<lock, owns>> /\ (Goto(h, "count") \/ Finish(h, "conflict"))
      BY <2>11, <3>2 DEF RedeemLock
    <3>3. QED
      BY <2>11, <3>1, <3>2 DEF RedeemLock
  <2>12. ASSUME NEW h \in Requests, RedeemCount(h) PROVE LeftInv'
    BY <2>12 DEF RedeemCount
  <2>13. ASSUME NEW h \in Requests, NEW t \in Instants, RedeemCommit(h, t) PROVE LeftInv'
    BY <2>13 DEF RedeemCommit
  <2>14. ASSUME NEW h \in Requests, RedeemUnlock(h) PROVE LeftInv'
    BY <2>14 DEF RedeemUnlock, RedisFails
  <2>15. ASSUME NEW h \in Requests, StampPageCustomer(h) PROVE LeftInv'
    BY <2>15 DEF StampPageCustomer, EarnEntry
  <2>16. ASSUME NEW h \in Requests, ClientGone(h) PROVE LeftInv'
    BY <2>16 DEF ClientGone, InFlight, Waiting
  <2>17. ASSUME NEW k \in marker, MarkerExpires(k) PROVE LeftInv'
    BY <2>17 DEF MarkerExpires
  <2>18. ASSUME NEW t \in qr, TokenExpires(t) PROVE LeftInv'
    BY <2>18 DEF TokenExpires
  <2>19. ASSUME NEW c \in lock, LockExpires(c) PROVE LeftInv'
    BY <2>19 DEF LockExpires
  <2>20. ASSUME Crash PROVE LeftInv'
    BY <2>20 DEF Crash, InFlight, Waiting
  <2>21. ASSUME UNCHANGED vars PROVE LeftInv'
    BY <2>21 DEF vars
  <2>22. QED
    BY <2>1, <2>2, <2>3, <2>4, <2>5, <2>6, <2>7, <2>8, <2>9, <2>10, <2>11, <2>12, <2>13,
       <2>14, <2>15, <2>16, <2>17, <2>18, <2>19, <2>20, <2>21 DEF Next, Arrive, OrderPaid, PaymentCompleted, Proceed
<1>3. LeftInv => LockExplained
  BY DEF LeftInv
<1>4. QED
  BY <1>1, <1>2, <1>3, TypeCorrect, PTL DEF Spec

\* What stands behind a marker that has no row, and behind a success that has
\* none: an attempt at its key at work, interrupted, or answered with an error.
Explained(k) ==
  \/ Ledger!Recorded(k)
  \/ \E g \in Requests :
       /\ key[g] = k
       /\ pc[g] \in {"insert", "undo", "lost"} \/ g \in gone \/ reply[g] = "error"

\* A request answers once, near its end, and with success only what is explained.
AckInv ==
  /\ \A h \in Requests : key[h].kind = "uuid" /\ reply[h] = "ok" => Explained(key[h])
  /\ \A h \in Requests : pc[h] = "audit" => Ledger!Recorded(key[h])
  /\ \A h \in Requests : pc[h] = "balance" => key[h] \in Keys /\ Explained(key[h])
  /\ \A h \in Requests : pc[h] \notin {"unlock", "done", "lost"} => reply[h] = "none"

\* No step takes an explanation away: who explains a key goes on to write its row
\* or to answer an error, and keeps the key.
LEMMA ExplanationStays ==
  ASSUME TypeInv, MarkInv, AckInv, [Next]_vars, NEW k \in Keys, Explained(k)
  PROVE  Explained(k)'
<1>0. /\ pc \in [Requests -> {"new", "lookup", "setnx", "insert", "undo", "lock", "count",
                              "commit", "audit", "balance", "unlock", "done", "lost"}]
      /\ key \in [Requests -> Keys \cup {NoKey}]
      /\ reply \in [Requests -> {"none", "ok", "bad", "conflict", "notfound", "error"}]
  BY DEF TypeInv, TypeOK
<1>1. NoKey \notin Keys
  BY DEF Keys, NoKey, StampKeys, ShopifyKeys, SquareKeys, QRKeys, RedeemKeys
<1>2. CASE Ledger!Recorded(k)
  BY <1>2, RecordedStays DEF Explained
<1>3. ASSUME NEW g \in Requests, key[g] = k,
             pc[g] \in {"insert", "undo", "lost"} \/ g \in gone \/ reply[g] = "error"
      PROVE  Explained(k)'
  <2>0. /\ pc[g] \notin {"new", "lock", "count", "commit"}
        /\ pc[g] \notin {"unlock", "done", "lost"} => reply[g] = "none"
    BY <1>1, <1>3 DEF MarkInv, AckInv
  <2> SUFFICES \/ Ledger!Recorded(k)'
               \/ /\ key'[g] = k
                  /\ pc'[g] \in {"insert", "undo", "lost"} \/ g \in gone' \/ reply'[g] = "error"
    BY DEF Explained
  <2> DEFINE Kept == \/ Ledger!Recorded(k)'
                     \/ /\ key'[g] = k
                        /\ \/ pc'[g] \in {"insert", "undo", "lost"}
                           \/ g \in gone' \/ reply'[g] = "error"
  <2> USE <1>0, <1>3, <2>0 DEF Goto, Finish, Leave, stores, local
  <2>1. ASSUME NEW h \in Requests, NEW j \in StampKeys, Stamp(h, j) PROVE Kept
    BY <2>1 DEF Stamp, EarnEntry
  <2>2. ASSUME NEW h \in Requests, NEW j \in ShopifyKeys \cup SquareKeys, Webhook(h, j) PROVE Kept
    BY <2>2 DEF Webhook, EarnEntry
  <2>3. ASSUME NEW h \in Requests, Redeem(h) \/ IssueStampToken(h) \/ ClientGone(h) PROVE Kept
    BY <2>3 DEF Redeem, IssueStampToken, ClientGone
  <2>4. ASSUME NEW h \in Requests, NEW t \in Requests, StampViaToken(h, t) PROVE Kept
    BY <2>4 DEF StampViaToken, ScanToken
  <2>5. ASSUME NEW h \in Requests, EarnSetNX(h) \/ EarnUndo(h) \/ Audit(h) \/ Balance(h) PROVE Kept
    BY <2>5 DEF EarnSetNX, EarnUndo, Audit, Balance
  <2>6. ASSUME NEW h \in Requests, EarnInsert(h) PROVE Kept
    <3>1. \/ Goto(h, "audit") /\ Ledger!Recorded(key[h])'
          \/ Goto(h, "balance") /\ Ledger!Recorded(key[h])'
          \/ Goto(h, "undo")
      BY <2>6, RecordedStays, AppendRecords DEF EarnInsert, Ledger!Credit
    <3>2. UNCHANGED <<key, gone>>
      BY <2>6 DEF EarnInsert
    <3>3. QED
      BY <3>1, <3>2
  <2>7. ASSUME NEW h \in Requests, RedeemLock(h) \/ RedeemCount(h) PROVE Kept
    BY <2>7 DEF RedeemLock, RedeemCount
  <2>8. ASSUME NEW h \in Requests, NEW t \in Instants, RedeemCommit(h, t) PROVE Kept
    BY <2>8 DEF RedeemCommit
  <2>9. ASSUME NEW h \in Requests, RedeemUnlock(h) \/ StampPageCustomer(h) PROVE Kept
    BY <2>9 DEF RedeemUnlock, StampPageCustomer, EarnEntry
  <2>10. ASSUME \/ \E j \in marker : MarkerExpires(j)
                \/ \E t \in qr : TokenExpires(t)
                \/ \E c \in lock : LockExpires(c)
         PROVE  Kept
    BY <2>10 DEF MarkerExpires, TokenExpires, LockExpires
  <2>11. ASSUME Crash PROVE Kept
    BY <2>11 DEF Crash, InFlight, Waiting
  <2>12. ASSUME UNCHANGED vars PROVE Kept
    BY <2>12 DEF vars
  <2>13. QED
    BY <2>1, <2>2, <2>3, <2>4, <2>5, <2>6, <2>7, <2>8, <2>9, <2>10, <2>11, <2>12
       DEF Next, Arrive, OrderPaid, PaymentCompleted, Proceed
<1>4. QED
  BY <1>2, <1>3 DEF Explained

\* A stamp is answered with success only with its row on the ledger or with an
\* attempt at its key at its insert, interrupted or told of the failure: whatever
\* fails but Redis.
THEOREM SuccessHonest == ASSUME "redis" \notin Faults PROVE Spec => []AckedUnlessFailed
<1>1. Init => AckInv
  BY DEF Init, AckInv
<1>2. TypeInv /\ MarkInv /\ AckInv /\ [Next]_vars => AckInv'
  <2> SUFFICES ASSUME TypeInv, MarkInv, AckInv, [Next]_vars PROVE AckInv'
    OBVIOUS
  <2>0. /\ pc \in [Requests -> {"new", "lookup", "setnx", "insert", "undo", "lock", "count",
                                "commit", "audit", "balance", "unlock", "done", "lost"}]
        /\ key \in [Requests -> Keys \cup {NoKey}]
        /\ reply \in [Requests -> {"none", "ok", "bad", "conflict", "notfound", "error"}]
    BY DEF TypeInv, TypeOK
  <2>a. \A k : Ledger!Recorded(k) => Ledger!Recorded(k)' /\ Explained(k)'
    BY RecordedStays DEF Explained
  <2>b. \A k \in marker : Explained(k)
    BY DEF MarkInv, MarkerBacked, Explained
  <2>c. \A h \in Requests : pc[h] \in {"new", "lock", "count", "commit"} => key[h] = NoKey
    BY DEF MarkInv
  <2>d. \A h \in Requests : pc[h] \in {"lookup", "setnx", "insert", "undo", "audit"} => key[h] \in Keys
    BY DEF TypeInv, KeyInv
  <2>e. NoKey \notin Keys /\ NoKey.kind # "uuid"
    BY DEF Keys, NoKey, StampKeys, ShopifyKeys, SquareKeys, QRKeys, RedeemKeys
  <2>f. \A k \in Keys : Explained(k) => Explained(k)'
    BY ExplanationStays
  <2>g. \A k : Ledger!Recorded(k)' => Explained(k)'
    BY DEF Explained
  <2> HIDE DEF TypeInv, MarkInv
  <2> USE <2>0, <2>a, <2>c, <2>d, <2>e, <2>f, <2>g DEF AckInv, Goto, Finish, Leave, stores, local
  <2>1. ASSUME NEW h \in Requests, NEW k \in StampKeys, Stamp(h, k) PROVE AckInv'
    BY <2>1 DEF Stamp, EarnEntry
  <2>2. ASSUME NEW h \in Requests, NEW k \in ShopifyKeys \cup SquareKeys, Webhook(h, k) PROVE AckInv'
    <3>1. k.kind # "uuid"
      BY DEF ShopifyKeys, SquareKeys
    <3>2. QED
      BY <2>2, <3>1 DEF Webhook, EarnEntry
  <2>3. ASSUME NEW h \in Requests, Redeem(h) PROVE AckInv'
    BY <2>3 DEF Redeem
  <2>4. ASSUME NEW h \in Requests, IssueStampToken(h) PROVE AckInv'
    BY <2>4 DEF IssueStampToken
  <2>5. ASSUME NEW h \in Requests, NEW t \in Requests, StampViaToken(h, t) PROVE AckInv'
    BY <2>5 DEF StampViaToken, ScanToken
  <2>6. ASSUME NEW h \in Requests, EarnSetNX(h) PROVE AckInv'
    BY <2>6, <2>b DEF EarnSetNX, RedisFails
  <2>7. ASSUME NEW h \in Requests, EarnInsert(h) PROVE AckInv'
    <3>0. PICK k : k = key[h]
      OBVIOUS
    <3>1. \/ (Goto(h, "audit") \/ Goto(h, "balance")) /\ Ledger!Recorded(k)'
          \/ Goto(h, "undo")
      BY <2>7, <3>0, AppendRecords DEF EarnInsert, Ledger!Credit
    <3>2. key' = key /\ key[h] = k /\ pc[h] = "insert"
      BY <2>7, <3>0 DEF EarnInsert
    <3>3. QED
      BY <3>1, <3>2
  <2>8. ASSUME NEW h \in Requests, EarnUndo(h) PROVE AckInv'
    BY <2>8 DEF EarnUndo
  <2>9. ASSUME NEW h \in Requests, Audit(h) PROVE AckInv'
    BY <2>9 DEF Audit
  <2>10. ASSUME NEW h \in Requests, Balance(h) PROVE AckInv'
    BY <2>10 DEF Balance
  <2>11. ASSUME NEW h \in Requests, RedeemLock(h) PROVE AckInv'
    BY <2>11 DEF RedeemLock
  <2>12. ASSUME NEW h \in Requests, RedeemCount(h) PROVE AckInv'
    BY <2>12 DEF RedeemCount
  <2>13. ASSUME NEW h \in Requests, NEW t \in Instants, RedeemCommit(h, t) PROVE AckInv'
    <3>0. PICK k : k = [kind |-> "redeem", id |-> <<cust[h], t>>]
      OBVIOUS
    <3>1. (Goto(h, "audit") /\ Ledger!Recorded(k)') \/ Leave(h, "error")
      BY <2>13, <3>0, AppendRecords DEF RedeemCommit
    <3>2. key' = [key EXCEPT ![h] = k] /\ UNCHANGED gone /\ pc[h] = "commit"
      BY <2>13, <3>0 DEF RedeemCommit
    <3>3. k.kind # "uuid"
      BY <3>0
    <3>4. QED
      BY <3>1, <3>2, <3>3
  <2>14. ASSUME NEW h \in Requests, RedeemUnlock(h) PROVE AckInv'
    BY <2>14 DEF RedeemUnlock
  <2>15. ASSUME NEW h \in Requests, StampPageCustomer(h) PROVE AckInv'
    BY <2>15 DEF StampPageCustomer, EarnEntry
  <2>16. ASSUME NEW h \in Requests, ClientGone(h) PROVE AckInv'
    BY <2>16 DEF ClientGone
  <2>17. ASSUME NEW k \in marker, MarkerExpires(k) PROVE AckInv'
    BY <2>17 DEF MarkerExpires
  <2>18. ASSUME NEW t \in qr, TokenExpires(t) PROVE AckInv'
    BY <2>18 DEF TokenExpires
  <2>19. ASSUME NEW c \in lock, LockExpires(c) PROVE AckInv'
    BY <2>19 DEF LockExpires
  <2>20. ASSUME Crash PROVE AckInv'
    BY <2>20 DEF Crash, InFlight, Waiting
  <2>21. ASSUME UNCHANGED vars PROVE AckInv'
    BY <2>21 DEF vars
  <2>22. QED
    BY <2>1, <2>2, <2>3, <2>4, <2>5, <2>6, <2>7, <2>8, <2>9, <2>10, <2>11, <2>12, <2>13,
       <2>14, <2>15, <2>16, <2>17, <2>18, <2>19, <2>20, <2>21 DEF Next, Arrive, OrderPaid, PaymentCompleted, Proceed
<1>3. AckInv => AckedUnlessFailed
  BY DEF AckInv, AckedUnlessFailed, Explained
<1>4. QED
  BY <1>1, <1>2, <1>3, TypeCorrect, MarksHold, PTL DEF Spec

-----------------------------------------------------------------------------
\* The most calls a request that stands at l still makes before it has answered.
Left(l) ==
  CASE l = "new" -> 7
    [] l \in {"lookup", "lock"} -> 6
    [] l \in {"setnx", "count"} -> 5
    [] l \in {"insert", "commit"} -> 4
    [] l = "audit" -> 3
    [] l = "balance" -> 2
    [] l \in {"undo", "unlock"} -> 1
    [] l \in {"done", "lost"} -> 0

\* What every request does in a step: it stays, or it gets on.
GetsOn ==
  \A h \in Requests :
    /\ pc'[h] # pc[h] => Left(pc'[h]) < Left(pc[h])
    /\ Proceed(h) => pc'[h] # pc[h]

\* No handler goes back, retries a call or waits for another request: a request is
\* answered within seven steps of its own, whatever fails and whatever the others
\* do.  Weak fairness of its own steps is all that RequestAnswered needs.
THEOREM StepsDown == Spec => [][GetsOn]_vars
<1>1. TypeInv /\ [Next]_vars => GetsOn \/ UNCHANGED vars
  <2> SUFFICES ASSUME TypeInv, [Next]_vars, ~UNCHANGED vars PROVE GetsOn
    OBVIOUS
  <2>0. /\ pc \in [Requests -> {"new", "lookup", "setnx", "insert", "undo", "lock", "count",
                                "commit", "audit", "balance", "unlock", "done", "lost"}]
    BY DEF TypeInv, TypeOK
  <2> HIDE DEF TypeInv
  <2>a. ASSUME NEW h \in Requests, Proceed(h) PROVE pc'[h] # pc[h]
    BY <2>0, <2>a DEF Proceed, EarnSetNX, EarnInsert, EarnUndo, Audit, Balance, RedeemLock, RedeemCount,
       RedeemCommit, RedeemUnlock, StampPageCustomer, EarnEntry, Goto, Finish, Leave
  <2> DEFINE Down == \A h \in Requests : pc'[h] # pc[h] => Left(pc'[h]) < Left(pc[h])
  <2> USE <2>0 DEF Left, Goto, Finish, Leave, stores, local
  <2>1. ASSUME NEW h \in Requests, NEW k \in StampKeys, Stamp(h, k) PROVE Down
    BY <2>1 DEF Stamp, EarnEntry
  <2>2. ASSUME NEW h \in Requests, NEW k \in ShopifyKeys \cup SquareKeys, Webhook(h, k) PROVE Down
    BY <2>2 DEF Webhook, EarnEntry
  <2>3. ASSUME NEW h \in Requests, Redeem(h) PROVE Down
    BY <2>3 DEF Redeem
  <2>4. ASSUME NEW h \in Requests, IssueStampToken(h) PROVE Down
    BY <2>4 DEF IssueStampToken
  <2>5. ASSUME NEW h \in Requests, NEW t \in Requests, StampViaToken(h, t) PROVE Down
    BY <2>5 DEF StampViaToken, ScanToken
  <2>6. ASSUME NEW h \in Requests, EarnSetNX(h) PROVE Down
    BY <2>6 DEF EarnSetNX
  <2>7. ASSUME NEW h \in Requests, EarnInsert(h) PROVE Down
    BY <2>7 DEF EarnInsert
  <2>8. ASSUME NEW h \in Requests, EarnUndo(h) PROVE Down
    BY <2>8 DEF EarnUndo
  <2>9. ASSUME NEW h \in Requests, Audit(h) PROVE Down
    BY <2>9 DEF Audit
  <2>10. ASSUME NEW h \in Requests, Balance(h) PROVE Down
    BY <2>10 DEF Balance
  <2>11. ASSUME NEW h \in Requests, RedeemLock(h) PROVE Down
    BY <2>11 DEF RedeemLock
  <2>12. ASSUME NEW h \in Requests, RedeemCount(h) PROVE Down
    BY <2>12 DEF RedeemCount
  <2>13. ASSUME NEW h \in Requests, NEW t \in Instants, RedeemCommit(h, t) PROVE Down
    BY <2>13 DEF RedeemCommit
  <2>14. ASSUME NEW h \in Requests, RedeemUnlock(h) PROVE Down
    BY <2>14 DEF RedeemUnlock
  <2>15. ASSUME NEW h \in Requests, StampPageCustomer(h) PROVE Down
    BY <2>15 DEF StampPageCustomer, EarnEntry
  <2>16. ASSUME NEW h \in Requests, ClientGone(h) PROVE Down
    BY <2>16 DEF ClientGone, local
  <2>17. ASSUME NEW k \in marker, MarkerExpires(k) PROVE Down
    BY <2>17 DEF MarkerExpires
  <2>18. ASSUME NEW t \in qr, TokenExpires(t) PROVE Down
    BY <2>18 DEF TokenExpires
  <2>19. ASSUME NEW c \in lock, LockExpires(c) PROVE Down
    BY <2>19 DEF LockExpires
  <2>20. ASSUME Crash PROVE Down
    BY <2>20 DEF Crash, InFlight, Waiting
  <2>21. ASSUME UNCHANGED vars PROVE Down
    BY <2>21 DEF vars
  <2>22. QED
    BY <2>a, <2>1, <2>2, <2>3, <2>4, <2>5, <2>6, <2>7, <2>8, <2>9, <2>10, <2>11, <2>12, <2>13,
       <2>14, <2>15, <2>16, <2>17, <2>18, <2>19, <2>20, <2>21 DEF GetsOn, Next, Arrive, OrderPaid, PaymentCompleted, Proceed
<1>2. QED
  BY <1>1, TypeCorrect, PTL DEF Spec

-----------------------------------------------------------------------------
(* What is left without the lock (LoyaltyRaces): no assumption on what fails. *)

\* A step with history is a step of the handlers.
LEMMA RaceImplements == RaceSpec => Spec
<1>1. RaceInit => Init
  BY DEF RaceInit
<1>2. [RaceNext]_<<vars, crowd>> => [Next]_vars
  BY DEF RaceNext
<1>3. QED
  BY <1>1, <1>2, PTL DEF RaceSpec, Spec

\* The handlers' types hold with history.
LEMMA RaceTypes == RaceSpec => []TypeInv
BY RaceImplements, TypeCorrect, PTL

RaceInv ==
  /\ crowd \in [Customers -> Nat \ {0}]
  /\ \A c \in Customers : IsFiniteSet(Open(c))
  /\ CrowdInv

\* The history remembers at least what it remembered and what it sees.
LEMMA CrowdGrows ==
  ASSUME RaceInv, [RaceNext]_<<vars, crowd>>, NEW c \in Customers, IsFiniteSet(Open(c)')
  PROVE  /\ crowd[c] \in Nat /\ crowd'[c] \in Nat \ {0}
         /\ crowd[c] <= crowd'[c]
         /\ Cardinality(Open(c)') \in Nat /\ Cardinality(Open(c)') <= crowd'[c]
<1>1. Cardinality(Open(c)') \in Nat
  BY FS_CardinalityType
<1>2. crowd[c] \in Nat \ {0} /\ Cardinality(Open(c)) <= crowd[c]
  BY DEF RaceInv, CrowdInv
<1>3. CASE RaceNext
  BY <1>1, <1>2, <1>3 DEF RaceNext, Larger
<1>4. CASE UNCHANGED <<vars, crowd>>
  <2>1. Open(c)' = Open(c)
    BY <1>4 DEF vars, local, Open, Deciding
  <2>2. QED
    BY <1>1, <1>2, <1>4, <2>1
<1>5. QED
  BY <1>3, <1>4

\* Nobody new decides: the redemptions left open are some of those that were.
LEMMA FewerOpen ==
  ASSUME RaceInv, NEW c \in Customers, Open(c)' \subseteq Open(c)
  PROVE  /\ IsFiniteSet(Open(c)')
         /\ Cardinality(Open(c)) \in Nat /\ Cardinality(Open(c)') \in Nat
         /\ Cardinality(Open(c)') <= Cardinality(Open(c))
<1>1. IsFiniteSet(Open(c))
  BY DEF RaceInv
<1>2. QED
  BY <1>1, FS_Subset, FS_CardinalityType

\* The counts of a customer, and how many rewards they come to.
LEMMA CountTypes ==
  ASSUME TypeInv, NEW c
  PROVE  /\ Ledger!Earned(c) \in Nat /\ Ledger!Redeemed(c) \in Nat
         /\ (Ledger!Earned(c) \div SteepsPerReward) \in Nat
<1>1. Ledger!Earned(c) \in Nat /\ Ledger!Redeemed(c) \in Nat
  BY LedgerCounts, CountIsNat DEF TypeInv
<1>2. QED
  BY <1>1, Proved!DivMonotone, SteepsPerRewardAssumption

\* One step, for one customer.
LEMMA CrowdStep ==
  ASSUME TypeInv, RaceInv, [RaceNext]_<<vars, crowd>>, NEW c \in Customers
  PROVE  /\ IsFiniteSet(Open(c)')
         /\ Ledger!Redeemed(c)' + Cardinality(Open(c)')
              <= (Ledger!Earned(c)' \div SteepsPerReward) + crowd'[c] - 1
<1> DEFINE paid == Ledger!Earned(c) \div SteepsPerReward
           open == Cardinality(Open(c))
           Goal == /\ IsFiniteSet(Open(c)')
                   /\ Ledger!Redeemed(c)' + open' <= paid' + crowd'[c] - 1
<1>0. /\ pc \in [Requests -> {"new", "lookup", "setnx", "insert", "undo", "lock", "count",
                              "commit", "audit", "balance", "unlock", "done", "lost"}]
      /\ IsFiniteSet(rows) /\ IsFiniteSet(Open(c))
      /\ Ledger!Earned(c) \in Nat /\ Ledger!Redeemed(c) \in Nat /\ paid \in Nat
      /\ open \in Nat /\ crowd[c] \in Nat
      /\ Ledger!Redeemed(c) + open <= paid + crowd[c] - 1
  BY CountTypes, FS_CardinalityType DEF TypeInv, TypeOK, RaceInv, CrowdInv
<1>1. ASSUME Open(c)' \subseteq Open(c), Ledger!Redeemed(c)' = Ledger!Redeemed(c),
             paid' \in Nat, paid <= paid'
      PROVE  Goal
  <2>1. IsFiniteSet(Open(c)') /\ open' \in Nat /\ open' <= open
    BY <1>1, FewerOpen
  <2>2. crowd'[c] \in Nat /\ crowd[c] <= crowd'[c]
    BY <2>1, CrowdGrows
  <2> HIDE DEF paid, open
  <2>3. QED
    BY <1>0, <1>1, <2>1, <2>2 DEF open
<1>2. ASSUME rows' = rows
      PROVE  Ledger!Redeemed(c)' = Ledger!Redeemed(c) /\ paid' = paid
  BY <1>2 DEF Ledger!Redeemed, Ledger!Earned, Ledger!RowsOf
<1>3. CASE Quiet
  <2>1. Open(c)' \subseteq Open(c)
    BY <1>3 DEF Quiet, Open, Deciding
  <2>2. QED
    BY <1>0, <1>1, <1>2, <1>3, <2>1 DEF Quiet
<1>4. ASSUME NEW h \in Requests, EarnInsert(h) PROVE Goal
  <2>1. Open(c)' \subseteq Open(c)
    BY <1>0, <1>4 DEF EarnInsert, Goto, local, Open, Deciding
  <2>2. rows' = rows \/ Ledger!Append(h, cust[h], "steep_earned", key[h])
    BY <1>4 DEF EarnInsert, Ledger!Credit
  <2>3. CASE rows' = rows
    BY <1>0, <1>1, <1>2, <2>1, <2>3
  <2>4. CASE Ledger!Append(h, cust[h], "steep_earned", key[h])
    <3>1. /\ Ledger!Redeemed(c)' = Ledger!Redeemed(c)
          /\ Ledger!Earned(c)' \in Nat /\ Ledger!Earned(c) <= Ledger!Earned(c)'
      <4>1. /\ Ledger!Earned(c)' \in {Ledger!Earned(c), Ledger!Earned(c) + 1}
            /\ Ledger!Redeemed(c)' = Ledger!Redeemed(c)
        BY <1>0, <2>4, AppendCounts
      <4>2. QED
        BY <1>0, <4>1
    <3>2. paid' \in Nat /\ paid <= paid'
      BY <1>0, <3>1, Proved!DivMonotone, SteepsPerRewardAssumption
    <3>3. QED
      BY <1>1, <2>1, <3>1, <3>2
  <2>5. QED
    BY <2>2, <2>3, <2>4
<1>5. ASSUME NEW h \in Requests, RedeemCount(h) PROVE Goal
  <2>1. rows' = rows /\ cust' = cust /\ pc[h] = "count"
    BY <1>5 DEF RedeemCount, stores
  <2>2. Open(c)' \subseteq Open(c) \cup {h}
    BY <1>0, <1>5, <2>1 DEF RedeemCount, Goto, Leave, Open, Deciding
  <2>3. CASE h \in Open(c)'
    <3>1. pc' = [pc EXCEPT ![h] = "commit"] /\ cust[h] = c
      BY <1>0, <1>5, <2>1, <2>3 DEF RedeemCount, Goto, Leave, Open, Deciding
    <3>2. Ledger!Rewards(Ledger!Earned(c), Ledger!Redeemed(c)) > 0
      BY <1>0, <1>5, <3>1 DEF RedeemCount, Goto, Leave, TypeInv, TypeOK
    <3>3. IsFiniteSet(Open(c)')
      BY <1>0, <2>2, FS_AddElement, FS_Subset
    <3>4. crowd'[c] \in Nat /\ open' \in Nat /\ open' <= crowd'[c]
      BY <3>3, CrowdGrows
    <3>5. Ledger!Redeemed(c) <= paid - 1
      BY <1>0, <3>2 DEF Ledger!Rewards
    <3>6. Ledger!Redeemed(c)' <= paid' - 1 /\ Ledger!Redeemed(c)' \in Nat /\ paid' \in Nat
      BY <1>0, <1>2, <2>1, <3>5
    <3> HIDE DEF paid, open
    <3>7. QED
      BY <3>3, <3>4, <3>6
  <2>4. CASE h \notin Open(c)'
    BY <1>0, <1>1, <1>2, <2>1, <2>2, <2>4
  <2>5. QED
    BY <2>3, <2>4
<1>6. ASSUME NEW h \in Requests, NEW t \in Instants, RedeemCommit(h, t) PROVE Goal
  <2>1. cust' = cust /\ pc[h] = "commit"
    BY <1>6 DEF RedeemCommit
  <2>2. Open(c)' = Open(c) \ {h}
    BY <1>0, <1>6, <2>1 DEF RedeemCommit, Goto, Leave, Open, Deciding
  <2> DEFINE k == [kind |-> "redeem", id |-> <<cust[h], t>>]
  <2>3. rows' = rows \/ Ledger!Append(h, cust[h], "reward_redeemed", k)
    BY <1>6 DEF RedeemCommit
  <2>4. CASE rows' = rows
    BY <1>0, <1>1, <1>2, <2>2, <2>4
  <2>5. CASE Ledger!Append(h, cust[h], "reward_redeemed", k)
    <3>1. /\ Ledger!Earned(c)' = Ledger!Earned(c)
          /\ Ledger!Redeemed(c)' = IF cust[h] = c THEN Ledger!Redeemed(c) + 1
                                                  ELSE Ledger!Redeemed(c)
      BY <1>0, <2>5, AppendCounts
    <3>2. paid' = paid
      BY <3>1
    <3>3. CASE cust[h] # c
      BY <1>0, <1>1, <2>2, <3>1, <3>2, <3>3
    <3>4. CASE cust[h] = c
      <4>1. h \in Open(c)
        BY <2>1, <3>4 DEF Open, Deciding
      <4>2. IsFiniteSet(Open(c)') /\ open' = open - 1
        BY <1>0, <2>2, <4>1, FS_RemoveElement
      <4>3. crowd'[c] \in Nat /\ crowd[c] <= crowd'[c]
        BY <4>2, CrowdGrows
      <4>4. Ledger!Redeemed(c)' = Ledger!Redeemed(c) + 1
        BY <3>1, <3>4
      <4> HIDE DEF paid, open
      <4>5. QED
        BY <1>0, <3>2, <4>2, <4>3, <4>4 DEF open
    <3>5. QED
      BY <3>3, <3>4
  <2>6. QED
    BY <2>3, <2>4, <2>5
<1>7. [Next]_vars
  BY DEF RaceNext
<1>8. QED
  BY <1>3, <1>4, <1>5, <1>6, <1>7, QuietSteps

\* In any behaviour, with every fault there is: a redemption that went on found a
\* reward to spare, so what is redeemed and about to be redeemed exceeds what was
\* earned by no more than the other redemptions that decided beside it.
THEOREM CrowdSafe == RaceSpec => []RaceInv
<1>1. RaceInit => RaceInv
  <2> SUFFICES ASSUME RaceInit PROVE RaceInv
    OBVIOUS
  <2>1. \A c \in Customers : Open(c) = {}
    BY DEF RaceInit, Init, Open, Deciding
  <2>2. rows = {} /\ IsFiniteSet(rows)
    BY FS_EmptySet DEF RaceInit, Init, Ledger!Init
  <2>3. ASSUME NEW c \in Customers PROVE Ledger!Redeemed(c) = 0 /\ Ledger!Earned(c) \in Nat
    <3>1. Ledger!RowsOf(c, "reward_redeemed") = {}
      BY <2>2 DEF Ledger!RowsOf
    <3>2. Ledger!Redeemed(c) = 0
      BY <3>1, FS_EmptySet, SameCardinality DEF Ledger!Redeemed
    <3>3. QED
      BY <2>2, <3>2, LedgerCounts, CountIsNat
  <2>4. ASSUME NEW c \in Customers PROVE (Ledger!Earned(c) \div SteepsPerReward) \in Nat
    BY <2>3, Proved!DivMonotone, SteepsPerRewardAssumption
  <2>5. \A c \in Customers : crowd[c] = 1
    BY DEF RaceInit
  <2>6. ASSUME NEW c \in Customers
        PROVE  /\ Cardinality(Open(c)) <= crowd[c]
               /\ Ledger!Redeemed(c) + Cardinality(Open(c))
                    <= (Ledger!Earned(c) \div SteepsPerReward) + crowd[c] - 1
    <3> DEFINE paid == Ledger!Earned(c) \div SteepsPerReward
    <3>1. Cardinality(Open(c)) = 0 /\ crowd[c] = 1
      BY <2>1, <2>5, FS_EmptySet
    <3>2. Ledger!Redeemed(c) = 0 /\ paid \in Nat
      BY <2>3, <2>4
    <3> HIDE DEF paid
    <3>3. QED
      BY <3>1, <3>2 DEF paid
  <2>7. QED
    BY <2>1, <2>6, FS_EmptySet DEF RaceInv, CrowdInv, RaceInit
<1>2. TypeInv /\ RaceInv /\ [RaceNext]_<<vars, crowd>> => RaceInv'
  <2> SUFFICES ASSUME TypeInv, RaceInv, [RaceNext]_<<vars, crowd>> PROVE RaceInv'
    OBVIOUS
  <2>1. \A c \in Customers :
          /\ IsFiniteSet(Open(c)')
          /\ Ledger!Redeemed(c)' + Cardinality(Open(c)')
               <= (Ledger!Earned(c)' \div SteepsPerReward) + crowd'[c] - 1
    BY CrowdStep
  <2>2. \A c \in Customers : crowd'[c] \in Nat \ {0} /\ Cardinality(Open(c)') <= crowd'[c]
    BY <2>1, CrowdGrows
  <2>3. crowd' = [c \in Customers |-> crowd'[c]]
    BY DEF RaceNext, RaceInv
  <2>4. crowd' \in [Customers -> Nat \ {0}]
    BY <2>2, <2>3
  <2>5. QED
    BY <2>1, <2>2, <2>4 DEF RaceInv, CrowdInv
<1>3. QED
  BY <1>1, <1>2, RaceTypes, PTL DEF RaceSpec

\* A customer redeems too much only by redemptions that decided beside each
\* other, and by fewer than these, whatever fails.
THEOREM RacesBounded == RaceSpec => []OverRedemptionBounded
<1>1. TypeInv /\ RaceInv => OverRedemptionBounded
  <2> SUFFICES ASSUME TypeInv, RaceInv, NEW c \in Customers
               PROVE  Ledger!Redeemed(c) <= (Ledger!Earned(c) \div SteepsPerReward) + crowd[c] - 1
    BY DEF OverRedemptionBounded
  <2>1. /\ Ledger!Redeemed(c) \in Nat /\ (Ledger!Earned(c) \div SteepsPerReward) \in Nat
        /\ Cardinality(Open(c)) \in Nat /\ crowd[c] \in Nat
    BY CountTypes, FS_CardinalityType DEF RaceInv
  <2>2. QED
    BY <2>1 DEF RaceInv, CrowdInv
<1>2. QED
  BY <1>1, CrowdSafe, RaceTypes, PTL
============================================================================
