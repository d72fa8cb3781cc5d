---------------------------- MODULE LoyaltyRaces ----------------------------
(***************************************************************************)
(* Loyalty with a history variable: how many redemptions of a customer have *)
(* ever stood between their count and their commit at once.  The lock keeps *)
(* that at one as long as Redis answers; this module says what is lost when *)
(* it does not.                                                             *)
(***************************************************************************)
EXTENDS Loyalty

VARIABLE crowd   \* history: the most redemptions of each customer that decided at once

\* The redemptions of customer c that have counted and not committed.
Open(c) == {h \in Requests : Deciding(h) /\ cust[h] = c}

Larger(m, n) == IF m < n THEN n ELSE m

RaceInit == Init /\ crowd = [c \in Customers |-> 1]

RaceNext ==
  /\ Next
  /\ crowd' = [c \in Customers |-> Larger(crowd[c], Cardinality(Open(c)'))]

RaceSpec == RaceInit /\ [][RaceNext]_<<vars, crowd>>
-----------------------------------------------------------------------------
\* Whatever fails - Redis, the lock, the database, clients, the process - a
\* customer redeems too much only by redemptions that decided beside each other:
\* one reward too many for each but one of them, also when they keep overlapping
\* for ever.  READ COMMITTED and the UNIQUE key promise no more than that, and a
\* single redemption at a time is always paid for.
OverRedemptionBounded ==
  \A c \in Customers :
    Ledger!Redeemed(c) <= (Ledger!Earned(c) \div SteepsPerReward) + crowd[c] - 1

\* Why: a redemption that goes on has found a reward to spare, so the rewards
\* redeemed and those about to be exceed what was earned by no more than the
\* others that are open.
CrowdInv ==
  \A c \in Customers :
    /\ Cardinality(Open(c)) <= crowd[c]
    /\ Ledger!Redeemed(c) + Cardinality(Open(c))
         <= (Ledger!Earned(c) \div SteepsPerReward) + crowd[c] - 1
=============================================================================
