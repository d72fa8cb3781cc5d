------------------------------ MODULE Loyalty ------------------------------
(***************************************************************************)
(* internal/domain/loyalty: the handlers that write the loyalty ledger,     *)
(* one step per call they make to Redis or PostgreSQL, run concurrently     *)
(* over the state the two stores share:                                     *)
(*                                                                         *)
(*   rows     loyalty_events, with its UNIQUE idempotency_key               *)
(*   marker   the keys k with whisked:idem:<k> set in Redis                 *)
(*   lock     the customers c with whisked:redeem:lock:<c> set in Redis     *)
(*   qr       the live whisked:stamp-token:<t>, named by the issuing request*)
(*   audited  the keys whose event has an audit_log entry                   *)
(*                                                                         *)
(* A request is one execution of a handler; a retry or a redelivery is      *)
(* another request with the same key.                                       *)
(***************************************************************************)
EXTENDS Integers, FiniteSets

CONSTANTS Requests,         \* handler executions
          Customers,
          Ids,              \* client UUIDs, order ids, payment ids
          Instants,         \* readings of time.Now().UnixNano()
          SteepsPerReward,
          Faults            \* what can go wrong, a subset of FaultKinds

\* db: a statement fails, or succeeds and its answer is lost; redis: the same
\* for a Redis command, which go-redis sends again when its answer is lost;
\* cancel: the client goes away and its context is cancelled; crash: the process
\* dies; expiry: a redemption outlives its lock.
FaultKinds == {"db", "redis", "cancel", "crash", "expiry"}

ASSUME FaultsAssumption == Faults \subseteq FaultKinds

\* Clients send a UUID or something else; the service builds the other keys.
StampKeys   == [kind : {"uuid", "text"}, id : Ids]
ShopifyKeys == [kind : {"shopify"}, id : Ids]
SquareKeys  == [kind : {"square"}, id : Ids]
QRKeys      == [kind : {"qr"}, id : Requests]
RedeemKeys  == [kind : {"redeem"}, id : Customers \X Instants]
NoKey == [kind |-> "none", id |-> <<>>]
Keys  == StampKeys \cup ShopifyKeys \cup SquareKeys \cup QRKeys \cup RedeemKeys

ASSUME SteepsPerRewardAssumption == SteepsPerReward \in Nat \ {0}

VARIABLES rows, marker, lock, qr, audited,
          pc,       \* where each request stands
          cust,     \* the customer it acts for
          key,      \* the idempotency key it works on
          owns,     \* its deferred Del of the redemption lock is pending
          seen,     \* the counts a redemption read in its transaction
          reply,    \* what it answered
          gone      \* the requests whose client went away

stores == <<marker, lock, qr, audited>>
local  == <<cust, key, owns, seen>>
vars   == <<rows, stores, local, pc, reply, gone>>

\* A request writes at most one row, so it names the row it writes.
Ledger == INSTANCE LoyaltyLedger WITH RowIds <- Requests

Waiting == {"new", "done", "lost"}
InFlight(h) == pc[h] \notin Waiting

\* Whether a call made by request h can fail.
DbFails(h)    == "db" \in Faults \/ h \in gone
RedisFails(h) == "redis" \in Faults \/ h \in gone

Goto(h, l) == pc' = [pc EXCEPT ![h] = l] /\ UNCHANGED reply
Finish(h, r) == pc' = [pc EXCEPT ![h] = "done"] /\ reply' = [reply EXCEPT ![h] = r]

\* Mutant: the unlock is not deferred, and the early returns go past it.
LeaveLocked(h, r) == Finish(h, r)

\* A redemption that holds the lock answers after its deferred unlock.
Leave(h, r) ==
  /\ pc' = [pc EXCEPT ![h] = IF owns[h] THEN "unlock" ELSE "done"]
  /\ reply' = [reply EXCEPT ![h] = r]

\* uuid.Parse refuses the empty string, free text, and the prefixed keys the
\* service builds itself ("shopify-<order>", "square-<payment>", "qr-<token>").
IsUUID(k) == k.kind = "uuid"
-----------------------------------------------------------------------------
TypeOK ==
  /\ rows \subseteq Ledger!Row
  /\ marker \subseteq Keys /\ audited \subseteq Keys
  /\ lock \subseteq Customers
  /\ qr \subseteq Requests /\ gone \subseteq Requests
  /\ pc \in [Requests -> {"new", "lookup", "setnx", "insert", "undo", "lock", "count",
                          "commit", "audit", "balance", "unlock", "done", "lost"}]
  /\ cust \in [Requests -> Customers]
  /\ key \in [Requests -> Keys \cup {NoKey}]
  /\ owns \in [Requests -> BOOLEAN]
  /\ seen \in [Requests -> [earned : Nat, redeemed : Nat]]
  /\ reply \in [Requests -> {"none", "ok", "bad", "conflict", "notfound", "error"}]

\* A request's customer comes with its access token.
Init ==
  /\ Ledger!Init
  /\ marker = {} /\ lock = {} /\ qr = {} /\ audited = {} /\ gone = {}
  /\ pc = [h \in Requests |-> "new"]
  /\ cust \in [Requests -> Customers]
  /\ key = [h \in Requests |-> NoKey]
  /\ owns = [h \in Requests |-> FALSE]
  /\ seen = [h \in Requests |-> [earned |-> 0, redeemed |-> 0]]
  /\ reply = [h \in Requests |-> "none"]
-----------------------------------------------------------------------------
(* Earn *)

\* The key is validated before anything is touched; a caller turns the
\* refusal into its own answer.
EarnEntry(h, k, refusal) ==
  /\ key' = [key EXCEPT ![h] = k]
  /\ IF IsUUID(k) THEN Goto(h, "setnx") ELSE Finish(h, refusal)

\* POST /v1/loyalty/stamp
Stamp(h, k) ==
  /\ pc[h] = "new"
  /\ EarnEntry(h, k, "bad")
  /\ UNCHANGED <<rows, stores, cust, owns, seen, gone>>

\* SET whisked:idem:<key> NX.  A marker that is there means "already processed",
\* also when an earlier attempt of this same call put it there; an error means
\* "go on, the UNIQUE constraint decides".
EarnSetNX(h) ==
  /\ pc[h] = "setnx"
  /\ \/ /\ h \notin gone /\ key[h] \notin marker
        /\ marker' = marker \cup {key[h]}
        /\ Goto(h, "insert")
     \/ /\ h \notin gone /\ key[h] \in marker
        /\ Goto(h, "balance") /\ UNCHANGED marker
     \/ RedisFails(h) /\ Goto(h, "insert") /\ UNCHANGED marker
     \/ /\ "redis" \in Faults
        /\ marker' = marker \cup {key[h]}
        /\ Goto(h, "insert") \/ Goto(h, "balance")
  /\ UNCHANGED <<rows, lock, qr, audited, local, gone>>

\* Mutant: no UNIQUE constraint.
EarnInsertTwice(h) ==
  /\ pc[h] = "insert"
  /\ rows' = rows \cup {[id |-> h, cust |-> cust[h], type |-> "steep_earned", key |-> key[h]]}
  /\ Goto(h, "audit")
  /\ UNCHANGED <<stores, local, gone>>

\* Mutant: the insert's error is dropped.
EarnInsertIgnoresError(h) ==
  /\ pc[h] = "insert"
  /\ Ledger!Credit(h, cust[h], key[h]) \/ UNCHANGED rows
  /\ Goto(h, "audit")
  /\ UNCHANGED <<stores, local, gone>>

\* insertEvent: one INSERT under the UNIQUE constraint.  A duplicate is
\* answered as a success; an error may hide a row that was written.
EarnInsert(h) ==
  /\ pc[h] = "insert"
  /\ \/ /\ h \notin gone
        /\ Ledger!Credit(h, cust[h], key[h])
        /\ Goto(h, "audit")
     \/ /\ h \notin gone
        /\ Ledger!Recorded(key[h])
        /\ Goto(h, "balance") /\ UNCHANGED rows
     \/ /\ DbFails(h)
        /\ Ledger!Credit(h, cust[h], key[h]) \/ UNCHANGED rows
        /\ Goto(h, "undo")
  /\ UNCHANGED <<stores, local, gone>>

\* Mutant: no Del after a failed insert.
EarnUndoLeavesMarker(h) ==
  /\ pc[h] = "undo"
  /\ Finish(h, "error")
  /\ UNCHANGED <<rows, stores, local, gone>>

\* Mutant: the Del is repeated until it succeeds.
EarnUndoRetries(h) ==
  /\ pc[h] = "undo"
  /\ h \notin gone /\ marker' = marker \ {key[h]}
  /\ Finish(h, "error")
  /\ UNCHANGED <<rows, lock, qr, audited, local, gone>>

\* The insert failed: take the marker back, whoever set it, and answer the
\* error.  The Del's own error is dropped.
EarnUndo(h) ==
  /\ pc[h] = "undo"
  /\ \/ h \notin gone /\ marker' = marker \ {key[h]}
     \/ RedisFails(h) /\ UNCHANGED marker
  /\ Finish(h, "error")
  /\ UNCHANGED <<rows, lock, qr, audited, local, gone>>

\* The audit entry of an earn or a redemption, whose failure changes nothing.
Audit(h) ==
  /\ pc[h] = "audit"
  /\ \/ h \notin gone /\ audited' = audited \cup {key[h]}
     \/ DbFails(h) /\ UNCHANGED audited
  /\ Goto(h, "balance")
  /\ UNCHANGED <<rows, marker, lock, qr, local, gone>>

\* GetBalance ends both Earn and Redeem; its error is the request's error.
Balance(h) ==
  /\ pc[h] = "balance"
  /\ \/ h \notin gone /\ Leave(h, "ok")
     \/ DbFails(h) /\ Leave(h, "error")
  /\ UNCHANGED <<rows, stores, local, gone>>
-----------------------------------------------------------------------------
(* Redeem *)

\* POST /v1/loyalty/redeem
Redeem(h) ==
  /\ pc[h] = "new"
  /\ Goto(h, "lock")
  /\ UNCHANGED <<rows, stores, local, gone>>

\* Mutant: SET without NX.
RedeemLockAnyway(h) ==
  /\ pc[h] = "lock"
  /\ lock' = lock \cup {cust[h]}
  /\ owns' = [owns EXCEPT ![h] = TRUE]
  /\ Goto(h, "count")
  /\ UNCHANGED <<rows, marker, qr, audited, cust, key, seen, gone>>

\* Mutant: the lock is keyed by the request.
RedeemLockByRequest(h) ==
  /\ pc[h] = "lock"
  /\ lock' = lock \cup {h}
  /\ owns' = [owns EXCEPT ![h] = TRUE]
  /\ Goto(h, "count")
  /\ UNCHANGED <<rows, marker, qr, audited, cust, key, seen, gone>>

\* SET whisked:redeem:lock:<customer> NX.  When Redis fails the redemption goes
\* on without the lock, or meets the one its first attempt left.
RedeemLock(h) ==
  /\ pc[h] = "lock"
  /\ \/ /\ h \notin gone /\ cust[h] \notin lock
        /\ lock' = lock \cup {cust[h]}
        /\ owns' = [owns EXCEPT ![h] = TRUE]
        /\ Goto(h, "count")
     \/ /\ h \notin gone /\ cust[h] \in lock
        /\ Finish(h, "conflict") /\ UNCHANGED <<lock, owns>>
     \/ RedisFails(h) /\ Goto(h, "count") /\ UNCHANGED <<lock, owns>>
     \/ /\ "redis" \in Faults
        /\ lock' = lock \cup {cust[h]}
        /\ Goto(h, "count") \/ Finish(h, "conflict")
        /\ UNCHANGED owns
  /\ UNCHANGED <<rows, marker, qr, audited, cust, key, seen, gone>>

\* Mutant: available < 0 in place of available <= 0.
RedeemCountOffByOne(h) ==
  /\ pc[h] = "count"
  /\ \/ /\ h \notin gone
        /\ seen' = [seen EXCEPT ![h] = [earned |-> Ledger!Earned(cust[h]),
                                        redeemed |-> Ledger!Redeemed(cust[h])]]
        /\ IF Ledger!Rewards(seen'[h].earned, seen'[h].redeemed) >= 0
             THEN Goto(h, "commit") ELSE Leave(h, "bad")
     \/ DbFails(h) /\ Leave(h, "error") /\ UNCHANGED seen
  /\ UNCHANGED <<rows, stores, cust, key, owns, gone>>

\* BEGIN; SELECT the two counts.  READ COMMITTED: nothing stops another
\* transaction from committing before this one does.
RedeemCount(h) ==
  /\ pc[h] = "count"
  /\ \/ /\ h \notin gone
        /\ seen' = [seen EXCEPT ![h] = [earned |-> Ledger!Earned(cust[h]),
                                        redeemed |-> Ledger!Redeemed(cust[h])]]
        /\ IF Ledger!Rewards(seen'[h].earned, seen'[h].redeemed) > 0
             THEN Goto(h, "commit") ELSE Leave(h, "bad")
     \/ DbFails(h) /\ Leave(h, "error") /\ UNCHANGED seen
  /\ UNCHANGED <<rows, stores, cust, key, owns, gone>>

\* INSERT the redemption under the key redeem-<customer>-<nanoseconds>; COMMIT.
\* A key already there rolls back and counts as a success; an error may hide a
\* transaction that committed.
RedeemCommit(h, t) ==
  /\ pc[h] = "commit"
  /\ LET k == [kind |-> "redeem", id |-> <<cust[h], t>>] IN
     /\ key' = [key EXCEPT ![h] = k]
     /\ \/ /\ h \notin gone
           /\ Ledger!Append(h, cust[h], "reward_redeemed", k)
           /\ Goto(h, "audit")
        \/ /\ h \notin gone
           /\ Ledger!Recorded(k)
           /\ Goto(h, "audit") /\ UNCHANGED rows
        \/ /\ DbFails(h)
           /\ Ledger!Append(h, cust[h], "reward_redeemed", k) \/ UNCHANGED rows
           /\ Leave(h, "error")
  /\ UNCHANGED <<stores, cust, owns, seen, gone>>

\* The deferred Del of the lock: it takes away whatever lock is there.
RedeemUnlock(h) ==
  /\ pc[h] = "unlock"
  /\ \/ h \notin gone /\ lock' = lock \ {cust[h]}
     \/ RedisFails(h) /\ UNCHANGED lock
  /\ owns' = [owns EXCEPT ![h] = FALSE]
  /\ pc' = [pc EXCEPT ![h] = "done"]
  /\ UNCHANGED <<rows, marker, qr, audited, cust, key, seen, reply, gone>>
-----------------------------------------------------------------------------
(* QR stamps and webhooks *)

\* GET /v1/loyalty/qr-token stores a fresh token for its customer.
IssueStampToken(h) ==
  /\ pc[h] = "new"
  /\ \/ qr' = qr \cup {h} /\ Finish(h, "ok")
     \/ /\ RedisFails(h)
        /\ UNCHANGED qr \/ qr' = qr \cup {h}
        /\ Finish(h, "error")
  /\ UNCHANGED <<rows, marker, lock, audited, local, gone>>

\* What a scan does when it has the token's customer.
ScanToken(h, t) ==
  /\ cust' = [cust EXCEPT ![h] = cust[t]]
  /\ key' = [key EXCEPT ![h] = [kind |-> "qr", id |-> t]]
  /\ Goto(h, "lookup")

\* Mutant: GET in place of GETDEL.
StampViaTokenByGet(h, t) ==
  /\ pc[h] = "new" /\ t # h
  /\ \/ t \in qr /\ UNCHANGED qr /\ ScanToken(h, t)
     \/ /\ t \notin qr \/ RedisFails(h)
        /\ UNCHANGED qr
        /\ Finish(h, "notfound") /\ UNCHANGED <<cust, key>>
  /\ UNCHANGED <<rows, marker, lock, audited, owns, seen, gone>>

\* GET /stamp?t=<token>: GETDEL of the token.  Any error is "not found".
StampViaToken(h, t) ==
  /\ pc[h] = "new" /\ t # h
  /\ \/ t \in qr /\ qr' = qr \ {t} /\ ScanToken(h, t)
     \/ /\ t \notin qr
        /\ Finish(h, "notfound") /\ UNCHANGED <<qr, cust, key>>
     \/ /\ RedisFails(h)
        /\ qr' \in {qr, qr \ {t}}
        /\ Finish(h, "notfound") /\ UNCHANGED <<cust, key>>
  /\ UNCHANGED <<rows, marker, lock, audited, owns, seen, gone>>

\* The scan reads the customer, then earns with the key "qr-<token>".
StampPageCustomer(h) ==
  /\ pc[h] = "lookup"
  /\ \/ h \notin gone /\ EarnEntry(h, key[h], "notfound")
     \/ DbFails(h) /\ Finish(h, "notfound") /\ UNCHANGED key
  /\ UNCHANGED <<rows, stores, cust, owns, seen, gone>>

\* A signed delivery: look the customer up, earn with the prefixed key, answer
\* 200 in any case.  An unknown customer and a failed lookup earn nothing.
Webhook(h, k) ==
  /\ pc[h] = "new"
  /\ \/ EarnEntry(h, k, "ok")
     \/ Finish(h, "ok") /\ UNCHANGED key
  /\ UNCHANGED <<rows, stores, cust, owns, seen, gone>>

\* The two webhook routes: orders/paid of Shopify, payment.completed of Square.
OrderPaid(h)        == \E k \in ShopifyKeys : Webhook(h, k)
PaymentCompleted(h) == \E k \in SquareKeys : Webhook(h, k)
-----------------------------------------------------------------------------
(* Time and failures *)

MarkerExpires(k) ==
  /\ k \in marker
  /\ marker' = marker \ {k}
  /\ UNCHANGED <<rows, lock, qr, audited, local, pc, reply, gone>>

TokenExpires(t) ==
  /\ t \in qr
  /\ qr' = qr \ {t}
  /\ UNCHANGED <<rows, marker, lock, audited, local, pc, reply, gone>>

\* Mutant: SETNX without a TTL.
LockNeverExpires(c) == FALSE

\* Mutant: a TTL shorter than a redemption.
LockExpiresEarly(c) ==
  /\ lock' = lock \ {c}
  /\ UNCHANGED <<rows, marker, qr, audited, local, pc, reply, gone>>

\* redemptionLockTTL: without the expiry fault no redemption outlives it.
LockExpires(c) ==
  /\ c \in lock
  /\ "expiry" \in Faults \/ \A h \in Requests : owns[h] => cust[h] # c
  /\ lock' = lock \ {c}
  /\ UNCHANGED <<rows, marker, qr, audited, local, pc, reply, gone>>

\* The client of a request in flight goes away: its context is cancelled.
ClientGone(h) ==
  /\ "cancel" \in Faults
  /\ InFlight(h) /\ h \notin gone
  /\ gone' = gone \cup {h}
  /\ UNCHANGED <<rows, stores, local, pc, reply>>

\* The process dies with everything in flight; Redis and PostgreSQL stay.
Crash ==
  /\ "crash" \in Faults
  /\ \E h \in Requests : InFlight(h)
  /\ pc' = [h \in Requests |-> IF InFlight(h) THEN "lost" ELSE pc[h]]
  /\ owns' = [h \in Requests |-> FALSE]
  /\ UNCHANGED <<rows, stores, cust, key, seen, reply, gone>>
-----------------------------------------------------------------------------
Arrive(h) ==
  \/ \E k \in StampKeys : Stamp(h, k)
  \/ OrderPaid(h) \/ PaymentCompleted(h)
  \/ Redeem(h)
  \/ IssueStampToken(h)
  \/ \E t \in Requests : StampViaToken(h, t)

Proceed(h) ==
  \/ EarnSetNX(h) \/ EarnInsert(h) \/ EarnUndo(h) \/ Audit(h) \/ Balance(h)
  \/ RedeemLock(h) \/ RedeemCount(h) \/ (\E t \in Instants : RedeemCommit(h, t)) \/ RedeemUnlock(h)
  \/ StampPageCustomer(h)

Next ==
  \/ \E h \in Requests : Arrive(h) \/ Proceed(h) \/ ClientGone(h)
  \/ \E k \in marker : MarkerExpires(k)
  \/ \E t \in qr : TokenExpires(t)
  \/ \E c \in lock : LockExpires(c)
  \/ Crash

Spec == Init /\ [][Next]_vars

\* A handler that has started runs to its end, and Redis expires the lock keys.
FairSpec ==
  /\ Spec
  /\ \A h \in Requests : WF_vars(Proceed(h))
  /\ \A c \in Customers : WF_vars(LockExpires(c))
-----------------------------------------------------------------------------
(* Safety *)

\* Rewards redeemed never exceed rewards earned, however redemptions and earns
\* interleave, fail or lose their process (Redeem, redeemInTransaction).
NoOverRedemption == Ledger!NoOverRedemption

\* An idempotency key leaves one row, through retries, expired markers, lost
\* answers and Redis failures: the UNIQUE backstop of Earn.
OneRowPerKey == Ledger!OneRowPerKey

\* Every step of the handlers is a step of the ledger or leaves it alone.
LedgerSpec == Ledger!Spec

\* Two redemptions of a customer are never both between their count and their
\* commit: what the Redis lock is for.
Deciding(h) == pc[h] = "commit"
RedemptionsExclusive ==
  \A h, g \in Requests : Deciding(h) /\ Deciding(g) /\ cust[h] = cust[g] => h = g

\* A marker says "already processed" without a row only while a request is
\* between SetNX and its insert or undo, or after one was interrupted there.
MarkerBacked ==
  \A k \in marker :
    \/ Ledger!Recorded(k)
    \/ \E h \in Requests :
         key[h] = k /\ (pc[h] \in {"insert", "undo", "lost"} \/ h \in gone)

\* A stamp answered with success is on the ledger, or an attempt at the same key
\* is at its insert, was interrupted, or answered its own client an error: success
\* never covers a loss that nobody was told of (Earn).
AckedUnlessFailed ==
  \A h \in Requests :
    (key[h].kind = "uuid" /\ reply[h] = "ok") =>
      \/ Ledger!Recorded(key[h])
      \/ \E g \in Requests :
           /\ key[g] = key[h]
           /\ pc[g] \in {"insert", "undo", "lost"} \/ g \in gone \/ reply[g] = "error"

\* A redemption lock has a redemption at work behind it, or one that was
\* interrupted: no early return and no refusal leaves a customer locked out for
\* the rest of the TTL.
LockExplained ==
  \A c \in lock : \E h \in Requests :
    /\ cust[h] = c
    /\ (owns[h] /\ InFlight(h)) \/ pc[h] = "lost" \/ h \in gone

\* The audit log names no earn or redemption that is not on the ledger.
AuditTruthful == \A k \in audited : Ledger!Recorded(k)

\* Of all the devices that scan a QR token, one gets past the GETDEL.
TokenScannedOnce ==
  \A h, g \in Requests : key[h].kind = "qr" /\ key[h] = key[g] => h = g

\* A stamp answered with success is on the ledger once nobody works on its key:
\* "the same key always returns the same result" (service.go:44).
AckedStampRecorded ==
  \A h \in Requests :
    (key[h].kind = "uuid" /\ reply[h] = "ok") =>
      \/ Ledger!Recorded(key[h])
      \/ \E g \in Requests : key[g] = key[h] /\ InFlight(g)

\* A delivery for a known customer, and a scan of a live token, leave a steep
\* (service_test.go:299-313, docs of ProcessShopifyOrder and StampViaToken).
PrefixedKeyCredited ==
  \A h \in Requests :
    pc[h] = "done" /\ key[h].kind \in {"shopify", "square", "qr"} => Ledger!Recorded(key[h])
-----------------------------------------------------------------------------
(* What makes NoOverRedemption inductive when Redis answers and locks outlive
   their holders (proved in LoyaltyProofs) *)

\* A request that writes to a store under its key has a key.
KeyInv ==
  \A h \in Requests :
    pc[h] \in {"lookup", "setnx", "insert", "undo", "audit"} => key[h] \in Keys

\* A pending deferred Del means the lock is there, and there is one per lock.
LockInv ==
  /\ \A h \in Requests :
       owns[h] => /\ cust[h] \in lock
                  /\ pc[h] \in {"count", "commit", "audit", "balance", "unlock"}
  /\ \A h, g \in Requests : owns[h] /\ owns[g] /\ cust[h] = cust[g] => h = g

\* Nobody whose client is still there decides on a redemption without the lock,
\* and nobody deletes a lock that is not its own.
HoldInv ==
  \A h \in Requests :
    /\ pc[h] = "count" /\ h \notin gone => owns[h]
    /\ pc[h] \in {"commit", "unlock"} => owns[h]

\* What a redemption read still justifies it when it commits.
SeenInv ==
  \A h \in Requests :
    pc[h] = "commit" => /\ seen[h].redeemed = Ledger!Redeemed(cust[h])
                        /\ seen[h].earned <= Ledger!Earned(cust[h])
                        /\ Ledger!Rewards(seen[h].earned, seen[h].redeemed) > 0
-----------------------------------------------------------------------------
(* Liveness, under FairSpec *)

\* Every request in flight is answered, or lost with its process.
RequestAnswered == \A h \in Requests : InFlight(h) ~> ~InFlight(h)

\* A crash or a failed Del never locks a customer out of redeeming for good.
LockFreed == \A c \in Customers : c \in lock ~> c \notin lock
=============================================================================
