------------------------------ MODULE Accounts ------------------------------
(***************************************************************************)
(* internal/domain/auth and the deletion of internal/domain/customers: how  *)
(* accounts and their refresh tokens are created, rotated and removed.      *)
(*                                                                         *)
(*   customers  rows of the customers table and of customer_credentials,    *)
(*              which one statement writes and one cascade deletes          *)
(*   erased     ids of the rows that DELETE has removed                     *)
(*   history    ids that a loyalty, analytics or visitor row refers to      *)
(*   refresh    the whisked:refresh:<jti> in Redis                          *)
(*   revoked    the whisked:revoked:<jti> in Redis                          *)
(*   gone       requests whose client went away while they were in flight   *)
(*                                                                         *)
(* An account is named by the request that created it, a token pair by the  *)
(* request that issued it.  Every call of a handler runs on the request's   *)
(* context: once the client is gone, none of them does anything, and only   *)
(* one that was under way may have had its effect.  A client that leaves    *)
(* before the first call of its request leaves no trace and is no step.     *)
(***************************************************************************)
EXTENDS Naturals, FiniteSets

CONSTANTS Requests, Emails, NoEmail,
          Faults        \* a subset of {"db", "redis", "cancel", "crash"}

ASSUME FaultsAssumption == Faults \subseteq {"db", "redis", "cancel", "crash"}

VARIABLES customers, erased, history, refresh, revoked, gone,
          pc,
          op,      \* which handler each request runs
          email,   \* the address a registration is for
          acct,    \* the account it acts for
          tok,     \* the token pair it presents
          reply

tables == <<customers, erased, history>>
tokens == <<refresh, revoked>>
local  == <<op, email, acct, tok>>
vars   == <<tables, tokens, local, gone, pc, reply>>

Customer == [id : Requests, email : Emails]
Ops == {"none", "register", "login", "refresh", "logout", "delete", "call"}

TypeOK ==
  /\ customers \subseteq Customer
  /\ erased \subseteq Requests /\ history \subseteq Requests
  /\ refresh \subseteq Requests /\ revoked \subseteq Requests
  /\ gone \subseteq Requests
  /\ pc \in [Requests -> {"new", "insert", "rotate", "store", "revoke", "erase", "use", "done", "lost"}]
  /\ op \in [Requests -> Ops]
  /\ email \in [Requests -> Emails \cup {NoEmail}]
  /\ \A h \in Requests : pc[h] = "insert" => email[h] \in Emails
  /\ acct \in [Requests -> Requests]
  /\ tok \in [Requests -> Requests]
  /\ reply \in [Requests -> {"none", "ok", "conflict", "denied", "error"}]

Init ==
  /\ customers = {} /\ erased = {} /\ history = {}
  /\ refresh = {} /\ revoked = {} /\ gone = {}
  /\ pc = [h \in Requests |-> "new"]
  /\ op = [h \in Requests |-> "none"]
  /\ email = [h \in Requests |-> NoEmail]
  /\ acct = [h \in Requests |-> h]
  /\ tok = [h \in Requests |-> h]
  /\ reply = [h \in Requests |-> "none"]

Waiting == {"new", "done", "lost"}

\* Whether a call made by request h can fail.
DbFails(h)    == "db" \in Faults \/ h \in gone
RedisFails(h) == "redis" \in Faults \/ h \in gone

Live(c) == c.id \notin erased
Exists(id) == \E c \in customers : c.id = id /\ Live(c)
Taken(e) == \E c \in customers : c.email = e /\ Live(c)

\* Token pairs that a client was given.
Issued(t) == reply[t] = "ok" /\ op[t] \in {"register", "login", "refresh"}

Start(h, o, l) ==
  /\ pc[h] = "new"
  /\ op' = [op EXCEPT ![h] = o]
  /\ pc' = [pc EXCEPT ![h] = l]
Goto(h, l)   == pc' = [pc EXCEPT ![h] = l] /\ UNCHANGED reply
Finish(h, r) == pc' = [pc EXCEPT ![h] = "done"] /\ reply' = [reply EXCEPT ![h] = r]
Answer(h, o, r) == Start(h, o, "done") /\ reply' = [reply EXCEPT ![h] = r]
-----------------------------------------------------------------------------
(* Registration and login *)

\* POST /v1/auth/register with a valid address and password
Register(h, e) ==
  /\ Start(h, "register", "insert")
  /\ email' = [email EXCEPT ![h] = e]
  /\ UNCHANGED <<tables, tokens, acct, tok, gone, reply>>

\* Mutant: every insert error is reported as a duplicate address.
RegisterInsertConflicts(h) ==
  /\ pc[h] = "insert"
  /\ \/ /\ h \notin gone /\ ~Taken(email[h])
        /\ customers' = customers \cup {[id |-> h, email |-> email[h]]}
        /\ Goto(h, "store")
     \/ /\ Taken(email[h]) \/ DbFails(h)
        /\ Finish(h, "conflict") /\ UNCHANGED customers
  /\ UNCHANGED <<erased, history, tokens, local, gone>>

\* One statement inserts the customer and its credentials under UNIQUE (email).
\* Nothing undoes it when the rest of the request fails.
RegisterInsert(h) ==
  /\ pc[h] = "insert"
  /\ \/ /\ h \notin gone /\ ~Taken(email[h])
        /\ customers' = customers \cup {[id |-> h, email |-> email[h]]}
        /\ Goto(h, "store")
     \/ /\ h \notin gone /\ Taken(email[h])
        /\ Finish(h, "conflict") /\ UNCHANGED customers
     \/ /\ DbFails(h)
        /\ \/ UNCHANGED customers
           \/ ~Taken(email[h]) /\ customers' = customers \cup {[id |-> h, email |-> email[h]]}
        /\ Finish(h, "error")
  /\ UNCHANGED <<erased, history, tokens, local, gone>>

\* POST /v1/auth/login: the account's password, or one that fails.
Login(h) ==
  /\ \/ \E c \in customers :
          /\ Live(c)
          /\ Start(h, "login", "store")
          /\ acct' = [acct EXCEPT ![h] = c.id] /\ UNCHANGED reply
     \/ Answer(h, "login", "denied") /\ UNCHANGED acct
  /\ UNCHANGED <<tables, tokens, email, tok, gone>>

\* issueTokenPair and storeRefreshToken, which end Register, Login and Refresh.
StoreToken(h) ==
  /\ pc[h] = "store"
  /\ \/ h \notin gone /\ refresh' = refresh \cup {h} /\ Finish(h, "ok")
     \/ /\ RedisFails(h)
        /\ refresh' \in {refresh, refresh \cup {h}}
        /\ Finish(h, "error")
  /\ UNCHANGED <<tables, revoked, local, gone>>
-----------------------------------------------------------------------------
(* Refresh and logout *)

\* Mutant: the token's signature is enough, nobody asks Redis.
RefreshUnchecked(h, t) ==
  /\ Issued(t)
  /\ Start(h, "refresh", "rotate")
  /\ tok' = [tok EXCEPT ![h] = t]
  /\ acct' = [acct EXCEPT ![h] = acct[t]]
  /\ UNCHANGED <<tables, tokens, email, gone, reply>>

\* POST /v1/auth/refresh: EXISTS of the presented token.
Refresh(h, t) ==
  /\ Issued(t)
  /\ \/ /\ t \in refresh
        /\ Start(h, "refresh", "rotate")
        /\ tok' = [tok EXCEPT ![h] = t]
        /\ acct' = [acct EXCEPT ![h] = acct[t]]
        /\ UNCHANGED reply
     \/ /\ t \notin refresh \/ "redis" \in Faults
        /\ Answer(h, "refresh", "denied")
        /\ tok' = [tok EXCEPT ![h] = t]
        /\ UNCHANGED acct
  /\ UNCHANGED <<tables, tokens, email, gone>>

\* Mutant: the old token is not revoked.
RotateKeeps(h) ==
  /\ pc[h] = "rotate"
  /\ Goto(h, "store")
  /\ UNCHANGED <<tables, tokens, local, gone>>

\* DEL of the presented token, whose error is dropped.
Rotate(h) ==
  /\ pc[h] = "rotate"
  /\ \/ h \notin gone /\ refresh' = refresh \ {tok[h]}
     \/ RedisFails(h) /\ UNCHANGED refresh
  /\ Goto(h, "store")
  /\ UNCHANGED <<tables, revoked, local, gone>>

\* POST /v1/auth/logout with a refresh token whose signature is good.
Logout(h, t) ==
  /\ Issued(t)
  /\ Start(h, "logout", "revoke")
  /\ tok' = [tok EXCEPT ![h] = t]
  /\ acct' = [acct EXCEPT ![h] = acct[t]]
  /\ UNCHANGED <<tables, tokens, email, gone, reply>>

\* DEL of the presented token; the answer is 204 whatever came of it.
Revoke(h) ==
  /\ pc[h] = "revoke"
  /\ \/ h \notin gone /\ refresh' = refresh \ {tok[h]}
     \/ RedisFails(h) /\ UNCHANGED refresh
  /\ Finish(h, "ok")
  /\ UNCHANGED <<tables, revoked, local, gone>>
-----------------------------------------------------------------------------
(* Deletion *)

\* RequireAuth admits an access token that is not in the revocation set.
RequireAuth(t) == Issued(t) /\ t \notin revoked

\* DELETE /v1/customers/me
DeleteMe(h, t) ==
  /\ RequireAuth(t)
  /\ Start(h, "delete", "erase")
  /\ acct' = [acct EXCEPT ![h] = acct[t]]
  /\ UNCHANGED <<tables, tokens, email, tok, gone, reply>>

\* DELETE FROM customers: refused while a row refers to the customer, a success
\* also when there is none.
Erase(h) ==
  /\ pc[h] = "erase"
  /\ \/ /\ h \notin gone /\ acct[h] \notin history
        /\ erased' = erased \cup {acct[h]}
        /\ Finish(h, "ok")
     \/ /\ h \notin gone /\ acct[h] \in history
        /\ Finish(h, "error") /\ UNCHANGED erased
     \/ /\ DbFails(h)
        /\ UNCHANGED erased \/ (acct[h] \notin history /\ erased' = erased \cup {acct[h]})
        /\ Finish(h, "error")
  /\ UNCHANGED <<customers, history, tokens, local, gone>>

\* A stamp, a page event or an identify of an authenticated customer.
Use(h, t) ==
  /\ RequireAuth(t)
  /\ Start(h, "call", "use")
  /\ acct' = [acct EXCEPT ![h] = acct[t]]
  /\ UNCHANGED <<tables, tokens, email, tok, gone, reply>>

\* Mutant: no foreign key.
UseInsertAnyway(h) ==
  /\ pc[h] = "use"
  /\ history' = history \cup {acct[h]}
  /\ Finish(h, "ok")
  /\ UNCHANGED <<customers, erased, tokens, local, gone>>

\* It inserts a row that refers to its customer, which may have gone since.
UseInsert(h) ==
  /\ pc[h] = "use"
  /\ \/ /\ h \notin gone /\ Exists(acct[h])
        /\ history' = history \cup {acct[h]}
        /\ Finish(h, "ok")
     \/ /\ ~Exists(acct[h]) \/ DbFails(h)
        /\ UNCHANGED history \/ (Exists(acct[h]) /\ history' = history \cup {acct[h]})
        /\ Finish(h, "error")
  /\ UNCHANGED <<customers, erased, tokens, local, gone>>
-----------------------------------------------------------------------------
\* refreshTokenTTL
TokenExpires(t) ==
  /\ refresh' = refresh \ {t}
  /\ UNCHANGED <<tables, revoked, local, gone, pc, reply>>

\* The client of a request in flight goes away, which cancels its context.
ClientGone(h) ==
  /\ "cancel" \in Faults
  /\ pc[h] \notin Waiting /\ h \notin gone
  /\ gone' = gone \cup {h}
  /\ UNCHANGED <<tables, tokens, local, pc, reply>>

\* The process dies with its requests.
Crash ==
  /\ "crash" \in Faults
  /\ \E h \in Requests : pc[h] \notin Waiting
  /\ pc' = [h \in Requests |-> IF pc[h] \in Waiting THEN pc[h] ELSE "lost"]
  /\ UNCHANGED <<tables, tokens, local, gone, reply>>

Next ==
  \/ \E h \in Requests :
       \/ \E e \in Emails : Register(h, e)
       \/ RegisterInsert(h) \/ Login(h) \/ StoreToken(h) \/ Rotate(h) \/ Revoke(h)
       \/ Erase(h) \/ UseInsert(h) \/ ClientGone(h)
       \/ \E t \in Requests : Refresh(h, t) \/ Logout(h, t) \/ DeleteMe(h, t) \/ Use(h, t)
  \/ \E t \in refresh : TokenExpires(t)
  \/ Crash

Spec == Init /\ [][Next]_vars
-----------------------------------------------------------------------------
\* As long as Redis answers, a refresh token that Refresh or Logout is done with
\* is not in Redis again, whatever else runs, and one that was refused stays
\* refused, if the client stayed for it.  The client must: a DEL on a cancelled
\* context does nothing and its error is dropped, so a logout whose client left
\* ends nothing.  A refresh that answers with a new pair had its client to the end.
SpentTokenDead ==
  \A h \in Requests :
    op[h] \in {"refresh", "logout"} /\ pc[h] \in {"store", "done"} /\ h \notin gone
    => tok[h] \notin refresh

\* How far RefreshedOnce holds: as long as Redis answers, a refresh that begins
\* when another use of its token is past its DEL with its client there is
\* refused.  Only refreshes that overlap share a token, or that follow one whose
\* client left; and a logout that a client waits for ends it for everyone.
LateRefreshRefused ==
  [][\A g, h \in Requests :
       /\ op[g] \in {"refresh", "logout"} /\ pc[g] \in {"store", "done"} /\ g \notin gone
       /\ pc[h] = "new" /\ op'[h] = "refresh" /\ tok'[h] = tok[g]
       => reply'[h] = "denied"]_vars

\* A registration is answered "conflict" only when another one has the address,
\* not when its own insert failed or was repeated.
ConflictTruthful ==
  \A h \in Requests :
    reply[h] = "conflict" => \E c \in customers : c.email = email[h] /\ c.id # h

\* No row refers to a customer that is gone, also when the customer is deleted
\* between the check of the access token and the insert.
HistoryOwned == history \cap erased = {}

\* Why SpentTokenDead is an invariant: a presented token was issued by a request
\* that has answered, so nothing stores it again.
PresentedInv ==
  \A h \in Requests :
    /\ op[h] \in {"refresh", "logout"} => Issued(tok[h])
    /\ reply[h] # "none" => pc[h] = "done"
    /\ pc[h] = "new" => op[h] = "none"
    /\ pc[h] = "insert" => op[h] = "register"
    /\ pc[h] = "rotate" => op[h] = "refresh"
    /\ pc[h] = "revoke" => op[h] = "logout"
    /\ pc[h] = "erase" => op[h] = "delete"
    /\ pc[h] = "use" => op[h] = "call"
    /\ pc[h] = "store" => op[h] \in {"register", "login", "refresh"}

\* "a refresh token can only be used once" (types.go:9)
RefreshedOnce ==
  \A g, h \in Requests :
    /\ op[g] = "refresh" /\ reply[g] = "ok"
    /\ op[h] = "refresh" /\ reply[h] = "ok"
    /\ tok[g] = tok[h]
    => g = h
=============================================================================
