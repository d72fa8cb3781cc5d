----------------------------- MODULE StaffAuth -----------------------------
(***************************************************************************)
(* internal/domain/dashboard Login and internal/middleware                  *)
(* RequireStaffAuth: a staff member logs in, is given an access token of    *)
(* eight hours and a refresh token of thirty days that no route exchanges,  *)
(* and reads the dashboard with the first.  Whether the account is active   *)
(* is asked at the login and never again; nothing writes the revocation     *)
(* set.  Time is a counter of ticks.                                        *)
(***************************************************************************)
EXTENDS Integers

CONSTANTS Staff, NoStaff,
          Logins, Reads,   \* requests to /auth/login and to a route behind the middleware
          AccessTTL,       \* staffAccessTokenTTL
          RefreshTTL,      \* staffRefreshTokenTTL
          LoginDelay,      \* the longest time from reading the account to the token
          Horizon          \* bound on the clock

\* What the constants are.
StaffAssumption ==
  /\ NoStaff \notin Staff
  /\ AccessTTL \in Nat /\ RefreshTTL \in Nat /\ LoginDelay \in Nat /\ Horizon \in Nat

VARIABLES now,
          off,      \* when an account was deactivated, Never if it is active
          tokens,   \* the staff tokens handed out
          lpc, lstaff, looked,   \* a login, its account, and when it read the row
          rpc, who, checked      \* a read, its staff member, and when its token was checked

vars == <<now, off, tokens, lpc, lstaff, looked, rpc, who, checked>>

Never == -1
Token == [staff : Staff, type : {"staff", "staff:refresh"}, exp : Nat]

\* A customer's access token, which any client may present.
CustomerToken == [staff |-> NoStaff, type |-> "access", exp |-> Horizon + 1]

TypeOK ==
  /\ now \in Nat
  /\ off \in [Staff -> Nat \cup {Never}]
  /\ tokens \subseteq Token
  /\ lpc \in [Logins -> {"new", "verify", "issued", "refused", "error"}]
  /\ lstaff \in [Logins -> Staff]
  /\ looked \in [Logins -> Nat]
  /\ rpc \in [Reads -> {"new", "revoked", "admitted", "refused"}]
  /\ who \in [Reads -> Staff \cup {NoStaff}]
  /\ checked \in [Reads -> Nat]

Init ==
  /\ now = 0
  /\ off = [s \in Staff |-> Never]
  /\ tokens = {}
  /\ lpc = [l \in Logins |-> "new"]
  /\ lstaff \in [Logins -> Staff]
  /\ looked = [l \in Logins |-> 0]
  /\ rpc = [r \in Reads |-> "new"]
  /\ who = [r \in Reads |-> NoStaff]
  /\ checked = [r \in Reads |-> 0]

Active(s) == off[s] = Never

\* getStaffByEmail: an account that is unknown, inactive or cannot be read is refused.
LookUp(l) ==
  /\ lpc[l] = "new"
  /\ \/ Active(lstaff[l]) /\ lpc' = [lpc EXCEPT ![l] = "verify"]
     \/ lpc' = [lpc EXCEPT ![l] = "refused"]
  /\ looked' = [looked EXCEPT ![l] = now]
  /\ UNCHANGED <<now, off, tokens, lstaff, rpc, who, checked>>

\* issueStaffTokenPair
Pair(s) == {[staff |-> s, type |-> "staff", exp |-> now + AccessTTL],
            [staff |-> s, type |-> "staff:refresh", exp |-> now + RefreshTTL]}

\* The password is verified, the pair is signed, and its refresh token goes to
\* Redis, without which the login fails.
Issue(l) ==
  /\ lpc[l] = "verify"
  /\ \/ lpc' = [lpc EXCEPT ![l] = "refused"] /\ UNCHANGED tokens
     \/ lpc' = [lpc EXCEPT ![l] = "error"] /\ UNCHANGED tokens
     \/ lpc' = [lpc EXCEPT ![l] = "issued"] /\ tokens' = tokens \cup Pair(lstaff[l])
  /\ UNCHANGED <<now, off, lstaff, looked, rpc, who, checked>>

\* An operator deactivates the account.
Deactivate(s) ==
  /\ Active(s) /\ off' = [off EXCEPT ![s] = now]
  /\ UNCHANGED <<now, tokens, lpc, lstaff, looked, rpc, who, checked>>

\* Mutant: any token of a staff member will do.
StaffOfAnyType(t) == t.type \in {"staff", "staff:refresh"}

\* tokenType != "staff"
StaffToken(t) == t.type = "staff"

\* parseJWT, which checks the expiry, and the type claim.
RequireStaffAuth(r, t) ==
  /\ rpc[r] = "new"
  /\ IF now < t.exp /\ StaffToken(t)
       THEN /\ rpc' = [rpc EXCEPT ![r] = "revoked"]
            /\ who' = [who EXCEPT ![r] = t.staff] /\ checked' = [checked EXCEPT ![r] = now]
       ELSE rpc' = [rpc EXCEPT ![r] = "refused"] /\ UNCHANGED <<who, checked>>
  /\ UNCHANGED <<now, off, tokens, lpc, lstaff, looked>>

\* EXISTS in the revocation set, which is empty; without Redis the route is closed.
CheckRevoked(r) ==
  /\ rpc[r] = "revoked"
  /\ \E l \in {"admitted", "refused"} : rpc' = [rpc EXCEPT ![r] = l]
  /\ UNCHANGED <<now, off, tokens, lpc, lstaff, looked, who, checked>>

Tick ==
  /\ now < Horizon
  /\ \A l \in Logins : lpc[l] = "verify" => now - looked[l] < LoginDelay
  /\ now' = now + 1
  /\ UNCHANGED <<off, tokens, lpc, lstaff, looked, rpc, who, checked>>

Next ==
  \/ \E l \in Logins : LookUp(l) \/ Issue(l)
  \/ \E s \in Staff : Deactivate(s)
  \/ \E r \in Reads : CheckRevoked(r)
                      \/ \E t \in tokens \cup {CustomerToken} : RequireStaffAuth(r, t)
  \/ Tick

Spec == Init /\ [][Next]_vars
-----------------------------------------------------------------------------
\* Only staff pass, and a member who was deactivated passes no later than the
\* life of an access token plus the time a login may take after that, although
\* neither tokens nor sessions are ever revoked.
StaffBounded ==
  \A r \in Reads : rpc[r] \in {"revoked", "admitted"} =>
    /\ who[r] \in Staff
    /\ off[who[r]] # Never => checked[r] < off[who[r]] + LoginDelay + AccessTTL

\* Why: a pair is issued at most LoginDelay after its account was seen active.
StaffInv ==
  /\ \A t \in tokens : t.type = "staff" =>
       /\ t.exp <= now + AccessTTL
       /\ off[t.staff] # Never => t.exp <= off[t.staff] + LoginDelay + AccessTTL
  /\ \A l \in Logins : lpc[l] = "verify" =>
       /\ looked[l] <= now /\ now - looked[l] <= LoginDelay
       /\ off[lstaff[l]] # Never => looked[l] <= off[lstaff[l]]
  /\ \A s \in Staff : off[s] <= now
  /\ \A r \in Reads : rpc[r] \in {"revoked", "admitted"} =>
       /\ who[r] \in Staff
       /\ checked[r] < now + AccessTTL
       /\ off[who[r]] # Never => checked[r] < off[who[r]] + LoginDelay + AccessTTL
=============================================================================
