----------------------------- MODULE RateLimit -----------------------------
(***************************************************************************)
(* internal/middleware/ratelimit.go: fixed windows counted in Redis, in     *)
(* front of every route.  The router installs the middleware before any     *)
(* that authenticates, so a request is always counted by its IP address.    *)
(* The window a request belongs to is computed before its INCR is sent, and *)
(* INCR and EXPIRE are two commands.  Time is a counter of ticks; the       *)
(* code's ipLimitWindow is a minute and its ipLimitRequests 60.             *)
(***************************************************************************)
EXTENDS Integers, FiniteSets

CONSTANTS Requests,
          Clients,      \* IP addresses
          Window,       \* ipLimitWindow
          Limit,        \* ipLimitRequests
          LimitDelay,   \* the longest time from reading the clock to the INCR
          Horizon       \* bound on the clock

\* What the constants are: assumed by the instance that TLC checks and by the
\* theorems of RateLimitProofs.
WindowAssumption ==
  /\ Window \in Nat \ {0} /\ Limit \in Nat \ {0}
  /\ LimitDelay \in Nat /\ Horizon \in Nat

\* What the limit rests on: an INCR that is sent late must not outrun the key.
DelayCovered == LimitDelay <= Window

VARIABLES now,
          count,     \* the counter of each client and window, 0 if there is no key
          ttl,       \* when it expires, Never if no EXPIRE has reached it
          lim,       \* where a request is in the middleware
          client,    \* who sent it
          arrived,   \* when it read the clock
          rank,      \* what its INCR returned
          sends      \* history: how often its INCR was carried out

limvars == <<count, ttl, lim, client, arrived, rank, sends>>

Never == -1
Buckets == 0..Horizon
Counted == {"expire", "passed", "limited"}

TypeOK ==
  /\ now \in Nat
  /\ count \in [Clients \X Buckets -> Nat]
  /\ ttl \in [Clients \X Buckets -> Nat \cup {Never}]
  /\ lim \in [Requests -> {"arriving", "incr", "open"} \cup Counted]
  /\ client \in [Requests -> Clients]
  /\ arrived \in [Requests -> 0..Horizon]
  /\ rank \in [Requests -> Nat]
  /\ sends \in [Requests -> Nat]

Init ==
  /\ now = 0
  /\ count = [k \in Clients \X Buckets |-> 0]
  /\ ttl = [k \in Clients \X Buckets |-> Never]
  /\ lim = [r \in Requests |-> "arriving"]
  /\ client \in [Requests -> Clients]
  /\ arrived = [r \in Requests |-> 0]
  /\ rank = [r \in Requests |-> 0]
  /\ sends = [r \in Requests |-> 0]

\* Mutant: the key does not name the window.
KeyOfClient(r) == <<client[r], 0>>

\* whisked:rl:ip:<client>:<bucket>
Key(r) == <<client[r], arrived[r] \div Window>>

Enter(r, l) == lim' = [lim EXCEPT ![r] = l]

\* Mutant: one more than the limit.
DecideLate(r, n) == Enter(r, IF n <= Limit + 1 THEN "passed" ELSE "limited")

\* A request passes if its INCR returned no more than the limit.
Decide(r, n) == Enter(r, IF n <= Limit THEN "passed" ELSE "limited")

Arrive(r) ==
  /\ lim[r] = "arriving" /\ now <= Horizon
  /\ arrived' = [arrived EXCEPT ![r] = now] /\ Enter(r, "incr")
  /\ UNCHANGED <<now, count, ttl, client, rank, sends>>

\* The INCR of r is carried out n times and answers with the last value.
Counts(r, n) ==
  /\ count' = [count EXCEPT ![Key(r)] = @ + n]
  /\ rank' = [rank EXCEPT ![r] = count[Key(r)] + n]
  /\ sends' = [sends EXCEPT ![r] = n]

\* A request that counts as the first goes on to EXPIRE.  go-redis sends an INCR
\* again whose answer was lost, and it counts twice; if Redis does not answer at
\* all the request passes uncounted, or counted without knowing.
Incr(r) ==
  /\ lim[r] = "incr"
  /\ \/ Counts(r, 1) /\ (IF count[Key(r)] = 0 THEN Enter(r, "expire")
                         ELSE Decide(r, count[Key(r)] + 1))
     \/ Counts(r, 2) /\ Decide(r, count[Key(r)] + 2)
     \/ Enter(r, "open") /\ UNCHANGED <<count, rank, sends>>
     \/ Enter(r, "open") /\ Counts(r, 1)
  /\ UNCHANGED <<now, ttl, client, arrived>>

\* Mutant: the expiry is in the past.
ExpireBackwards(r) ==
  /\ lim[r] = "expire"
  /\ ttl' = [ttl EXCEPT ![Key(r)] = now - 2 * Window]
  /\ Decide(r, rank[r])
  /\ UNCHANGED <<now, count, client, arrived, rank, sends>>

\* Mutant: the key is kept for one window.
ExpireSoon(r) ==
  /\ lim[r] = "expire"
  /\ ttl' = [ttl EXCEPT ![Key(r)] = now + Window]
  /\ Decide(r, rank[r])
  /\ UNCHANGED <<now, count, client, arrived, rank, sends>>

\* EXPIRE for two windows, whose error is not looked at.  On a key that has
\* gone it does nothing.
Expire(r) ==
  /\ lim[r] = "expire"
  /\ \/ count[Key(r)] # 0 /\ ttl' = [ttl EXCEPT ![Key(r)] = now + 2 * Window]
     \/ UNCHANGED ttl
  /\ Decide(r, rank[r])
  /\ UNCHANGED <<now, count, client, arrived, rank, sends>>

\* Keys expire as time passes.
Gone(k) == ttl[k] # Never /\ ttl[k] <= now + 1

Tick ==
  /\ now < Horizon
  /\ \A r \in Requests : lim[r] = "incr" => now - arrived[r] < LimitDelay
  /\ now' = now + 1
  /\ count' = [k \in Clients \X Buckets |-> IF Gone(k) THEN 0 ELSE count[k]]
  /\ ttl' = [k \in Clients \X Buckets |-> IF Gone(k) THEN Never ELSE ttl[k]]
  /\ UNCHANGED <<lim, client, arrived, rank, sends>>

Handle(r) == Arrive(r) \/ Incr(r) \/ Expire(r)

Next == (\E r \in Requests : Handle(r)) \/ Tick

Spec == Init /\ [][Next]_<<now, limvars>>
-----------------------------------------------------------------------------
\* Requests of one client that read the clock in one window.
SameWindow(q, r) ==
  client[q] = client[r] /\ arrived[q] \div Window = arrived[r] \div Window

\* Of the requests a client sends in one window, Redis lets at most Limit pass,
\* however late their INCRs arrive and whether or not the EXPIRE succeeded.
LimitKept ==
  \A r \in Requests :
    Cardinality({q \in Requests : lim[q] = "passed" /\ SameWindow(q, r)}) <= Limit

\* The windows are fixed, so an interval as long as one straddles two of them: a
\* client gets at most twice the limit through in it, wherever it begins.
BurstBounded ==
  \A c \in Clients, t \in 0..Horizon :
    Cardinality({q \in Requests : /\ lim[q] = "passed" /\ client[q] = c
                                  /\ arrived[q] \in t..(t + Window - 1)}) <= 2 * Limit

\* A refused request was one of more than Limit in its own window: a counter
\* that lost its EXPIRE stays behind, and never shuts its client out.
NoLockout ==
  \A r \in Requests :
    lim[r] = "limited" =>
      Cardinality({p \in Requests \X {1, 2} : SameWindow(p[1], r) /\ p[2] <= sends[p[1]]})
        > Limit

\* Why: two counted requests of a window have different ranks, because its key
\* stays until no request of the window may still be counted.
KeptUntil(r) == (Key(r)[2] + 2) * Window

LimitInv ==
  /\ \A r \in Requests :
       lim[r] \in Counted /\ now < KeptUntil(r) => rank[r] <= count[Key(r)]
  /\ \A q, r \in Requests :
       /\ lim[q] \in Counted /\ lim[r] \in Counted
       /\ Key(q) = Key(r) /\ rank[q] = rank[r]
       => q = r
  /\ \A r \in Requests : lim[r] \in Counted => rank[r] > 0
  /\ \A r \in Requests : lim[r] = "passed" => rank[r] <= Limit
  /\ \A r \in Requests : lim[r] # "arriving" => arrived[r] <= now
  /\ \A r \in Requests : lim[r] = "incr" => now - arrived[r] <= LimitDelay
  /\ \A k \in Clients \X Buckets : ttl[k] # Never => ttl[k] >= (k[2] + 2) * Window
=============================================================================
