---------------------------- MODULE SquareTokens ----------------------------
(***************************************************************************)
(* internal/integrations/square/oauth.go and internal/domain/squareoauth:   *)
(* the access and refresh token of the connected Square merchant.  The pair *)
(* is kept in memory behind a RWMutex and in square_oauth_tokens, one row   *)
(* per merchant; a restart loads the row written last.  Two things write a  *)
(* pair: the OAuth callback, and an AccessToken that finds its token about  *)
(* to expire.  Both save the row first and take the lock only afterwards.   *)
(*                                                                         *)
(* A pair carries the merchant Square made it for; the program cannot see   *)
(* it.  The location id is not Square's: a callback takes the configured    *)
(* one, and every start of the process may find another configuration.      *)
(***************************************************************************)
EXTENDS Naturals, FiniteSets

CONSTANTS Requests, Merchants,
          States,     \* CSRF states, each made by one visit to /connect
          Locations,  \* what SQUARE_LOCATION_ID may be set to
          NoPair, NoMerchant, NoState, NoLocation,
          MaxPairs,   \* bound: pairs that Square makes
          Faults      \* a subset of {"db", "redis", "square", "crash"}

\* What the constants are: assumed by the instances that TLC checks and by the
\* theorems of SquareTokensProofs.
SquareAssumption ==
  /\ MaxPairs \in Nat
  /\ NoMerchant \notin Merchants /\ NoState \notin States /\ NoLocation \notin Locations
  /\ NoPair \notin [owner : Merchants, n : 1..MaxPairs]
  /\ Faults \subseteq {"db", "redis", "square", "crash"}

VARIABLES proc,      \* the server process
          place,     \* the location its configuration names
          mem,       \* TokenStore: the cached pair, its merchantID and locationID
          rows,      \* square_oauth_tokens: the pair of each merchant,
          where,     \* and its location_id
          newest,    \* the merchant whose row was written last (updated_at)
          issued,    \* states that Square has been sent
          states,    \* whisked:square-oauth-state:<state> in Redis
          minted,    \* how many pairs Square has made
          due,       \* pairs with less than tokenExpirySoon left
          pc,
          held,      \* the pair a request has read or was given
          merch,     \* the merchant it goes with
          spot,      \* the location it goes with
          state,     \* the state its callback consumed
          saved,     \* history: every pair a row has held
          race,      \* history: a write began beside another one
          behind     \* history: a row was written and its answer lost

row   == <<rows, where, newest>>
csrf  == <<issued, states>>
local == <<held, merch, spot, state>>
past  == <<saved, race, behind>>
vars  == <<proc, place, mem, row, csrf, minted, due, pc, local, past>>

Pair == [owner : Merchants, n : 1..MaxPairs]
Empty == [pair |-> NoPair, merchant |-> NoMerchant, location |-> NoLocation]

Ended == {"connected", "token", "none", "invalid", "error", "lost"}

TypeOK ==
  /\ proc \in {"up", "draining", "down"}
  /\ place \in Locations \cup {NoLocation}
  /\ mem \in [pair : Pair \cup {NoPair}, merchant : Merchants \cup {NoMerchant},
               location : Locations \cup {NoLocation}]
  /\ rows \in [Merchants -> Pair \cup {NoPair}]
  /\ where \in [Merchants -> Locations \cup {NoLocation}]
  /\ newest \in Merchants \cup {NoMerchant}
  /\ states \subseteq issued /\ issued \subseteq States
  /\ minted \in 0..MaxPairs
  /\ due \subseteq Pair
  /\ pc \in [Requests -> {"new", "exchange", "save", "publish", "refresh", "post",
                          "saveback", "swap", "reread"} \cup Ended]
  /\ held \in [Requests -> Pair \cup {NoPair}]
  /\ merch \in [Requests -> Merchants \cup {NoMerchant}]
  /\ spot \in [Requests -> Locations \cup {NoLocation}]
  /\ state \in [Requests -> States \cup {NoState}]
  /\ saved \subseteq Pair
  /\ race \in {"none", "open", "past"}
  /\ behind \in BOOLEAN

Init ==
  /\ proc = "down" /\ place = NoLocation /\ mem = Empty
  /\ rows = [m \in Merchants |-> NoPair] /\ newest = NoMerchant
  /\ where = [m \in Merchants |-> NoLocation]
  /\ issued = {} /\ states = {} /\ minted = 0 /\ due = {}
  /\ pc = [r \in Requests |-> "new"]
  /\ held = [r \in Requests |-> NoPair]
  /\ merch = [r \in Requests |-> NoMerchant]
  /\ spot = [r \in Requests |-> NoLocation]
  /\ state = [r \in Requests |-> NoState]
  /\ saved = {} /\ race = "none" /\ behind = FALSE

Goto(r, l) == pc' = [pc EXCEPT ![r] = l]
Fails(f)   == f \in Faults

\* Square makes a pair for merchant m; request r holds it.
Mint(r, m) ==
  /\ minted < MaxPairs
  /\ minted' = minted + 1
  /\ held' = [held EXCEPT ![r] = [owner |-> m, n |-> minted + 1]]

\* r is between the read or the write that its publication rests on and the
\* publication itself.
Writing(r) == pc[r] \in {"publish", "post", "saveback", "swap"}
Overlap(r) == race' = IF \E q \in Requests \ {r} : Writing(q) THEN "open" ELSE race

\* SaveToken: the upsert of merchant m's row.  A row that is there keeps its
\* location_id, which ON CONFLICT does not set.  The answer may be lost.
SaveToken(r, m, l) ==
  LET Written == /\ rows' = [rows EXCEPT ![m] = held[r]]
                 /\ where' = [where EXCEPT ![m] = IF rows[m] = NoPair THEN spot[r] ELSE @]
                 /\ newest' = m
                 /\ saved' = saved \cup {held[r]} IN
  \/ Written /\ Goto(r, l) /\ UNCHANGED behind
  \/ Fails("db") /\ Goto(r, "error") /\ UNCHANGED <<rows, where, newest, saved, behind>>
  \/ Fails("db") /\ Goto(r, "error") /\ Written /\ behind' = TRUE
-----------------------------------------------------------------------------
(* GET /v1/square/oauth/connect, for staff, and /callback *)

\* A fresh state goes to Redis and, with the redirect, to Square.  When Redis
\* fails the visit ends with an error and nobody learns the state.
Connect(s) ==
  /\ proc = "up" /\ s \notin issued
  /\ issued' = issued \cup {s} /\ states' = states \cup {s}
  /\ UNCHANGED <<proc, place, mem, row, minted, due, pc, local, past>>

StateExpires(s) ==
  /\ s \in states /\ states' = states \ {s}
  /\ UNCHANGED <<proc, place, mem, row, issued, minted, due, pc, local, past>>

\* Mutant: GET instead of GETDEL.
CallbackByGet(r, s, m) ==
  /\ proc = "up" /\ pc[r] = "new" /\ s \in issued
  /\ s \in states /\ Goto(r, "exchange")
  /\ merch' = [merch EXCEPT ![r] = m] /\ state' = [state EXCEPT ![r] = s]
  /\ UNCHANGED <<proc, place, mem, row, csrf, minted, due, held, spot, past>>

\* Square's redirect after merchant m approved: GETDEL of the state.
Callback(r, s, m) ==
  /\ proc = "up" /\ pc[r] = "new" /\ s \in issued
  /\ s \in states /\ states' = states \ {s}
  /\ Goto(r, "exchange")
  /\ merch' = [merch EXCEPT ![r] = m] /\ state' = [state EXCEPT ![r] = s]
  /\ UNCHANGED <<proc, place, mem, row, issued, minted, due, held, spot, past>>

\* A second delivery, a merchant who declined and a Redis that fails are told
\* that it did not work; a failed GETDEL may have consumed the state.
Reject(r, s) ==
  /\ proc = "up" /\ pc[r] = "new" /\ s \in issued
  /\ \/ UNCHANGED states
     \/ Fails("redis") /\ states' = states \ {s}
  /\ Goto(r, "invalid")
  /\ UNCHANGED <<proc, place, mem, row, issued, minted, due, local, past>>

\* Mutant: the merchant is taken from the state parameter.
ExchangeForState(r) ==
  /\ pc[r] = "exchange"
  /\ Mint(r, state[r]) /\ Goto(r, "save")
  /\ spot' = [spot EXCEPT ![r] = place]
  /\ UNCHANGED <<proc, place, mem, row, csrf, due, merch, state, past>>

\* POST /oauth2/token with the code; the location is the configured one.
ExchangeCode(r) ==
  /\ pc[r] = "exchange"
  /\ \/ Mint(r, merch[r]) /\ Goto(r, "save") /\ spot' = [spot EXCEPT ![r] = place]
     \/ Fails("square") /\ Goto(r, "error") /\ UNCHANGED <<minted, held, spot>>
  /\ UNCHANGED <<proc, place, mem, row, csrf, due, merch, state, past>>

Store(r) ==
  /\ pc[r] = "save"
  /\ SaveToken(r, merch[r], "publish") /\ Overlap(r)
  /\ UNCHANGED <<proc, place, mem, csrf, minted, due, local>>

\* Mutant: the callback replaces the pair only, as a refresh does.
PublishPairOnly(r) ==
  /\ pc[r] = "publish"
  /\ mem' = [mem EXCEPT !.pair = held[r]] /\ Goto(r, "connected")
  /\ UNCHANGED <<proc, place, row, csrf, minted, due, local, past>>

\* Store takes the lock and replaces all five fields.
Publish(r) ==
  /\ pc[r] = "publish"
  /\ mem' = [pair |-> held[r], merchant |-> merch[r], location |-> spot[r]]
  /\ Goto(r, "connected")
  /\ UNCHANGED <<proc, place, row, csrf, minted, due, local, past>>
-----------------------------------------------------------------------------
(* AccessToken, on every call of the Square API *)

\* The background call of a registration may begin while the server drains.
AccessToken(r) ==
  /\ proc # "down" /\ pc[r] = "new"
  /\ held' = [held EXCEPT ![r] = mem.pair]
  /\ \/ mem.pair = NoPair /\ Goto(r, "none")
     \/ mem.pair \in Pair \ due /\ Goto(r, "token")
     \/ mem.pair \in due /\ Goto(r, "refresh")
  /\ UNCHANGED <<proc, place, mem, row, csrf, minted, due, merch, spot, state, past>>

\* refresh reads the refresh token, the merchant and the location under one RLock.
Refresh(r) ==
  /\ pc[r] = "refresh"
  /\ held' = [held EXCEPT ![r] = mem.pair] /\ merch' = [merch EXCEPT ![r] = mem.merchant]
  /\ spot' = [spot EXCEPT ![r] = mem.location]
  /\ Goto(r, "post") /\ Overlap(r)
  /\ UNCHANGED <<proc, place, mem, row, csrf, minted, due, state, saved, behind>>

\* Mutant: the new pair is in memory before it is saved.
RefreshPostKeeps(r) ==
  /\ pc[r] = "post"
  /\ Mint(r, held[r].owner) /\ Goto(r, "saveback")
  /\ mem' = [mem EXCEPT !.pair = held'[r]]
  /\ UNCHANGED <<proc, place, row, csrf, due, merch, spot, state, past>>

\* POST /oauth2/token with the refresh token, outside the lock.
RefreshPost(r) ==
  /\ pc[r] = "post"
  /\ \/ Mint(r, held[r].owner) /\ Goto(r, "saveback")
     \/ Fails("square") /\ Goto(r, "error") /\ UNCHANGED <<minted, held>>
  /\ UNCHANGED <<proc, place, mem, row, csrf, due, merch, spot, state, past>>

RefreshSave(r) ==
  /\ pc[r] = "saveback"
  /\ SaveToken(r, merch[r], "swap")
  /\ UNCHANGED <<proc, place, mem, csrf, minted, due, local, race>>

\* The lock again: the pair and its expiry are replaced, merchant and location stay.
RefreshSwap(r) ==
  /\ pc[r] = "swap"
  /\ mem' = [mem EXCEPT !.pair = held[r]] /\ Goto(r, "reread")
  /\ UNCHANGED <<proc, place, row, csrf, minted, due, local, past>>

\* AccessToken reads the cached token once more.
Reread(r) ==
  /\ pc[r] = "reread"
  /\ held' = [held EXCEPT ![r] = mem.pair] /\ Goto(r, "token")
  /\ UNCHANGED <<proc, place, mem, row, csrf, minted, due, merch, spot, state, past>>

\* A cached pair comes within tokenExpirySoon of its expiry.
Age ==
  /\ mem.pair \in Pair \ due /\ due' = due \cup {mem.pair}
  /\ UNCHANGED <<proc, place, mem, row, csrf, minted, pc, local, past>>
-----------------------------------------------------------------------------
(* The process *)

\* LoadToken: the row written last.
Loaded == IF newest = NoMerchant THEN Empty
          ELSE [pair |-> rows[newest], merchant |-> newest, location |-> where[newest]]

\* Mutant: ORDER BY updated_at without DESC.
StartWithOldest ==
  /\ proc = "down" /\ proc' = "up"
  /\ \/ /\ \A m \in Merchants \ {newest} : rows[m] = NoPair
        /\ mem' = Loaded
     \/ \E m \in Merchants \ {newest} :
          rows[m] # NoPair /\ mem' = [pair |-> rows[m], merchant |-> m, location |-> where[m]]
  /\ place' \in Locations
  /\ race' = (IF race = "open" THEN "past" ELSE race) /\ behind' = FALSE
  /\ UNCHANGED <<row, csrf, minted, due, pc, local, saved>>

\* NewTokenStore, before the server listens, whatever SQUARE_LOCATION_ID is set
\* to by then.  If the row cannot be loaded the process ends as it began.
Start ==
  /\ proc = "down" /\ proc' = "up" /\ place' \in Locations
  /\ mem' = Loaded
  /\ race' = (IF race = "open" THEN "past" ELSE race) /\ behind' = FALSE
  /\ UNCHANGED <<row, csrf, minted, due, pc, local, saved>>

\* SIGTERM: no new requests, those in flight have 15 seconds.
Shutdown ==
  /\ proc = "up" /\ proc' = "draining"
  /\ UNCHANGED <<place, mem, row, csrf, minted, due, pc, local, past>>

\* The process ends, after a drain that finished or timed out, or by a crash.
\* Nothing waits for the background call of a registration.  What its requests
\* had in their variables goes with it; a token that was given stays given.
Exit ==
  /\ proc = "draining" \/ (proc = "up" /\ Fails("crash"))
  /\ proc' = "down" /\ place' = NoLocation /\ mem' = Empty
  /\ pc' = [r \in Requests |-> IF pc[r] \in Ended \cup {"new"} THEN pc[r] ELSE "lost"]
  /\ held' = [r \in Requests |-> IF pc[r] = "token" THEN held[r] ELSE NoPair]
  /\ merch' = [r \in Requests |-> NoMerchant]
  /\ spot' = [r \in Requests |-> NoLocation]
  /\ UNCHANGED <<row, csrf, minted, due, state, past>>

Next ==
  \/ \E r \in Requests :
       \/ \E s \in States : Reject(r, s) \/ \E m \in Merchants : Callback(r, s, m)
       \/ ExchangeCode(r) \/ Store(r) \/ Publish(r)
       \/ AccessToken(r) \/ Refresh(r) \/ RefreshPost(r) \/ RefreshSave(r)
       \/ RefreshSwap(r) \/ Reread(r)
  \/ \E s \in States : Connect(s) \/ StateExpires(s)
  \/ Age \/ Start \/ Shutdown \/ Exit

Spec == Init /\ [][Next]_vars
-----------------------------------------------------------------------------
\* A state lets one callback through, however often Square's redirect arrives
\* and whatever Redis does: "atomically (prevents CSRF and replay)"
\* (squareoauth/service.go:77).
StateUsedOnce ==
  \A q, r \in Requests : state[q] = state[r] /\ state[q] # NoState => q = r

\* A token that a call was given, or that memory holds, has been in a row: no
\* pair is used that a crash at any later moment would lose, and a merchant
\* who was told "connected" is still connected after it.
UsedSaved ==
  /\ mem.pair # NoPair => mem.pair \in saved
  /\ \A r \in Requests : pc[r] = "token" => held[r] \in saved
  /\ (\E r \in Requests : pc[r] = "connected") => newest # NoMerchant

\* When no write is under way, none began beside another since the process
\* started and no answer was lost, a restart would load exactly what memory
\* holds: lock and row, never held together, agree.  The location may differ in
\* one way: the row has the one it was inserted with, memory the one configured
\* now, if the merchant was connected again under another configuration.
RestartNeutral ==
  /\ proc # "down" /\ race # "open" /\ ~behind
  /\ \A r \in Requests : ~Writing(r)
  => mem \in {Loaded, [Loaded EXCEPT !.location = place]}

\* As long as no write ever began beside another, a merchant's row holds a pair
\* of that merchant, whichever merchants are connected in turn.  (A callback for
\* another merchant during a refresh breaks it: see the README.)
RowOfItsMerchant ==
  race = "none" => \A m \in Merchants : rows[m] # NoPair => rows[m].owner = m

\* "It is safe for concurrent use" (oauth.go:45): every row, also after calls
\* that ran beside each other, holds a pair of its own merchant.
PairOfItsMerchant == \A m \in Merchants : rows[m] # NoPair => rows[m].owner = m
=============================================================================
