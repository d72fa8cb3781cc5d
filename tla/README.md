# Whisked platform: TLA+ models, checks and proofs

The Go service under `src/` is the backend of a café: customer accounts, a loyalty program
("steeps" that buy free drinks), behavioural analytics, and integrations with Shopify and Square.
It is one stateless process, possibly in several replicas, in front of PostgreSQL and Redis.
Almost everything that is hard about it lies between two calls to those stores: handlers of
concurrent requests interleave there, and a call can fail, be cancelled with its client, lose its
answer, or never return because the process died.

The modules therefore take one step per call to a store. A request is a process with a program
counter; the stores are the shared state; failures are explicit.

## Inventory

| Component | State | Operations | Talks to |
|---|---|---|---|
| Loyalty (`internal/domain/loyalty`) | `loyalty_events` (append-only, `idempotency_key` unique); in Redis the idempotency markers, the redemption locks, the QR tokens | stamp, redeem, issue a QR token, scan it, Shopify `orders/paid`, Square `payment.completed`, balance, history | audit log, customers |
| HMAC signing (`middleware/hmac.go`) | `whisked:nonce:<nonce>` | check age, record nonce, verify | in front of stamp and redeem |
| Accounts (`internal/domain/auth`) | `customers`, `customer_credentials`; `whisked:refresh:<jti>` | register (with a goroutine that creates a Square customer), login, refresh, logout | Square client, audit log |
| Customer profiles (`internal/domain/customers`) | `customers` | read, rename, delete | refused by the foreign keys of the event tables |
| Analytics (`internal/domain/analytics`) | `anonymous_visitors`, `analytic_events` | ingest an event, identify a visitor | customers |
| Square OAuth (`integrations/square/oauth.go`, `internal/domain/squareoauth`) | one token row per merchant, a cached pair behind an RWMutex, CSRF states in Redis | connect, callback, access token and its refresh, reload at start-up | Square API |
| Rate limiting (`middleware/ratelimit.go`) | one counter per address and minute | count a request | in front of every route |
| Staff authentication (`dashboard/auth.go`, `middleware/require_staff_auth.go`) | staff rows, refresh tokens nobody reads | login, admit a request | in front of the dashboard |
| Staff dashboard (`internal/domain/dashboard`) | none of its own | overview, loyalty summary, funnel, the feed, the list of customers | every table, read-only |
| Audit log (`internal/audit`) | `audit_log` (append-only) | best-effort write | called by all |
| Plumbing | none | configuration, telemetry, headers, errors, start-up and shutdown, password hashing | |

What is hard: redemptions that count and then insert at READ COMMITTED; a Redis lock without an
owner; markers set before the row they stand for; clean-up that runs on a context that may be
cancelled; go-redis sending a `SET NX` again when the answer is lost and meeting its own key; commits
whose answer is lost; check-then-act on refresh tokens and on visitor links; a nonce whose lifetime
must cover two clocks; a customer deleted under a running request; a token pair that is saved before
the lock is taken and cached after it; clean-up and revocation lost with a client that leaves; a counter whose `EXPIRE` is a command of its own; reports and
pages read by several statements while the tables change. `PROJECT.json` lists each of them
with its line and the property that would catch it.

What makes each component correct:

* loyalty: a key is credited at most once, no customer redeems more than was earned, a request ends
  and leaves no lock behind, "already processed" and audit entries tell the truth;
* signing: a signed message reaches its handler once;
* accounts: a refresh token that was spent by a client that stayed is spent for good, "conflict" is said only of an address in use, no row
  refers to a customer who is gone;
* visitors: a link is permanent, an event never lacks its visitor, an answered identify has linked;
* Square tokens: a CSRF state lets one callback through, a pair is saved before it is used, a restart
  loads the pair and the merchant that memory held, a row holds a pair of its own merchant;
* rate limiting: no more than the limit pass in a window, and nobody is refused on account of another
  window;
* staff: a deactivated member is kept out within a bounded time, and only staff get in;
* reports: a chart lacks nothing of its window that the total beside it counts, no event is lost to a join,
  a client that pages sees what was there.

## Modules

| Module | Contents |
|---|---|
| `LoyaltyLedger` | the abstract specification: an append-only ledger with `Credit` and `Redeem` |
| `Loyalty` | the handlers; refines `LoyaltyLedger` through `Ledger == INSTANCE LoyaltyLedger WITH RowIds <- Requests` |
| `LoyaltyRaces` | `Loyalty` with a history variable: how many redemptions of a customer decided at once |
| `LoyaltyLedgerProofs`, `LoyaltyProofs` | proofs about the ledger, with the counting lemmas, and about the handlers |
| `HmacNonce`, `HmacNonceProofs` | the signing middleware over a clock |
| `Accounts`, `AccountsProofs` | registration, tokens, deletion |
| `VisitorLog` | the abstract specification of analytics: links written once, an event log that only grows |
| `Visitors`, `VisitorsProofs` | ingestion and identification; refines `VisitorLog` through `Log == INSTANCE VisitorLog WITH Ids <- Requests` |
| `SquareTokens`, `SquareTokensProofs` | the connected merchant's token pair in memory and in its row |
| `RateLimit`, `RateLimitProofs` | the fixed-window counters |
| `StaffAuth` | staff logins and the boundary in front of the dashboard |
| `Dashboard`, `DashboardProofs` | the loyalty summary, the feed and paged lists over changing tables |
| `Middleware`, `AccountsStore`, `VisitorsReports` | sums of the modules that meet in a request's path |
| `MCLoyalty`, `MCLoyaltyRaces`, `MCMiddleware`, `MCAccounts`, `MCVisitors`, `MCSquareTokens` | model values and symmetry for TLC |

`Middleware` is the sum of `HmacNonce`, `RateLimit` and `StaffAuth`, `AccountsStore` that of `Accounts` and
`SquareTokens`, `VisitorsReports` that of `Visitors` and `Dashboard`. In a behaviour of `SumSpec` one part
moves and the others stay in their initial states. The parts share no variable, and each takes as free
what the other does to it: the limiter and the staff boundary take the arrival of a request as free,
`SquareTokens` the time of a call of Square, `Dashboard` the writes to the
tables it reads. A product would therefore reach nothing that a part does not reach alone,
and every property speaks of one part. That a sum implements each of its parts is proved
(`NonceImplements`, `LimiterImplements`, `BoundaryImplements`, `AccountsImplement`, `StoreImplements`,
`VisitorsImplement`, `ReportsImplement`), so what is proved
of a part holds in the sum that TLC runs.

An operator introduced by a comment `Mutant: ...` is not part of a specification. It is the definition
that follows it with one plausible mistake; the entry of `PROJECT.json` names the property that TLC
finds violated when it takes that definition's place.

### Loyalty

`rows` is the table, `marker`, `lock` and `qr` the Redis keys, `audited` the keys with an audit entry.
Per request: `pc`, `cust`, `key`, `owns` (the deferred `Del` of the lock is pending), `seen` (the
counts read in its transaction), `reply`, and membership in `gone` (its context is cancelled).

| Code | Actions, in the order a request takes them |
|---|---|
| `Earn` (service.go:45-92) | `Stamp`/`Webhook`/`StampPageCustomer` → `EarnSetNX` → `EarnInsert` → `Audit` → `Balance`; on an insert error `EarnUndo` |
| `Redeem` (service.go:97-125), `redeemInTransaction` | `Redeem` → `RedeemLock` → `RedeemCount` → `RedeemCommit` → `Audit` → `Balance` → `RedeemUnlock`; every exit of a lock holder passes `RedeemUnlock` |
| `IssueStampToken`, `StampViaToken` (qr.go, service.go:190-220) | `IssueStampToken`; `StampViaToken` → `StampPageCustomer` → Earn |
| webhooks (shopify.go, square.go) | `OrderPaid`, `PaymentCompleted`, both through `Webhook` |
| TTLs, failures | `MarkerExpires`, `TokenExpires`, `LockExpires`, `ClientGone`, `Crash` |

`Earn` refuses every key that is not a UUID (service.go:49), and the scan and the webhooks build keys
that are not. So their path ends at `EarnEntry`, and what the code would do after a successful earn of
theirs (the scan's second audit entry) is unreachable and not modelled. The webhooks' own audit
entries, signature checks and malformed bodies change nothing the properties speak of. `steeps` rows of
type `bonus_earned` and `adjustment` exist only in the schema. Balance and history routes only read.

`Faults` selects what can go wrong: `db` (a statement fails, or succeeds and its answer is lost),
`redis` (the same, with go-redis's retry), `cancel` (the client goes away, after which every call the
request makes fails), `crash`, and `expiry` (a redemption outlives its 30 second lock).

`LoyaltyRaces` adds `crowd`, the most redemptions of each customer that have stood between their count
and their commit at once. With the lock at work it stays at one; without it, it measures what is lost:
`OverRedemptionBounded` says that a customer redeems at most `crowd - 1` rewards too many, however long
the races go on.

### HmacNonce

Time is a counter. A message is signed with the client's clock, at most `MaxSkew` off; a delivery takes
`CheckAge`, `SetNonce`, `Verify`, in the code's order; `MaxDelay` bounds the time from the age check to
the `SET`. A delivery may be intact or damaged, which is the choice in `Verify`; malformed headers are
refused before any state changes and are left out.

### Accounts

An account is named by the request that registered it, a token pair by the request that issued it.
`customers`/`erased` are the rows and the ids that were deleted, `history` the ids some event row
refers to, `refresh` and `revoked` the Redis keys, `gone` the requests whose client went away while they
were in flight. Every action is one store call of the handler named in the comment above it.

Every call runs on the request's context, so `ClientGone` makes the rest of a request fail: `DbFails` and
`RedisFails` say which failures a request may meet. A registration or a deletion then ends with an error,
but the `DEL` of `Rotate` (service.go:184) and of `Revoke` (219) drop theirs: a refresh whose client left
goes on to store its new token (and fails), a logout answers 204, and the old token is still in Redis.
`SpentTokenDead` and `LateRefreshRefused` are therefore stated for requests whose client stayed. A request
that was answered with a new pair is one.

Nothing in the program writes the `revoked` set, so no action of the model does; `RequireAuth` still reads
it. Access tokens are not expired by the model: an expired token would only make a route refuse. Audit
entries are left out, and so is the goroutine of a registration that creates a Square customer and writes
its id into a column: only the lookup of the Square webhook reads that column. Its call of `AccessToken` is
one of those that `SquareTokens` models.

### Visitors

`link` is the table of visitors (absent, unlinked, or linked to a customer), `events` the event log.
A request comes with a visitor id (possibly not a UUID, possibly none) and a customer (or nobody, which
is what `OptionalAuth` leaves of a missing or bad token). Ingestion requires a UUID; identification
takes any non-empty string, as the handler does. An event is of type visitor.identified or another, and
`by` says who made it: `knownEventTypes` holds visitor.identified too, so a client may send one for a visitor
who is linked to nobody. What is promised of that type is promised of the event that `LinkVisitor` fires. `VisitorLog` keeps the two tables and drops the requests:
a row is met before it is linked, linked once, and an event comes once from a request, is somebody's, and
follows the row it is about; one of the server's follows the link. `last_seen` and the payload are left out, and customers
are not deleted here: `Accounts` has that race.

### SquareTokens

`mem` is the `TokenStore`, `rows` and `where` the pairs and the `location_id`s of the table, `newest` the merchant
`LoadToken` would find, `place` the location the running process is configured with. A pair carries the
merchant that Square made it for, which the program cannot see and which is what the properties are
about. Per request: `pc`, `held` (the pair it has read or was given), `merch` and `spot` (the merchant and the location it goes with),
`state` (what its callback consumed). `saved`, `race` and `behind` are history: every pair that was in a row,
whether a write began beside another one, whether a row was written and its answer lost.

| Code | Actions |
|---|---|
| `AuthorizationURL` (service.go:53) | `Connect` |
| `HandleCallback`, `ExchangeCode`, `Store` | `Callback` or `Reject` → `ExchangeCode` → `Store` (the row) → `Publish` (the lock) |
| `AccessToken`, `refresh` (oauth.go:73-194) | `AccessToken` → `Refresh` (the read under RLock) → `RefreshPost` → `RefreshSave` → `RefreshSwap` → `Reread` |
| `reload`, SIGTERM, the end of the process | `Start`, `Shutdown`, `Exit` |

A request in flight may still call `AccessToken` while the server drains, because the goroutine of a
registration is waited for by nobody.

The location is not Square's: a callback takes `SQUARE_LOCATION_ID`, which every start of the process may find
changed. The upsert (service.go:129) does not set it in a row that is there, `Publish` sets it in memory. So a
merchant who is connected again under another configuration has one location in memory and another in the
row, and `RestartNeutral` says that this is the only way in which a restart changes what memory held.

### RateLimit

A request reads the clock (`Arrive`), is counted (`Incr`), and the first of its window sets the expiry
(`Expire`). `Incr` may be carried out twice, when go-redis sends it again, or its answer may be lost, and
then the request passes. `count` and `ttl` are the keys in Redis, `rank` what a request's `INCR`
returned, `sends` how often it was carried out. `LimitDelay` bounds the time between reading the clock and
the `INCR`. Only the per-address branch is modelled: the middleware runs before any that authenticates.

### StaffAuth

A login reads the account (`LookUp`), verifies the password and signs two tokens (`Issue`); a route checks
type and expiry (`RequireStaffAuth`) and the revocation set (`CheckRevoked`), which nothing writes. Logins and
reads go on while an operator deactivates the account. Customers' tokens are presented too.

### Dashboard

One step per statement. `first` and `seen` are what the statements of a report returned, or what a list
held when a client began and what its pages have shown. `Write` inserts any steep or redemption, in any order,
so nothing here rests on the ledger's rules; `Leave` is restricted by the foreign key of the ledger. Ids stand
for `created_at`: a row may appear behind a newer one, as it does when its transaction began earlier; two
rows of one instant, whose order is PostgreSQL's choice from page to page, are not modelled.

The loyalty summary reads the totals (all time) and then the steeps by day, of a window that the client's `days`
and the second statement's clock determine: `since` is any point of the order. `SummaryKeepsUp` compares the two
within the window. The history route of `loyalty` pages in the same way as the list of customers and is
modelled here. `WalkComplete` is about sizes that the service accepts; a client that asks for more than 100 gets
25 or 20, and takes that for the last page.

Overview and funnel are left out. Each is one statement, whose numbers are of one snapshot, and no relation
between them is promised that the code could break on its way: the redemption rate (service.go:108-111)
may exceed one when Redis was down, because the ledger may be over-redeemed then (`loyalty_outage`).

## Runs

| Run | Shows | Instance | Distinct states |
|---|---|---|---|
| `loyalty_redeem` | `NoOverRedemption`, `RedemptionsExclusive`, `MarkerBacked`, `AckedUnlessFailed`, `LockExplained` | 4 requests, 1 customer, 2 ids, 2 readings of the clock, 2 steeps a reward, faults db, crash | 581,151 |
| `loyalty_faults` | `TypeOK`, `OneRowPerKey`, `AuditTruthful`, `TokenScannedOnce` of `Loyalty`, `OverRedemptionBounded` of `LoyaltyRaces` | 3 requests, 2 customers, 1 id, 2 readings of the clock, 1 steep a reward, all faults | 1.88 million |
| `loyalty_live` | `LedgerSpec` (refinement), `RequestAnswered`, `LockFreed` | 2 requests, faults db, cancel, crash, under `FairSpec` | 24,313 |
| `hmac` | `SumTypeOK` (the types of all three); `HandledOnce`, `NonceOutlivesWindow` of `HmacNonce`; `LimitKept`, `BurstBounded`, `NoLockout` of `RateLimit`; `StaffBounded` of `StaffAuth` | 3 deliveries of 1 message, window 3, TTL 6, skew 1, delay 1, horizon 10; 3 requests of 2 addresses, window 2, limit 1, delay 2, horizon 6; 2 logins and 2 reads of 1 member, tokens of 2 and 5 ticks, delay 1, horizon 6 | 644,725 |
| `accounts` | `SumTypeOK` (the types of both); `SpentTokenDead`, `LateRefreshRefused`, `ConflictTruthful`, `HistoryOwned` of `Accounts`; `StateUsedOnce`, `UsedSaved`, `RestartNeutral`, `RowOfItsMerchant` of `SquareTokens` | 4 requests, 2 addresses, faults db, cancel, crash; 4 requests, 2 merchants, 2 states, 2 locations, 3 pairs, all faults | 1.45 million |
| `visitors` | `SumTypeOK` (the types of both); `EventVisitorKnown`, `AckedLinked`, `LinkPermanent`, `VisitorLogSpec` (refinement) of `Visitors`; `SummaryKeepsUp`, `FeedFull`, `WalkComplete` of `Dashboard` | 3 requests, 2 customers, 2 visitor ids, faults db, crash; 1 read, 2 customers, 3 ledger rows, pages of 1 and at most 2, sizes 0 to 3 asked for | 248,351 |
| `loyalty_outage` | `NoOverRedemption` is violated | Redis failing | |
| `loyalty_webhook` | `PrefixedKeyCredited` is violated | no fault | |
| `loyalty_cancel` | `AckedStampRecorded` is violated | cancelled clients | |
| `accounts_refresh` | `RefreshedOnce` is violated | no fault | |
| `visitors_identify` | `IdentifiedTruthful` is violated | no fault | |
| `square_race` | `PairOfItsMerchant` is violated | no fault, 2 merchants, 4 pairs | |

Bounds. To over-redeem takes two redemptions and the stamps that pay for one of them: two steeps of two
requests at two steeps a reward, hence four requests. A redemption's key holds a reading of the clock;
with two readings the keys can differ, so the UNIQUE constraint does not hide a broken lock. The faults
run needs two requests on one key and a third to disturb them; one steep a reward makes a reward
reachable within three, and two readings of the clock let two redemptions commit beside each other, so
that `crowd` reaches two and one reward too many is redeemed. One message is enough for the nonce, since messages share no state; three
deliveries let one record the nonce, one find it, one come after it expired, and the horizon of ten
ticks outlasts the TTL. In `Accounts` a registration, two uses of its token and a deletion or a second
registration fit in four requests, and any of them may lose its client. In `Visitors` two identifies and an event fit in three. Two
merchants, three pairs and four requests let a callback and a refresh overlap, a restart choose between two
rows, and a later call use what they left; two locations let a merchant be connected under either. For the limiter the limit is one, so two requests of an address are one
too many and a third belongs to the next window or to the other address; the horizon of six is three
windows, in which a key is made, expires and is made again. One read suffices for the reports, which do not see each
other; three rows are more than one largest page, and let one appear before, in and behind a window. The 9 steeps
of a reward, the 60 requests of a minute, the 5 and 10 minutes of the signing window and the other TTLs appear as small constants or
as "may expire at any time".

`CHECK_DEADLOCK FALSE`: each model has a fixed number of requests (or a last tick), and when all of them
are answered nothing is left to do.

Fairness. `FairSpec` asks weak fairness of `Proceed(h)`, the next step of a handler that has started,
and of `LockExpires`. The first is the Go scheduler running a goroutine whose calls return: the pool and
the Redis client have timeouts, and a call that fails is a step too. The second is Redis honouring
the TTL of the lock. Nothing is asked of arrivals, cancellations or crashes. `loyalty_live` is the only
run of a fair specification, and has no symmetry, which liveness would not allow.

## What the violations show

1. `loyalty_outage`: with Redis down, two redemptions both count the last reward and both commit. The
   transaction is READ COMMITTED and locks nothing, so it is not the "backstop" of service.go:96.
   The same happens when a redemption outlives its lock. How far it can go is bounded: with n
   redemptions deciding at once, by n - 1 rewards (`OverRedemptionBounded`, `RacesBounded`).
2. `loyalty_webhook`: service.go:49 refuses the keys built at 163, 201 and 235, so webhooks and QR scans
   credit nothing, and the scan has consumed its token by then.
3. `loyalty_cancel`: a client that leaves between marker and insert leaves the marker behind, because the
   `Del` of service.go:78 uses the cancelled context. For 24 hours a retry is answered 200 without a
   steep. A duplicate that arrives while the first attempt is in flight can be answered the same way.
4. `accounts_refresh`: two refreshes with one token both pass `EXISTS` before either `DEL`. Nothing but such an
   overlap does it: one that begins later is refused (`LateRefreshRefused`).
5. `visitors_identify`: of two customers who identify as one visitor at the same time both get a
   `visitor.identified` event from the server.
6. `square_race`: `refresh` replaces the cached tokens and leaves the merchant it read before its call to
   Square. If a callback has stored another merchant's pair in between, memory has one merchant's tokens
   beside the other's id, and the next refresh saves them in the wrong row. `RowOfItsMerchant` says that
   it takes two overlapping writes to come to that.

Other places where text and code differ, seen while modelling and not given a run:

* `docs/THREAT_MODEL.md:41` has a duplicate stamp answered 409; `Earn` answers 200.
* `internal/domain/customers/service.go:111` calls `Delete` a permanent removal of "a customer and
  their data"; the foreign keys of the event tables have no cascade and their triggers refuse deletion, so
  a customer with any history cannot be deleted. The refresh tokens of one who was stay in Redis, and
  `Refresh` exchanges them without looking at the customer.
* `require_auth.go:49` says a logged-out token's jti is in the revocation set; nothing writes it.
* `000001_initial.up.sql:76` says an event has a customer or a visitor, "never both"; `ingest` and
  `LinkVisitor` write both.
* `squareoauth/service.go:129` does not update `location_id` on conflict, `db/queries/square_oauth.sql:9`
  does. After a reconnect under another `SQUARE_LOCATION_ID` a restart loads the old one.
* `auth/service.go:204` says that a logout revokes the refresh token, "preventing future token refreshes", and
  154 that the old one "is revoked on use". When the client is gone before the `DEL`, neither happens, and
  no error is seen.
* `analytics/types.go:46` accepts visitor.identified from clients, also for a visitor who is linked to nobody,
  although service.go:71 makes it the server's event "on first successful link".
* `dashboard/service.go:160-164` puts totals of all time beside in-bar and Shopify counts that are of the
  chart's window; they do not add up to it once a steep is older.
* `hmac.go:25` asks that the nonce TTL exceed the maximum age. That is not enough: a client whose clock
  is five minutes ahead signs messages that pass for ten, exactly the TTL. `WindowCovered` is the
  condition under which the promise is proved; without it a message is handled at most
  `1 + Span \div NonceTTL` times (`HandledSeldom`), which with the code's times is twice.
* `ratelimit.go:54-60` and `README.md:89` have limits per user, but the middleware runs before
  authentication, so only the per-address branch is taken.
* `docs/THREAT_MODEL.md:70` says 60 requests a minute; windows are fixed, so up to twice as many pass in
  a minute that straddles two of them. `LimitKept` is stated for the window, `BurstBounded` for any
  interval of a window's length, with twice the limit.
* `ratelimit.go:88` says that counters expire by themselves. One whose `EXPIRE` failed, or whose first `INCR` was sent twice, never
  does; `NoLockout` shows that it shuts nobody out, because its key names the window.
* `dashboard/types.go:86` flags a small sample at any stage of the funnel; the code looks at visitors
  and customers only.
* `dashboard/types.go:5` and `dashboard/service.go:100` say that every read is audited; the entry is best
  effort. `docs/THREAT_MODEL.md:28` says that dashboard access is logged with its query parameters; the
  entry holds the actor and the time.

## Proofs

All by TLAPS, for any number of requests, customers, keys, visitors and any constants that meet the
named assumptions.

| Theorem | From | Argument |
|---|---|---|
| `LoyaltyLedgerProofs!LedgerSafe` | a reward costs a steep | `NoOverRedemption` is inductive once the rows are finite; one row more adds one to one count (`CountAppend`) and division is monotone |
| `LoyaltyProofs!TypeCorrect` | nothing | one step per action |
| `LoyaltyProofs!KeysUnique` (`OneRowPerKey`) | nothing: any fault | only `Append` adds rows, and it asks that the key is new |
| `LoyaltyProofs!LockSafe`, `Exclusive` (`RedemptionsExclusive`) | `RedisReliable` | `LockInv`: a pending deferred `Del` means the lock is there and is the only one for its customer; `HoldInv`: nobody whose client is still there decides without it |
| `LoyaltyProofs!Implements` (`LedgerSpec`) | `RedisReliable` | `SeenInv`: what a redemption read still justifies it when it commits, because only a lock holder adds redemptions and steeps only grow |
| `LoyaltyProofs!NeverOverRedeemed` (`NoOverRedemption`) | `RedisReliable` | `Implements` and the ledger's own theorem |
| `LoyaltyProofs!LocksExplained` (`LockExplained`) | Redis not failing | `LeftInv`: a lock's request still owes its `Del`, or was interrupted; a `Del` by one that outlived its lock only takes locks away |
| `LoyaltyProofs!SuccessHonest` (`AckedUnlessFailed`) | Redis not failing | `AckInv`, over `MarkInv`: a request that is past its insert, or found a marker, has a row or an explained attempt at its key, and `ExplanationStays` keeps that through every step |
| `LoyaltyProofs!StepsDown` | nothing: any fault | `Left` counts the calls a request still makes; every step that moves it lowers the count |
| `LoyaltyProofs!CrowdSafe`, `RacesBounded` (`OverRedemptionBounded`) | nothing: any fault | `CrowdInv`: rewards redeemed and those about to be exceed what was earned by at most `crowd - 1`; a redemption that goes on found a reward to spare (`CountTypes`, `CrowdStep`), one that commits was among the open ones (`FewerOpen`) |
| `HmacNonceProofs!WindowSafe`, `PassesApart`, `HandledSeldom` | a TTL that is not zero, for the last | what passes the age check is at most `Ahead` of the clock and `MaxAge` behind it; two deliveries that pass are a TTL apart, because the second found the nonce gone, and all of them lie within `Span` |
| `HmacNonceProofs!NonceSafe`, `MessageHandledOnce`, `WindowKept` | `WindowCovered` | the first delivery set the nonce no earlier than `stamp - Ahead`, and the last attempt comes by `stamp + MaxAge + MaxDelay` |
| `AccountsProofs!AccountTypes`, `IntegritySafe` (`HistoryOwned`) | nothing: any fault | insert and delete each look at the other's table in one statement |
| `AccountsProofs!SpentSafe` (`SpentTokenDead`) | Redis not failing; the client of the use stayed, others may leave | a `DEL` whose client is there takes effect, and `PresentedInv`: a presented token was issued by a request that has answered, so nothing stores it again |
| `AccountsProofs!LateRefused` (`LateRefreshRefused`) | the same | only `Refresh` makes a request one that refreshes (`RefreshBegins`), and it finds a spent token gone |
| `VisitorsProofs!Permanent` (`LinkPermanent`) | nothing: any fault | `LinkGrows`: no step changes a link that is set |
| `VisitorsProofs!EventsKnown`, `IdentifyLinks` (`EventVisitorKnown`, `AckedLinked`) | nothing: any fault | `VisitorInv`: a request's visitor has a row from its upsert on and a customer from its UPDATE on, and `LinkGrows` keeps both through everybody else's steps |
| `VisitorsProofs!LogSafe`, `ImplementsLog` (`VisitorLogSpec`) | nothing: any fault | each statement is a step of the log or leaves it alone (`UpsertMeets`, `InsertRecords`), whatever type the event of a client has; `LogInv`: only a request that has ended has an event; `VisitorInv`: the server's follows a link |
| `LoyaltyProofs!HandlerTypes`, `AuditsTrue`, `ScansExclusive` (`TypeOK`, `AuditTruthful`, `TokenScannedOnce`) | nothing: any fault | an entry is written by a request whose key is on the ledger (`AuditInv`), and rows stay; a scanned token is gone, and its issuer has answered (`ScanInv`) |
| `LoyaltyProofs!MarkersBacked` (`MarkerBacked`) | Redis not failing | a marker comes from a request at its insert, which leaves a row, takes the marker back, or is interrupted |
| `AccountsProofs!ConflictsTrue` (`ConflictTruthful`) | nothing: any fault | an account has the id of the registration that inserted it, so a conflict is with another one |
| `RateLimitProofs!LimiterTypes`, `RanksApart`, `LimitSafe` (`LimitKept`) | `WindowAssumption`; the last two also `DelayCovered` | counted requests of a window have different ranks as long as its key stays, and a passed one has a rank of at most `Limit` |
| `RateLimitProofs!BurstSafe` (`BurstBounded`) | the same | an interval as long as a window meets two windows at most (`TwoBuckets`), and each lets `Limit` through (`PassedFew`) |
| `RateLimitProofs!CountsTruthful`, `NobodyLockedOut` (`NoLockout`) | `WindowAssumption`, finitely many requests | a counter never exceeds the commands sent for its window, so a rank above the limit counts that many |
| `HmacNonceProofs!StaffTypes`, `TokensShort`, `BoundaryKept` (`StaffBounded`) | `StaffAssumption` | a pair is signed at most `LoginDelay` after its account was seen active, so it does not outlive a deactivation by more than that and its own life |
| `SquareTokensProofs!StoreSafe`, `SavedFirst` (`UsedSaved`) | `SquareAssumption` | every writer saves before it publishes, and only a pair that was saved gets into memory |
| `SquareTokensProofs!StateOnce` (`StateUsedOnce`) | `SquareAssumption` | a state that a callback carries is issued and gone, and is not issued again |
| `SquareTokensProofs!RestartSafe` (`RestartNeutral`) | `SquareAssumption` | `RestartInv`: without overlap there is one writer, and memory is what a restart loads, up to the location configured now, or lacks that writer's row |
| `SquareTokensProofs!RowsOwned` (`RowOfItsMerchant`) | `SquareAssumption` | `RowInv`: what a request carries for a merchant is that merchant's, as long as memory cannot change under a refresh |
| `DashboardProofs!TablesKept` | `DashboardAssumption` | the tables stay finite, ids stay unique, and every row's customer is there |
| `DashboardProofs!SummaryComplete` (`SummaryKeepsUp`) | `DashboardAssumption` | rows stay, so what the second statement reads of its window includes what the first one did, whichever window it is |
| `DashboardProofs!FeedSafe` (`FeedFull`) | `DashboardAssumption` | `PageSize`: places in a finite list are the numbers below its length (`RankBijective`); the join drops nothing because every row's customer is there |
| `DashboardProofs!WalkSafe` (`WalkComplete`) | `DashboardAssumption` | entries only move back unless a customer is deleted (`RankGrows`), so one not yet shown is at or after the next offset; a short page is the last (`ShortPageIsLast`) |

The theorems about `RateLimit`, `SquareTokens` and `Dashboard` are carried into the sums as `LimiterTyped`,
`LimiterKept`, `LimiterBursts`, `LimiterFair` (`HmacNonceProofs`), `StoreTyped`, `StoreStateOnce`, `StoreSavedFirst`,
`StoreRestartSafe`, `StoreRowsOwned` (`AccountsProofs`) and `ReportsTyped`, `SummaryWhole`,
`FeedWhole`, `WalkWhole` (`VisitorsProofs`). `SumTyped` in each of the three puts the types of
the parts together.

`WindowAssumption`, `DelayCovered`, `StaffAssumption`, `SquareAssumption` and `DashboardAssumption` say
what the constants are. The sum modules assume them by name (`LimiterAssumption`, `LimiterDelayAssumption`,
`BoundaryAssumption`, `StoreAssumption`, `ReportsAssumption`), and TLC evaluates them there.
`DelayCovered` asks that an `INCR` reach Redis within one window of the reading of the clock;
the key lives for two, so it cannot be counted anew. `DashboardAssumption` has finitely many
customers and no bound on them.

`RedisReliable` is the absence of the `redis` and `expiry` faults. Both are needed: `loyalty_outage` is the
counterexample without the first, and without the second a redemption that outlives its lock deletes
its successor's. Cancelled clients, database failures and crashes are allowed.

Only model-checked: `RequestAnswered` and `LockFreed`, because liveness under fairness is beyond the
prover. `StepsDown` proves what `RequestAnswered` needs besides fairness: a step of a handler always
brings it nearer to its end, and no step of another sets it back.

## Not modelled, and why

* The per-user limits of the rate limiter, which no route reaches, and the staff refresh tokens in Redis,
  which no route reads.
* The goroutine that creates a Square customer, and the Square API client: see Accounts.
* The overview and the funnel of the dashboard: see Dashboard.
* Cryptography and formats (Argon2id, JWT, HMAC digests, JSON): pure functions; the models keep only
  whether they accept.
* Configuration, start-up, telemetry, logging, header middleware: no state that requests share.
* `customers.Create` and `LinkAnonymousVisitor`: no route reaches them. Renaming a profile is one
  UPDATE of one column.

## Plan

Done, in this order: loyalty with its abstract ledger, signing, accounts, visitors; the Square token store,
the rate limiter, the staff boundary and the reports; their invariants, refinements and proofs; what
still holds when an assumption fails (`RacesBounded`, `HandledSeldom`).

Next:

1. Composition of `HmacNonce` with `Loyalty`: a client that retries a stamp signs again with a fresh nonce
   and the same key.
2. Liveness of the token store: a pair that is due is refreshed by a later call if Square answers.
