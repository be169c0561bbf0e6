# Verification of dashtam-api

TLA+ models of the Dashtam API (`src/src`), checked with TLC on small instances
and proved with TLAPS for every value of their constants. Paths below are
relative to the repository, whose Python package is itself called `src`.

## 1. The system

Dashtam is a FastAPI service that aggregates financial accounts. It is
hexagonal: routers (`src/presentation`) call command and query handlers
(`src/application`), which use domain entities (`src/domain`) and adapters for
PostgreSQL and Redis (`src/infrastructure`).

Four facts about it decide what can go wrong and shape every model here.

* Every HTTP request is a coroutine. At each `await` any other request may run,
  in the same process or in another one; nothing is locked.
* Nearly every repository method commits on its own. A handler that calls three
  of them is three transactions, and it may die between any two (the worker is
  killed, or the client disconnects and the coroutine is cancelled). The
  exception is the holding repository, which only flushes.
* The isolation level is READ COMMITTED and no query says FOR UPDATE. A handler
  reads a row into an entity, changes the entity, and a repository method
  selects the row once more and writes the columns that differ.
* Redis is best effort. Every call may fail; a failure is logged, a failed read
  counts as a miss, and the handler reports success.

### Components

| Component | State | Operations | Interacts with | What is hard |
|---|---|---|---|---|
| Refresh tokens and breach rotation | `refresh_tokens`, `security_config`, `users.min_token_version`, Redis `security:global_version` | generate, refresh (rotate), global rotation, user rotation, logout, revocation by password reset | sessions (a token belongs to one), accounts (a reset revokes tokens) | two refreshes of one token, a crash between delete and save, stale cache fills, grace-period boundaries, overlapping rotations |
| Sessions | `sessions`, Redis `session:{id}`, Redis index `user:{id}:sessions` | create with eviction, revoke, revoke all, every reader that fills the cache, expiry | tokens, the authentication dependency of every route | check-then-act on the limit, two stores that disagree, an index with lost updates, stale fills |
| User accounts | `users`, `email_verification_tokens`, `password_reset_tokens` | register, verify, log in with lockout, request and confirm a reset | tokens (revoked by a reset) | whole-row writes of stale entities, counters without a lock, one-time tokens used in several commits |
| Rate limiting | one token bucket per endpoint and identifier in Redis, the cached SHA of a Lua script | check and consume, expiry, fail-open | middleware of every route | time stamps out of order, script lost by Redis, truncated Retry-After, key expiry |
| Provider connections, OAuth | `provider_connections`, Redis OAuth state, connection cache | connect, disconnect, refresh credentials, callback | synchronisation, import | stale whole-row writes over a terminal state, one-time state read and deleted in two calls, a cached view nobody invalidates |
| Synchronisation and import | `accounts`, `transactions`, `holdings` | sync accounts, transactions, holdings; import a file | provider clients, connections | find-then-insert by overlapping syncs, flushes committed by somebody else's commit, errors of items that are swallowed, rows of which no entity can be made |
| Accounts, holdings, transactions, snapshots | their tables | queries; written by synchronisation | synchronisation | uniqueness |
| Event bus, event handlers | subscribed handlers; Redis `portfolio:networth:{user}` | publish; recalculate the net worth | every handler; audit, logging, e-mail, SSE | commits announced later or never; read, compare and write of the cached net worth by overlapping events |
| Server-sent events | Redis channel and replay stream per user | publish, subscribe, replay after reconnection | event bus | publish and append are two calls, each sent again when its reply is late; replay before subscription, trimming, fail-open |
| Audit trail | `audit_logs` | append | event bus | none of its own |
| Authorization | Casbin rules, cached decisions | check, grant, revoke | admin routes | stale decisions |
| Value objects, validators | none | pure functions | everywhere | none that unit tests do not reach |
| Provider clients and mappers | none | external HTTP | synchronisation | outside the program |
| Queries | none (the session query fills the session cache) | read | | |
| Registries, container, configuration | static tables | wiring | | |
| Job monitor | none (reads another service's queue) | read | | |
| Passwords, JWT, secrets, e-mail, logging | none | pure functions, output | | |

What makes each component correct, in the order of importance the plan follows:

1. *Tokens*: a token that was replaced or revoked cannot be presented again; a
   session whose tokens are gone never gets one back; a rotation, once it is in
   the database, reaches every refresh; the version rule means one thing.
2. *Sessions*: a user exceeds the session limit only where logins overlap; a
   revoked session is refused, in the end at the latest, and never comes back.
3. *Accounts*: a replaced password, a rotation, a used reset token and a lock
   stay what they are once nobody holds an older copy; the reset limit is
   exceeded by overlapping requests only, and only by their number.
4. *Rate limiting*: no interval charges more than the capacity plus its refill,
   and nobody is refused while more was regained than charged.
5. *Connections*: status and credentials stay together; a disconnected
   connection comes back, and a second one appears, only where requests overlap;
   a lasting disconnection is shown.
6. *Synchronisation*: the holdings of an account are replaced as a whole and
   only as the provider reported, but for rows that a short sale has made
   unreadable; no row ever ends all later syncs; no reported transaction is lost.
7. *Event delivery*: what was announced is the sum of the balances once nothing
   is under way and nothing is left to announce, unless one of the listed
   overlaps, failures and silent changes came in between; the browser receives
   newer and newer events but for those overtaken or sent twice, and misses only
   those that no replay could send.

## 2. The modules

Conventions common to all: one action per awaited call that reads or writes
shared state, named for the call; the locals a coroutine carries from one await
to the next are a record per request with a `pc`; a refusal that writes nothing
leaves the state as it was, so it has no action or only returns the request to
`idle`; `Crash` or `Abandon` may end a request between any two steps. Outside
EventDelivery, domain events change none of the state modelled and are left
out, as are the texts of tokens, hashes, e-mail and log lines. Ids are
allocated in order or chosen from a set; times are ticks of a clock.
Definitions that precede an operator with the comment "Mutant" are defective
variants of it, used only to confirm that a property notices the defect.

### TokenRotation

State: the `security_config` row (`config`), its Redis copy (`cache`),
`users.min_token_version` (`userMin`), the `refresh_tokens` table (`tokens`),
the clock, and the locals of refreshes, logins, rotations and revocations.
`origin` is a history variable: which token a row replaced. Two fields of the
locals are history too: `raced` of a rotation (another one has committed since
it selected the row) and `seen` of a revocation (the rows in the table when it
selected).

| Actions | Code |
|---|---|
| `RefreshFind` ... `RefreshSave`, `RefreshCrash` | `RefreshAccessTokenHandler.handle`: find by verification, read the user, cache, row, cache fill, version check, select, delete, save |
| `LoginReadConfig`, `LoginSave` | `GenerateAuthTokensHandler.handle` |
| `RotateRead/Select/Commit/Invalidate` | `TriggerGlobalTokenRotationHandler`, `SecurityConfigRepository.update_global_version` |
| `UserRotateRead/Select/Commit` | `TriggerUserTokenRotationHandler`, `UserRepository.update` |
| `LogoutFind/LogoutSelect`, `ResetSelect`, `RevokeCommit` | `LogoutUserHandler`, `revoke_by_session`, `revoke_all_for_user` |
| `Tick`, `TokenExpires`, `CacheExpires` | the clock, `expires_at`, the TTL of the cache entry |

Two details of the ORM matter. `DELETE` of a row that is already gone only
warns, so the second of two refreshes that both selected the row goes on.
`UPDATE` of one such row raises and rolls back; for a batch the driver may not
report the count, so `RevokeCommit` allows either outcome.

**TokenFamilies** is what the table promises whatever requests overlap: tokens
with a status, a session and a parent. `Issue` makes the one parentless token of
a session, `Succeed` a token whose parent is deleted, `Withdraw`, `Expire` and
`Revoke` end tokens; nothing else happens to them. It has no requests, versions,
users or crashes. `TokenRotation` instantiates it with its table and `origin`,
and `TokensDescendFromLogins` says that it implements it: every await of every
request is one of these steps or changes no family. In particular a login finds
its session without tokens although it looked two awaits earlier, and a batch
of a logout never touches a row that is not in the table.

### SessionLifecycle

State: of one user, the rows (`row`, with `born` the order of `created_at`),
the copies in Redis (`cached`) and the index (`index`). No user shares any of
it with another. Actions: `CreateCount`, `EvictPick`, `InsertRow` (create, with
the eviction that ends like a revocation); `RevokeFind`, `MarkRevoked`,
`Uncache`, `UnindexRead`, `UnindexWrite` (revoke); `BulkMark`, `BulkList`,
`BulkUncache`, `BulkDropIndex` (revoke all, with the spared session cached
again); `FillMiss`, `FillRead`, `CacheSet`, `IndexRead`, `IndexWrite` (every
reader: the authentication dependency, the helpers of the sessions router, the
session query); expiries and `Crash`. With `RedisFails` each Redis write may
leave its key as it was and each read of the index may come back empty. `raced`
is a history of a login: it found more sessions than the limit, or another one
has inserted its row since it counted.

A cached copy never says that its session is revoked, because a copy is stored
only of a row read as not revoked and nothing rewrites it; so `cached` is a set.

### UserAccount

State: one account's `users` row, its verification token (`link`), its reset
tokens (`resets`), the passwords with which live refresh tokens were obtained
(`live`). The point of the module is `UserRepository.update`: `UpdateSelect`
compares the entity a handler read earlier with the row as it is now, and
`UpdateCommit` writes the columns that differed then over the row as it is by
then. Login, verification and rotation write this way; `update_password` writes
its one column. Revoking the user's refresh tokens is a single step here;
TokenRotation has its parts.

### RateLimit

State: one bucket (`bucket`: the keys `:tokens` and `:time` and their common
expiry), whether Redis holds the script and whether the process believes so
(`script`, `sha`), the stamp each request carries (`req`), and two histories
that the properties read: `charged` and `given`, what was taken from the bucket
and how far its time was set back since each time.

| Actions | Code |
|---|---|
| `Arrive` | `TokenBucketAdapter.is_allowed`, up to the call; the stamp is taken here when the script is loaded |
| `Load` | `RedisStorage._ensure_token_bucket_script`, then the stamp |
| `Consume`, with `RunScript` | `check_and_consume`: `token_bucket.lua` as one step of Redis; a call whose reply is lost is sent once more by the client (`retry_on_timeout`), unchanged |
| `FailOpen` | every error, a lost script among them: admitted and not charged |
| `RedisRestart`, `ProcessRestart`, `Tick` | scripts, and perhaps data, are lost; the cached SHA is lost; the clock |

Levels are counted in what a tick regains, so that the script's arithmetic is
exact. A call may run up to `Lag` after its stamp, and `Lag` is at most the 60
seconds (`Buffer`) the script adds to a key's life; the client gives up after
two attempts of five seconds. A call that Redis runs after the client gave up
is the same call giving up later, at the cost of one more request.

**TokenBucket** is what the limiter promises of one bucket: a level that is
never forgotten and calls that refill it up to their stamp. It has no keys, no
expiry, no script and no retries. `RateLimit` instantiates it with its own
level and stamp, and `ExpiryIsInvisible` says that it implements it: an expired
key must stand for a bucket that had refilled anyway, a repeated call is two
calls, a refusal writes the refilled level.

### ProviderConnection

State: of one user, the rows of `provider_connections` (`row`: where the row
came from, status, whether there are credentials), their copies in Redis
(`cached`), the OAuth states handed out (`oauth`), and the locals of requests.
`raced` is a history: since this request read what it goes by, another one
committed a change of it.

| Actions | Code |
|---|---|
| `Initiate`, `StateExpires`, `CallbackRead`, `CallbackDelete`, `Insert` | `/providers` `initiate_connection` and `oauth_callback`, `ConnectProviderHandler` |
| `SyncFind`, `SyncSave` | `SyncAccountsHandler`: the entity is loaded before the provider is asked and saved at the end |
| `ImportLook`, `Insert`, `SyncSave` | `ImportFromFileHandler._get_or_create_connection`, and its save |
| `DisconnectFind`, `DisconnectSave` | `DisconnectProviderHandler` |
| `GetMiss`, `GetFill`, `CacheExpires` | `GetProviderConnectionHandler`, `RedisProviderConnectionCache` |

A save selects the row again and assigns status and credentials together, so
its UPDATE names both or neither and the two statements are one action. Only
ACTIVE and DISCONNECTED occur: the handlers that would set the other states are
not reached from any route. A file connection is never synchronised, because
its placeholder credentials do not decrypt.

### AccountSync

State: of one account, its row (`acct`), its holdings (`hold`: `is_active` and
whether the quantity is negative), which of the provider's transactions have a
row (`txn`), whether its connection is one of file imports (`file`, fixed from
the start), and the locals of requests: the answer as far as the loop has read
it (each position absent, held or sold short), the row as the save selected it,
and `pend`, what the session has flushed and not committed. `over` is a
history: what others committed since this request read it.

| Actions | Code |
|---|---|
| `AccountsFind`, `SaveAccount` | `SyncAccountsHandler._sync_accounts_to_repository`, `AccountRepository.save` |
| `HoldingsStart`, `HoldingsFetched`, `HoldingFind`, `HoldingWrite` | `SyncHoldingsHandler`: the upsert of each position |
| `ListHoldings`, `ClearSelect`, `ClearWrite` | its second loop, which closes what the answer did not hold |
| `TransactionsStart`, `TransactionsFetched`, `TransactionFind`, `TransactionInsert` | `SyncTransactionsHandler` |
| `ImportFind`, `ImportSave`, the transaction steps, `ImportEnd` | `ImportFromFileHandler`, whose loops swallow nothing; a file's account meets imports only, since no sync can decrypt the credentials of its connection |
| `SaveAccount` | the closing save of the account, whose commit commits the holdings too |

A flushed row is locked until its session ends, so a write waits while somebody
else's `pend` names the row. The UPDATE names only the columns that differ from
the row as selected: when another sync commits between that SELECT and the
UPDATE, `is_active` or the quantity can keep the other one's value
(`Overwritten`). A failed statement (a duplicate key, a deadlock) leaves a
session that refuses everything after it, the loops count the rest as errors,
and the closing save raises: `Abandon`.

The Schwab mapper reports a short position with a negative quantity. A new
holding with one is refused by `Holding.__post_init__`, and the loop goes on; to
one that is there `update_from_sync` assigns it unchecked. The row, now inactive
with a negative quantity (`"short"`), cannot be made an entity again: each
later find of it raises, the loop swallows the error, and the row stays as it
is. UPDATEs of two overlapping syncs could mix into a row that is active with a
negative quantity (`"stuck"`), which would make `list_by_account` raise, and that
is outside the loop's `try`. A sync meets such a row of its own in its own
listing, and rolls back; NeverBlocked says that none is ever committed. This
rests on the identity map of the session, which keeps objects by weak
references: the listing selects the row as it was flushed, since nobody holds
the object that the save selected. The mappers leave out positions without a
quantity and give an unknown asset type the type "other".

### EventDelivery

State: the sum of the balances (`total`), the cached net worth (`cached`), the
syncs that have something to announce and their calls of the portfolio handler
(`calc`), the events published (`sent`), the replay stream (`stream`), the
browser's connection (`client`: what is on its way, its Last-Event-ID, what it
has had). Histories: `said`, the net worth last announced; `upset`, that
something has since kept it from being true; `crossed`, events that another
overtook on the way to the stream; `resent`, events whose PUBLISH or XADD ran
twice; `missed`, events that no replay owes to the browser.

| Actions | Code |
|---|---|
| `Commit`, `Announce` | `SyncAccountsHandler`: the commit of each account, and, after the connection's save, `AccountBalanceUpdated` for each balance that changed; `AccountHoldingsUpdated` of a holdings sync |
| `Silent` | what changes the sum of the active accounts and publishes neither: an import, an account opened or closed with the balance it had, a stale account entity saved whole |
| `Sum`, `GetPrevious`, `SetCurrent` | `PortfolioEventHandler._recalculate_networth` |
| `Publish`, `Store` with `Xadd`, `StreamExpires` | `SSEEventHandler`, `RedisSSEPublisher.publish_to_user` and `_store_in_stream` |
| `Republish`, `StoreAgain` | the publisher's client (`core/container/sse.py`, `retry_on_timeout`), which sends a command whose reply is late once more |
| `Abandon` | a crash or a failed save between commit and announcement; a command that Redis refuses |
| `Connect`, `Subscribe`, `Deliver`, `Drop` | the stream route's generator, `RedisSSESubscriber.get_missed_events` and `subscribe` |

A sync commits any number of accounts before it announces the first, and others
may commit and announce in between. `MAXLEN` is approximate, so an XADD may leave
more than `MaxLen` entries, or take away several at once when it does trim.

The event bus is a call within the publisher's coroutine that awaits all
handlers of an event and swallows what they raise, so it is not a step of its
own; only announcements of the net worth are sent, the other events of the
same channel being alike.

### Proof and MC modules

`<Component>Proofs` extends its component and holds its theorems (TokenBucket's
are in `RateLimitProofs`). `MC<Component>` extends it with the model values the
`.cfg` files use.

## 3. The runs

`cd tla; tlc -workers 2 -config <run>.cfg <module>`; the figures are for two
workers.

| Run | Module | Checks | Distinct states | About |
|---|---|---|---|---|
| TokenVersions | MCTokenRotation | RulesAgree, VersionsBackOnlyByOverlap, GloballyRefusedStaysRefused, RotationReachesCache | 188 k, 1.5 min | two overlapping rotations against a refresh and a login |
| TokenRevocation | MCTokenRotation | TypeOK, ReplacedTokenIsGone, SuccessorLimit, DeadSessionStaysDead, RevocationLeavesOnlyNew, TokensDescendFromLogins (refinement) | 890 k, 2 min | two refreshes against a logout or reset |
| SessionCache | MCSessionLifecycle | TypeOK, LimitExceededOnlyByOverlap, GoneForGood, RevocationReachesCache | 447 k, 3 min | two requests of any kind, Redis failing |
| UserAccount | MCUserAccount | TypeOK, ResetLimit, SpentForGood, LockHolds, RotationStands, ReplacedForGood | 1.1 M, 1 min | one account, two requests |
| RateLimit | MCRateLimit | TypeOK, WindowBound, NoUndueRefusal, ExpiryIsInvisible (refinement) | 724 k, 30 s | late, reordered and repeated calls on one bucket |
| ProviderConnection | MCProviderConnection | TypeOK, Paired, RevivedOnlyByOverlap, SecondOnlyByOverlap, DisconnectShows | 97 k, 10 s | callbacks, syncs, imports, disconnections and cached reads |
| AccountSync | MCAccountSync | TypeOK, NeverBlocked, NothingLost, ReplacedAsAWhole, OnlyAsReported, ReopenedOnlyByOverlap | 1.1 M, 1 min | two overlapping syncs, or imports, of one account, with short positions |
| EventDelivery | MCEventDelivery | TypeOK, Settled, NothingElseMissed, Chained, OnlyForward | 2.6 M, 2 min | commits announced late or never, overlapping recalculations, commands sent twice, and a browser that reconnects |
| TokenReLogin | MCTokenRotation | ReLoginAccepted: violated | | logging in again does not help after a user rotation |
| TokenOneUse | MCTokenRotation | OneSuccessor: violated | | one token refreshed twice |
| SessionStaleCopy | MCSessionLifecycle | RevokedIsUncached: violated | | revoke-all misses a copy that is not in the index |
| AccountResetLost | MCUserAccount | ResetKept: violated | | a login undoes a password reset |

### Bounds, and why they are enough

* TokenVersions: three versions give a rotation after a rotation, so a token two
  versions behind, which the grace rule treats differently, exists; grace 0 with
  times 0 and 1 puts the clock on both sides of the (inclusive) end of the grace
  period; two rotations are what it takes for one to overtake the other; two
  rows are a login and its successor. One refresh at a time, since what two
  refreshes do to each other concerns rows, not versions, and is the other run's
  question. User rotations are in the other run; for minimum versions above
  the global one RulesAgree and GloballyRefusedStaysRefused rest on the proofs.
* TokenRevocation: two refreshes can present one token; four rows let each have a
  successor and one of these be replaced again; one logout or password reset can
  fall between any two of their steps, and select one row or several, since two
  successors of one token are rows of one session; a user rotation makes the
  version check refuse some of the refreshes. One session: with two (and three
  rows, the user rotation included) the same properties hold on 2.4 M states,
  which takes five minutes, and the theorems are about any number.
  `SYMMETRY` over the refreshes is sound: they are only names, and the run
  checks safety only.
* SessionCache: a limit of one with two sessions makes every second login evict;
  two requests are enough for each stale fill, each lost index update and each
  login that overlaps another, which all are pairs.
* UserAccount: two passwords tell the old from the new one; the first failure
  locks for one tick and the second finds the counter that outlived the lock; a
  reset token lives one tick and the limit's window is one tick wide, so both
  boundaries are met with the clock at 0 and 1; a limit of one with two
  requesters and three tokens has room for the excess and one more; the first
  request registers and signs in, the second verifies, rotates and confirms, and
  both ask for resets, so that every pair of whole-row
  writers and every reset against a login overlaps.

* RateLimit: a capacity of 3 and a cost of 2 leave a level that is neither full
  nor enough, so a refusal has a refill to lose; keys live four ticks of the
  five, so a bucket expires and comes back full within the run; a lag of one
  tick lets either of two calls overtake the other across a tick, and each may
  run twice. `SYMMETRY` over the requests is sound: they are only names, and
  the run checks safety only.
* ProviderConnection: two rows are what a duplicate needs, one OAuth state and
  the file import are the two sources a duplicate can have; two requests can
  overlap in every pairing of the five kinds, and the state can be deleted,
  expire, or survive a failed delete. No symmetry, since the run has a liveness
  property.
* AccountSync: two holdings give a loop that has written one row and not yet
  the other, and two syncs that lock them in opposite orders; two transactions
  give an insert that fails in the middle of a loop. Two requests: what is lost
  or put back is so by one other request. Each position may be held, sold short
  or absent, so that a row becomes unreadable, is reported again, and is met by
  a sync that read it before.
* EventDelivery: two syncs commit, announce and recalculate in any order, cross
  each other on the way to the stream, and one may run while the other is
  between publish and append; three events are enough for a last one seen, one
  trimmed and one replayed; `MaxLen` 2 makes the stream trim within the run;
  one of the three may be sent twice, to the channel or to the stream, which is
  what a repetition in the box, in the replay and before the browser's last
  event takes; two totals let the net worth change and change back. What
  several commands sent twice, more totals and a longer stream can do rests on
  the proofs. Recalculations, holdings, transactions and
  requests are only names, and both runs check safety only, so their symmetry
  is sound.

Every bound is a constant of the module (`MaxTokens`, `MaxVersion`, `MaxTime`,
`MaxResets`, `MaxAttempts`, `Sessions`) and only stops new work. Since the
bounded ids and times run out while every request is idle, TokenRotation and
UserAccount are checked with `CHECK_DEADLOCK FALSE`; a request in progress can
always move, which the liveness properties need and confirm. The three modules
added after them are checked for deadlock.

### Fairness

TokenRotation assumes weak fairness of each refresh's and each rotation's next
step (the event loop runs every ready coroutine; a request that dies instead
satisfies it too) and of the expiry of the cache entry (`SETEX` with
`cache_security_ttl`). SessionLifecycle assumes it of each request's next step
and of the expiry of each copy (its TTL is the rest of the session's life). No
request is ever assumed to be made. UserAccount states no liveness: nothing in
that code promises that something happens without a request. RateLimit has no
fairness either: its properties are about what has happened. ProviderConnection
assumes it of one thing, `CacheExpires`, the TTL of a copy. AccountSync and
EventDelivery state none: a sync may die at any step and nothing retries it, and
pub/sub promises no delivery.

RotationReachesCache, RevocationReachesCache and DisconnectShows are the
liveness properties. All rest on a TTL: an invalidation may fail, or, for
connections, does not exist, and a reader that read before the change may store
what it read after it, but only so often.

### What the violation runs show

* **TokenReLogin.** A new token carries the global version as its
  `token_version`, while the check wants the maximum of the global version and
  the user's minimum. After a user rotation that lifts the user above the global
  version, the user's next tokens are below it as well.
  `docs/architecture/token-rotation.md:180` prescribes logging in again.
* **TokenOneUse.** Find, delete and save are three commits. Two requests that
  find one row each save a successor; `docs/architecture/authentication.md:235`
  says one-time use.
* **SessionStaleCopy.** The copy is written before the index; a request that
  stops in between, or two that lose an index update, leave a copy the sweep of
  revoke-all does not see.
* **AccountResetLost.** A login with a wrong password reads the row, a reset
  commits a new hash, and the login's `update()` finds that the entity's hash
  differs from the row's and writes the old one back.

## 4. The proofs

`tlapm <Component>Proofs.tla`. The constants are arbitrary: any sets of
requests, users and sessions, any limits, with only the named assumptions of
the component modules (`UserOfAssumption`, `RefreshersAssumption`: at any time
finitely many requests run, `BoundsAssumption`, `SessionsAssumption`, ...),
which TLC evaluates on every run.

| Theorem | Property | Argument |
|---|---|---|
| TokenRotationProofs: TypeCorrect | TypeOK | inductive as it stands |
| ReplacementSafe | ReplacedTokenIsGone | needs that a refresh at `save` has already deleted its token, that a deleted row stays deleted, and that a row that replaced another is not itself free |
| OneVersionRule | RulesAgree | from the stronger fact that every row's two version columns are equal |
| VersionsOnlyRise | VersionsBackOnlyByOverlap | `Rising`, see below |
| VersionsNeverAhead | | NoVersionAhead is invariant, by the same argument, in behaviours without a step `Overtaken` |
| RefusalIsFinal | GloballyRefusedStaysRefused | rotation times follow the clock, and a row behind by one version at a rotation's commit is behind by two at the next |
| DeadIsFinal | DeadSessionStaysDead | an action property from TypeOK alone, action by action |
| RevocationIsThorough | RevocationLeavesOnlyNew | `Covered`: what a revocation saw in the table and did not select was out of use, and stays so |
| FamiliesHold | TokensDescendFromLogins | refinement, step by step, see below |
| SuccessorsLimited | SuccessorLimit | a refresh that finds a token finds one without a successor, and its save moves it from the requests to the rows |
| OneAtATime | OneSuccessor (violated in general) | its instance for refreshes that do not overlap |
| SessionLifecycleProofs: SessionTypes | TypeOK | inductive |
| RevocationIsFinal | GoneForGood | each action keeps a gone session gone: only a request holding a copy caches it |
| LimitGuarded | LimitExceededOnlyByOverlap | `RoomInv`: a login past its count that was not raced has room for the row it will insert, because rows are added by logins only and each marks the others |
| LimitHolds | | the limit itself is invariant, by the same argument, in behaviours without a step `OverlapInserts` |
| RateLimitProofs: TypeCorrect | TypeOK | inductive; the script's helpers keep the level in range |
| WindowIsBounded | WindowBound | see below |
| RefusalsAreDue | NoUndueRefusal | see below |
| ExpiryHidden | ExpiryIsInvisible | refinement, step by step: a call finds the level that the abstract bucket would give it, because `Kept` makes an expired stamp a whole refill old; `Tick` and the losses of scripts stutter |
| ProviderConnectionProofs: TypeCorrect | TypeOK | inductive with the rest of `IInv` |
| PairedAlways | Paired | needs that also every copy under way is paired, and that what was loaded is a row |
| NotRevived | RevivedOnlyByOverlap | `LoadedInv`: an entity that was not overtaken is the row |
| NotDuplicated | SecondOnlyByOverlap | `LookedInv`, `SpentInv`: who was not overtaken found none, and a state that made a connection can be read again only if its delete failed |
| AccountSyncProofs: TypeCorrect | TypeOK | inductive |
| AlwaysListed | NeverBlocked | in `IInv`; a sync past its listing has flushed no such row (`Looped`), and the UPDATEs that follow make none of a row that is not |
| NothingIsLost | NothingLost | `Stored`: what a loop has passed is in the table |
| PortfolioReplaced | ReplacedAsAWhole | `Locked`, `Looped`, `Exact`: see below |
| AsReported | OnlyAsReported | `Reported`: a flushed value that differs from the row is one the answer asked for |
| NotReopened | ReopenedOnlyByOverlap | `Copied`: the entity is the row unless an account was committed since |
| EventDeliveryProofs: TypeCorrect | TypeOK | inductive with the rest of `IInv` |
| WorthSettles, WorthIsChained | Settled, Chained | `Alone`, `Fresh`, `Announced`: a call that nothing raced holds the sum, and the cached value is the announced one |
| DeliveryIsForward | OnlyForward | `Numbered`, `Ordered`, `Forward`: order in the stream and in the box is the order of PUBLISH, but for events that were crossed or sent twice |
| MissesAreAccounted | NothingElseMissed | `Kept`, `Leading`, `Covered`: see below |
| UserAccountProofs: AccountTypes | TypeOK | inductive |
| SpentIsFinal | SpentForGood | a request past `ConfirmFind` carries a token's number; rows only grow and never lose `used` |
| LockIsKept | LockHolds | needs that a login in progress holds an entity whose lock was not in force when it read it |
| RotationIsFinal | RotationStands | an entity read after the rotation has its minimum version or more, and an UPDATE writes that column from an entity or not at all |
| ReplacedIsFinal | ReplacedForGood | only a request that holds the password can write it or issue tokens for it |
| ResetLimitHolds | ResetLimit | `ResetInv`: recent tokens and requests about to save one are together fewer than the limit and the requesters; see below |
| LoneRequester | | its instance for requests that do not overlap: the limit is kept |

RateLimit's inductive invariant turns both properties into statements about the
bucket. `Bound`: what was charged since time `a`, plus the level, minus the
stamp, is at most capacity minus `a`, plus the lag and what was given back
since `a`; a script run keeps the sum (what it takes from the level it adds to
the charge, what it adds to the level it adds to the stamp), an older stamp
raises it by exactly what `given` records, and an expired bucket may come back
full because `Kept` (the keys outlive a whole refill counted from their stamp,
which is where `Lag <= Buffer` is needed) makes the old stamp a whole refill
older than the new one. `Accounted` is the converse: since some time, the
charges account for all the bucket lacks.

AccountSync's `IInv` follows one sync through its two loops. `Looped` says what
the loops have and have not touched, `Locked` that no two sessions have flushed
the same row, and `Exact` that as long as nobody else has committed holdings,
what the session would read of a position already handled is what the answer
makes of the row. At the end of the second loop that is every position, which
is ReplacedAsAWhole; a row that cannot be read is never flushed, so that its
result is the row itself. `Reported` is its weaker companion for syncs that do
overlap: the columns an UPDATE leaves out can keep another sync's value, but
only a value that some answer asked for.

EventDelivery's `IInv` has to say where every event is. `Kept`: each one
published is under way to the stream, in it, or in `missed`. `Covered`: for a
connected browser each one was received, is on its way, or is in `missed`; and
what precedes the browser's last event in the stream was received or missed,
unless that event was sent twice, which is what makes a later replay complete
although it starts after that event. `Leading` says the same of every event in
the box, ahead of the time when it becomes the last. `Ordered` and `Forward`
describe order by "precedes in the stream or the box" instead of by position, so
that appending, trimming and delivering each keep it. For the net worth,
`Fresh` says that a call which nothing raced holds the present sum, `Alone` that
only one call can be such, and `Announced` what that call will compare with.

Four limits of this code are a row, a count or a version read in one commit and
acted on in another, and overlapping requests break them. The theorems do not assume
the overlap away; each says what holds in spite of it.

* *The global version.* `Rising` says that every rotation about to commit that
  was not overtaken has a higher version than the row. So a step takes the
  version back, or leaves a copy ahead of it, only when it is the commit of a
  rotation that another one overtook since its select; otherwise each copy comes
  from the row, directly or through the cache, and the row has only grown since.
* *The session limit.* Each insertion marks every other login past its count.
  One that is not marked still finds the room it counted or made, whatever
  revocations, expiries and crashes came between.
* *The reset limit.* A request that has counted takes the place of the token it
  will save. A request joins only while the recent tokens are fewer than the
  limit, and then the requests about to save are at most the requesters; a save
  moves one from the second number to the first, and time only takes tokens out
  of the window. Hence an excess of less than the number of requesters, which
  does not grow from round to round.
* *One use of a token.* TokenOneUse shows two successors. SuccessorsLimited
  bounds them by the refreshes that overlap: a row that has a successor is gone
  (ReplacementSafe), so no request finds it any more, and of those that found it
  before each saves once. Two refreshes that overlap can thus double a family,
  but no request that comes after the first successor can use the token again.

FamiliesHold needs two facts besides TypeOK and what refreshes hold.
`LoginsAlone`: the session of a login about to insert its token has no token,
and no other login has it; a refresh cannot bring one, since its successor
belongs to a session that has one. `Selected`: the rows a revocation has
selected were inserted, so its batch never turns an unused row into a revoked
one. Then a refresh's delete is a `Withdraw`, or nothing if another one came
first, its save a `Succeed`, because the row it presented is still deleted, and
all that concerns requests, versions, the cache and the clock stutters.

Only model-checked: RotationReachesCache, RevocationReachesCache and
DisconnectShows (liveness is beyond the prover), and the four violated
properties.

## 5. What is not modelled

* In the modelled components: the branch of `get_or_create_default` for a
  missing configuration row, repository and cache methods without a caller
  (`update_grace_period`, `cleanup_expired_sessions`, `update_last_activity`,
  `update_activity`, user deletion, ...), `is_active`, which nothing clears, and
  the stale write of `min_token_version` by a login in TokenRotation
  (UserAccount has it).
* Logout never touches the session row or its copy, although
  `presentation/routers/api/v1/sessions.py` says so: there is nothing to model
  in SessionLifecycle, and the access tokens of that session work until they
  expire.
* In RateLimit: `reset` and `get_remaining`, which no route calls; the choice of
  rule and key, and with it that the adapter looks a rule up by the literal path
  and so finds none for a route with path parameters; the numbers in the answer
  (`Retry-After` is a fraction that Redis truncates). Clocks that differ between
  processes are left out; a late call has the same effect as a slow clock.
* In ProviderConnection: aliases, `oauth_callbacks.py` and the refresh of
  credentials, for the reasons given below; times of the last sync, which only
  refuse a sync that is not forced.
* In AccountSync: amounts, metadata and progress events.
* In EventDelivery: categories, other events, and broadcasts, which nothing
  sends. The event bus's overlapping publishes share one attribute for the
  database session, but no publish passes one.
* Audit trail, authorization (the decision is Casbin's), value objects and
  validators, provider clients and mappers (external HTTP), queries (read-only),
  registries and configuration (static), the job monitor (another service's
  queue), passwords, tokens, secrets, e-mail and logs (pure functions and
  output) have no interleaved state of their own. They are most of the lines of
  the repository: events, audit actions, registries and log handlers alone are
  tables of many thousand lines.

### What reading the code showed, without a run

* Overlapping global rotations can lower the global version and so revive
  refused tokens; overlapping logins or reset requests can exceed their limits.
  No document promises otherwise. VersionsBackOnlyByOverlap,
  LimitExceededOnlyByOverlap and ResetLimit say that this is the only way, and
  by how much.
* A login that read the users row before a user rotation can write the old
  minimum version back after it, as it can an old password (AccountResetLost).
  RotationStands says when no longer.
* `oauth_callbacks.py` looks an OAuth state up under `oauth:state:`, while
  `initiate_connection` stores it under `oauth_state:`. Its callbacks answer
  that the state is invalid or expired whatever the user brings; the callback
  of `/providers` works.
* The token-refresh route of `/providers` is a placeholder: it answers success
  and calls no handler. `RefreshProviderTokensHandler`, and with it the states
  EXPIRED, REVOKED and FAILED, is not reached.
* DISCONNECTED is called terminal (`docs/architecture/provider.md:70`), but
  `ProviderConnectionRepository.save` writes what the entity says: a sync or an
  import that loaded the connection before makes it ACTIVE again.
  RevivedOnlyByOverlap says that this is the only way.
* The replay is read before the subscription starts, so an event published in
  between is neither replayed nor received. NothingElseMissed says what else
  can be missed.
* Overlapping recalculations can leave a stale net worth cached and announced
  until the next change, and so does a sync that dies, or fails to save its
  connection, between the commit of a balance and its announcement. Imports, and
  accounts that are opened or closed with the balance they had, change the net
  worth and announce nothing. Settled says when the net worth is right.
* An event may reach the browser twice, live or in the replay, because the
  publisher's client sends a command whose reply is late once more; and a replay
  that starts from the first of two entries of the browser's last event sends
  again what came between them. OnlyForward says that nothing repeats before the
  browser has received an event that was sent twice or overtaken, and that
  whatever then comes late is such an event.
* A short position is stored with a negative quantity, which the entity refuses:
  from then on the row is neither read nor updated by any sync, and the sync
  counts one error each time. ReplacedAsAWhole makes it the one exception.
* `routers/api/v1/events.py:101` speaks of a heartbeat that the generator does
  not send.
* The audit trail's event handler needs a session that no publish passes, so
  it records nothing.
* A pending transaction that settled is counted as unchanged.
* The rate limiter looks a rule up by the literal path, and `Retry-After` is a
  fraction that Redis truncates (RateLimit, above).
* One wrong password after a lockout locks the account again, since the count
  outlives the lock.

## 6. Plan

Everything the first plan named is there, except these, in order of weight:

1. **Credentials**: a composition of UserAccount, TokenRotation and
   SessionLifecycle along one login, for what a password reset must cut off.
2. A composition of AccountSync with ProviderConnection: a disconnection while
   a sync is under way.
3. Abstract specifications with theorems of implementation beyond TokenBucket
   and TokenFamilies: one-time tokens, for UserAccount; an atomic replacement of
   the portfolio, for AccountSync with one holdings sync at a time.
