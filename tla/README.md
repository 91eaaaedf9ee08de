# DonationBackend: a TLA+ verification project

This directory specifies the core logic of the donation backend (a Fastify
server with PostgreSQL through Prisma, Redis and S3) in TLA+, model-checks it
with TLC and proves theorems about it with TLAPS. Paths below are relative to
the repository's `src/` directory of TypeScript sources unless they start with
`docs/`, `tests/` or `prisma/`.

The server is a set of identical, stateless Node processes. Everything that
requests share lives in PostgreSQL and Redis, so the behaviours that are hard to
test are interleavings **at the awaits**: between two statements of one handler,
any number of other handlers may run, in this process or in another. The
interactive transactions run at PostgreSQL's default isolation, READ COMMITTED,
which does not stop this: a transaction that reads a row and then writes it may
overwrite what another one committed in between. That is why every module has
the same grain: *a step is one database statement or Redis command (a MULTI and a
Lua script are one command) together with the synchronous code up to the next
await*.

## 1. Inventory

| Component | State it keeps | Operations | Talks to | Hard behaviours | What makes it correct |
|---|---|---|---|---|---|
| **Orders** `domain/order` | `Order`, `OrderLine` rows; audit log lines | three creates, confirm-payment, cancel, user PATCH, admin PATCH, hard delete, lists | reads the catalogue's visibility and price | settlement races; read-then-write PATCHes; audit after commit; hydration outside the transaction; hard delete in the middle of another request | one outcome per order, acknowledged consistently; transitions audited once; stored rows obey the order invariants for ever (but for the receipt option an administrator may give a purchase); stamps follow status |
| **Refresh-token sessions** `lib/auth` | Redis hash per token, Redis set per account; credential row; `archivedAt`/`deletedAt` of the account | login, Google login, refresh (rotation with replay detection), logout, logout-all, change and set password, archive and delete account | reads `Account` | check-and-mark in Lua; SMEMBERS and MULTI of a sweep are two steps; logins that race with a sweep or a disable; lost answers | a token is redeemed once; a sweep kills what was live; the index knows every live token; a disabled account is not refreshed |
| **Cache-aside layer** `lib/cache`, `services`, `lib/http/etag.ts` | Redis entries under enumerated keys; ETags held by clients | cached detail and list, conditional GET, invalidation after a write | loads from PostgreSQL; called by every catalogue write | load, write, DEL, SET in that order; a failed DEL; publish windows that nobody announces; 304 over a stale body | a stale entry has an excuse, is not renewed and dies by its TTL; clients converge |
| **Catalogue write and lifecycle** `domain/lifecycle`, `domain/donation-item/*-write.ts`, `domain/category` | `Charity`, `DonationProject`, `SaleItem`, `Category`, M:N links | create, PATCH, archive, unarchive, delete, restore | invalidates the cache | category liveness checked before the transaction; a publish window PATCHed one end at a time; cascade visibility computed, not stored | public visibility is a function of the current rows; windows stay ordered; links only to live categories |
| **Account identity** `lib/auth/service.ts`, `lib/auth-google`, `routes/auth/me.ts` | `Account`, `PasswordCredential`, `GoogleCredential`, one-shot OAuth sessions in Redis | register, PATCH /me, Google login and link, exchange | mints sessions | find-then-create against unique constraints; two PATCHes that each remove one identifier; exchange used twice | one account per identity; an account keeps a way to log in; an OAuth session is used once |
| **Login lock** `lib/auth/login-lock.ts` | failure counter per identifier with TTL | check, record failure, clear | login | INCR and EXPIRE; success racing failures | whoever comes in after the threshold is not looked at |
| **Idempotency** `lib/http/idempotency-*.ts` | saved response per key | lookup, handler, save (SET NX) | wraps order creates | two concurrent requests miss together; only 2xx saved; replay with another body | replays get the saved answer; the first saved answer is never replaced |
| **Rate limiter** `lib/rate-limit` | a counter per layer, key and window | Lua sliding-window estimate, layered limits, fail-open | every route | window boundary; scripts that run late or out of order; Redis down or without the script | a fixed window of a layer admits at most its limit, and a stretch as long across two fewer than twice that |
| **Lists and cursors** `domain/donation-item/list-*`, `lib/cursor`, `domain/order/admin-services.ts` | none | keyset pages | catalogue and orders | rows change between pages | no unchanged row is skipped or repeated |
| **Next charge date** `domain/order/next-charge-at.ts` | none | pure calendar function | orders | month and year ends, the billing day itself | the next occurrence of the billing day, strictly later |
| **Health and shutdown** `lib/health`, `server.ts` | readiness gate, memoised probes | live, ready, startup, diagnostics, SIGTERM | probes of DB, Redis, S3 | drain while probes are memoised; forced exit | never ready after SIGTERM; no stale failure, no old success; exits whatever hangs |
| **Uploads and S3** `lib/s3`, `routes/cms/uploads.ts` | objects under keys `donation/{entity}/{id}/{purpose}.{ext}` | presign; key checks of the catalogue's writers | catalogue | a key signed for one row named by another | a row shows images uploaded for it |
| **Errors and logging** `lib/errors` | none shared | status of every thrown error; crash handlers | everything | - | each error has one status |
| HTTP plumbing, config, i18n, OpenAPI | none shared | hook order, content negotiation; start-up wiring | - | - | refused before it is counted |
| System routes, seed, cleanup scripts | none | Redis flush; operator tools | Redis, S3 | a flush under running requests | see Idempotency and Rate limiter |

`PROJECT.json` lists the same components with their sources and status, and under
`hazards` every place where one of the hard behaviours bites, with the property
that watches it.

## 2. Plan

Modules in the order in which they were written, most important first. No module
uses RECURSIVE operators, so all of them can be proved about.

1. **Orders**, with the abstract specification **OrderLedger** - done; every safety
   property and the refinement are proved, in **OrdersProofs** and
   **OrdersLedgerProofs**.
2. **RefreshSessions** - done; proved in **RefreshSessionsProofs**.
3. **CatalogueCache** - done; safety proved in **CatalogueCacheProofs**.
4. **Catalogue** (CMS writes, with **ObjectKeys**) - done; proved in **CatalogueProofs**.
   **CatalogueLists** and **Cursors** (what readers select, page by page) and
   **NextCharge** - done; what holds of their operators for all rows, walks and dates
   is proved in **ListsProofs** and, of the dates, in **OrdersProofs**.
5. **Accounts** (with the login lock) and **GoogleToken** - done; proved in
   **AccountsProofs**.
6. **Server** with **RateLimit**, **Errors** and **Probes**: what every request passes
   through, and the life of the process - done; safety proved in **ServerProofs**.

Every safety property that a run checks is proved. Left: what section 5 lists as
only model-checked, which is liveness, and what section 6 leaves out.

## 3. The modules

### Orders and OrderLedger

`Orders` models `domain/order` and the routes that call it. `orders` is the table
(a row or `NULL` for each id), `live` and `price` what the order code reads of the
catalogue, `audit` the log lines with `audit: true`, and `req[r]` the local state
of the handler that serves request `r`: `pc` is the await it is suspended at, the
other fields the local variables that survive it. `req[r].replaced` is the only
history field.

| Actions | Code |
|---|---|
| `DonationLookup`, `PurchaseLookup`, `CreatePersist`, `CreateAudit` | `createCharityDonation`, `createProjectDonation`, `createSaleItemPurchase`, `persistOrderWithLine`, `emitOrderCreatedAudit` |
| `SettleUpdate`, `SettleReread`, `SettleAudit`, `SettleHydrate` | `confirmPayment`, `cancelOrder`: conditional `updateMany`, the second statement on `count = 0`, the audit line, `findUniqueOrThrow` outside the transaction |
| `UserPatchRead`, `UserPatchReturn`, `UserPatchWrite`, `UserPatchAudit` | `patchOrderAsUser` |
| `AdminPatchRead`, `AdminPatchWrite`, `AdminPatchAudit` | `patchOrderAsAdmin` |
| `DeleteRow`, `DeleteAudit` | `deleteOrderAsAdmin` |
| `CatalogueLiveness`, `CataloguePrice` | CMS writes, as far as orders can see them |
| `Lose` | the process that serves a request dies, or is forced to exit |

Abstractions: donor name, anonymity and note are one field (the code treats them
alike); timestamps are set or not set; an order has one line, as every create
makes it. A write and its commit are one step because every transaction here ends
with its only write, and PostgreSQL serialises writes of one row.

`OrderLedger` is what the rest of the system may rely on: an id is opened once,
paid or cancelled once, changed otherwise only by an administrator, and erased for
good. `ImplementsLedger` states that `Orders` implements it under the mapping
`LedgerEntry`.

### RefreshSessions

One account (all keys and rows involved carry the account's id, so accounts do not
interact). `records[t]` is the hash of refresh token `t` (`unborn`, `fresh`,
`used`, `gone`), `members` the account's index set, `credential` the password row,
`disabled` whether the account is archived or deleted; `chosen` and `missed` are
history, as are the fields `alive` and `late` of a request.

| Actions | Code |
|---|---|
| `LoginRead`, `LoginRehash`, `GoogleLogin`, `IssueBundle` | `passwordLogin` with its silent rehash, the login half of the Google exchange, `issueBundle` with `store`'s MULTI |
| `RefreshConsume`, `RefreshAccount` | `CONSUME_REFRESH_LUA` and POST /auth/refresh after it |
| `SweepRead`, `SweepDelete` | `revokeAll`: SMEMBERS, then a MULTI |
| `LogoutRead`, `LogoutDelete`, `LogoutFails`, `LogoutAll` | POST /auth/logout with `revokeOne` (a Redis error is caught and answered 204), POST /auth/logout-all |
| `ChangeRead`, `ChangeWrite`, `SetRead`, `SetWrite` | `changePassword`, `setPassword` |
| `DisableRead`, `DisableWrite` | POST /auth/me/archive, DELETE /auth/me |
| `Expire`, `ExpireIndex`, `Lose` | TTLs; Redis or database failure, process death |

A token id is random and never minted twice, so an id is `unborn` until it is
stored. JWT signatures and argon2 are taken as correct. An old hash (`old`) is one
whose parameters call for a rehash.

### CatalogueCache

Clients read details and lists through Redis with conditional GETs;
administrators commit a row and then DEL the keys `donationCacheKeysFor`
enumerates. A row is its version (`updatedAt`) and whether the public sees it; the
body of a key is the version of every row it shows. `held[r]` is the last response
with an ETag that client `r` keeps: on a 304 the client keeps that body. `todo[w]`
are the keys administrator `w`'s last write has still to DEL.

| Actions | Code |
|---|---|
| `Hit`, `Miss`, `SetCache` | `withCache`, then `sendDetail`, `sendCategories` or a plain body |
| `Load` | the loaders of `detail-services.ts` and `list-services.ts`; a 404 is never cached |
| `Commit`, `DelKey`, `DelFails` | a catalogue write and `invalidateDonationEntity`'s pipeline, which is not a MULTI and is not retried |
| `Expire`, `WindowPasses`, `Drop` | TTL or eviction; a publish window opens or closes; the client or the instance goes away |

`excused` is history. Cache policy accepts some stale entries (spec 019): a DEL
failed, a load overlapped a DEL, a publish window passed. The model marks such
entries, so that `Coherent` can say that *nothing else* makes an entry stale.
Abstractions: the SELECTs of one Prisma call are one read; two writes of one row
within a millisecond have different `updatedAt`; sale items are left out, being
cached as projects are; the locale and category segments of a key are left out,
because every DEL enumerates them in full.

### NextCharge

`ComputeNextChargeAt` is `computeNextChargeAt`; dates are UTC dates because the code
reads nothing finer. `ChargeIsNext(years)` compares it, from every day of `years`, with
the first billing day that the calendar lists after it.

### Accounts and GoogleToken

`Accounts` has several accounts, where `RefreshSessions` looks at the tokens of one.
`row[a]` is the account with its password and Google credential rows, `failures` the
counter of each identifier, `oauth` the OAuth sessions, `session` the refresh tokens
(by the request that minted them). History: `failed`, `blind`, `torn` and a
request's `dead`, `barred`, `raced`.

| Actions | Code |
|---|---|
| `Register`, `IssueBundle` | `register`: one nested create; a P2002 is "taken" |
| `LoginCount`, `LoginFind`, `LoginFail`, `LoginReset`, `LockExpires` | `login` and `login-lock.ts`: GET of the counter, one read of account and credential, MULTI of INCR and EXPIRE, DEL |
| `AuthorizeInit`, `ExchangeConsume`, `OAuthExpires` | `authorizeInit`, `consumeOAuthSession` (HGETALL and DEL in one MULTI) |
| `ExchangeUpstream` | POST /token, key set and ID token: refined by `GoogleToken` |
| `ResolveSub`, `ResolveEmail`, `GoogleCreate`, `GoogleLive`, `LinkHas`, `LinkCreate` | `resolveAccount`, `resolveLink` and what `exchange` does with the verdict |
| `PatchLive`, `PatchRead`, `PatchWrite` | PATCH /auth/me: guard, read, effective identifiers, update |
| `ChangeRead`, `ChangeWrite`, `DisableLive`, `DisableWrite`, `SweepRead`, `SweepDelete` | password change, archive and delete of oneself, `revokeAll` |
| `RefreshConsume`, `RefreshAccount`, `Lose` | POST /auth/refresh of a fresh token; process death |

`GoogleToken` is the part of an exchange that only computes: the checks of an ID
token in their order, and the cached key set that is fetched again when a token
names an unknown key. `Accounts` takes any of its outcomes in `ExchangeUpstream`.
Spec 007 has the code look at two facts it does not look at, and the model keeps both
so that the property can say they decide nothing: whether `iat` is past (`issued`),
and whether the cached key set is within its Cache-Control lifetime (`fresh`).
`ClaimsAndKeyDecide` says which claims and which keys do decide.

### Catalogue and ObjectKeys

`stored` are the rows with their stamps, publish window and image, `links` the
charities' categories, `lock` the row lock of an open transaction, `req[r]` as
above with the links its transaction has deleted and inserted. `torn`, `loose`,
`adopted`, `mixed`, `replaced`, `audited` are history: they name who is
answerable for a state the code lets happen, so that the invariants can say that
nothing else makes it happen.

| Actions | Code |
|---|---|
| `CreateCharity`, `CheckCategories`, `CreateCommit` | `createCharity` |
| `UpdateCharity`, `TxUpdate`, `TxDelete`, `TxDeleted`, `TxInsert`, `TxCommit` | `updateCharity`: each statement of its transaction, at READ COMMITTED, with what it waits for |
| `CreateProject`, `UpdateProject`, `CreateSaleItem`, `UpdateSaleItem`, `AssertParentCharityExists`, `ChildFind`, `ChildWrite` | `project-write.ts`, `sale-item-write.ts` |
| `UpdateCategory`, `CategoryWrite` | `domain/category/write.ts` |
| `LifecycleFind`, `ApplyLifecycleStamp`, `Audit`, `Lose` | `lifecycle-routes-helper.ts`, `lifecycle-actions.ts` |

`ObjectKeys` has both halves of an upload: which key `GET /cms/uploads/presign`
signs and which keys a write accepts (`assertS3KeyBinding`).

A body that names nothing but categories may send no UPDATE, and then no row lock
orders two such replaces: `TxUpdate` leaves open whether Prisma sends one.

### CatalogueLists and Cursors

What every list and detail selects, as functions of the tables: the public reads
with cascade visibility (`whereLive`, `whereLiveWithParent`), the admin reads with
their hints, the admin order list. `Cursors` has the two sort orders and the
predicates a cursor stands for. They compose in `Walk`, an infinite scroll through
any of the seven paged lists over tables that change between its pages: `Served` is
the page a list answers with at one moment, `LikeOneList` what the scroll as a whole
promises. `InOrder` is ORDER BY: the enumeration of a set that an order makes the
only one. `NULL` is declared here, as what a filter or a cursor that is not given is.

`Catalogue` EXTENDS these modules, `Accounts` `GoogleToken`, `Orders` `NextCharge`
and `Server` `RateLimit`, so that each states the properties of its functions
(`ListsWalkOnce`, `ListsAgree`, `TokenVerdicts`, `FirstChargeIsNext`, `LimitHolds`)
next to those of its state.

### Server, RateLimit, Errors, Probes

`Server` is one process with its Redis, and composes the other three, which are
operators over their state: the counters of the limiter, the status of an error,
the memos of the probes. `setup` fixes what the clients send and what may fail in a
behaviour; `clock` is bounded by `Horizon`. A handler is an answer or a thrown
error here: the other modules are about what it does.

| Actions | Code |
|---|---|
| `OnRequest` | content negotiation (`lib/http/plugin.ts`; OPTIONS skips it), form of the key, schema; skipped and opted-out routes |
| `LayerAllows`, `LayerDenies`, `LayerFails` | `rate-limit/plugin.ts`: one EVALSHA per layer, 429, fail-open or 503 |
| `Replay`, `Miss`, `Handle`, `Save` | `idempotency-plugin.ts`, `idempotency-store.ts`: lookup, replay or 422, handler, SET EX NX |
| `ProbeAsks`, `PingEnds`, `HealthAnswers` | `memoizeProbe`, `runWithTimeout` and GET /health/ready, /health, /health/storage |
| `FlagAnswers`, `ComponentAsks`, `ComponentAnswers` | /health/live, /health/startup, /health/db, /health/cache |
| `Shutdown`, `CloseStarts`, `Closed`, `ForceExits`, `Crash`, `Restart` | `server.ts`, `process-handlers.ts` |
| `Tick`, `FlushRedis`, `RedisRestarts` | TTLs, POST /cms/system/flush-redis, a restart of Redis |

`RateLimit!Consume` is the Lua script over exact rationals; a call has two times,
the one the process read before its first layer and the one at which Redis runs
the script, because they may lie in different windows. The gate is read after the
pings, so a process asked to stop answers 503 even to a request that came first.
`LayersHold` counts the requests of one window that got past the limiter. It leaves
aside those that the code lets by on purpose (Redis failed) or cannot count (Redis
lost the counters), and those whose script ran so late that the counters of their
window had expired; these are marked `open`, `wiped` and `late`.

Three things the models show that a reader of the comments might not expect:

- `store.ts:4` says ioredis falls back to EVAL when the script is missing; the code
  calls `evalsha`, which does not. After a restart of Redis every limited request
  takes the failure path until the process restarts (`RedisRestarts`, `LayerFails`),
  while readiness, which PINGs, stays 200.
- `headers.ts:69` says Retry-After clears all denied layers; it is the rest of the
  current window, after which the previous window still weighs. Run `http_promises`
  has a client that would wait and be denied again.
- No route sets `idempotency: 'required'`, so that branch is never taken.

## 4. What the runs check

| Run | Instance | Checks and shows |
|---|---|---|
| `orders` | 3 requests, 1 order id, 1 charity, 1 sale item, 2 prices | `SettlementAnswersAgree`: no two clients are told contradictory outcomes. `TransitionsAuditedOnce`. `NoInvariantError`: the assertion in the create's transaction never fires. `StoredRowsConsistent`: rules asserted only at creation hold for ever, but for the receipt option of a purchase that an administrator gave one (`admin-services.ts:162` says the route refuses it). `StampsMatchStatus`, `ImplementsLedger`. `FirstChargeIsNext`: every day of three years. |
| `sessions` | 3 requests, 1 stored and 3 mintable tokens, 2 passwords | `RedeemedOnce`, `LiveIndexedOrMissed`, `SweepsKill`, `DisabledNeverRefreshed`, `FirstPasswordOnce` |
| `cache` | 2 clients, 1 administrator, a project's page and list, 2 changes | `Coherent`; under fairness `CacheSettles` (stale entries do not renew themselves and are gone for good once the rows rest) and `AnswersSettle` (conditional GETs converge) |
| `accounts` | 2 requests of any kind and a login, 2 accounts, 1 username, 1 e-mail, 1 Google identity, 3 OAuth sessions (2 of them open), threshold 2 | `LockHolds`: failures count across requests. `NamedUnlessBlind`: an account loses its last identifier only by a PATCH that wrote over a change it had not read. `OneAccountPerSub`, `OAuthSessionOnce`, `DisabledStaysOut`. `StaleSessionsRaced`: a session opened with an old password was in flight during a sweep. `TokenVerdicts`: which claims and keys decide, on every token, key set and outage; `iat` and the age of the key set do not, against spec 007. |
| `catalogue` | 2 requests, 1 charity, 1 project, 1 sale item, 2 categories, bodies with one concern each | `WindowOrdered`, `LinksLiveUnlessRaced`, `LinksOneReplace`: what may go wrong has exactly the cause that history names. `LogosBound`, `StampsAudited`. `ListsWalkOnce`: a scroll over changing tables shows what stayed put once. `ListsAgree`: public lists, admin lists and details agree. |
| `http` | up to 3 requests, four groups of setups, clock 0 to 4 | `LayersHold`. `LimitHolds`: a fixed window admits the limit at most, a stretch as long fewer than twice that. `RetriesReplayed`, `ReadinessHonest`; under fairness `Drains` |

Six runs expect a violation: each states what a comment, a document or a test
says of the program and TLC finds a behaviour of the code that contradicts it.
`PROJECT.json` lists these under `findings`, and beside them four disagreements that a
passing run shows by what its property has to allow: the receipt option
(`StoredRowsConsistent`), `iat` and the age of the key set (`TokenVerdicts`), and the
limiter that is open or answers 503 once Redis has lost its script (`LayersHold`).

| Run | Claim | What TLC shows |
|---|---|---|
| `orders_frozen` | a CANCELLED order is frozen for users (`user-update-service.ts:90`) | PATCH reads PENDING; cancel commits; PATCH writes by id |
| `orders_fields` | concurrent writes cannot desync `fieldsChanged` (`user-update-service.ts:22`) | two PATCHes read the same row; the second logs a field that its write left as the first had made it |
| `sessions_sweep` | logout-all revokes every refresh token (`tokens.ts:232`, `tests/integration/auth-google.test.ts:828`) | a token is stored between SMEMBERS and the MULTI, which deletes the index with it: it survives this sweep and every later one |
| `sessions_rehash` | the rehash at login is transparent (`docs/specs/008`) | login verifies the old password, a change commits, the rehash writes the old password's hash back |
| `cache_etag` | ETags are strong (`etag.ts:3`), a category rename is stale for one TTL (`invalidate-donation.ts:133`) | the page loaded after the rename has the old ETag; the client's revalidation is a 304 and it keeps the old body |
| `http_promises` | Retry-After clears all denied layers (`headers.ts:69`); the error where two windows meet is below a tenth (`docs/specs/010:60`) | `LimiterPromises` asks of every step that one of the two be kept, so the behaviour found refutes both: calls at 3, 3 and 6 pass a layer of two in four seconds (three in the four seconds from 3), and a fourth at 6, denied by a layer of three in seven seconds, is told to wait 1 s and would be denied at 7 |

### Bounds, and why they are enough

- Three requests: every hazard of `Orders` and `RefreshSessions` is a race of two
  handlers, seen or repeated by a third. One order id: no statement touches two
  orders, so orders interact only through the catalogue; the id may be free or hold
  a PENDING donation or purchase at the start, so creates, settlements and deletes
  of one row all meet. The proofs below hold for any number of each.
- Four tokens: one that exists and one for each request that mints.
- The cache: two readers (one to store stale data, one to read it), one writer
  whose DELs are interleaved with them, `MaxWrites = 2` (a charity and its project
  can both change, or one twice). The category keys and a category row appear in
  `cache_etag` only; the theorem covers all of them.
- Symmetry is declared for requests, mintable tokens and passwords, in runs
  without liveness properties only.
- `accounts`: two requests of any kind race, and the login counts what they did;
  two accounts, because an identifier or a Google identity has an owner and a
  rival. Threshold 2 makes one failure short of the lock and one at it.
- `catalogue`: every race is of two writes. Two categories, so that a set of links
  can be mixed; windows need the values 1 and 2.
- `http`: N = 3 fills a layer (limits 1 and 2) and has one retry more than needed.
  Windows of 2 and 3 in a horizon of 4 let a request meet a full previous window and
  a new one; `ReplyTTL` = 2 lets an answer expire before a retry, `ProbeTTL` = 1 a
  probe before the next; `Grace` = 1 < `ForceExit` = 3 < `Horizon`. Setups are chosen
  one question at a time (retries, limits, stops, refusals): every interleaving of
  each is explored, the products of faults are not. The theorems hold for all.
- `http_promises`: four calls on one route of two layers, 3 in 7 and 2 in 4, and a
  horizon of 6. A stretch over the limit takes a full window and one call in the next;
  a denial that is repeated needs a layer that is full when its window ends; the two
  windows end at different times, so that one behaviour has both.
- Some facts are about functions of data, not of a behaviour: `ChargeIsNextInYears`,
  `ClaimsAndKeyDecide`, `EveryWalkOnce`, `EveryListAgrees`, `EveryHistoryHolds`. They
  quantify over their own bounded inputs (all days of three years; all tokens; three
  rows in all places before and after the first page; all stamps and windows of a
  charity with two children; all histories of four calls). The module of the component
  states each as an invariant of the states in which its own model relies on it, and
  the theorems are about any number of rows, pages, calls and years.
- `MCRefreshSessions*.cfg`, `MCAccounts.cfg`, `MCCatalogue.cfg` and `MCServer*.cfg`
  switch the deadlock check off: each request is served once, and when all are
  served and nothing is left to expire the system really is at rest.

### Fairness

`CatalogueCache`, in its `Spec`: a request that has started
eventually finishes or is dropped (Node runs its continuations, `server.ts` forces
the exit of an instance that hangs), a pipeline of DELs is executed or fails
(ioredis settles every command), and a key expires (every SET has an EX). It is
weak fairness on the disjunction, so the failure is always allowed. No client must
ask, nobody must write, and an entry may be renewed by later loads for ever.

`Server`: weak fairness of `Tick` (time passes) and of `CloseStarts`, `Closed` and
`ForceExits` (timers of the event loop fire; a `close()` with nothing left to wait
for settles). None for requests, pings or the supervisor: `Drains` must hold while
all of them hang. The forced exit is what makes it true.

## 5. What is proved

`tlapm` proves each theorem for every value of the constants that satisfies the
named assumptions. Every safety property of a run, the type invariants and the action
properties included, is a theorem. No safety property of the state here is
inductive by itself: each speaks of answers or of finished steps, while the race
that could break it is decided one or two awaits earlier. The inductive invariants
say what a handler knows at each await, of itself and of the tables; they stand at
the end of the modules they are about, and TLC checked each of them on the run of
its module before it was proved. Every proof has the same shape: a lemma per kind of change
(what a step that touches only this has to keep), a lemma per action that shows it
is such a step, `Init => Inv`, `Inv /\ [Next]_vars => Inv'`, and `Inv => property`.

**OrdersProofs**: `TypeCorrect`, `InvCorrect` and `SettlementAgreement`
(`Spec => []SettlementAnswersAgree`). `Inv` says of *informed* requests what the
property says of answers: an order that no administrator rewrote keeps, for as long
as it exists, the outcome its informed requests made or saw (`OutcomesStand`), ids
in the table were handed out (`IdsUsed`, so that a deleted order is not created
anew), and each handler knows at each await what it relies on later (`RequestInv`).
`FirstChargeCorrect` (`ChargeIsNext(Nat)`): from any day of any year, the first charge
is the next billing day; `FirstChargeIsNextCorrect` is the run's form of it.
The interesting actions are `SettleUpdate` (whoever finds the row PENDING finds no
informed request) and `PatchWrite` (a user's PATCH has no status to write, an
administrator's makes the order corrected).

**OrdersLedgerProofs**, on top of it: `CreatesNeverFail`, `RowsCorrect`,
`StampsCorrect`, `AuditCorrect`, from a second invariant `RowsInv` of the stored rows
and their audit trail; and `LedgerCorrect`, that `Orders` implements `OrderLedger`. For
the refinement each action is mapped to a step of the ledger or to a stutter; that
a settlement is one needs `RowsInv` (the row it finds is PENDING and well formed),
that a create opens an id never used needs `Inv`.

**RefreshSessionsProofs**: `RotationCorrect`, `IndexCorrect`, `SweepCorrect`,
`DisabledCorrect` and `FirstPasswordCorrect`, from one inductive invariant `Inv`:
what each request is at each await (`PointInv`), how its past relates to the store
now (`PastInv`: while a sweep is between its two steps, every live token is in what
SMEMBERS returned or was missed) and what no two requests both did (`OneEach`).
`SweepsKill` needs that middle clause, and it in turn the promise of the index,
`LiveIndexedOrMissed`. Assumption: `SessionAssumption`.

**CatalogueCacheProofs**: `CoherenceCorrect` (`Spec => []Coherent`) for any catalogue,
any set of keys and any number of clients and administrators, from
`CacheAssumption`. `Coherent` is not inductive because a reader that has loaded but
not stored yet may store what has become stale; `Inv` demands of what readers hold
what `Coherent` demands of what is stored. The lemma `DelKeysReach` shows that
`donationCacheKeysFor` names every key it has to. The lemma `ExcuseKeeps` covers the steps
that excuse (`DelKey`, `DelFails`, `WindowPasses`) and `Commit`, `ReadKeeps` the others.

**AccountsProofs**: `TypeCorrect`, `LockCorrect`, `NamesCorrect`, `SubCorrect`,
`OnceCorrect`, `DisabledCorrect` and `StaleCorrect`, for any accounts, identifiers,
Google identities, sessions and requests. `Inv` has two halves. `IdentityInv`: what
each request knows of itself at its point (`Placed`: one that went past the guard has
not an account that was disabled when it came in), what it knows of the tables and
nobody can take back (`Grounded`: the identity it signs in with is linked to its
account, the OAuth session it consumed is gone), and the unique constraints
(`Unique`), on which `OneAccountPerSub` rests. `StaleInv` says of a request that is
about to open a session with a password what `StaleSessionsRaced` says of the session:
it was in flight during a sweep, a change died before its sweep, or *another*
request has still to sweep. Without "another" a change would excuse the session
it mints itself. A step changes the record of one request; `Moves` collects what
the new record must satisfy, and only the sweeps also mark others.
`VerdictsCorrect` (`ClaimsAndKeyDecide` of `GoogleToken`): the claims the code looks at
and the key decide the verdict on an ID token, and nothing else does, whatever keys
exist, are cached and can be fetched; `TokenVerdictsCorrect` is the run's form of it.

**CatalogueProofs**: `TypeCorrect`, `WindowCorrect`, `LogosCorrect`, `LiveLinksCorrect`,
`ReplaceCorrect` and `StampsCorrect`. `RowsInv` relates a writer to the rows it has
read: they still exist, and the categories it found live still are, or `turned`
names them. `LockInv`: a row lock is held by a transaction on that row, and every
transaction that names a column holds it. `LinksInv`: a replace that was always
alone has seen, and will delete, all links there are. `LinksOneReplace` rests on it,
and it on the lock: without one, two replaces overlap, and then `mixed` says so.
`StampsAudited` is inductive and counts: the audited changes of a stamp and those whose audit line is
still owed add up to the stamp, so `InAudit` (the requests that owe one) is finite and
each step changes it by at most one.

**ServerProofs**: `TypeCorrect`, `LayersCorrect`, `RetriesCorrect` and `ReadinessCorrect`,
for any routes, layers, limits, windows, TTLs and setups. `Placed` is what a
request knows at its point; `Heard` and `MemosInv` that a result a probe waits for is
a success within the TTL or a failure since it asked, whichever of the waiting
requests started the ping; `RepliesInv` that the stored answer of a key is that of one
request with the key and that it stays until Redis loses it or its TTL is over;
`CountersInv` that a window that can still be asked for has a counter that counts at
least all its admitted requests, and that these fit the limit. This is where late
calls matter: a counter lives for two windows, so it may be gone under a call that
took longer, and a fresh one would count from zero. `RetriesReplayed` and
`ReadinessHonest` are action properties; both follow from `Inv` at the first state of
the step.

`HistoriesHold` is about one layer and any history of calls, with scripts that run as
late as they like: what a window admits, what a stretch across two windows admits (the
last call of the second one still fitted beside the share of the first that the
estimate counted then), and that an idle window frees the layer. `LimitHoldsCorrect` is
the run's form of it.

**ListsProofs**: what the run of the catalogue evaluates on a few inputs holds of all.
`CursorsCorrect` and `OrderCursorsCorrect`: the orders of the lists are strict and
total on rows with different ids, and a cursor stands for exactly the rows after the
one it was made from. `PagesCorrect`: a page of sorted rows is their beginning, and
its cursor asks for exactly the rest. `VisibilityCorrect` says of two rows, and
`ListsAgreeOnAll` of the lists and details of any catalogue that fits a page, that
public and admin reads agree. `WalksCorrect` is the one that needs all the others: a
walk through any of the seven lists, of any number of pages, over any tables at each
page, is like one list. Its invariant `Kept` says of what was shown so far that it is
in order, that each row was in the list at some page, and that a place that was in
the list at every page so far has been shown or comes after the last one shown (only
the first when the walk is over). That a list which stands still is walked to its end
is a count: each page but the last shows one place more, all of them different and
one still to come (`Ahead`, `WalkEnds`). `EveryWalkOnceHolds` and
`EveryListAgreesHolds` show that the inputs the run tries are among those of the
theorems, and **CatalogueProofs** states them of the specification
(`ListsWalkOnceCorrect`, `ListsAgreeCorrect`).

Induction over data. The induction theorems of the library cannot be instantiated
by the provers, so the induction over the calls of a layer (`Ran`) and over the pages
of a walk (`Walk`) goes by the least counterexample: a set of naturals that is not
empty has a least member (`LeastNatural`, from the library's well-foundedness of
`<`), and the step from the one before it refutes it. That a recursive function exists at
all is proved in the same way (`WalkExists`), and so is that a finite set can be
sorted (`SortedExists`, where the place of a row is the number of rows before it).

### Assumptions

Each is a named ASSUME that TLC evaluates on a run, and says of the constants only
what the code guarantees.

- Requests are finitely many where they are counted; `NULL`, `ABSENT`, `NoUuid`,
  `NoKeys` differ from the values they stand in for; identifiers of different
  kinds are different (`AccountsAssumption`: a username has no @).
- `NullAssumption` (`CatalogueLists`): what stands for a cursor or a status that was
  not given is no cursor and no status.
- `BodyAssumption`, `StoredAssumption` (`Orders`), `CatalogueAssumption`: bodies have
  passed the routes' schemas, orders stored before start were made by `createOrder`.
- `SessionAssumption`, `CacheAssumption`: what exists at the start is well formed.
- `ServerAssumption`: limits are naturals, windows and TTLs positive, and one purpose
  name has one window. The last is needed because a counter's key has the name
  and not the window (`keys.ts`); each name is a constant next to its configuration
  in the routes (`routes/user/donation/orders.ts`).

### Only model-checked

- Liveness (`CacheSettles`, `AnswersSettle`, `Drains`) needs ENABLED and fairness,
  out of the prover's reach.
- The violation runs are counterexamples and have no theorems.

## 6. Not modelled, and why

- Composition of all modules in one state space. Where components meet, one of them
  takes the other's whole behaviour as its environment: `Orders` sees a catalogue
  that flips visibility and prices (`Catalogue` writes them), `CatalogueCache` an
  atomic change of one row followed by DELs, `Accounts` a session that is a name
  (`RefreshSessions` has the records), `Server` a handler that answers or throws.
- The signature of a presigned URL and the upload itself, between browser and S3.
- Texts, names, prices and `displayOrder` of the catalogue; projection on a locale;
  profile fields and lastLogin stamps of an account; the role and the lifetime of an
  access token: no property is about them.
- Problem bodies beyond their status, log lines other than audit events, headers
  other than ETag and the rate limiter's, OpenAPI, i18n, CORS, configuration:
  formatting or start-up wiring without shared state.
- `Cache-Control` and shared HTTP caches: outside the program; the model's clients
  revalidate with every request.
- Which address a client has behind proxies (`trusted-proxies.ts`): requests of
  `Server` come from one.
- The seed, which deletes and inserts all rows, and the cleanup of orphaned objects
  are run by hand, outside the server.
