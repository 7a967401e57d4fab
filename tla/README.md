# Verification of the stock alert bot

The program sends a LINE message when a US stock reaches a price its user chose.
It is a Go backend (`src/backend`) on PostgreSQL and Redis, a React frontend
(`src/frontend`), and two providers: LINE (login, messages, webhook, rich menu) and
the stock data services (Finnhub, Twelve Data). Several replicas of the backend may
run; they share the database and Redis and nothing else.

This directory holds TLA+ models of the parts whose correctness depends on the order
of steps, the TLC configurations that check them on small instances, and proofs for
every value of the constants. Names follow the source.

## 1. Inventory

Paths are relative to `src/backend/internal` unless they start with `src/`.

| Component | State | Operations | Hard behaviour | Correct when |
|---|---|---|---|---|
| **Alert lifecycle** `services/alert_service.go`, `repositories/alert_repository.go` | `alerts`, `stocks` rows | Create, Update, Delete, Rearm, List | read, call a provider, then write: what was read may be stale; unique index; row locks | limit, unique definitions, only ACTIVE stocks, legal status changes |
| **Alert worker** `services/alert_worker.go`, `repositories/alert_worker_repository.go` | `alerts.status`, `alert_logs`, `offset` | Run, runCycle, processSymbol, notify | replicas, a goroutine per symbol, crash between claim and push, LINE answers lost | one message at most, honest log, persistent matches fire |
| **Administration of alerts and stocks** `repositories/admin_stock_repository.go`, `admin_alert_repository.go` | status columns, audit rows | disable alert, disable/enable stock | transaction over a stock and its alerts against creations and claims | no alert left ACTIVE on a stock by a creation in flight |
| **Accounts and sessions** `services/auth_service.go`, `repositories/auth_repository.go` | `refresh_tokens` | issue, Refresh (rotate), Logout, revoke family | rotation under READ COMMITTED against revocations; reuse of a rotated token | one live token per family, a revocation is final |
| **Administration of users** `repositories/admin_user_repository.go`, `src/backend/middleware/admin.go` | `users.status`, advisory lock | Disable, Enable | two administrators disabling each other | an ACTIVE administrator remains |
| **LINE login** `services/line_oauth_service.go`, `line_client.go` | `users`, `user_identities` | AuthorizationURL, Login, FindOrCreateLineUser | overlapping first logins of one LINE account | one user per LINE identity, no user without one |
| **LINE webhook** `services/line_webhook_service.go`, `repositories/line_webhook_repository.go` | `line_webhook_events` | Process, ClaimEvent, MarkProcessed, MarkFailed | redelivery, an error aborts the rest of a batch, crash between claim and mark | an event is answered at most once at a time, a failed one can be retried |
| **Market notifications** `services/market_notification_worker.go` | a Redis key per event and day | check | replicas, ticks and windows, crash after SETNX | one announcement per event and day |
| **Market hours** `services/market_hours.go` | none | session status, trading days, holidays | date arithmetic | status and next change agree; the holiday list |
| **Stock data** `services/stock_service.go`, `quote_cache.go`, `finnhub_client.go`, `twelve_data_client.go` | Redis caches, in-memory catalog, singleflight | Search, Quote, Quotes, Candles | singleflight, a shared slice sorted by each caller, stale caches, paging | no stale answer, one provider call per miss and replica, nobody waits for nothing, paging loses nothing |
| **Rich menu** `services/rich_menu_service.go` | LINE's menus, audit row | Publish | one of four calls fails or loses its answer; the JPEG scan's index arithmetic | no orphaned menu that can be avoided; what is published is there |
| **Rate limits, signatures** `src/backend/middleware` | a token bucket per client in each replica (library) | RateLimit, VerifyLineSignature, RequireAuth | none of its own | - |
| **Frontend** `src/frontend/src` | React state, localStorage | hooks that load and show | answers out of order, effects that are not cancelled | what is shown belongs to what is asked for |
| **Configuration, wiring, read-only lists** `utils/config.go`, `main.go`, `admin_dashboard_*`, `admin_monitoring_*`, `user_*` | none | load, list | none | - |

How they interact: users' and administrators' requests and the workers meet only in
the tables; a change becomes visible when its statement or transaction commits (the
default READ COMMITTED isolation). Calls to LINE and to the stock providers happen
outside of transactions. `main.go` starts the workers as goroutines and does not wait
for them when it stops.

## 2. Modules

| Module | Models | Depends on |
|---|---|---|
| `AlertTables` | the tables `stocks`, `users`, `alerts` and every SQL statement or transaction step on them | |
| `AlertRequests` | `AlertService`: Create and Rearm as requests in steps, Update, Delete | `AlertTables` |
| `AlertWorker` | `AlertWorker`: one goroutine per replica and symbol | `AlertTables` |
| `AlertSystem` | the three together with administrators; all properties of the alert feature | `AlertRequests`, `AlertWorker` |
| `NotifyOnce` | abstract: what the alert feature promises about notifications | |
| `AlertSystemProofs` | theorems about `AlertSystem` | `AlertSystem` |
| `Sessions` | refresh tokens (`AuthService`, `AuthRepository`), `RequireAdmin`, `AdminUserRepository.SetStatus` | |
| `MCSessions` | `Sessions` and `LineLogin` for TLC, with symmetry | `Sessions`, `LineLogin` |
| `SessionsProofs` | theorems about `Sessions` and `LineLogin` | `Sessions`, `LineLogin` |
| `LineWebhook` | `LineWebhookService.Process` and `line_webhook_events`, with LINE's redelivery | |
| `MCLineWebhook` | batches of three events for TLC | `LineWebhook` |
| `LineWebhookProofs` | theorems about `LineWebhook` | `LineWebhook` |
| `MarketNotifications` | `MarketNotificationWorker` on one trading day | |
| `MCMarketNotifications` | `MarketNotifications` for TLC, with symmetry | `MarketNotifications` |
| `MarketNotificationsProofs` | theorems about `MarketNotifications` and `MarketCalendar` | `MarketNotifications`, `MarketCalendar` |
| `StockQuotes` | `StockService.Quote`, `Quotes`, `Candles`, the worker's quote, Redis and the flights of each replica | |
| `ListOrder` | a finite set as a list, in an order given as a set of pairs | |
| `StockCatalog` | `StockService.stockCatalog` and `Search` with its pages | `ListOrder` |
| `FrontendLoads` | the hooks `useStocks` and `useStockCandles` | |
| `AlertSweep` | `AlertWorker.Run` and `runCycle`: which symbols a cycle polls | `ListOrder` |
| `MCStocks` | `StockQuotes`, `StockCatalog`, `FrontendLoads` and `AlertSweep` for TLC | all four |
| `LineLogin` | `FindOrCreateLineUser` and the issue of tokens | |
| `RichMenu` | `RichMenuService.Publish` and the JPEG scan | |
| `MarketCalendar` | `market_hours.go`: holidays, trading days, session status | |
| `MCBroadcasts` | `MarketNotifications`, `MarketCalendar` and `RichMenu` for TLC: what all users see at LINE | `MCMarketNotifications`, `MarketCalendar`, `RichMenu` |
| `StockQuotesProofs`, `FrontendLoadsProofs`, `RichMenuProofs` | theorems about the module of that name | that module |
| `StockListsProofs` | theorems about `StockCatalog` and `AlertSweep`: lists in order and their pages | `StockCatalog`, `AlertSweep` |

Components that share tables are in one module or composed: requests, worker and
administrators in `AlertSystem`, sessions and the administration of users in `Sessions`.
The others share no variable that matters to their properties (the alert worker and the
market worker read `users.status`, which `AlertTables` changes freely; `StockQuotes` hands
`AlertWorker` a price, which that module chooses freely; `LineLogin` ends where the
login of `Sessions` begins). Where several of them are checked by one run, the MC module
has a variable `part`, chosen at the start and never changed: a behaviour is a behaviour
of the module `part` names, and the invariants of the others hold in it trivially.

### How the alert modules correspond to the code

*State.* `row`, `status` are the columns of `alerts` (`database/schema.sql:69-85`);
`stockStatus` and `userStatus` are `stocks.status` and `users.status`. Two kinds of
row locks can make another statement wait and are explicit: `stockLock` (the upsert of
`AlertRepository.Create`, the `SELECT ... FOR UPDATE` of an administrator) and `frozen`
(alerts rows updated by a deactivation that has not committed). `armings` is a history
variable: the n-th time an alert became ACTIVE; an *arming* `<<alert, n>>` is what a
user is notified about. `step`, `subject`, `seen`, `checked` are the local variables of
a Create or Rearm request; `phase`, `quote`, `jobs`, `held` those of `processSymbol` and
`notify`. `attempts`, `delivered` and `logged` are what happened outside: calls of
`PushText`, messages LINE accepted, rows of `alert_logs`.

*Actions.* One per statement that commits by itself or per visible step of a
transaction. `CreateUpsert` and `CreateInsert` are the two statements of
`AlertRepository.Create` (the first takes the lock, the second commits);
`BeginDisableStock` and `CommitDisableStock` are the halves of
`AdminStockRepository.SetStatus`. Every error return of a request is `Abort`; every
error of the worker has its action (`ClaimMissed`, `ClaimFailed`, `LoadFailed`,
`RecordFailed`), and `Stop` ends a replica between any two steps. `PushLine` lets LINE
accept, refuse, or accept while the answer is lost.

*Abstractions.* Prices and targets are small naturals, symbols and users model values.
The cycle (`runCycle`) is not a barrier: any symbol with an ACTIVE alert may be polled by
an idle goroutine, which contains every order the batches and the semaphore allow; that a
symbol's turn comes is the subject of `AlertSweep`. The
alerts of one symbol are claimed in any order (the query has no ORDER BY). Log rows of
`application_logs` and audit rows are left out. A Rearm of an alert that meanwhile is
not TRIGGERED returns an error: it is the request's `Abort`.

*Mutants.* A definition `X_Something` preceded by "Mutant:" is `X` with a plausible bug; it
is not part of a specification, and shows that a property notices the bug.

*NotifyOnce.* Each arming goes through `none -> armed -> owed -> attempted`, and may be
closed from `armed` or `owed`; LINE may be called only from `owed`, once. The mapping
(`StageOf`) reads the stage off the tables and the goroutines.

### How the other modules correspond to the code

*Sessions.* A call (HTTP request) is at one SQL statement or lock at a time, its `phase`;
`who` and `token` are its arguments, `targets` the rows the snapshot of its UPDATE shows.
READ COMMITTED is modelled by what matters here: an UPDATE takes its snapshot when it
starts (`RevokeTokenFamily`, `RevokeAllUserTokens`, `DisableTokens`) and finishes once no
row of it is locked by another transaction (`RevokeEnd`, `DisableCommit`); the rows
inserted in between are not in it. `RotateRefreshToken` is three steps: the insert, which
takes a share lock on the user through the foreign key (`UserShared`), the conditional
UPDATE (`TokenLocked`), the commit. `SetStatus` holds the advisory lock and the `FOR UPDATE`
lock on the user from `DisableBegin`/`EnableBegin` to its commit. `Abort` is every error
return, cancellation and crash: the transaction is rolled back.

*LineWebhook.* `status` is the column of `line_webhook_events`; `todo` and `phase` are the
loop of `Process` and where it is with its first event; `asked` is the batch. `ClaimEvent`
is the one upsert statement. Every call of the store or of LINE may fail, commit and
fail, or be accepted and lose its answer. `acknowledged` is LINE's view: the events that
came with a batch LINE got a 200 for; `accepted` and `lost` count LINE's replies. LINE is external: that it redelivers what got no
200, possibly regrouped and while the first delivery is in progress, is the most the
code may meet.

*MarketNotifications.* `keys` are the Redis keys, `due` the tickers, `now` the clock;
`Claim` is `marketTransition` and `SETNX`, `RecipientsError` the error path with its `DEL`.
`since`, `pushes`, `failures` and `harmed` (the announcements a crash or Redis has spoilt)
are history variables. The clock moves on only when no
check is due or under way: pushes that take longer than an interval are left out.

*StockQuotes.* A quote is its age, the time since the provider gave it. `cache` is Redis
with the life left of each entry; `flight` is the singleflight group of each replica;
`step` is where the goroutine of a reader for a key is: the first look (`Get`, `GetMiss`),
`singleflight.Do` (`Lead`, `Follow`), the second look inside it (`CheckHit`, `CheckMiss`), the
provider, the `SET`. An error of Redis is treated like a miss, as in the code. When a
flight ends, everybody who waits for it gets its result (`EndFlight`); when its first
caller's context is cancelled, the provider's call fails and all of them get an
error (`ProviderError`). A worker uses the cache without flights. `Elapse` makes entries
older and lets them expire; a `SET` under way gets older as well, by `Slow` at most. `by` and
`blind` are history variables. `Quotes` holds one of `Slots` places per symbol under way.

*StockCatalog.* A stock is its place in the alphabet. `slice` are the slices in memory, so
that callers of one flight hold the same one; `SortBegin` and `SortEnd` are the two ends of
`sort.Slice` in place. A sort of an ordered slice only reads it; two that overlap on
one that is not race, and leave anything (`raced`). `Search`, `Matches` and `PageStart` are
the pure part of the search, with products that wrap around like an `int`; `Rank` stands
for `stockSearchRank`. What the code sorts or filters is written as the entries at some
positions of a list in some order of the positions (`Picked`, `ByRank`), which is what a
stable sort does, on lists with repetitions too; nothing in it is recursive, so that
it can be proved about.

*FrontendLoads.* A page of results is its query and its number. `loads` are the requests of
`useStocks` in flight in the order of their numbers; any of them may be answered next. The
debounce timer, the form and *Load more* each call `Load`. `charts` is the request of the
effect of `useStockCandles` that is not cancelled, `cancelled` those that are.

*AlertSweep.* One action per cycle: `Page` is the query's `LIMIT` and `OFFSET` on the ordered
list of symbols (`BySymbol`), `NextOffset` the arithmetic of `runCycle`. Requests and claims change
the list between cycles; `CycleFails` is an error of the query.

*LineLogin.* One action per statement of `FindOrCreateLineUser` at READ COMMITTED: the lookup,
the insert of a user, the insert of the identity, which waits for or fails on the
unique index (`UniqueHolds`), the commit, whose answer may be lost. The exchange with LINE
before it changes nothing and is one action.

*RichMenu.* `step` follows a request through the scan and the calls of LINE. The scan
chooses what it reads when it reads it, since it reads no byte twice; `highest` is the
highest index read. Each call may be refused, or done while its answer is lost;
`MenuStop` is a crash between two calls. `excused` are the menus whose clean-up LINE or a
crash prevented.

*MarketCalendar.* Days are numbers, and a day has three parts. The functions of
`market_hours.go` are operators of the same names; `Ask` and `Search` are
`usRegularMarketStatus` with its loop. `Date` and `Weekday` are those of Go's `time`.

## 3. Runs

| Run | Instance | Shows |
|---|---|---|
| `AlertReplicas` | 1 alert, 2 replicas, 1 request, 2 armings, faults | type invariant, `AtMostOneAttempt`, `LogIsHonest`, refinement of `NotifyOnce` |
| `AlertCreation` | 3 alerts, 1 user, 2 stocks, 2 requests, limit 1, no worker | `CreatedOnActiveStock`, `LimitOvershootBounded` |
| `AlertFaultless` | 2 alerts, 1 replica, 1 request, no faults | `TriggeredAccounted`, `ClaimsTheArmingItMatched` |
| `AlertLiveness` | 1 replica, fairness | `PersistentMatchFires`, `ClaimIsRecorded` |
| `AlertRearmTarget` | 1 request, 2 targets | `RearmedAwayFromTarget` is violated |
| `AlertPolled` | 1 replica, 1 request | `ActiveIsPolled` is violated |
| `AlertUnnotified` | 1 replica, faults, fairness | `TriggerIsNotified` is violated |
| `Sessions` | 2 users, both administrators, 3 tokens, 3 calls; 3 logins of 2 LINE accounts | type invariants, `OneLiveTokenPerFamily`, `DisabledUserNotRotated`, `AnAdminRemains`; `OneUserPerAccount`, `EveryUserHasAccount` |
| `Webhook` | 3 events in batches of two, 3 overlapping deliveries, faults and lost answers | type invariant, `HandledByOne`, `ProcessedWasAnswered`, `RepliedOnce`, `ProcessedIsFinal` |
| `WebhookRedelivery` | 1 delivery at a time, LINE refuses replies, fairness | `AcknowledgedWasProcessed`, `DeliveredIsProcessed` |
| `Broadcasts` | 2 replicas, 2 users, faults, interval and minute as 30 s to 60 s; every part of every day of 2021-2049; 2 publishers of 2 menus, faults | type invariant of `MarketNotifications`, `AnnouncedOnce`, `AnnouncedInTime`; `AnswerHolds`; `NoMenuForgotten`, `PublishedMenuLives`, `ScanInImage` |
| `Stocks` | 2 requests of one replica and a worker on 2 quotes and 1 series; 2 requests and a catalog of 3 stocks; a search with 3 texts; a chart with 3 ranges; 5 symbols in batches of 2 | type invariant of `StockQuotes`, `Fresh`, `OneFetchPerTTL`, `WaitersAreServed`; `ListIsInOrder`, `PagesPartitionMatches`; `ListBelongsToQuery`, `ChartBelongsToRange`; `PolledInTime` |

What the properties say is written above each of them in its module; in short, of the
newer ones:

* `Fresh`: no answer is older than the life of an entry plus the time of one `SET`, although
  replicas and workers overwrite each other's entries and readers wait for flights.
  `OneFetchPerTTL`: a replica does not ask the provider for what it stored itself and is still
  cached; this needs the second look inside of the flight.
* `PagesPartitionMatches`: loading page after page shows each match once, for each page number
  an `int` holds, overflow included.
* `ListBelongsToQuery`: from the first page of a text on, the list is the first pages of that
  text, whatever arrives late.
* `PolledInTime`: with `OFFSET` on a list that changes, a symbol waits for two rounds at most as
  long as no symbol leaves the list.
* `OneUserPerAccount`: the unique index and the transaction keep one user per LINE
  account, and tokens are issued for no other.
* `NoMenuForgotten`: a menu that users never saw is deleted, unless an answer was lost.
* `AnswerHolds`: until the time it names, an answer of the market calendar agrees with the rules
  of the exchanges (third Monday, Friday before Easter, the Sunday after the full
  moon, ...), stated without the code's arithmetic; at that time the session changes.

A run that is expected to find a violation checks one property, taken from the code's own
words; see below.

*Bounds of the alert runs.* `AlertIds` is how many alerts are ever created, `MaxArmings` how often one
becomes ACTIVE, `Requests` how many Create/Rearm requests are in flight at once (each
slot is reused without limit), `Replicas` the processes. Two replicas race for a claim;
two armings let a stale goroutine meet a re-armed alert; two requests race past the
count, and a third alert lets them exceed the limit by one and try to exceed it by two.
One price on each side of the target makes both conditions true and false.
`CHECK_DEADLOCK` is on: an administrator can always change a user's status.

*Bounds of the other runs.* Two administrators are the smallest number that can lock each
other out, three calls let two rotations meet a deactivation or a revocation, three
tokens give a family a successor and another family beside it. Each of the three webhook
events is first in one batch and behind another event in another one; two deliveries
overlap, and a third one repeats what they race for; `MaxAccepted = 2` lets an event be
answered once too often. The modelled trading day is cut to its two transitions: two
replicas may be started at any moment, so their tickers have every phase; `MaxFailures = 3`
exceeds what the window promises to survive by one. The two `Webhook` runs and `Broadcasts`
may really stop, when LINE has nothing left to deliver and when the modelled day, or the
last year, is over: they do not check deadlock.

Two requests of one replica and a worker are the fewest with a flight, somebody who waits
for it, and a writer outside of it that shares a key with both; `TTL = 1`, `CandleTTL = 2` and
`Slow = 1` let an entry expire, and a `SET` come late, between any two steps. A second
replica adds another writer outside of the flight, which is what the worker is already.
`Slots = 1` makes the second symbol of a request wait for the first. `Responses` has lists
in order, out of order, and with a stock twice and an unsupported symbol; `MaxInt = 15` lets
the product of page and limit overflow. `MaxLoads = 3` has two older requests beside the
newest, to be answered before and after it; `MaxCharts = 2` two cancelled ones. Five symbols in batches of two end in
a page that is not full; removals make the last page full or empty as well. Two LINE
accounts, three logins: two of one account and another; three rows let two of them be
rolled back. Images of 4 and 17 bytes are the shortest JPEG that is scanned at all and one
that has room for a segment and a frame header behind it, 24 bytes the shortest PNG.
The years 2021-2049 have every combination of weekday and leap year (28 years), the year before Juneteenth became a holiday, and 2049,
where Easter needs the correction by `m`, which no earlier one does.

*Fairness (`AlertSystem!Fairness`).* A goroutine that can go on goes on, because
`runCycle` waits for it and the ticker starts the next cycle; saving the quote may have
to wait for a row lock that is taken again and again, so it needs strong fairness,
which PostgreSQL's lock queue gives; a transaction ends, because its handler runs to
`Commit` or to the deferred `Rollback`. Nothing is assumed of users, administrators,
crashes or LINE's answers. `Stop` may recur, so the liveness run has `Faults = FALSE`,
except `AlertUnnotified`, where one crash is the point.

*Fairness (`LineWebhook!Fairness`).* A handler runs to its end. LINE keeps delivering what it
has no 200 for and does not refuse the same reply for ever: both are about LINE, not
about this code, and without them a failed event may stay `FAILED`.

### What disagrees with the code's own words

* **Re-armed at its target** (`AlertRearmTarget`): "The price must move away from the
  target before this alert can be re-armed." (`services/alert_service.go:108`), but the
  UPDATE does not check that the target is still the one compared.
* **ACTIVE but never polled** (`AlertPolled`): disabling a stock disables its ACTIVE
  alerts only; a TRIGGERED one can be re-armed afterwards (`alert_repository.go:152`)
  and is shown as "POLLING" (`AlertCard.tsx:13`).
* **Triggered and never notified** (`AlertUnnotified`): the claim commits before LINE is
  called; a crash, or an error answer of a claim that committed, leaves the alert
  TRIGGERED for good, against "LINE will notify you once when it triggers."
  (`AlertForm.tsx:28`). The design is at most once, and that is what is proved.

Other behaviours the models show contradict nothing the code says, so no run calls them
wrong: two requests at once leave a user above `ALERT_LIMIT_PER_USER`, because count and
insert are separate statements (`services/alert_service.go:56-67`; how far above is
bounded by `LimitOvershootBounded`); a login that overlaps a deactivation leaves a live token of a DISABLED user, the
first of its family, which `Refresh` refuses until the user is enabled again; a logout
misses the token a rotation is about to commit; a webhook event whose handler stops
between claim and mark stays `RECEIVED`, is skipped by every redelivery and acknowledged; a
redelivery that overlaps a delivery about to fail acknowledges the event as well; a
market announcement whose replica stops after `SETNX` is not made.

Of the newer modules:

* Callers of one catalog flight sort the slice they share in place. When the provider's list
  is not in order these sorts race, and what they leave is published for an hour
  (`ListIsInOrder` excludes such slices by `raced`).
* When the first caller of a flight goes away, its cancelled context makes all who wait for
  the flight fail (`WaitersAreServed` says that they are answered, not that they succeed).
* `setDefault` may be done at LINE although its answer is lost: the new menu is then deleted
  and users have no menu, because an earlier default does not come back. Menus that were
  replaced are never deleted.
* *Load more* within the 120 ms after a keystroke, or after a search that failed, appends a
  page of the new text to the list of the old one, until the new list is loaded
  (`ListBelongsToQuery` holds from then on).
* A symbol that leaves the list of active symbols makes the offset skip one, which is polled
  a round later (`PolledInTime` counts anew then).
* `observedHoliday` moves a New Year's Day on a Saturday to December 31, as
  `services/market_hours.go:54` asks; `AnswerHolds` takes this rule, and regular closing
  hours on every trading day, from the code.

## 4. Proofs

`AlertSystemProofs` proves, for all sets of users, stocks, alerts, requests and replicas
(requests finite), with and without faults, from the named assumptions of the modules:

* `TypeCorrect`: `TypeOK` is inductive. Its parts about rows and locks (a stored alert
  has columns, a locked row is ACTIVE, a request past its load knows its alert) are what
  the other proofs use.
* `NotifiedAtMostOnce`: `AtMostOneAttempt` alone is not inductive. `AttemptInv` adds that
  an arming with an attempt or in the hands of a goroutine is *spent* (the alert is not
  ACTIVE in that arming any more, and never will be again), that a claimed arming has no
  attempt yet, and that no two goroutines hold the same claim.
* `CreationRespectsStock`: `CreatedOnActiveStock` follows from `StockInv`, which adds what
  holds between the two statements of a creation and between the halves of a
  deactivation: who holds the lock on a stock row, that the status the upsert saw is
  still current, and that the alerts of a stock being disabled are all in `frozen`.
* `LimitOvershootIsBounded`: `LimitInv` bounds the ACTIVE alerts of a user *and* the
  requests that have passed the count together; a count lets a request by only below the
  limit, an insert or re-arming trades a request for an alert.
* `TheLogIsHonest`: `LogInv` adds that what a goroutine holds is spent, held by it alone and
  not in the log yet, so an arming is claimed, delivered and recorded in this order, once.
* `TriggersAreAccounted`: `AccountInv` adds that a goroutine that holds nothing has nothing
  left of what it held; only the worker triggers an alert.
* `ClaimsWhatItMatched`, for one replica, with and without faults: `MatchInv` adds that an
  alert in a goroutine's list is still in the arming it was loaded in, is not TRIGGERED, is of
  the goroutine's symbol and is there once. Only `Rearm` starts another arming, and it needs a
  TRIGGERED alert, which only the goroutine of that symbol makes (`OnlyRearmArms`). With two
  replicas it does not hold: one may have loaded the alert before the other claimed it and its
  owner re-armed it, and then claims the new arming on the older match.
* `SystemImplementsNotifyOnce`: each step maps to a step of `NotifyOnce` or a stutter,
  under `TypeOK` and `AttemptInv`.

`SessionsProofs`, for all sets of users, tokens and calls, and every finite, non-empty set
of administrators:

* `TypeCorrect`; steps are split into those that only read and note (`ReadStep`) and those
  that write and end their call (`WriteStep`), and every later proof follows the split.
* `RefreshesExclude`: `RotationInv` adds to `OneLiveTokenPerFamily` that a rotation past its
  UPDATE holds a live token, alone.
* `AdminsRemain`: `AdminInv` adds that status changes exclude each other and that, while an
  administrator is being disabled, another one is ACTIVE.
* `RefreshEndsWithAccount`: `AccountInv` adds that a rotation past its insert and a status
  change of the same account exclude each other, that a live token found by a refresh
  belongs to an ACTIVE user, and that the snapshot of a deactivation has all live tokens
  of its user. It needs the two invariants before it.

`LineWebhookProofs`, for all events, batches and numbers of deliveries: `TypeCorrect`;
`EventsHandledByOne` and `ProcessedMeansAnswered` from `HandledInv` (a handler is alone, its row
says RECEIVED, and past the reply LINE has accepted it); `ProcessedStays`, an action
property; `RepliesOnce` from `ReplyInv` (while an event may still be replied to, every reply
accepted so far has lost its answer); `AcknowledgesProcessed`, without faults and while LINE
waits for one delivery before the next (both are needed: the two behaviours that hide an
event, of section 3, are a crash and an overlap), from `BatchInv` (a row says RECEIVED only while
its event is in hand, so what a call leaves behind in its batch is processed). Steps are of four kinds (take, continue, release,
pass), named in `StepKinds`.

`MarketNotificationsProofs`, for all replicas, users and times: `TypeCorrect`, `AnnouncesOnce`
and `AnnouncesInTime`. `AnnouncesOnce` comes from `OnceInv`: an event has one holder, nobody was pushed to before the
holder has read the recipients, and the recipients still to come have not been reached.
The type invariant needs `OnceInv`, because a key is deleted by its holder only.
`AnnouncesInTime` adds three invariants: `ClockInv` (a running replica ticks again within an
interval, and checks inside the window only), `TicksInv` (while an unharmed event has no key,
every tick of a replica that was up at the event was spent on a check that failed: its next
tick comes before `At + Interval * (failures + 1)`) and `DeliveryInv` (a key stands for a check
under way or for an event announced to all). The arithmetic is one lemma, `TicksInWindow`.

`MarketNotificationsProofs` also proves `AnswersHold` of `MarketCalendar`, for all first and last
years from 1900 to 2198 (`Centuries`: there the rule of the full moon that `AnswerHolds`
states is that of the calendar; the run's years are some of them). Two steps lead to it. The first is
that code and rules have the same holidays (`HolidaysAgree`, hence `TradingDays`): years follow
each other (`YearsFollow`), a holiday moved off a weekend is the Friday before a
Saturday or the Monday after a Sunday, the new year of the next year included
(`ObservedDays`, `FixedDays`), the *n*th weekday of a month lies in a week of
dates (`Weekdays`), and the code's Easter is the Sunday after the full moon
(`EasterFollowsFullMoon`): the century's correction is 24 in all of them, and `m` is 1 exactly
where the full moon comes a day early and the Sunday would be a week late. The second is the
inductive `CalendarInv`: no day of trade lies between now and the day the search looks at, or the
day of the answer; and the search stays in years it can name, because a Tuesday in the second
week of January is never a holiday (`SearchEnds`).

`StockQuotesProofs`, for all replicas, requests, workers, keys and lives of entries:
`QuotesInvariant` proves `QuotesInv`, which adds `FlightsAreFlown` (a replica has a
flight for a key exactly while one of its requests flies it) and `AgesAreBounded` (the age of
an entry and the life it has left are together at most its TTL plus `Slow`). From it
follow `QuotesTypeCorrect`, `AnswersAreFresh`, `NoRepeatedFetch` and `NobodyWaitsInVain`.

`SessionsProofs` also proves, of `LineLogin` and for all accounts, rows and logins: `LoginInv` follows a row from its insert,
when one login knows it, to the commit, which gives it to an account without one.
`LoginTypeCorrect`, `AccountsHaveOneUser` and `UsersHaveAccounts` follow.

`RichMenuProofs`, for all publishers, menus and lengths of images: `MenuInv` adds that a
menu in progress has one publisher and is not recorded yet, and that a scan starts
fresh. `FailedMenusAreDeleted`, `PublishedMenusLive` and `ScansStayInImages` follow.

`FrontendLoadsProofs`, for all texts, pages, ranges and bounds: `LoadsInv` adds that the newest
request fits the list (`NewestFits`) and that one chart request at most is not cancelled
(`ChartsFit`). `ListsBelongToQueries` and `ChartsBelongToRanges` follow.

`StockListsProofs` begins with one fact about a strict order of a finite set: the places of its
elements are 0, 1, 2, and so on, each once (`PlaceGrows`, `PlaceIsTaken`, `ArrangedByPlace`). It
stands for the induction a proof about a recursive sort would need.

* `PollsInTime`, for all sets of symbols and sizes of a batch: `SweepInv` says that the offset is
  a number *j* of full pages, that a symbol behind it has waited for at most *j* - 1 cycles of this
  round, and one still ahead for at most those of two rounds. A symbol that joins pushes others
  on, never back (`JoiningMovesOn`); a full page fits because `PagesThatFit`.
* `ReadsInOrder`, for all catalogs, callers and answers of the provider: `CatalogInv` adds who
  holds a slice, and that a slice that was not raced has each stock once from the answer on and
  is in order from its first sort on, for the catalog and for whoever else holds it.
  `UnusedIsFree` is the pigeonhole that a new slice is nobody's.
* `PagesAreAPartition`, for all rankings and accepted pages and sizes: `MatchesByPlace` (a match
  stands where the number of better ones says), `PageOfList` (a page is the places it
  stands for), `NoOverflow`. Assumed is that a list and one page are no longer than the largest
  `int` (`CatalogAssumption`), which no memory exceeds.

Only model-checked are liveness and what depends on `ENABLED` (`PersistentMatchFires`,
`ClaimIsRecorded`, `DeliveredIsProcessed`). The three runs that find a violation have nothing to
prove.

## 5. Not modelled

* *Rate limits, signatures, access tokens.* A token bucket, an HMAC and a JWT of libraries; the
  code around them decides on one request and keeps no state of its own.
* *The checks of a LINE login before the account is known*: state cookie, nonce, ID token.
  They concern one request and change nothing.
* *`useAlerts` and `useStockQuote`.* They neither number nor cancel their requests, so the last
  answer to arrive is shown whatever it answers: there is no order to state. The refresh
  token is never used by the frontend; a 401 ends its session.
* *Pages and components* of the frontend, *configuration and wiring*, the *read-only lists* of
  users and administrators: layout, environment parsing, and queries without a state of
  their own. Decoding of the providers' answers, wording, audit and application logs.
* *Pushes of a market announcement that outlast an interval*: the clock of
  `MarketNotifications` waits for them, which is why that component is modelled in part. A
  failing push to one user is modelled and, as in the code, not repeated.
* *The price inside of a quote*: `StockQuotes` tells quotes apart by their age only, and
  `AlertWorker` by a price that may be any.

The audit inserts of administrators pass untyped parameters to `jsonb_build_object`; whether
PostgreSQL accepts them is a question of its parameter typing that no model here asks.

What would be worth doing next: liveness of `AlertSweep` together with `AlertWorker`, so that
`PersistentMatchFires` covers the offset too; two replicas with a shared key in the `Stocks`
run, as a larger instance.
