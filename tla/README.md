# BullBearBroker: a TLA+ model of the backend and its live clients

BullBearBroker is a FastAPI backend (`src/backend`) with a Next.js frontend
(`src/frontend`). This directory models the parts where several actors share
state: who may still sign in with what, how wrong passwords slow a login down
and how many requests a limit lets through, who gets live prices, alerts and
notifications, what becomes of push subscriptions, how alerts are evaluated
while their owners edit them, how callers of the assistant share work, and how
old a quote may be. The two React hooks that hold a WebSocket are modelled with
the servers they talk to. TLC checks each module on small instances; TLAPS proves
the safety properties of all passing runs, and of liveness what a measure can show,
for every value of the constants.

Paths below are relative to `src/backend` unless they begin with `src/`.

## 1. Inventory

What the system consists of, the state each part keeps, its operations, what is
hard about it, and what makes it correct.

| Part | State | Operations | Hard because | Correct if |
|---|---|---|---|---|
| **Authentication tokens** `routers/auth.py`, `services/user_service.py`, `core/security.py` | tables `refresh_tokens`, `sessions` | login, refresh (rotation), logout, logout_all | each handler is several transactions, in threads; any of them may be the last; signatures outlive rows | an exchanged token is dead, revocation lasts, the session limit holds up to overlaps |
| **Login throttling** `core/login_backoff.py` | one entry per address in Redis | check cooldown and lock, register a failure, soft lock, clear | each change is GET, compute, SET; coroutines interleave at every command; old copies are written back | few guesses per lock, bars are not cut short by oneself, each of them ends |
| **Rate limits** `core/rate_limit.py` | a counter in Redis, lists of times in memory | hit | Redis may fail at any hit, and the two stores know nothing of each other | what both admit together is bounded; being refused costs nothing |
| **Realtime gateway** `routers/realtime.py`, `services/realtime_service.py` | set of connections, subscriber count, references to two background tasks on `app.state` | connect, subscribe, unsubscribe, leave; broadcast | tasks are started and stopped on demand, with an await in the middle of stopping | a connected client is registered and served; the dead are unregistered; handlers end |
| **Alert socket** `services/websocket_manager.py`, `main.py`, `src/frontend/src/hooks/useAlertsWebSocket.ts` | the set of connections; refs, timer and status of the hook | connect, disconnect, broadcast; render, reconnect, disconnect by hand, timer | renders, timers and late closes overlap; sockets come and go during a broadcast | the tab listens to one socket, for the present token, and keeps trying; the manager knows the live |
| **Live notifications** `services/notification_dispatcher.py`, `routers/notifications.py`, `routers/notifications_ws.py`, `src/frontend/src/hooks/useLiveNotifications.ts` | sockets by user, the log of the last events; the list on the screen and the one SWR keeps | connect, disconnect, broadcast; poll the log, listen | polls come in late, sockets drop, the token changes, the server restarts | what is announced to a served tab is seen, once; the tab never waits for nothing |
| **Web push** `services/push_service.py`, `routers/push.py`, `scripts/prune_stale_push_subs.py` | tables `push_subscriptions`, `push_notification_preferences` | broadcast with retries, mark a failure, reset, subscribe, unsubscribe, prune | threads, the event loop and another process update the same rows | rows stay coherent, verdicts last, one endpoint costs the others nothing, broadcasts end |
| **Alerts** `services/alerts_service.py`, `routers/alerts.py` | table `alerts` | create, update, delete, delete all; evaluate all | a pass holds copies of all active rows while their owners edit, toggle and delete | the owner's word stands; an alert goes silent for a cause; a settled alert had fired |
| **Alert scheduler** `services/alert_service.py` | detached copies of alerts, a periodic job | fetch, resolve prices, compare, notify | copies age while users edit; two notations of conditions | a met condition is notified |
| **AI assistant, answers** `services/ai_service.py`, `services/ai_cache_service.py`, `routers/ai.py`, `services/context_service.py` | circuit breakers, cooldowns, tables of shared tasks, caches | chat, context, chain of providers with retries | callers share tasks and breakers; any of them may be cancelled | the table of shared work is right; a broken provider is left alone; nobody gets another's answer |
| **AI assistant, streams** `stream_generate` in `services/ai_service.py` | cache, pending producers, futures | open, produce, wait, read, leave | clients leave at any chunk, and the producer is one of them | what harms those who stay takes somebody who left; waiters are served |
| **Market data and cache client** `services/{market,crypto,stock,forex,timeseries,news}_service.py`, `utils/cache.py`, `services/cache_service.py` | Redis, its fallback in memory, the statistics of Binance, the order of the forex providers | look up, ask a chain of providers, store | timeouts, retries, outages of Redis, slow requests that store late | no answer older than its time to live; an empty answer means that all have failed; requests end |
| **Portfolio** `services/portfolio_service.py` | tables of items | CRUD, import | check, then insert | names are unique |
| **Database engine, configuration, logging, metrics, migrations** | a singleton engine | set-up | double-checked locking | one engine |
| **Rest of the frontend** `src/frontend` | tokens in a browser tab | refresh before expiry; presentation | tabs share cookies, not memory | one refresh at a time per token |

How they interact. HTTP handlers call services. Handlers declared `def` run in
a pool of threads, those declared `async def` on the one event loop of the
process. Services share the database (own session, own transactions) and Redis.
The dispatcher sends an event through the realtime service on the event loop,
through the push service in a thread, and through `ConnectionManager` to
`/ws/notifications`; the alert scheduler uses `AlertWebSocketManager` and
`/ws/alerts`. `main.py` creates the objects on `app.state` that the realtime
handlers share. The chat collects quotes from the market services before it
asks a provider. The pruning and test scripts are processes of their own on the
same database.

The hazards, line by line and with the properties that address each, are listed
in `PROJECT.json`.

## 2. Modules

| Module | Models | Checked in the run | Proved in |
|---|---|---|---|
| `TokenLedger` | what the token endpoints promise of each token | `AuthTokens` (as a refinement) | `AuthTokensProofs` (as a refinement) |
| `AuthTokens` | the token endpoints, transaction by transaction | `AuthTokens`, `V_AllSessionsRevoked`, `V_RefreshIsAnswered` | `AuthTokensProofs` |
| `LoginBackoff` | login throttling, Redis command by Redis command | `LoginBackoff` | `LoginBackoffProofs` |
| `RateLimit` | the three limiters, hit by hit | `LoginBackoff` | `LoginBackoffProofs` |
| `Notifications` | live notifications from the broadcast to the screen | `LoginBackoff` | `NotificationsProofs` |
| `RealtimeGateway` | handler, background loops, broadcasts, await by await | `RealtimeGateway`, `V_PricesReachClients` | `RealtimeGatewayProofs` |
| `PushDelivery` | broadcasts, subscribing, pruning, statement by statement | `PushDelivery`, `V_CategoryIsRespected` | `PushDeliveryProofs` |
| `Alerts` | editing and evaluating alerts, the scheduler's job | `Alerts`, `V_MetAlertsNotify` | `AlertsProofs` |
| `AlertChannel` | the alert socket, hook and server | `Alerts` | `AlertsProofs` |
| `AiAssistant` | chat and context requests, shared tasks, circuit breakers | `AiAssistant` | `AiAssistantProofs` |
| `AiStream` | streams that share a producer | `Feeds` | `FeedsProofs` |
| `MarketData` | every chain of providers with its caches | `Feeds` | `FeedsProofs` |

An `MC` module extends the modules of its run, so that the run and the proofs
speak of the same definitions. Modules that share nothing are checked in one run:
`MCLoginBackoff`, `MCAlerts` and `MCFeeds` hold a variable that says which of them
a behaviour is about (`bar`, `crew`, `feed`), and the others keep still. In
`MCRealtimeGateway` and `MCAiAssistant` such a variable says which tasks run and
which callers make requests. A section "Deliberately wrong variants",
or a comment that begins with these words, marks mutations of definitions; no
specification uses them, they are there to check that each property can fail.

### AuthTokens and TokenLedger

`rows` and `sessions` are the two tables, `held` the refresh tokens that reached
a client, `req` what each server thread is doing. A thread goes from stage to
stage, one committed transaction per action: `RefreshLookup` finds the row,
`RotateDelete` deletes and commits it (auth.py:581), `RotateInsert` commits the
successor (584), `CountSessions` and `CommitSession` are
`register_external_session` (user_service.py:486-528). `Fallback` is the second
path of `/refresh`, for a token without a row; in the code it mints a token
without a jti, and the model shows that its minting branch needs a row to
appear for a token that had none, which never happens. `Die` ends a request between any two
transactions. A lost response is a token that nobody uses.

Refresh tokens are told apart by a random jti and never coincide. Access tokens
of a refresh carry no jti, so the second in which they were signed is their
identity; `sessions.token` is unique, which is `SessionConflict`.

Login is `async def`, so two logins of one process do not overlap; the model
lets them, as several processes would.

`TokenLedger` is the promise: a token is unissued, live or dead. It is issued
by a login, or in exchange for a dead token of the same user; the dead stay
dead. How many successors a token has is left open, because two requests that
found it live may both exchange it. `LedgerRefined` maps the tables to it.


### LoginBackoff

`entry` is the value in Redis for one address, `attempt` the coroutines that
serve a login, each with the copy it is about to write (`copy`). One action is
one Redis command, since the coroutine suspends at each. Deadlines are stored
as the time that remains; `Tick` counts all of them down, those in the copies
too. The failure count stops at `Enough`, beyond which every comparison gives
the same answer. Redis is up: the memory fallback is not modelled here. The TTL
is renewed by each SET and exceeds every window, so `Forget` waits for locks and
cooldowns to lapse. `LOGIN_SOFT_LOCK_THRESHOLD`, `LOGIN_SOFT_LOCK_COOLDOWN` and
`LOGIN_BACKOFF_START_AFTER` are not defined in `Config` today, so the handler's
defaults hold (no soft lock, threshold 3); the soft lock is checked too because
the code is there.


### RateLimit

`bucket` is the list of times in memory and `counter` what Redis keeps for one
key; `limiter` chooses among `login_rate_limiter`, `rate_limit` and
`SimpleRateLimiter.record_hit`. Neither store reads the other, and the script in
Redis and the fallback are each atomic, so one request is one action: answered
by Redis (`AskRedis`, `RefusedByRedis`), or by the list after Redis raised
(`RedisFails`, `AskList`, `Refuse`); Redis may have counted the hit and still
raise. Times are ages in ticks, the oldest first. `passed` remembers what each
store has let through, as a list of ages too.

### RealtimeGateway

One event loop: an action is the code between two awaits that suspend. The lock
of `RealtimeService` is never held across an await, so acquiring it does not
suspend. `handler` is the coroutine of each client, `task` the coroutines that
broadcast (price loops, insights loops, dispatchers), `ref` the references on
`app.state`. An insights loop that finds a subscriber asks the AI (`Think`) and
broadcasts what it says to whoever is connected by then (`Wake`), or nothing
(`ThinkInVain`). "cancelled" is the time between `cancel()` and the moment the
task runs. A broadcast takes a snapshot, sends to
one connection after the other (`SendTo`) and unregisters those that failed
(`Prune`). `Depart` is the `finally` block up to its first wait, `PriceStopped`
and `InsightsStopped` what follows. `late` remembers the clients that asked for
a loop while one was being stopped. Messages other than subscribe and
unsubscribe only reply; the shutdown of the process is not modelled (uvicorn
closes the connections first).


### PushDelivery

`table` is `push_subscriptions`, `worker` the broadcast of each thread (the
event loop is one of them, for `/send-test`), `loop` a subscription about to
update its row, `doomed` what the pruning script has selected. Under READ
COMMITTED a row may change between the SELECT and the UPDATE of one transaction,
and SQLAlchemy's UPDATE has only the columns that differ from what was read;
`Update` and `Merge` say so, and end the broadcast if the row has gone
(StaleDataError). The outcome of a send is arbitrary. `Detached` is the
category check on copies whose session is closed. Users and their preferences
are left out: every broadcast is for all rows.


### Alerts

`rows` is the table, `request` what each handler thread is doing, `pass` the
evaluation under way with the copies it selected, `sched` the scheduler's job.
A handler loads, changes its copy and commits; the UPDATE has only the columns
that differ from what was loaded. A pass (`Select` to `CommitPass`) does so for all
active rows, sends push messages in between, and is rolled back as a whole
(`AbortPass`) if one of the rows it would update has been deleted. A condition is a tree of comparisons; the
market data are high, low or missing per metric; `Evaluate` has the order in
which `all()` and `any()` stop, since a malformed part behind the one that
decides is never seen. `Twin` is the row that the legacy form of the create
endpoint stores next to the real one. The histories `said`, `gone`, `fired`,
`raced`, `silenced` and `gap` say what the properties compare with.

### AlertChannel

`hook` holds the refs (`ref`, `timer`, `manual`) and the status of
`useAlertsWebSocket`, `url` what the last render computed, `sock` the WebSocket
objects of the browser with the handlers attached to them or not, `server` the
coroutine of `/ws/alerts` for each, `conns` the manager's set and `todo` the
recipients a broadcast has yet to reach. An action of the hook is a callback or
a commit of React (cleanup and effect together), one of the server the code
between two awaits; `accept()` may raise when the client has gone, or not
(`Register`). `deaf` remembers that `reconnect()` took the handlers off a
socket that `connect()` then left as it was.

### Notifications

`hook`, `shown` and `swr` are `useLiveNotifications` (its socket and status, the
list it returns, what SWR has cached and is fetching), `wire` what was sent on a
socket and not yet received, `server` and `conns` the endpoint and the
`ConnectionManager`, `log` the last events, `todo` the sockets each running
broadcast has yet to send to. An event is its number. `since` and `polled`
remember what a socket could not have been sent and what a poll had shown.
The identity of users is left out: all sockets are of one user.

### AiAssistant

One action is what a task does between two awaits. A chat request collects
market data, so that equal questions may become different prompts, and joins or
creates the job of its prompt; a context request wraps that in a run of its own.
`pending` is `_pending_prompts`, `job` the shared tasks with the provider they
are at and the attempts made, `circuit` and `cooling` the breakers and cooldowns,
`kept` and `cached` the two caches. Cancelling a task cancels what it awaits,
and a task cancelled before its first step never runs its `finally`. Time is
left out: `Lapse`, `Thaw` and `Forget` are the moments at which a deadline
passes; a cached answer is taken to outlive the turn of those who were waiting
for it, which is one pass of the event loop. `Advance` goes along the chain past the providers that are cooling down
or whose breaker is open, to the first that is asked, and to the local answer at
the end. The caches may raise wherever they are used: in the chain that is one
more way for it to fail (`BreakOff`), which a cached or the local answer makes
good unless the cache raises again; where the answer is kept or stored, it is
lost with the job (`Answer`, `CacheFails`).

### AiStream

The generators of `stream_generate` for one prompt, `pending` the producer that
is registered, `future` what each producer will resolve, `taken` the producers
whose registration somebody else removed. A text is its number of chunks.
`Leave` is a client that goes at any await: it closes the generator at a yield,
or cancels its task and with it the future it awaits.

### MarketData

One module for `CryptoService`, `StockService`, `ForexService`, `NewsService`,
`MarketService` and the series of `timeseries_service`, since they are one
algorithm with different plans: a chain of providers, what is worth another
attempt, whether the answer is cached and whether "nothing" is. Data of no use
("unfit") end the chain of the headlines and of the series behind the
indicators: articles that are all dropped, or a series that is empty or too
short, which the endpoint then refuses. `service` and
`keys` (the configured API keys) are chosen initially. A value is the time at
which its provider produced it. `redis`, `remote` and `memory` are `CacheClient`
with its fallback, `stats` is `binance_cache`, `apis` the order of the forex
providers, which `/markets/forex/{pair}` changes. `req` is where each request is.

## 3. What is checked

| Run | Instance | Shows |
|---|---|---|
| `AuthTokens` | 2 users, 2 requests, 3 refresh tokens, 2 seconds, limit 1 | `ExchangedIsDead`: a token and its successor are never both accepted. `NoLateSuccessor`: no replay once the requests that had found the row are over. `OnlyLoginRevives`: revocation lasts. `SessionCap`: the limit is exceeded by overlaps only. `LedgerRefined`. `TypeOK` |
| `V_AllSessionsRevoked` | 1 user, 2 requests | `/logout_all` leaves the sessions |
| `V_RefreshIsAnswered` | 1 user, 2 requests | two refreshes in one second collide |
| `LoginBackoff` | 2 attempts, threshold 3 without and 2 with a soft lock (after 2 failures, for 3 ticks), windows 1 and 2 | `GuessesBounded`: at most C(T+n-1, n)+n-1 guesses per lock for n overlapping attempts, which is 7. `BarsLast`: only those overtaken by others cut a bar short. `LadderNeedsOverlap`. `BarEnds`: a lock ends, and so does a cooldown |
| | limits 3 in Redis, 2 in the fallback, weights 1 and 2, window 3 | `AdmissionIsBounded`: what outages of Redis add. `RefusalsAreFree` |
| | 2 sockets, 2 events, a log of 1 | `DeliveredOnce`, `PollsOrListens` |
| `RealtimeGateway` | 2 clients and either 2 insights loops and a price loop, or 2 price loops and a dispatcher, or one loop of each and subscriptions counted to 2 | `OthersKeepTheirs`, `StarvedOnlyWhenLate`; with the insights loops also `MCDeadIsUnregistered` and `MCLeavingEnds` |
| `V_PricesReachClients` | 2 clients, 2 price loops | a client that connects while the loop is being stopped stays without prices |
| `PushDelivery` | 2 rows, a thread and the event loop, threshold 2, one retry | `CountHasDate`, `QuarantineLasts`, `OnlyDeletionCutsShort`, `BroadcastsConverge`: each step of a broadcast leaves less to do. `TypeOK` |
| `V_CategoryIsRespected` | the same | a category ends a broadcast of detached copies at once |
| `Alerts` | 2 alerts of 1 user, 1 handler thread, 2 metrics, 3 conditions, with a pass or the scheduler's job | `RowSaysWhatOwnerSaid`, `SilencedForCause`, `SettledRuleFired` |
| | 2 sockets, 2 addresses | `OneSocket`, `KeepsTrying`, `ManagerKnowsTheLive` |
| `V_MetAlertsNotify` | the same | the scheduler's job ends without notifying an alert whose condition holds |
| `AiAssistant` | 2 providers, 3 attempts, threshold 2, 2 jobs; 2 chat requests with 2 prompts, or a chat and a context request that may be cancelled with 1 prompt | `PendingIsSound`: the table of shared work is the table of live work. `BreakersAgree`. `OneLateAttempt`: past a breaker that others opened, a job tries once more at most. `AnswersFit`. `TypeOK` |
| `Feeds` | 4 streams of a text of 1 chunk and its end | `HarmNeedsLeaver`, `CacheShrinksByTheft`, `WaitersAreServed` |
| | each service and its keys, 2 requests, 2 attempts, time to live 1, clock to 2 | `AgeBounded`, `NothingIsExhaustive`, `RequestsConverge` |

Three properties except the case that a hazard is about, and say that there is no
other. `AgeBounded` bounds the age of what a cache serves; that a copy kept
through an outage is served again in the next, or overwrites a newer value, is no
violation. `WaitersAreServed` excepts the waiters of a producer that was robbed
of his registration, who may wait for ever, and `KeepsTrying` the hook that
`reconnect()` made deaf. The cases themselves are in section 5.

A type invariant is on the list of a run where the run is of one module only.
Those of the other modules are stated, and each is part of the inductive
invariant of section 4 or, for `Alerts`, replaced by a stronger one there
(`Shapes`).

Why the bounds are enough. Two requests are what a race between two
transactions takes, and three tokens a chain of two exchanges; the proofs
remove the bound. Two login attempts show a lost update, and the bound of
`GuessesBounded` is reached exactly in the instances tried (n = 2 with thresholds
1 to 4, n = 3 with 1 to 3), so the number that section 4 proves for all of them is
the right one. Two windows are a ladder. A window of three ticks
lets hits of three ages meet in a list, and a weight of two lets one hit jump
over the limit. Two sockets of a tab are the one that is left behind and the one
that replaces it; two events with a log of one are an event the log has
forgotten. Two clients are the one who leaves and the one who comes meanwhile,
and a second name for a loop lets it be replaced once. Push needs two rows
(one fails, the other waits) and two concurrent broadcasters; threshold and
retries keep their branches at two and one. Of two alerts, one is edited while
the pass works on the other, or is the other's twin; the three conditions and
three market data include a condition that is malformed always, one that is
malformed behind a part that decides, and a metric that is missing. Two
providers are one that fails and the one after it, a threshold of two with three
attempts lets a job open the breaker by itself and two jobs open it together.
Four streams are a producer, one who robs it, a waiter behind it and one who
comes later. Two quotes requests are a fast and a slow one, and a clock to two
with a time to live of one lets an entry expire. `MaxSecond`, the supplies of
tokens and tasks, `MaxEvents`, `Requests` and `MaxTime` bound the runs, so
`AuthTokens`, `RealtimeGateway`, `Feeds`, `Alerts` and `AiAssistant` may run out
of them or come to rest: `CHECK_DEADLOCK FALSE` there, and only there.

Symmetry. `AuthTokens` permutes users, tokens and requests, `PushDelivery` rows
and threads, `AiAssistant` jobs and chat requests; none of these runs has a
liveness property.

Fairness. None for safety. `RealtimeGateway!Fairness`: the event loop runs
handlers and tasks that are ready, sends end, and price loops wake up; nothing
is assumed of clients, of the AI stream or of dispatchers. `LeavingEnds` takes
the AI stream to honour a cancellation, as asyncio's awaitables do.
`LoginBackoff!FairSpec`: time passes; attempts may stop anywhere.
`AiStream!FairSpec`: the event loop runs each generator that can go on, and its
provider ends (the code puts a timeout on it); clients may leave or not. That
broadcasts and requests end is stated without fairness, by a measure that every
step of them lowers (`BroadcastsConverge`, `RequestsConverge`): they end if their
steps are taken. `webpush` is called without a timeout, so that each send ends
is up to the network.

## 4. What is proved

`AuthTokensProofs`, for any users, tokens, requests and bounds, from the
assumptions of `AuthTokens` on its constants only:

- `TypeCorrect`, `ExchangedTokensAreDead`, `SessionsAreCapped` (invariants),
  `NoReplay`, `RevocationLasts` (action properties), `LedgerIsImplemented`
  (refinement, with the same mapping as the run).
- The inductive invariant is `IInv == TokenInv /\ CountsOK /\ SessionCap`, and
  `TokenInv == TypeOK /\ RequestsOK /\ Lineage`. `RequestsOK` says what a
  request at each stage has established (a request about to insert has its old
  token minted, owned by its user and without a row). `Lineage` says that a
  parent is minted, has no row and belongs to the same user. Without
  `RequestsOK` nothing is known of the token a request in flight carries, and
  `RotateInsert` could make any token a parent. `CountsOK` relates the count a
  request holds to the sessions now: what was counted is still right unless the
  request was overtaken; that is what `CommitSession` needs for `SessionCap`.
- The step theorem has one step per action and under it one per conjunct; the
  action properties and the refinement use the same invariant.

`PushDeliveryProofs`, for any rows, threads, threshold and retry schedule, from
the assumptions of `PushDelivery` on its constants only:

- `PushTypeCorrect`, `CountsHaveDates` (invariants), `VerdictsStand` and
  `FailuresAreContained` (the action properties `QuarantineLasts` and
  `OnlyDeletionCutsShort`).
- The inductive invariant is
  `PushInv == TypeOK /\ CountHasDate /\ WorkersSound /\ LoopSound`. A row in the
  table whose count and date agree is not enough: an UPDATE writes the columns
  that differ from a copy, and from an incoherent copy it could write one of
  the two and not the other. So the copies held by broadcasts and by a
  subscription must agree too. From a coherent copy the two change together
  (`ResetColumns`), and writing both or neither keeps any row coherent
  (`MergeAgrees`), whatever has been written in between.
- `WorkersSound` also says that a worker about to update a row that has gone
  knows of a deletion (`bereft`), which is what `FailuresAreContained` needs: the
  only other ends of a broadcast are the last subscription and `Detached`.
- `BroadcastsEnd` (the action property `BroadcastsConverge`) takes one assumption
  more, that the rows are finitely many: each step of a broadcast lowers `Cost`,
  which weighs a subscription to come more than all that can still happen to the
  one at hand, and an attempt more than what follows the last one.
- `VerdictsStand` follows the rows a worker may come to hold: its own, or one
  of those it has listed, and `Begin` lists none that is to be pruned.

`LoginBackoffProofs`, for any number of overlapping attempts, any thresholds and
any ascending windows, from `ThresholdAssumption`, `WindowAssumption`,
`NoneAssumption` and `NoEntryAssumption`, and for the number of guesses also from
`AttemptAssumption` (finitely many attempts at a time): `GuessesStayBounded` (the
invariant `GuessesBounded`), `BarsAreNotCutShort` and `LadderTakesOverlap` (the action
properties `BarsLast` and `LadderNeedsOverlap`), and `BarsRunOut` (the measure behind
`BarEnds`).
The inductive invariant is `LoginInv == TypeOK /\ Writes /\ Knows`, the second of
all attempts, the third of those that were not overtaken. `Knows` says that each
check an attempt has passed still holds of the entry in Redis, and that the copy
it is about to write would cut no deadline short. Only the attempt itself and time
change the entry meanwhile, and time counts down copy and entry alike
(`TimeCutsNothingShort`).
`OneByOneIsBounded`: where logins for an address do not overlap (`OneByOne`, a
condition on behaviours and no fact of the server), at most `Threshold` wrong
passwords are tried between two locks, with or without the soft lock. Its invariant
`TallyInv` says that the entry has counted each of them, but for the one that is about
to be written.

`GuessesStayBounded` is about logins that do overlap. A slow SET takes back what
others have counted, so no measure that is a sum of failures goes up with every
guess. What does is a rank. Give each of the n attempts a `Level`: the failures of the
copy it is about to write, or one more than those of the entry. Take for each w
from 1 to the threshold T the number of attempts less than w below it (`Counts`). A SET
without a lock of a copy with p < T failures may lower the levels above p + 1, but
raises the count at w = T - p and none of those beyond it falls: in the lexicographic
order where the last counts weigh most, the sequence moves up. Its place there is
`Rank`, a sum of multiset coefficients (`Multisets`), so a step up is worth at least
one (`RankGrows`). The invariant `GuessInv` says that each guess has raised the rank
or is yet to be written (`IsAccount`), and that without the soft lock there are no
cooldowns and a lock comes with T failures (`Sound`, `Plain`). When the guesses
start again nothing is left to account for, since levels are positive
(`AccountStarts`); and counts up to n have a rank below C(T + n, n)
(`RankIsBelow`), which leaves C(T + n - 1, n) - 1 guesses written and n unwritten
(`AccountBounds`). TLC found `GuessInv` to hold for n = 2, T = 3 and for n = 3, T = 2 before it
was proved.

The facts about coefficients need induction over numbers. The library's induction
theorems take an operator as a parameter, which the installed provers cannot
instantiate; but its theorem that a well-founded order has minimal elements (`WFMin`)
is about sets, and gives induction for every set that can be written down
(`FromZero`). Functions defined by recursion exist by the same means (`Iteration`), and
with them the value of `choose` of the community module `Combinatorics`
(`Factorials`, `Chosen`).

`BarsRunOut` is `BarEnds` without its fairness: in every state the lock, or the
cooldown, is over within `Most` ticks (`IsOver`), and while it lasts each tick lowers
that number by one and no other step raises it. The number is what is left of
the longest bar in Redis or in a copy, and one longest bar more for each attempt
inside, that is, past the check of this bar and still able to set it (`Insiders`). Whoever
sets it is inside no more (`OverShrinks`), and nobody gets inside while it lasts, since
`CheckLock` and `CheckCooldown` turn away whoever finds it. No bar is longer than its
longest (`BarInv`).

The same module proves of `RateLimit`, for any limits, windows and weights, from
`LimitsArePositive`: `LimitsAreSound`, `AdmissionStaysBounded` (the invariant
`AdmissionIsBounded`) and `RefusalIsFree` (the action property `RefusalsAreFree`).
The inductive invariant is `LimitInv`. The list in memory is what the fallback has
let through, and never exceeds its limit (`Capacity`). The counter
in Redis is less than what Redis has let through: fixed windows forget. `TwoWindows`
says what is missing. The hits of the last `Seconds` are of the present window,
which has counted them, and of the one before, the first hit of which is as old as
a window when that window ends, so that at most `Times - 1` of its hits remain.

`NotificationsProofs`, for any sockets, any number of events and any length of the
log, from `EventAssumption` and `SocketAssumption`: `LiveIsSound`,
`EventsArriveOnce` (the invariant `DeliveredOnce`) and `TabNeverIdles`
(`PollsOrListens`). `DeliveredOnce` says at most once and at least once. For the
first, an event has one way to the tab at a time: it is still to be sent to the
socket, or on its wire, or on the screen (`Wires`, `Unseen`). For the second,
`Served` follows an event on that way, and adds the time before the browser has
noticed that its socket is open. The two meet in `Status`: while a socket is open
the status is "connected", and then no answer to a poll replaces the screen.

`AlertsProofs`, for any alerts, users, threads, conditions, edits and market
data of the given shapes, from `NoneAssumption`, `EditAssumption` and
`MarketAssumption`: `OwnersWordStands`, `NoneSilencedAtWill` and
`SettledOnlyWhenMet` (the invariants `RowSaysWhatOwnerSaid`, `SilencedForCause`,
`SettledRuleFired`). The inductive invariant is `AlertInv == Shapes /\
RequestsSound /\ PassSound` and the three properties. They do not follow from
what the rows look like, but from what a copy under way may differ in from the
row it was read from: `RequestsSound` says it of the copies of handlers (an edit
keeps the owner, and a new rule is to be delivered anew), `PassSound` of those of
a pass (it changes nothing that an owner says, turns off malformed rules only,
and settles those that were met). Both are about copies alone, so nothing that
others do disturbs them, and an UPDATE writes no more than the difference.

The same module proves of `AlertChannel`, for any sockets and addresses, from
`NilAssumption`: `ListensToOne`, `AlwaysTries`, `StatusIsRight` and `ManagerIsRight` (the invariants
`OneSocket`, `KeepsTrying`, `StatusIsTrue`, `ManagerKnowsTheLive`). The inductive
invariant is `ChannelInv == ChannelTypeOK /\ HookInv /\ ManagerKnowsTheLive`, with
`HookInv == OneSocket /\ KeepsTrying /\ StatusIsTrue /\ RefIsWatched`:
`KeepsTrying` alone does not tell what becomes of the hook when its socket ends;
`RefIsWatched` says that the socket in `wsRef` is listened to unless the hook is
deaf, and that it is deaf to no other: so a close event comes from the socket
that was connected last, and the timer it sets has the right address.

`RealtimeGatewayProofs`, for any finite set of clients, any tasks and any
bound, from `ClientAssumption`, `CountAssumption` and `TaskAssumption`:
`ThoseWhoStayKeepTheirs` (the invariant `OthersKeepTheirs`). It is inductive
together with `TypeOK`; what takes work is the cardinality of the subscribed
clients, which changes by one at most in each action. `OnlyTheLateStarve` (the
invariant `StarvedOnlyWhenLate`) needs three facts more of each loop (`LoopInv`):
a cancelled task has somebody who awaits its end (`Waited`), so a loop is "being
stopped" as long as a cancelled task of its kind is about; meanwhile all who want
it have asked too late (`LateOnly`); and whoever asked in time has the loop that
`app.state` refers to, and it runs (`InTime`). Two measures stand behind the liveness
properties. `LeaversGetAway` (`LeavingEnds`): a handler that waits for a loop waits
for one that was cancelled or is done (`AwaitInv`), and is at most four steps from its
end (`ToGo`); nobody's step adds one, since a new loop does not take the name of one
that is awaited and a second cancellation finds it cancelled already. `DeadAreFound`
(`DeadIsUnregistered`): a broadcaster unregisters a dead socket within as many of its
own sends as there are clients, or twice as many if its present broadcast began
before the socket was registered (`Rounds`); clients that leave shorten a broadcast, and
those that come are not in it. An insights loop that asks the AI in vain comes no
nearer and falls no farther back.

`AiAssistantProofs`, for any callers, jobs, runs, prompts, chain, number of
attempts and threshold, from `ChainIsNotEmpty`, `LimitsArePositive` and
`TasksAreDistinct`: `AssistantIsTyped`, `BreakersAlwaysAgree`,
`TableOfPendingIsSound`, `LateAttemptsAreFew` and `AnswersAlwaysFit`. The inductive
invariant is `AssistantInv == Stores /\ Breakers /\ Jobs /\ Tables /\ JobTable /\
RunTable /\ Waiters`. `Jobs` ties the counters of a job together: a job that made its late
attempt has no retry to come. `JobTable`, `RunTable` and `Waiters` give
`PendingIsSound` and `AnswersFit`. A job removes the entry under its own prompt
only, and nobody else touches that. A visitor who had joined a run removes the
entry of the signature whatever it is by then. That it is never the entry of
another run follows from the cached answer, which keeps everybody from starting
one until he has had his turn; hence the conjuncts of `RunTable` and `Waiters`
about `cached`.

`FeedsProofs`, for any number of streams and chunks, from `RequestsAreCounted`
and `TextIsNotEmpty`: `HarmTakesALeaver` (the invariant `HarmNeedsLeaver`) and
`CacheShrinksOnlyByTheft` (the action property `CacheShrinksByTheft`). The
inductive invariant is `StreamInv == TypeOK /\ FuturesSound /\ HarmNeedsLeaver /\
ProducerAlone`. A generator that has ended stays as it is, so whoever left remains
the witness of what he caused; `FuturesSound` says that only producers have a
future, so that the `finally` of a reader or a waiter resolves nothing; and as long as
no registration was removed by somebody else, the registered producer is the only
one and the cache is empty (`ProducerAlone`). `WaitersAreHeard` is the measure behind
`WaitersAreServed`: who waits, but for those that property excepts, waits for the
registered producer, who is at work, or has his answer (`HopeInv`, inductive on top of
`StreamInv`); and each step of that producer leaves him one less to do (`Ahead`), or
decides the future.

The same module proves of `MarketData`, for any requests, number of attempts, time
to live and each service with any keys, from `ServicesAreKnown`,
`AttemptsAndTimes` and `NoValueIsATime`: `QuotesAreSound`, `QuotesAreTyped`,
`AgesAreBounded` (the invariant `AgeBounded`), `NothingTakesAll`
(`NothingIsExhaustive`) and `RequestsEnd` (the action property `RequestsConverge`).
The inductive invariant `QuotesInv` says of the stores that an entry is not of the
future and, in Redis, not past its time to live, and of each request what it knows
(`Sound`): while it asks, every provider of its chain has let it down or is still to
be asked. `apis` changes under the requests, but only in the order of its elements;
the todo list of a request was cut from an older order, so nothing better than a
statement about sets is true. A request that ends with data of no use has the
provider that gave them at the head of its list, so the same fact says which
providers have not let it down. `RequestsEnd` rests on three facts of arithmetic
about `Remaining`, by which `Left` weighs a request: a stage outweighs all
providers and attempts (`StageOutweighs`), a provider all its attempts
(`ProviderOutweighs`), and an attempt counts (`AttemptCounts`).

Only model-checked: liveness under fairness (`BarEnds`, `MCDeadIsUnregistered`,
`MCLeavingEnds`, `WaitersAreServed`), which is out of the prover's reach. Behind each of
the four there is a theorem that a natural number, bounded in every state, is lowered
by each step of whoever is waited for (the clock, a broadcaster, a loop that stops, a
producer) and raised by nobody (`BarsRunOut`, `DeadAreFound`,
`LeaversGetAway`, `WaitersAreHeard`). What is left to TLC is that such a step is
enabled as long as the number is not zero, and the conclusion.

## 5. Findings

1. `/logout_all` answers "All sessions revoked" and deletes refresh tokens only
   (user_service.py:369). Run `V_AllSessionsRevoked`.
2. Two refreshes of a user in one second sign the same access token; the second
   answers 500 after its rotation is committed, and its client has lost the
   token (auth.py:595). Run `V_RefreshIsAnswered`.
3. A client that connects while the price loop is being stopped gets no prices
   until another one connects (realtime.py:217). Run `V_PricesReachClients`.
4. A push broadcast with a category over subscriptions that the service loads
   itself fails at the first one with DetachedInstanceError: `make push-test`
   and external alerts push nothing (push_service.py:247). Run
   `V_CategoryIsRespected`.
5. The scheduler's job compares stored conditions, which are objects, with the
   strings of an older notation, and notifies none of them
   (alert_service.py:177). Run `V_MetAlertsNotify`.

Observations without a run, met while modelling:

- Login and limits. The windows beyond the first in `BACKOFF_WINDOWS` are reached
  by overlapping attempts only (`LadderNeedsOverlap`). `LOGIN_CAPTCHA_THRESHOLD` is
  not defined in `Config`. With the soft lock, three attempts whose SETs are slow can
  bar an address for as long as they go on: lock and cooldown take turns, each set
  again by who passed its check while only the other was running (threshold 2,
  soft lock after 1 failure, a window of 2 and a cooldown of 3 ticks). So `BarEnds`
  speaks of either one and not of both together; two attempts do not suffice in
  the instances tried. Redis counts in fixed windows and admits up to one
  less than twice the limit around the end of one; it may count a hit and still
  raise, and the fallback then counts it again.
- Push. The fourth delay for a 429 is never used. Every retry counts as a failure
  of its own (push_service.py:191). A subscription that is renewed between the
  SELECT and the DELETE of the pruning script is deleted.
- Alerts. A metric that is missing from the market data raises the same
  ValueError as a malformed rule and turns the alert off for good
  (alerts_service.py:485). A pass may turn off an alert whose rule was corrected
  since the SELECT. A row deleted during a pass rolls the pass back after its
  push messages went out. The legacy form of create stores a second row that no
  evaluator understands, and "crosses" is accepted by the schema and unknown to
  the evaluator. Nothing in the backend calls `evaluate_alerts` or starts the
  scheduler; the tests do.
- Notifications. `POST /api/notifications/broadcast` builds a `RealtimeService` of
  its own, so the leg that its docstring calls "WebSocket (RealtimeService)" has
  no connections to send to. `useLiveNotifications` does not connect again after
  a close: it polls. The list SWR has cached is shown on a fall-back before the
  poll is answered, and an event shows twice if a poll had it first.
- Alert socket. `reconnect()` on an open or connecting socket takes its handlers
  off and connects nothing (useAlertsWebSocket.ts:163). A token that the server
  rejects (1008) is tried again for ever. The client is open before the server
  has registered it.
- Assistant. Retries do not look at the breaker again. A task cancelled before
  its first step leaves a dead entry behind (ai_service.py:844-854). An error of
  the cache loses an answer that was obtained (838). A hit in the cache of
  answers resets the breaker of a provider that is ill (917-927). The inner
  retries of Mistral cannot finish within the six seconds they are given.
- Streams. Whoever ends removes the entry of the prompt, whoever registered it
  (2334-2337), so that the waiters of a robbed producer may wait for ever;
  a text cut short by its client is cached, and so is an error chunk; a waiter
  that is cancelled cancels the future of all (2211).
- Quotes. `binance_cache` stamps an entry before the request (market_service.py:534). A
  slow request overwrites a newer value. A copy that an outage left in memory is
  served again in the next. `GET /markets/forex/{pair}` reorders the providers of
  the shared `ForexService` for good (routers/markets.py:52), which the comment at
  forex_service.py:35 does not expect. Providers of `CryptoService` without a key
  are asked three times. Empty news of a total outage are cached for 120 s, and
  headlines whose first source has only unfit articles do not fall back. Nor do
  the series: `get_stock_closes` says "Intenta TwelveData -> Alpha Vantage
  (fallback)" (timeseries_service.py:222), but any answer of TwelveData with
  "values" is returned (241, 379), and `/indicators` answers 404 if they are none
  and 400 if they are too few, although Alpha Vantage could be asked. Of a 4h
  interval Alpha Vantage is never asked (352, 482), which `MarketData` counts as
  asked and failed.

## 6. Not modelled, and the plan

Not modelled because there is nothing to check with TLC: configuration, logging,
metrics, migrations, the database engine, presentation, prompt building, text
heuristics, indicators, parsing of provider responses. Registration, MFA set-up
and profiles only write rows of their own user. The portfolio is CRUD with a
check before an insert, and sums over prices. Messages to Telegram and Discord,
the publication to Redis that nothing subscribes to, and the audit log leave no
state behind; `send_personal` has no caller. Users and their category
preferences are left out of `PushDelivery`, the memory fallback out of
`LoginBackoff`, and the shutdown of the process out of `RealtimeGateway`.

What would come next: `AuthClient`, the tabs of a browser (auth-provider.tsx) on
top of `AuthTokens`; the portfolio's unique names; a bound on the guesses of
overlapping attempts with the soft lock, whose SETs write old counts back too.
