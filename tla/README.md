# Verification of CoinTrader and its API gateway

The repository holds two programs that do not call each other:

- **CoinTrader** (`backend/`, `frontend/`, `infra/`): users define trading strategies;
  Celery workers evaluate them every minute and place orders at an exchange.
- **The API gateway** (`apigw/`): a FastAPI reverse proxy for HTTP, WebSocket and gRPC with
  plugins (authentication, rate limit, circuit breaker), hot-reloaded configuration and an
  admin API.

This directory holds TLA+ models of their core, TLC configurations that check the models
on small instances, and proofs that TLAPS checks for every value of the constants.
`PROJECT.json` lists for every definition the source lines it stands for, for every run
what it checks, and for every hazard of the code the properties that watch it.

## 1. Inventory

### CoinTrader

| Component | State | Operations | What is hard | What makes it correct |
|---|---|---|---|---|
| Strategy commands (`api/v1/strategies.py`, `services/strategy_service.py`) | `strategies` row (three flags), Redis stop flag with a TTL of 7 days, `emergency_stops` rows | create, update, delete, activate, pause, emergency-stop, resume | Each command loads a row, awaits, writes Redis before the commit; two commands overlap; Redis forgets | A completed stop stays in force until somebody lifts it; a resume leaves no stop behind |
| Strategy dispatcher (`tasks/trading_tasks.py: run_all_active_strategies`) | none of its own; `strategy_conflicts` log, Celery queue | every minute: select, one strategy per symbol by priority, log, enqueue | Rows change between the select and the sends; ties; passes overlap | The log names the strategy that was sent; exactly one per symbol |
| Trading execution (`run_strategy`, `trading/engine.py`, `executor.py`, `risk_manager.py`) | worker-local session, `orders` rows, Redis daily counter, positions derived from orders | load, risk checks, signal, AI advice, limits, place, commit, count | Retries, `acks_late` redelivery, a lost exchange answer, two executions of one strategy, checks made long before their use | The position acted on is the one held; after a stop nothing new reaches the exchange |
| Order cancellation (`api/v1/orders.py`) | `orders` rows | cancel at the exchange, then commit | Fills between; the commit is lost | No row overstates its order |
| Exchange accounts | `exchange_accounts` rows, encrypted keys | create, list, delete, test | More than one active account | Executions find the account |
| Backtest jobs and engine (`api/v1/backtest.py`, `tasks/trading_tasks.py`, `trading/backtest_engine.py`) | `backtests` row; one simulated position and cash | enqueue, run, fail | Commit and enqueue are two steps; redelivery; hard time limit | A backtest nobody works on is final or has a known cause; an outcome is whole; cash, trades and drawdown agree |
| Condition evaluator (`trading/strategy_evaluator.py`) | none | AND/OR trees of indicator conditions | One value per indicator for all its leaves, missing values, mixed types | A tree means what it says; a signal is not invented |
| Authentication (`core/security.py`, `api/v1/auth.py`) | users, Redis blacklist of tokens, table `jwt_blacklist` | register, login, logout, clean-up; set up, verify and disable the second factor | The blacklist lives in Redis only, for whole seconds; three handlers work on one row | A logged-out token is refused until it expires; login asks only for a code the user can give |
| Price feed WebSocket (`websocket/`) and `usePriceFeed.ts` | two maps of sockets; a socket and two timers in the browser | connect, disconnect, broadcast; connect, retry, unmount | Connects and disconnects between the awaits of a broadcast; late `onclose` | No dead socket stays, no socket is lost; one socket per mounted hook |
| Maintenance tasks, notifications, read-only APIs, frontend pages | database rows | upserts, reports, reads | little | - |

The dispatcher, the workers and the API share the `strategies` row and two Redis keys
(`emergency:stop:{id}`, `global:trading:halt`); the dispatcher and the workers share the
Celery queue; the workers and the cancel endpoint share the `orders` rows and the exchange.

### API gateway

| Component | State | Operations | What is hard | What makes it correct |
|---|---|---|---|---|
| Circuit breaker (`plugins/circuitbreaker/`) | Redis keys `cb:open`, `cb:fails` with lifetimes | check, call, record a failure in up to four commands | Commands of many calls and processes interleave; a command is lost; late reports | No count is left without end; an open circuit closes |
| Configuration (`config/loader.py`, `config/watcher.py`, `app.py`) | two files, the loader's copies, the router's table, recorded mtimes, listener task | load, poll, reload by message or endpoint | Other processes write in the middle of a reload; a reload fails half-way; start-up order; tasks that die | The routes in use become and stay those on disk |
| Router (`core/router.py`) | route table, round-robin counters | match, choose upstream, update | Order of rules; counters across updates | First match; even rotation over concurrent requests and reloads |
| Rate limiter (`plugins/ratelimit/`) | token bucket in Redis, Lua | take a token | Each gateway's own clock; commands overtake each other; the key expires | Never more tokens than capacity and time allow |
| Plugin pipeline (`core/pipeline.py`) | none of its own | build the chain, run it | Configuration changes between the match and the chain | Every registered plugin of the request's route runs, in order |
| HTTP proxy (`core/proxy.py`) | none | forward, retry | Which outcomes are tried again, and how often | The client gets what the last attempt gave; no attempt after a good one |
| WebSocket proxy (`listeners/websocket_listener.py`) | two relay loops | relay, close | One loop ends and the other waits | Nothing said before a close is lost; the session ends |
| gRPC proxy (`adapters/grpc_proxy.py`) | none | match, check, pick a target, call | Awaits between the match and the pick | As for HTTP, without retries |
| JWT plugin (`plugins/auth/`) | one cached key set | fetch, store, verify | Fetches cross; the set is never fetched again | Tokens of keys that were withdrawn before the start are refused |
| API key, mTLS and logging plugins, observability | library state | per-request checks | little | - |
| Admin route API (`admin/app.py`, `admin/history.py`) | routes file, loader's list, history in memory and in its file | create, update, delete, roll back, reload | File, list, history and its file are four steps, each of which may fail; renames; a trimmed history | History and routes tell one story; a rollback gives back what there was |
| Admin key store (`admin/security.py`) | keys in memory, key file | bootstrap, rotate, deactivate, authenticate | Memory changes before the file; a rotation is two changes | A key that was revoked is refused, also after a restart |

All gateways share Redis and may share the files; the admin process writes the files and
publishes `oag:config_reload`, which every gateway's listener receives.

## 2. Modules

| Module | Models | Rests on |
|---|---|---|
| `StrategyLifecycle` | activate, pause, emergency-stop and resume as coroutines over row, Redis flag and stop records | - |
| `Dispatcher` | `run_all_active_strategies` and the message queue | extends `StrategyLifecycle` |
| `TradingPipeline` | worker, engine, risk manager, executor, exchange, cancel endpoint, accounts, halt, midnight; composed with the two above | extends `Dispatcher` |
| `Circuit` | abstract: what the breaker of a route promises the calls | - |
| `CircuitBreaker` | the breaker of one route for all gateways; implements `Circuit` | `Circuit` |
| `GatewayConfig` | one gateway process and its configuration files | - |
| `RateLimiter` | the token bucket of one key, asked by all gateways | - |
| `AdminConsole` | the route commands of the admin process, `routes.yaml` and the history | - |
| `AdminKeys` | the admin's keys in memory and in their file | - |
| `GatewayTraffic` | requests of one gateway: router, plugin chain, JWT key set, HTTP and gRPC proxy, while configuration and keys change | - |
| `WebSocketRelay` | one WebSocket session and its two pumps | - |
| `Sessions` | tokens, logout and clean-up; the second factor's three handlers | - |
| `PriceFeed` | the hook `usePriceFeed` and the server's `ConnectionManager`, composed through their sockets | - |
| `JobLifecycle` | abstract: what the row of a backtest may show its user | - |
| `BacktestJobs` | request, broker and workers of a backtest; implements `JobLifecycle` | `JobLifecycle` |
| `BacktestEngine` | one run of the backtest engine, exact in integers | - |
| `Evaluator` | the evaluator of condition trees beside what a tree means | - |
| `StrategyLifecycle_proofs`, `CircuitBreaker_proofs`, `GatewayConfig_proofs` | theorems about the module of that name | extends it and TLAPS |
| `TradingPipeline_proofs` | theorems about the pipeline, the dispatcher's conflict log included | the lifecycle's theorems |
| `Admin_proofs` | theorems about `AdminKeys` and `AdminConsole` | extends both |
| `Gateway_proofs` | theorems about `RateLimiter`, `WebSocketRelay`, `GatewayTraffic` and the composition `MCGateway` | `Admin_proofs` |
| `Backend_proofs` | theorems about `Sessions`, `PriceFeed`, `BacktestJobs`, `BacktestEngine`, `Evaluator` and the composition `MCBackend` | extends it |
| `FoldLemmas` | lemmas about recursive functions, sums by folds, remainders and finite orders | - |
| `MCTradingOrders`, `MCTradingStop`, `MCDispatch`, `MCBreaker`, `MCGatewayConfig` | constants and, for the orders run, a next-state relation of a part of the system | extend their module |
| `MCGateway`, `MCBackend` | five components each that share no state; a variable `part`, chosen at the start, says which of them a behaviour is about | extend them |

`MCGateway` and `MCBackend` join modules to check them in one run, not to claim that they
interact: where components do share state they are composed in one module
(`TradingPipeline`, `PriceFeed`, `GatewayTraffic`), and what passes between two of the
gateway's modules is an action of the environment in both (a rewritten `routes.yaml` is
`Write` in `GatewayConfig` and the effect of a command in `AdminConsole`; a reload is
`Reload` in `GatewayTraffic`; what limiter and breaker decide is any answer of a plugin
there).

### StrategyLifecycle

One action per stretch of code between two awaits: `Begin` (the row is loaded), `TouchRedis`
(SET or DEL of the stop flag), `SelectRecord` (resume looks for an unresumed record),
`CommitRequest` (flush and commit), `AbortRequest` (exception, lost process: the session
rolls back, Redis keeps what was written), `LoseFlag` (TTL, or a Redis that restarts
without the key). `Flush` is the unit of work of the ORM: the UPDATE writes the attributes
whose value differs from the one LOADED, so a command writes back nothing it did not
change. `row`, `flag` and `records` are the shared state, `req` the requests in flight.
`stopDone` and `resumeDone` are history: the strategies whose last stop (resume) completed
without an opposing command in flight at any time of its execution.

Which of several unresumed records a resume picks is left open (`OpenRecord`): the query
orders by `triggered_at`, which is the start of the transaction, not the order of commits.

### Dispatcher

`DispatchSelect` takes the query's result in any order the database may return it and
applies `Picked` (the stable reverse sort), `DispatchLog` commits the conflicts
(`ConflictLog`, the pairwise `>=`), `DispatchSend` enqueues one message, `DispatchAbort` is
a lost pass. `queue[s][k]` counts messages for `s` with `k` retries behind them: Celery
promises no order.

### TradingPipeline

A worker's `pc` stands between the awaits of `run_strategy` and `run_once`: `idle` ->
`loaded` -> `cleared` (risk flags looked up) -> `signal` (AI asked) -> `approved` ->
`priced` (limits passed) -> `placed` (exchange answered, row not committed) -> `committed`
(counter not yet increased) -> `idle`. Every early return is an action or a branch
(`LoadSkips`, `CanTrade`, `NoSignal`, `AdviceHold`, `LimitsRefuse`); failures are `Fail`
(an exception that reaches Celery: rolled back and retried), `Crash` (the process is lost,
`acks_late` redelivers), `PlaceAnswerLost` (the exchange took the order, the code records
"rejected"), `PlaceRefused`. `exch` is the exchange's book, `rows` the table, `bought` and
`sold` the sums over closed rows that the position is derived from.

Abstractions: prices are 1 and a buy asks for `BuyQty`; the daily counter is kept up to
`DailyLimit`, the only value it is compared with; the two Redis reads of `can_trade` are one
step, and so are the two SELECTs of `_open_position`; `run_once` selects the row a second
time in the session that already holds it and gets the object loaded first, so the model
does not read it again; the row load of `cancel_order` and its call to the exchange are one
step.

### CircuitBreaker

`Admit` is the EXISTS check, `Succeeds` and `Fails` the outcome of the call, and every
command of `_record_failure` (INCR, EXPIRE, SET, DEL) is a step of its own that may be
executed (`Command`), refused or not sent (`CommandFails`), executed with the answer lost
(`AnswerLost`), or cut short by cancellation or a crash (`Die`). `Error` follows the `try`
of `__call__`: an error while a 5xx answer is recorded lands in the same `except` and the
failure is recorded again; an error anywhere else goes to the caller. `Tick` is a second
of Redis time. `lost` is history: a command on the present count was lost.

`Circuit` is what its callers know of it: `open` counts down and lets nobody through, and
`chances` says how often each call under way may still open it. The refinement mapping
keeps `open` and counts a call's chances from where it stands (`Chances`): two before its outcome or
while a 5xx answer is recorded, since that report may be repeated, one after an exception,
none once that report is past its SET.

### GatewayConfig

The gateway's tasks share one event loop, and a reload (`ConfigLoader.reload`, then
`update_routes`) awaits nothing but an uncontended lock, so `busy` names the one reload in
progress and only other processes act in the middle of it. The two file reads are two
steps (`LoadRoutes`, `LoadGateway`), because the routes are assigned before the gateway file
is opened. `Poll` is the watcher: stat both files, record, call back. Two stats are one
step: a write between them cannot be told from one before or after both by what the reload
reads later. `PollFails` is a stat that raises: the task ends, and if it was the second file's
the first one's new time is recorded already (`last` is then "missed"). `Write` is any other process replacing a file; a partial write shows as a
write of its own. A file's mtime is the number of the write that made it: two writes
within the resolution of the file system's clock are not modelled, nor is the deletion of
a file. `EndProcess` is a crash, a failed start or a shutdown.

### RateLimiter

A request reads its gateway's clock (`Stamp`), and Redis runs the script later
(`RunScript`, one atomic step of EVALSHA): refill by the time between stamps, never less
than none, take a token if there is one, set `last_refill` and EXPIRE. `FailOpen` is a lost
command, an error or NOSCRIPT: the request goes on unlimited and no token is taken.
`offset` is each gateway's clock against that of Redis, `RestartRedis` keeps or loses the
bucket and always loses the script, which `cachedSha` in a gateway does not notice. The
unit of time is the tick that refills one unit of tokens, so that rates need no fractions.
`credit` is history: what the bucket held that no passing of time explains.

### AdminConsole

The operators `Put`, `Without`, `Undo` and so on are the loader's and `rollback_route`'s
pure part: which route list a command leads to and what entry it adds, with the fall-backs
of a rollback (a route that is gone is created, one that came back is updated, a renamed
one is found under its new id). `Command` is the handler: file, list in memory, entry in
memory, history file. Either write may fail: at the first (`Spoil`) `routes.yaml` is as it was,
torn or short (a YAML list cut off after an item is a list) and nothing else happens; at the
second the routes have changed, the entry is in memory, and the history's file is as it was or
torn. The command answers 500 and the process goes on, or it ends there.
History is trimmed in the file and not in memory, as in the code.

### AdminKeys

`memory` changes first, then the file is written (`Persisted`), or is not, or half
(`Interrupted`). A rotation is `RotateKey` and `EndRotation`, with everything else
possible between them. `RemoveKeyFile` is the operator's way out of a broken file, which
brings the keys of the settings back.

### GatewayTraffic

A request is `Arrive`d (HTTP and WebSocket: matched, target picked, chain built in one
stretch) or `Serve`d (gRPC: matched; chain built by `Prepare`, target picked by `Admit`,
with awaits between). Each plugin is a step; the JWT plugin has one more for a fetch
of the key set and one to store it; a request without a token (0) is refused before either. `Attempt` is one attempt of the HTTP proxy with
its five outcomes, `Call` the one of gRPC. `Reload`, `RotateKeySet` and `RestartProcess`
come at any time; a request under way keeps the route object it has. `picked` and
`startedAt` are history.

### WebSocketRelay

`OpenSession` connects to the upstream and then accepts. A pump is between reading and
sending a message it holds; it notices its own side only by reading and the other side
only by sending. Messages are numbers in the order they were said.

### Sessions

A token's `exp` is cut to a second while time passes in parts of one (`Sec`); a logout
checks the token, writes Redis for a whole number of seconds, and then the table, as three
steps. `CleanUp` is the nightly task, `LoseBlacklist` a Redis that starts empty. The
handlers of the second factor read the row, await, and write the columns whose value
differs from the one read (`Commit`). Tokens and second factor share nothing and are two
parts of the run.

### PriceFeed

The client half follows the refs of the hook (`wsRef`, `reconnectTimer`, `pingTimer`), each
overwritten without a look at what it held, and says of every socket, interval and timeout
whether it still runs although no ref holds it. Without a stored token `Mount` and `Reconnect` open
nothing; `Closed` clears the interval the ref holds at that time, which may be another
socket's. `strict` is React's StrictMode in a
development build, where effects run twice. The server half is `_channels` and
`_socket_channels` across `connect`, `disconnect` and the broadcasts whose sends fail, for a dead
socket or a live one, while others come and go.

### JobLifecycle and BacktestJobs

`BacktestJobs` has the handler (commit the row, send the task, commit the task's id), the broker
(redelivery after a lost worker or the visibility timeout, a lost queue) and the workers,
whose session writes the columns that differ from the row AS FIRST READ: this is why a
second run of a failed backtest that fails with the same message writes no message, and
why a message may stay beside new figures when two workers had one backtest.
`JobLifecycle` is what the user of the API sees of it: pending once, running before it is final, figures only with "completed".
The refinement mapping is the identity on `row`.

### BacktestEngine

Rates, prices and money are integers in units that make every product of the code exact;
quantities are cut to lots, as a float is to what it can tell apart. The signal is any.
Sharpe, Sortino and holding hours are left out.

### Evaluator

`Evaluate` is the code: one value per indicator, computed with the parameters of the LAST
leaf that names it, kept under indicator and timeframe (`TfKey`: "1h" if the leaf names none),
looked up by every leaf, and all of them from the candles of the strategy's timeframe
(`given`). `Means` is the reference: every leaf with its own parameters, its timeframe
included. What an indicator is at each timeframe and period is given by `Markets`; a multiple is
taken of what `compare_to` names (`Base`): the close, the mean volume or nothing. `Levels` gives the condition trees by depth, so that the theorem is
about trees of any depth; walks over them are recursive functions with the trees as domain.

## 3. Runs

| Run | Instance | What it shows |
|---|---|---|
| `orders` | one strategy, two workers, three orders, one fault | `TypeOK`, `PositionIsHolding`, `RowsAreSound` |
| `stop` | one strategy, two commands in flight, dispatcher, one worker, one retry, one fault, one stop record | `StopHolds`, `ResumeHolds`, `OnlyResumeLifts`, `StopDrains` |
| `dispatch` | three strategies on one symbol, two of equal priority, 0, 1 or 2 accounts, advice, halt on or off | `LogAgreesWithDispatch`, `HaltDrains` |
| `breaker` | three calls, threshold 2, lifetimes 2, counts up to 4 | `CountIsTended`, `BreakerRefines`, `Recovers`, `FailuresExpire` |
| `config` | four writes, good or bad, two messages in flight, all faults, cluster mode on and off | `QuietIsCurrent`, `Converges` |
| `gateway` | limiter: two slots, capacity of two tokens, skew 1, five ticks, four requests, one restart; console: two ids, two bodies, history of two, four commands, two upsets; keys: two of the settings, two drawn, two faults; traffic: an HTTP and a gRPC route of two targets each, two requests at a time, three in all, two reloads; relay: one session, three messages each way | `GrantsAreBounded`, `ExtraHasCause`; `HistoryExplains`, `RollbackRestores`, `RollbackIsIdempotent`, `RouteIdsAreUnique`; `RevokedIsRefused`; `RoundRobinIsFair`, `RetriesAreFaithful`, `OldKeysAreRefused`, `RequestsAreAnswered`; `RelayIsFaithful`, `SessionsEnd` |
| `backend` | two tokens of three seconds in half-second steps; two handlers and two secrets; two feed sockets and one of another route; one backtest, two workers, three messages; five candles, three prices, five orders; all trees of up to three of fourteen leaves in three markets of two timeframes | `RevokedUntilEdge`; `SecondFactorIsConfirmed`; `FeedsAreTended`; `StuckHasCause`, `OutcomeIsWhole`, `JobsRefine`; `BooksBalance`; `EvaluatesAsWritten` |
| `daily_counter`, `advice_record`, `reload_listener` | the instances of `orders` and `config` without faults; any advice | one disagreement each between the code and what is written about it, see section 6 |
| `consecutive_failures` | the instance of `breaker` with one call at a time and no fault (`FaultlessSpec`) | the same |
| `second_factor` | the instance of `backend` | the same |

Why the bounds are enough:

- `orders`: the position logic looks at sums of one strategy's rows, and an interference
  needs two executions, or an execution and a cancel. Three orders allow buy, sell, buy;
  `BuyQty` 2 allows a partial fill. One fault suffices to lose an answer or a worker at
  any step. No command changes the row in this run, so a dispatch pass is the step that
  sends the message.
- `stop`: two commands in flight are what overlapping means; one record lets a resume
  find one or none. The exchange refuses all orders (`MaxOrders` 0), since how far an
  execution gets before the exchange does not depend on the book; one worker is enough,
  since executions share no state up to that point.
- `dispatch`: three strategies give a tie and a loser in every query order. Operations that
  other runs leave out (advice, several accounts, the halt) happen here.
- `breaker`: with a threshold of 2 and three calls, one call can trip the circuit while a
  second is between INCR and SET and a third starts a new count. A lifetime of 2 lets a key
  be seen at its full, partial and ended life.
- `config`: four writes allow good and bad contents in both files before start-up, in the
  gap before the watcher starts, in the middle of a reload, and a repair after that.

- `gateway`, limiter: two slots let one request overtake another at two gateways with
  different clocks; four requests empty the bucket of two tokens, see it refilled and ask
  again; five ticks reach the key's lifetime of five. Console: with a history of two the third
  command trims it; four commands are create, rename, delete and a rollback in any order;
  two upsets are a failing write and an edit, a reload or a second one. Keys: a rotation that fails half-way and one
  more. Traffic: the three requests and two reloads let two requests cross on one route
  while the third comes after a reload; a plugin list with one unregistered name; one retry.
- `backend`: a token's edge lies within the clock; two handlers are what crossing means;
  two workers and two redeliveries are a lost worker and an overlap; five candles hold two
  trades and a forced exit; three leaves in two levels let a leaf be judged by another
  one's parameters in every way there is, and hours and four hours that disagree let it be judged
  by the wrong candles.

Symmetry is used in `orders` (workers) and `stop` (requests), where no liveness property is
checked.

### Fairness

- `dispatch` assumes WF of every worker's step: Celery keeps worker processes running and
  every await of an execution ends (calls to the exchange and the AI have timeouts). The
  outside world, faults and the dispatcher get none.
- `breaker` assumes that time passes (`Tick`) and that a command of a call is answered,
  refused or given up (`socket_timeout`). Calls need not end, and none need come.
- `config` assumes that the watcher gets its turn on the event loop when a file has
  changed, and that a reload that has begun goes on.
- `gateway` assumes of a request (`TrafficFairness`) that its next step comes: provider and
  upstream answer or run into the client's timeouts, the client sends the body it announced
  (`request.body()` in `proxy.py:76` waits for it without a limit), and the event loop runs what
  is ready.
  Of a WebSocket session (`RelayFairness`) it assumes that each pump that can go on does, and that
  `gather` returns. Nobody has to say anything or to leave. The other parts of the run, and
  `backend`, have no liveness property.

### The properties

- `StopHolds`, `ResumeHolds`: see `stopDone` above. A stop that a resume overlapped may be
  lost, which is why the properties speak of undisturbed commands. A pause or a second
  stop that loaded the row before the stop must not undo it: they do not because of the
  column-wise flush; with a flush of all columns TLC finds the stop undone.
- `OnlyResumeLifts`: an activation that overlaps a stop may set `is_active`, but no commit
  except a resume's clears `emergency_stopped`.
- `StopDrains`: after a stop the executions that can still place an order and the passes
  that can still send the strategy only get fewer, also when Redis loses the flag. It does
  not say there are none: an execution past `can_trade` goes on.
- `HaltDrains`: under a lasting halt no execution stays past the check.
- `PositionIsHolding`: the position the engine derives is, in every state, what the orders with
  a closed row did at the exchange (`Recorded`), cut off at nothing; it is all the strategy
  holds if every order that is on the book or filled has a closed row (`Tracked`; a lost answer, a
  crash before the commit, an order left open, a partial fill then canceled escape the table);
  and it is nothing or one buy unless two executions decided at the same time
  (`overlapped`). All of these do happen in this code; the property says what they may do
  and that nothing else does.
- `RowsAreSound`: whatever is lost, a row never says more than the exchange did.
- `LogAgreesWithDispatch`: two independent rankings agree on ties.
- `CountIsTended`, `FailuresExpire`: without a lost command no failure count stays without
  an expiry, or at the threshold with nobody to open the circuit. With a lost command it
  does (the known cost of INCR and EXPIRE as two commands).
- `BreakerRefines`: the breaker implements `Circuit`. A report that repeats itself without
  end on errors breaks it: the same call would then keep the circuit open.
- `Recovers`: calls admitted before the circuit opened may open it again; there are
  finitely many of them.
- `QuietIsCurrent`: the watcher records times before the callback and reads the files
  after it, so a write in between is either read or seen at the next poll, never neither. The
  exception is a watcher that dies between its two stats: it has recorded a change of the
  routes and never calls back, until some other reload succeeds.
- `Converges`: a bad file needs no help once it is replaced. Two situations do: a write
  between the first load and the start of the watcher (`gap`: the watcher records the new
  time as if it had been loaded), and a good file that could not be read once (`unread`:
  its new time is already recorded). They are exceptions the property names; without
  either of them TLC finds a gateway that serves old routes for ever.
- `GrantsAreBounded`, `ExtraHasCause`: the script sets `last_refill` to a stamp that may be
  older than the one before, so the time between is refilled twice. The first property
  counts exactly how much that gives away, the second says it takes different clocks, a
  command on its way for longer than EXPIRE's two spare seconds, an overtaken request or a
  Redis that lost the bucket: the expiry of an idle key alone never gives a token away.
- `HistoryExplains`, `RollbackRestores`, `RollbackIsIdempotent`, `RouteIdsAreUnique`: four
  things a rollback must not break after renames, deletions and rollbacks of rollbacks. The
  routes are compared as a set: a deleted route comes back at the end of the list.
- `RevokedIsRefused`: of a deactivation that was answered. One whose write failed is
  answered 500, holds in memory until the restart, and cannot be asked for again (404).
- `RoundRobinIsFair`: HTTP picks before the plugins run, so a refused request uses up a
  turn; the property counts turns, which is what the code deals out.
- `RetriesAreFaithful`, `OldKeysAreRefused`, `RequestsAreAnswered`: see the comments there;
  the second bounds from below what is let through. Nothing clears the cached set, so keys
  withdrawn after the first fetch stay good and later ones are refused until a restart: the
  former is inside the bound, the latter contradicts a document (section 6).
- `RelayIsFaithful`, `SessionsEnd`: nothing said is lost or reordered while the other end
  listens. A session whose one end left ends only when the other says something more or
  leaves too: the stronger "ends once one end has left" is false for this code.
- `RevokedUntilEdge`: `exp` is cut to a second and decoding accepts the whole of it, the
  blacklist's lifetime is cut as well: the last two seconds are the price.
- `SecondFactorIsConfirmed`: a setup that overlaps a verify enables a secret nobody has
  shown a code of; the property says nothing else does, and the run `second_factor` shows that
  overlap.
- `FeedsAreTended`: registry and hook. Under StrictMode the cleaned-up first socket's
  `onclose` comes after `unmounted` was set back, clears the ping timer of the second, reconnects,
  and two feeds live on: the model has this, the property excepts it, section 6 says what it
  contradicts.
- `StuckHasCause`: a backtest can stay pending or running for ever only for one of the causes
  named (never sent, an escaped exception, a failed save, the hard time limit, a lost queue).
- `OutcomeIsWhole`: while one worker at a time has a backtest, a completed row has figures and no
  message, a failed one a message. A failed row may show the figures of an earlier
  completed run, because a failing run does not clear them (`backtest_service.py:85-118`): the
  property says they are never the failed run's own.
- `JobsRefine`: the detailed backtest jobs implement `JobLifecycle`.
- `BooksBalance`: capital against gross profit and loss, trades against each other, the
  reported drawdown against the loss.
- `EvaluatesAsWritten`: if every leaf is of the strategy's timeframe, the leaves of a series agree
  on the period and the candles suffice, the evaluator invents no signal; if moreover the leaves of
  an indicator name the timeframe alike and none is called SMA, it misses none. Without the
  first hypothesis TLC finds an invented signal: a `4h` leaf of a `1h` strategy is judged by the
  candles of the hours, the only ones the engine fetches (`engine.py:83-104`). The comment in
  the module says what happens beyond the hypotheses, and section 6 what that means for an SMA leaf.

## 4. Proofs

| Theorem | Statement |
|---|---|
| `LifecycleTypes` | types of the strategy commands |
| `StopsHold`, `ResumesHold` | `[]StopHolds`, `[]ResumeHolds` |
| `ResumesLift` | `OnlyResumeLifts` |
| `PipelineImplementsLifecycle` | the whole pipeline implements `LifecycleSpec` |
| `PipelineStopsHold`, `PipelineResumesHold` | the two properties for the pipeline, through the implementation |
| `PipelineTypes` | `[]TypeOK` of the pipeline |
| `RowsStaySound` | `[]RowsAreSound` |
| `StopsDrain` | `StopDrains` |
| `BreakerTypes`, `CountsAreTended` | `[]TypeOK`, `[]CountIsTended` of the breaker |
| `BreakerImplementsCircuit` | `Spec => BreakerRefines`: the breaker implements `Circuit` |
| `ConfigTypes`, `QuietGatewaysAreCurrent` | `[]TypeOK`, `[]QuietIsCurrent` of the configuration |
| `LogsAgree` | `[]LogAgreesWithDispatch` of the dispatcher in the pipeline |
| `PositionsAreHeld` | `[]PositionIsHolding` of the pipeline |
| `KeysTypes`, `RevokedAlwaysRefused` | `[]KeysTypeOK`, `[]RevokedIsRefused` of the admin keys |
| `ConsoleTypes`, `RollbacksAreIdempotent` | `[]ConsoleTypeOK`, `[]RollbackIsIdempotent` of the route commands |
| `RouteIdsStayUnique`, `HistoryExplainsRoutes`, `RollbacksRestore` | `[]RouteIdsAreUnique`, `[]HistoryExplains`, `[]RollbackRestores`, if nobody edits an id twice into the file |
| `LimiterTypes`, `GrantsAlwaysBounded`, `ExtraAlwaysHasCause` | `[]LimiterTypeOK`, `[]GrantsAreBounded`, `[]ExtraHasCause` of the rate limiter |
| `RelayTypes`, `RelaysAreFaithful` | `[]RelayTypeOK`, `[]RelayIsFaithful` of a WebSocket session |
| `TrafficTypes`, `RoundRobinStaysFair`, `RetriesStayFaithful`, `OldKeysStayRefused` | `[]TrafficTypeOK`, `[]RoundRobinIsFair`, `[]RetriesAreFaithful`, `[]OldKeysAreRefused` of the gateway's traffic |
| `PartsAreComponents`, `GatewayTypes` | `MCGateway` implements the specifications of its five components; `[]TypesOK` |
| `SessionsTypes`, `LogoutsHoldToTheEdge`, `SecondFactorAlwaysConfirmed` | `[]SessionsTypeOK`, `[]RevokedUntilEdge`, `[]SecondFactorIsConfirmed` |
| `FeedTypes`, `FeedsStayTended` | `[]FeedTypeOK`, `[]FeedsAreTended` of hook and server |
| `EngineTypeCorrect`, `BooksAlwaysBalance` | `[]EngineTypeOK`, `[]BooksBalance` of the backtest engine |
| `JobsTypes`, `StuckAlwaysHasCause`, `OutcomesAreWhole` | `[]JobsTypeOK`, `[]StuckHasCause`, `[]OutcomeIsWhole` of the backtest jobs |
| `JobsImplementLifecycle` | `JobsSpec => JobsRefine`: jobs, broker and workers implement `JobLifecycle` |
| `EvaluatorAsWritten` | `[]EvaluatesAsWritten` of the evaluator |
| `BackendParts`, `BackendTypes` | `MCBackend` implements the specifications of its five components; `[]TypesOK` |

With them every invariant and every action property a passing run checks is stated by a
theorem, and so are the refinements. `PartsAreComponents` and `BackendParts` carry the theorems
about a component over to the composition the run checks.

They hold for any number of strategies, requests, workers, dispatchers, orders, calls,
writes, keys, tokens, messages, handlers, routes, targets, sockets, backtests, candles and
conditions and for any bounds, under the
assumptions named in the modules: bounds are natural numbers, `NoStrategy` is no strategy,
priorities are integers, a first row has not been stopped, the keys of the settings are
finitely many and none that is drawn, slippage and commission are at most the whole, the
initial capital is positive and prices are not negative, the strategies, the requests of
one gateway and the feed's sockets are finitely many, a table of routes names none twice,
plugins have integers for their order, a condition
joins conditions of lesser depth, and what an indicator is is told from its absence. The
three theorems about the console that say so have the hypothesis `\A rs \in Edits : NoTwo(rs)`:
the loader takes over a file with an id twice as it is (`loader.py:215-254`), the commands then
find the first of the two, and a history that speaks of ids cannot tell them apart. Nothing in
the console itself makes a double; that is what `RouteIdsStayUnique` says.

- **Lifecycle.** `StopHolds` is not inductive: it must exclude that a command in flight
  undoes the stop at its commit. `LifecycleInv` adds `PhasesFit` (a phase belongs to its
  kind of command), `NothingOpposes` (a command that has not been raced, and a strategy in
  `stopDone` or `resumeDone`, has nothing opposing in flight) and `StopPending` and
  `ResumePending`: an attribute an unraced stop or resume will not write, because the loaded
  row has the value already, still has it in the committed row, and its Redis step and its
  choice of record are still in force. The commit of a pause
  preserves the stop because `Flush` only writes what differs from the loaded row.
- **Pipeline.** `PipelineImplementsLifecycle` maps every step to a step of
  `LifecycleNext` or a stutter; the refinement mapping is the identity on the shared
  variables. `RowsAreSound` needs `AnswersAreSound` (an answer a worker holds is sound for its
  order until it commits, and an order being canceled is off the book and its row does not
  overstate it); together with `TypeOK` that is `PipelineInv`. `StopsDrain` follows from
  `PipelineStopsHold`: an inactive row is neither loaded nor selected.
- **Conflict log.** `LogAgreesWithDispatch` compares a sort with pairwise comparisons.
  `RankingInv` keeps through the dispatcher's awaits that what is picked is the first of its
  symbol in the stable reverse order, and that a log, once written, agrees with it.
  `OneComesFirst` is what a sort gives for nothing and a proof does not: some strategy of each
  symbol has no other before it.
- **Position.** `HoldingInv` adds to `PipelineInv` that an order belongs to its worker until
  its row is committed (`OrdersAreOwn`), that `bought` and `sold` are what the closed rows sum up
  to (`SumsAreClosed`), and that the sums differ by nothing or one buy (`OnePosition`), with the
  property's two exceptions carried along: a new order is a buy only if the position it was
  decided on was empty, and that position is the present one unless another execution of the
  strategy decided in between. `SumTakesOut` and `SumIgnoresNothing` of `FoldLemmas` are the
  algebra of the sums.
- **Breaker.** `CountIsTended` is inductive given `TypeOK`: the caller whose INCR made the
  count 1 is the one at EXPIRE, the caller whose INCR reached the threshold is on its way
  to DEL, and each of them leaves only by doing its part or by losing it. For
  `BreakerImplementsCircuit`, `ChancesLeft` counts what an answer and an error leave of a call's
  chances: one less at the SET, and no more anywhere. While the circuit is open no chances are added and
  each reopening takes one: this is the variant behind `Recovers`, the part of it that is proved.
- **Configuration.** `CurrentInv`: nothing loaded or recorded is newer than the file; after a
  finished reload each file's recorded time is at most what was loaded, unless the watcher died
  between its stats ("missed"); half-way the same holds for the routes file.

- **Admin keys.** A revoked key must be active neither in memory nor wherever the process may
  start from: the file, or without one the settings (`RevokedEverywhere`). `KeysAreIssued`
  is needed because a rotation may not draw a key that was revoked before. Every change
  goes through `Persisted` or `Interrupted`, and `ChangeIsKept` says once what both keep.
- **Route commands.** `ConsoleInv` adds to the types that entries in the saved history are
  well formed. `IdsInv` says of list and file that they name no id twice, and `HistoryInv`
  that a replay of the entries since the last load ends at the routes in use, and that
  undoing the newest entry gives the routes before it. A change creates, updates (under
  the same id or a new one) or deletes, by a command or by a rollback, and one lemma each says that
  such a change can be undone (`ChangesAreUndoable`); a failing write only chooses which of the four
  steps of a change happen, and whether the process goes on.
- **Traffic.** `TrafficInv` is a statement about each request and what surrounds it, so that
  a step of one request does not touch the others. `DealtInv` is the arithmetic of the
  counter: turns are dealt evenly up to its remainder by the number of targets. That the
  plugin chain is defined at all needs `ListExists` of `FoldLemmas`: what is finite can be
  listed in any order on it. For
  `OldKeysAreRefused` each request and the cached set are known to hold only keys published
  since the start.
- **Rate limiter.** `GrantsAreBounded` is not inductive, since it does not see what is left in
  the bucket. `NothingFromNowhere` counts it: granted and left together are at most
  capacity, last stamp and credit; `ScriptFinds` is the arithmetic of one run.
  `ExtraHasCause` needs `OrderGivesNothing`: while nothing was out of order the last stamp is not
  ahead of the clock, and the key of a bucket that is not full lives at least a whole
  refill beyond it.
- **Relay.** `InOrder` adds to what has been sent on the message a pump holds and those that
  wait: together they are the consecutive numbers up to the last one said. `RunGrows`
  and `RunShrinks` say once what appending and taking the head does to such a sequence.
- **Sessions.** `ListedLongEnough` holds of every listed token at any time, since the clock moves
  and the entry does not; `TtlSuffices` is the arithmetic of the two cuts, from a lemma
  on whole division. `HandlersKnowTheRow`: while no setup met another handler, a setup is
  alone, and a verify under way was shown a code of the secret in the row.
- **Price feed.** `RegistryIsKept` (the two maps are inverse, and who is in them is served
  or about to leave) is inductive with the types, at every await. `HookInv` counts sockets that live and timers that will make
  one: at most one together, two under StrictMode; and without StrictMode every live socket
  is the one the ref holds, which is what unmounting closes.
- **Backtest engine.** `CapitalIsExplained` and `TradesAreApart` are inductive with the
  types. The drawdown needs `Walk`: the curve begins at the initial capital and, once a
  position has been left for a candle, ends at the present one, which gives the two points
  of the curve the property asks for.
- **Backtest jobs.** `JobsInv` adds what is stored of every job, what a worker knows of the row
  (`Knows`: having read or marked it, the row is past pending; while alone, its idea of the
  message is the row's), and that two workers have one job only if it is in `overlapped`.
  The implementation proof maps `MarkRunning` to `Started`, `EndRun` to `Ended`, and all of
  broker and worker loss to stutters; `Knows` is what makes `EndRun` begin in a status `Ended` allows.
- **Evaluator.** `TreeRecursionExists` shows, by the least depth at which it could fail, that a
  recursive definition over the trees has a solution, so that evaluator and meaning both are
  verdicts (`IsVerdict`) over what their leaves say. `VerdictsFollow`: AND and OR are
  monotonic, so a leaf that is true for the evaluator only if it is true as written makes
  the same hold of the tree. `LeafAsWritten` is the comparison of a leaf: with the strategy's
  timeframe and one period per series, whatever value is found under the key is the leaf's own.

Induction is first order throughout: the library's induction theorems take an operator for
a parameter, which the provers cannot instantiate, so the lemmas take the least
counterexample instead (`LeastExists`). What a recursive function computes is then a lemma
(`RecursionExists`).

Only model-checked: the liveness properties `HaltDrains`, `Recovers`, `FailuresExpire`,
`Converges`, `RequestsAreAnswered` and `SessionsEnd`. Fairness speaks of ENABLED, which is beyond
the prover.

## 5. Not modelled

- CoinTrader: update and deletion of a strategy; keys, balances and tests of exchange
  accounts; the AI's answer beyond execute or not; registration and the hashing of
  passwords; `OrderExecutor.cancel` and `detect_and_resolve`, which nothing calls.
  Notifications, read endpoints and the balance and daily reports keep no state that any
  other part reads back.
- Indicators, the statistics of a backtest (Sharpe, Sortino, holding hours) and formatting:
  floating-point library code or text.
- Gateway: how host, path, header and method are compared (a request fits a set of
  routes); random, weighted and hashed choice of a target; headers and path rewriting; the
  messages of a gRPC stream and the cache of channels; `rest2grpc`, which nothing uses; API
  key, mTLS and logging plugins, which decide on one request alone; audit log, metrics and
  health endpoints; the order of the shutdown (it matters for a dead listener: the shutdown
  re-raises its exception and skips the rest).
- Two consequences no property is stated for. Two stops followed by one resume leave a stop record
  unresumed (`strategy_service.py:172`): the table is an audit trail that nothing reads to
  decide. And a strategy of lower priority on a symbol is never sent while one of higher
  priority is active (`trading_tasks.py:122`): this is what the priority is for. The
  modules allow both.
- The sockets of the price feed check the token once, at connect, and never ask the blacklist: no
  step of the code could end a socket for its token, and no document asks for one.
- Four hazards without a property are listed with the reason in `PROJECT.json`.
- In `PROJECT.json` every component is listed with its status and the reason.

## 6. Disagreements between code and documentation

1. `daily_counter`: the daily counter takes the ordered quantity of rejected, open and
   canceled orders; `risk_manager.py:81` calls it the total of executed trades.
2. `advice_record`: a consultation that ends in hold is never committed;
   `ai_service.py:64` says it is saved.
3. `consecutive_failures`: successes do not reset the failure count; `docs/api_spec.md:204`
   says the circuit opens on consecutive failures.
4. `reload_listener`: the first reload that raises ends the listener task of a gateway that
   keeps running; `docs/architecture.md:118` says every gateway receives the message and
   reloads. (The file watcher goes on, so the gateway still follows its files.)
5. `second_factor`: a verification of one secret that overlaps the setup of the next enables the
   next; `auth.py:131` says a secret is active after its verification.

Met while modelling, and not the subject of a run, because one step of the model, or one
look at the code, is enough to see them:

- With two active accounts the lookup of `trading_tasks.py:59` raises and the message is retried
  (`LoadAmbiguous`, fired in `dispatch`); the comment at line 52 promises the first active one.
- Where React runs the effect twice (`main.tsx:8`), the late `onclose` of the first socket clears
  the second's ping interval (`Closed`); `usePriceFeed.ts:9` says the hook sends pings to keep
  the feed alive.
- An SMA condition is never matched, its value being kept under the key of MA
  (`strategy_evaluator.py:223`, `Series`); lines 30 and 55 list SMA as supported.
- A key set in the cache is never fetched again (`jwt_plugin.py:34`, `RunPlugin`);
  `docs/architecture.md:65` of the gateway says key sets are renewed dynamically.
- `docs/architecture.md:94` of the gateway calls round robin stateless, by a hash of the
  request's id; the code keeps a counter per route (`core/router.py:166`).
- `docs/architecture.md:83` says gRPC calls skip the plugin pipeline; `_prepare_call`
  (`adapters/grpc_proxy.py`) runs it.
- The comment at `api/v1/auth.py:112` calls the table `jwt_blacklist` a fallback for a
  failing Redis; nothing reads it but its own clean-up.
- `core/protocol_utils.py:45` maps the status 502 to the close code 4502 for a WebSocket
  whose upstream fails; the listener has closed the connection with 1011 by then
  (`listeners/websocket_listener.py:93`).
- The comment at `strategy_evaluator.py:260` says a condition whose indicator cannot be
  computed is false; with too few candles RSI is taken to be 50 and a mean to be 0.

## 7. Limits, and what could come next

- `AdminConsole` and `GatewayConfig` meet only through what each does to the file. Their
  composition (one admin, two gateways, one file) would show how long two gateways may
  differ.
- An abstract specification of a strategy (running, stopped), shown to be implemented as
  `JobLifecycle` and `Circuit` are.
