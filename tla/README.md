# A verification project for AlgoEngine

AlgoEngine is a trading engine in Python: it streams market data, runs
strategies, and sends orders to brokers, all of it as asyncio tasks with a few
threads. This directory holds TLA+ specifications of its parts, TLC
configurations that check them on small instances, and theorems that TLAPS
proves for every instance. `PROJECT.json` lists, in machine-readable form, the
components, the runs, one plausible bug per property that the run must catch
(`mutants`), the source lines behind each definition (`map`), the hazards the
properties are aimed at, and the theorems.

Paths below are relative to the repository (`src/...` there is `src/src/...`
in `PROJECT.json`, where the first `src` is the checkout).

    tlc -workers 2 -config MCLiveOrders.cfg MCLiveOrders    # one run
    tlapm DataSyncProofs.tla                                # one set of proofs

## 1. Inventory

| Component | State it keeps | Operations | Talks to | What is hard | What makes it correct | Model |
|---|---|---|---|---|---|---|
| **Circuit breaker, retry** `utils/error_handler.py` | state, failure/success counts, opened_at, in-flight probes | execute, record_*, trip, reset, is_active; retry_async; ErrorHandler.handle | wraps broker and network calls of LiveEngine and adapters | calls that complete in a later period than they were admitted in; cancellation; reads that change state | opens only on consecutive failures, stays open for its cooldown, closes only on consecutive successes, recovers | `CircuitBreaker` |
| **Live orders** `trading/live_engine.py`, `execution_engine.py`, `order_manager.py`; **simulated broker** `adapters/simulated_broker.py` | mode, running, pending orders, daily count; order and active sets; the broker's queue | start, stop, pause, resume, submit, cancel, ticks, daily reset; fill loop | one shared Order object; broker adapter; breaker; strategies | awaits between check and count; cancellation during submission; stop and restart; fills behind the engine's back | books agree, accepted orders can be found again, limits exceeded by no more than overlaps, nothing survives stop() | `LiveOrders` |
| **WebSocket feed** `data/websocket_feed.py` | connection state, socket, reconnect attempts, message loop, two locks, subscriptions | connect, disconnect, send, loss handling; add/remove/subscribe/send of the manager | peer; message handlers | several tasks reconnect the same connection; cancellation swallowed; a lock asked for twice | one socket, calls return, losses are resolved, a removal returns with the connection DISCONNECTED | `WebSocketFeed` |
| **Data synchronisation** `data/sync_manager.py` | per symbol: numbers received, expected number, gaps, status; buffer | create_packet, receive_packet, reset_symbol, register/unregister | threads of data feeds | loss, duplication, reordering; status written outside the lock; reset in between | gaps are exact, numbers are fresh, status tells the truth | `DataSync`, `SequenceTracker` |
| **FIX session** `protocols/fix_handler.py` | session state, sequence numbers, reader/writer, tasks | connect, disconnect, send, read and heartbeat loops, dispatch; monitor of FIXConnection | peer; application handlers | overlapping sends, answers dispatched before the send returns, reconnect with old tasks alive | numbers ascend, no loop escapes disconnect(), a loss is noticed, LOGGED_ON means served | `FixSession` |
| **Stream cache** `data/stream_cache.py` | queue, its separately kept size, seen hashes, throttling flag, pause event; entries, index by symbol, tick windows | put_async, get_async, backpressure, overflow; put, get, evict, expire, clear | producers and consumers of ticks | bounded queue, drop policies, deduplication before enqueueing, keys shared by two symbols | size agrees with the queue, no lost wake-up, order kept, what is stored is found | `StreamQueue`, `LossyChannel`, `CacheStore` |
| **Order router** `trading/order_router.py` | brokers, metrics, rules, round robin counter | register, unregister, route, split, batch, check_all_brokers | brokers | registration during an awaited check that iterates the dictionary; rounding | parts cover the order, a check asks every broker unless the dictionary was rebuilt | `OrderRouter` |
| **Positions, portfolio** `trading/position_manager.py`, `portfolio/portfolio.py`; **position sync** `portfolio/position_sync.py`; **risk** `risk/risk_manager.py` | positions, realised profit, cash, trades | apply fill, compare, reconcile, check_order | order manager callbacks, broker | fills on both sides, reconciliation, orders checked before earlier ones are booked, at a price that is not the market's | profit and position equal the fills, books agree after reconciliation, an order keeps the risk limits if its check was on the safe side | `Accounts`, `RiskLimits` |
| **Engine core** `engine/engine.py`, `events.py`, `timekeeper.py` | lifecycle state, handlers, schedules, tasks | initialize, start, pause, stop; emit; schedule | everything | start of a paused engine, stop overlapping start, handlers that unsubscribe while emitting, callbacks that schedule themselves | a running engine has its loops, a stopped one none, schedules run once an interval | `EngineCore`, `TimeKeeper`, `Strategies` |
| **Plugins** `plugins/loader.py`; **strategies** `algorithms/strategy.py`, `strategy_manager.py` | registry, plugin states, dependencies; strategies, subscriptions | load, start, pause, stop, unload; create, start, remove | event bus, engine | a step of several fails half way; start after pause | registered means initialised, a running strategy hears each bar | `Plugins`, `Strategies` |
| **Live maintenance** `trading/live_engine.py` | health, link, pending orders | health check, reconnection, order synchronisation | broker, breaker, retry | answers applied after the awaited request; breaker opens during reconnection | health is that of the link, synchronisation drops finished orders only, the link recovers | `LiveMaintenance` |
| **Remote adapters** `adapters/ig_broker.py`, `oanda_broker.py`, `crypto_broker.py` | HTTP session, tokens, ids of orders, caches, WebSocket task | connect, submit, cancel, close, refresh; start/stop streaming; paged downloads | services outside the repository | lost answers, retries of requests that create orders, expired sessions, polls that give up | copies of an order are bounded, reports are true, calls return | `IgBroker`, `OandaBroker`, `CryptoFeed` |
| **Feeds** `data/feed.py` | pending ticks, last bar, cache, buffer, tasks | add_tick, flush, cache get/set, start/stop streaming | callbacks, event bus | late ticks, tasks forgotten by a second start | every tick in one bar, cache bounded, no datum twice | `Feeds` |
| **Monitoring** `monitoring/latency_monitor.py` | samples, gauges, thresholds, alerts | record, add/remove threshold, check loop | handlers | cooldown shared by latency and gauge; threshold replaced | an alert has a cause and keeps its cooldown | `LatencyAlerts` |
| **Indicators** `algorithms/indicators_registry.py`; **backtest** `backtesting/engine.py` | registry, result cache; bars, index of the replay | register, compute, invalidate; load, run, reset | strategies | cache key without the warmup; bars of one time stamp | a lookup is what was registered, every bar is replayed | `Indicators`, `Backtest` |
| Storage, configuration, logging, Prometheus exporter, historical downloads, CLI, dashboard, native code, formulas of indicators and of results | files, counters | wrappers around libraries and HTTP, calculations over decimals | | I/O, numerical | unit tests reach them | no, see section 6 |

How the parts interact: a feed (WebSocket, FIX) hands data to the
synchronisation manager, the stream cache and the engine's event bus; a
strategy answers with `LiveEngine.submit_order`; that asks the circuit breaker,
registers the order with the OrderManager, awaits the broker adapter and counts
the order; fills come back through callbacks of OrderManager (ticks), or never
(adapters). The Order object itself is shared state of all of them.

## 2. What is modelled

The rule for asyncio code is the same everywhere: a task runs uninterrupted
from one await that suspends to the next, so **an action is the code between
two awaits**, and every other task may run in between. For threads
(`DataSync`) an action is the code from one lock section or shared write to the
next.

### CircuitBreaker (`src/utils/error_handler.py`)

`state`, `failureCount`, `successCount`, `halfOpenInflight` and `openedAt` are
the fields of `CircuitBreakerStats`; `openedAt` keeps only whether the cooldown
is over. `Attempt`/`Wake` are `execute()` up to `await fn()` (from the first and
from a later iteration of `retry_async`), `Succeed`/`Fail`/`Cancel` are what
follows it, including `finally`. `ReadIsActive` is the property `is_active`,
which is what moves an OPEN breaker to HALF_OPEN; `HandleError` is
`ErrorHandler.handle`. `probes`, `failStreak` and `okStreak` are history
variables. Left out: delay formulas, the exception tables, the registry of
breakers by name (each is one instance).

### LiveOrders (`src/trading/`, `src/adapters/simulated_broker.py`)

One action per stretch of `submit_order`, `_cancel_order`, `start`, `stop`,
`pause`, `resume`, the ticks, the daily reset and the fill loop of the
simulated broker. `kind` selects what stands behind the engine, because what
matters is where the adapter suspends: not at all (`none`, `simulated`) or in
every call (`network`). `status` is the shared `Order.status`; `pending`,
`active`, `registered` and `held` are the dictionaries that refer to it.
Abstracted: the breaker and the health state are one flag, `gate`, free to move
while the engine runs (`CircuitBreaker` has the detail); prices, quantities, the
volume limit and the risk check (`RiskLimits` has it) are left out, since they
refuse orders before any state changes; health checks, reconnection and order
synchronisation are in `LiveMaintenance`; `auto_reconnect` is on, its default. A
second `start()` while one is suspended is left out. `peak` is history: how many
orders have been in `submit_order` at once.

### WebSocketFeed (`src/data/websocket_feed.py`)

One connection and the manager that owns it. Task 0 is the manager call that
holds the manager's lock, task `i` the message loop of the `i`-th socket.
`lock`/`waiters` is the connection's `asyncio.Lock` with its FIFO queue,
`pc[t]` the await a task is suspended at. `CancelLoop` is `Task.cancel()`; a loop
cancelled at the lock leaves its queue (`Leave`). The bare `except` around the
closing of a socket would swallow a cancellation, but the loop that
`disconnect()` cancels is never there: that is a theorem
(`NewestLoopIsCancellable`), and the model has no action for it. The socket
library is external: opening, sending and closing suspend, a closed socket ends
the iteration normally, a dropped one raises. A handshake takes round trips, so
every ready task has had its turn before one ends (`Settled`). The theorem
`SocketsAlwaysKnown` uses it; without it the model shows two open sockets, once
it has four to open. Left out: message dispatch, pings, headers.

### DataSync and SequenceTracker (`src/data/sync_manager.py`)

`managers[s]` is a `SequenceManager` as a record; `RecordReceived`, `Resolve`
and `Missing` are its methods as pure operators. `LookUp`, `Duplicate`,
`Receive`, `ReadGaps`, `WriteState`, `WriteGaps` are the stretches of
`receive_packet`; `ResetSequence`, `ResetStatus` the two halves of
`reset_symbol`; `orphan` marks a thread whose status object was replaced while
it held a reference. Several threads may serve one symbol; `raced` is history: the
symbols whose calls overlapped, until a call that has the symbol to itself
receives a number. `network` only grows: every packet ever created may
arrive, late, again or never. `SequenceTracker` is the abstract specification:
the missing numbers are the holes below the highest one received. Left out: the
retransmission buffer, retry counts of gaps, checksums, latencies and
register/unregister.

### FixSession (`src/protocols/fix_handler.py`)

A `FIXSession` and the `FIXConnection` around it. `reads[i]` and `beats[i]` are
the read and heartbeat loops that `connect()` creates for the `i`-th socket,
`tasks` is `_tasks`, `conn` is `_reader` and `_writer` (set and cleared
together), `source` the socket a read loop really reads, since it takes
`self._reader` anew in every iteration. `Start`, `MonitorWakes`, `Opened`,
`OpenedAndLost`, `Refused`, `Retry` are the stretches of `connect()`, called by
`start()` or by the monitor; `Stop`, `Drained`, `TaskJoined`, `WriterClosed` those
of `disconnect()`, with `Walk` as its `for task in self._tasks`, which meets tasks
appended while it waits. `Hear` is a message read and dispatched. Two facts
about asyncio are used: `drain()` suspends only behind a full buffer, so not
after the logon, the first bytes on a new socket; and a dispatch task created for
a message runs before the end of the same stream is seen. `written` and `raced`
are history variables. Left out: message contents and framing, statistics,
application handlers, and a second `start()` while one is under way or a monitor
exists.

### StreamQueue, LossyChannel, CacheStore (`src/data/stream_cache.py`)

`StreamQueue` is the asynchronous path. `queue` and `size` are `_async_queue` and
the separately kept `_queue_size`, `throttling` and `open` the flag and the
`_pause_event`, `producer[p]` where a producer waits. `Put` is `put_async` up to
its wait at the event, `Proceed` what follows, `Get` is `get_async`, with
`Admit`, `Overflow`, `Enqueue`, `Resume` as the methods they call. An event that
is set wakes all who wait, even if it is cleared before they run. `LossyChannel`
is the abstract specification: a bounded channel that keeps its order and loses
its oldest only. `CacheStore` is the keyed store: `Put`, `Get`, `GetLatest`,
`ClearSymbol`, `CleanupExpired` over `entries`, `order` (what the policy evicts
first) and `index`, which keeps a key for each symbol. Key and hash of a datum
are functions of it (`KeyOf`, `HashOf`) that two data may share, as the code's
strings do. `AddTick` and `GetTicks` are the window of a `SymbolCache`. `Lists` has
the list comprehension that `CacheStore`, `Indicators`, `Backtest` and `OrderRouter`
share, and the sum of a list, as recursive functions about which the prover can
reason.

### OrderRouter (`src/trading/order_router.py`)

`brokers` is the registry with metrics, in its order. A routing suspends
nowhere and is one action, `Route`; `RoutingResult` is the function from order
and registry to broker and parts, with `EqualParts` and `WeightedParts` as
`_split_order`. `StartCheck`, `NextItem`, `Answer` are the awaits of
`check_all_brokers`, with registrations in between. It iterates the dictionary
itself, which is therefore modelled as CPython keeps it: `table` is the list of
entries with the holes that deletions leave, `room` the number of entries it has
space for, and an insertion that finds the list full rebuilds it without its
holes. The iterator holds a place in the list; `Ended` is its end, or the
`RuntimeError` of a dictionary that changed its size or has an item too many.

### IgBroker, OandaBroker, CryptoFeed (`src/adapters/`)

A task starts a call, the network and the exchange deal with its requests, and
the task goes on with the answer (`GoOn`, `Answered`, `Confirmed`). `Attempt` and
`Failed` are the retries of a request, `PollAgain` the polling for a confirmation,
`Login` and `AfterRefresh` the session. The exchange is external: IG carries out
a deal reference at most once, OANDA every request it receives; both may lose a
request or the answer to it. `CryptoFeed` has the HTTP session, the WebSocket
loop with its backoff (`Dial`, `Message`, `Drop`, `Wake`), and the two downloads
that go page by page (`RangePage`, `TopPage`). `Brokers` explores the three and
`OrderRouter` in one run; they share no state.

### EngineCore, TimeKeeper, Strategies, Plugins (`src/engine/`, `src/algorithms/`, `src/plugins/`)

`EngineCore`: `state`, `running`, and `loops[k]`, the three tasks of the `k`-th
`start()`; `Start`/`Connected`, `Stop`/`Disconnected` are the stretches before and
after the await of the data feed, so starts and stops overlap. `TimeKeeper`:
`schedules` and any number of `run()` loops, each turn a snapshot of what is due.
`Strategies`: manager, strategy lifecycle and one handler list of the event bus;
`Emit` walks the live list, in which a listener may unsubscribe itself.
`Plugins`: one action per call of the loader, every hook of a plugin may raise,
and `object[o]` is a plugin object, of which a second load makes a new one; `Clear`
and `ClearError` are those of the registry.

### Accounts, RiskLimits (`src/trading/position_manager.py`, `src/portfolio/`, `src/risk/`)

`Fill` is `process_fill` in whole units of quantity and price; fills whose
average would not be whole are not explored. `Sync` is the synchroniser called
with the manager's positions, for every position the broker may report. `cash`
is history: what the fills paid and brought in. `RiskLimits` has `check_order` with its five limits,
called as the engine does, at the limit price or the constant 100
(`live_engine.py:584`), against a portfolio valued at its positions' current
prices, which `Move` changes; and `Book`, which books an admitted order later at a
price of its own. Not explored are fills of sales of more than is held.

### Feeds, LatencyAlerts, LiveMaintenance (`src/data/feed.py`, `src/monitoring/`, `src/trading/live_engine.py`)

`Feeds`: `AddTick`/`Flush` of the aggregator, the data cache, and the buffer task
of a streaming feed with `start_streaming` and `stop_streaming`. `LatencyAlerts`:
recording, thresholds with direction and cooldown, alerts, and the checking
loop. `LiveMaintenance`: `HealthWakes`, `HealthAnswers`, `HealthFails`, `Try`,
`DelayEnds` are the health check and the reconnection by `retry_async` inside it,
`SyncWakes`, `SyncAnswered`, `SyncApplied` the order synchronisation, while
`Start` and `Stop` run beside them. A second `start()` while one awaits the broker
is left out here too.

### Indicators, Backtest (`src/algorithms/indicators_registry.py`, `src/backtesting/engine.py`)

A computed result is a tail of the values of its data and modelled by its first
value. A backtest run awaits nothing that suspends and is one action, `Run`, over
bars that were loaded in any order; `Replay` is its loop over the timestamps.

`Platform` explores all modules from StreamQueue and CacheStore on in one run.
No code passes state from one of them to another, so the initial state chooses
the part that runs.

## 3. The runs

| Run | Instance | Checks | Shows |
|---|---|---|---|
| `circuit_breaker` | 3 callers, thresholds 2, 2 attempts | `TransitionsAreEarned`; `RetryEnds`, `Recovers` | late completions never make the breaker open, close or end its cooldown wrongly; it recovers |
| `probe_limit` (violation) | same | `ProbeLimit` | `half_open_max_calls` is never read: two callers probe at once |
| `live_orders` | 2 orders, one MARKET, a third after an overlap, three kinds of broker, four start modes, limits of 1 | `PaperBooksAgree`, `AcceptedIsTracked`, `OverrunIsBounded`; `TerminalSticks`; `PaperOrdersResolve` | where the code keeps its books consistent, and by the guards `kind = ...` in them where not; the limits are exceeded by no more than the submissions that overlap |
| `pause` (violation) | built in LIVE | `PauseTakesNoOrders` | a paused engine still accepts orders |
| `websocket` | 3 sockets, 2 reconnection attempts, both kinds of refusal | `SocketsAreKnown`; `RemoveEndsDisconnected`; `CallsReturnOrSelfWait`, `LossResolves` | whatever is lost, refused or closed, the only deadlock is a task waiting for its own lock |
| `refused` (violation) | same | `CallsReturn` | that deadlock is reached: a refused connection blocks `connect()` for ever |
| `data_sync` | 2 symbols, 2 threads on one and one on the other, numbers up to 4 | `GapsAreExact`, `StatusSettles`; `NumbersAreFresh`; `TracksExactly` | gaps are exact in every order of arrival, the managers implement `SequenceTracker`, and a status is true unless calls overlapped and none alone has followed |
| `fix_session` | 3 sockets, 2 attempts, numbers up to 2 besides the logons | `SessionIsServed`; `NumbersAscend`, `StopEndsAll`; `LossIsNoticed` | through losses, refusals, reconnections and overlapping start() and stop(), no loop gets lost; without that overlap stop() ends everything |
| `fix_numbers` (violation) | 1 socket | `NumbersUnique` | a message sent while `disconnect()` waits carries the number of the logout |
| `brokers` | IG: 2 tasks, 2 orders, 2 attempts, 2 polls, 1 fault; OANDA: the same with 2 faults; crypto: 2 tasks, 2 loops, pages of 2; router: 3 brokers | `RetriesAreBounded`, `ReportsAreTrue`, `FeedIsServed`, `PartsCoverOrder`; `CheckIsComplete`; `AdaptersReturn` | a retried order exists at most once at IG and once an attempt at OANDA; what is reported closed is; parts cover the order; every call returns |
| `platform` | fifteen parts, see `MCPlatform.cfg` | `BackpressureAgrees`, `AccountsBalance`, `StoredDataIsExact`, `EngineIsServed`, `LiveStateIsTrue`; `IsLossyChannel`; `WaitsEnd` | the remaining components keep what they say of themselves true, and nobody waits for ever |
| `indicator_warmup` (violation) | 2 names, 2 series of 3 values, warmup 0 or 1 | `WarmupIsExact` | a cached result loses the warmup values a second time |

`TypeOK` (`BrokersTypeOK`, `PlatformTypeOK`) is checked in every passing run.
`TransitionsAreEarned`, `SocketsAreKnown`, `GapsAreExact`, `SessionIsServed` and the
properties of `brokers` and `platform` are conjunctions of named parts, one for
each promise; each part is stated in the module of its component.

**Bounds.** *Breaker*: a threshold of two is the least for which "consecutive"
means something, three callers let a late completion meet a trip and a probe;
`CountBound` and `FailureBound` only keep history counters and outside reports
finite, and saturation above the thresholds is invisible to the properties (a
lemma proves it). *Orders*: with a limit of one pending order, two orders are
what a race needs; the third meets the limits that two have broken together
(`ThirdAfterOverlap` keeps it to that situation). The daily limit of one is reached and reset. *WebSocket*: a
loop and a failed send handle the same loss with two sockets, the third is the
reconnection after it; two attempts distinguish the last from the others. A task
still busy with a socket before the last could do harm only with a fourth, where
the state graph grows twentyfold: there the safety of the sockets rests on its
theorem, which is about any number. When the sockets are used up, opening one can only fail. *DataSync*: four numbers are
enough for two disjoint gaps, a gap closed in its middle, and a late packet. The
two symbols share nothing but the lock of `reset_symbol`, so the second receives
one number and not while the first is worked on (`SecondIsShort`). The proofs cover
every bound, any threads and symbols.

*FIX*: the third socket is what a read loop of a forgotten connection needs to
meet the loop of a later one at the same reader; a send on each side of a
reconnection is what numbers need to be compared.

*Brokers*: two attempts tell the last from the others; one lost answer is what a
retry needs, and a second one, at OANDA, what makes it give up; two tasks let a
session expire or a connection close under a call that waits. A page of two
with candles every two instants puts a candle on a page boundary. Three brokers
are what a check needs to lose one and gain another with the size unchanged; past
registrations in `Init` let an insertion find the dictionary full and rebuild it.
*Platform*: a queue of two is full in every way of the overflow, one of five has
both watermarks apart; a cache of two entries over three keys evicts, with two
symbols under one key; two starts and stops overlap in `EngineCore`; two fills
on each side reduce, close and reopen a position; three bars of two instants
meet the replay's comparison of time stamps; two attempts and two faults let the
reconnection fail, be ended by the breaker, and succeed. The theorems cover every
value of the constants of every passing run; only liveness rests on the bounds.

**Deadlock** is checked in the breaker and synchronisation runs. The order,
WebSocket and FIX systems may stop (no order left, connection removed, bound
of numbers reached), and so may the parts of `brokers`, `platform` and
`indicator_warmup` (all calls made), so their configurations switch it off; the
liveness properties say what must not stop.

**Fairness.** Weak fairness stands for "the event loop runs every ready task,
sleeps end, and network operations have timeouts": on the steps of callers and
the clock (`CircuitBreaker`), on the task and loop steps (`WebSocketFeed`), on
connecting, stopping, the monitor and the read loops (`FixSession`), on
market ticks and on the end of `stop()` (`LiveOrders`). Nothing forces a user, a
peer or the network to do anything: no fairness on trips, submissions,
cancellations, losses or manager calls. `DataSync` has no liveness property and
no fairness. In `brokers` a call that waits for the network gets an answer or a
timeout (`GoesOn`: aiohttp's timeouts are configured), and a cancelled WebSocket
loop runs. In `platform` the consumer of the queue keeps reading and woken
producers run, and the health check, its requests (each under `wait_for`) and
the delays of the retry go on.

## 4. What the violations mean

* `probe_limit`: the comment at `error_handler.py:90` calls
  `half_open_max_calls` the probe requests allowed in HALF_OPEN;
  `half_open_inflight` is counted and never compared with it. The mutant
  `Attempt_ProbeLimit` shows why merely adding the comparison would not do: the
  counter leaks, and the breaker would then stop recovering (`Recovers` fails).
* `pause`: `pause()` promises "no new orders", `submit_order` looks for WARMUP
  but not for STANDBY (`live_engine.py:558`).
* `refused`: `connect()` handles a `ConnectionError` inside `async with
  self._lock` (`websocket_feed.py:140`), and the handler calls `connect()`.

* `fix_numbers`: `disconnect()` reads `_seq_num_out` for the logout and does not
  advance it (`fix_handler.py:709`), then awaits the loops it cancelled; the
  class promises sequence number tracking.
* `indicator_warmup`: `compute()` puts the result without its warmup values into
  the cache and cuts them off again from what it finds there
  (`indicators_registry.py:466`, against the comment at line 440).

Things the models show about the code that no documentation contradicts: with a
network adapter the limits are checked before the await and counted after it, so
concurrent submissions exceed them together, by their number less one
(`OverrunIsBounded`); with the simulated broker a cancelled
order stays in both books and may still be filled; with an adapter nobody tells
the OrderManager of fills. When `start()` and `stop()` of a FIXConnection overlap,
`disconnect()` may forget the writer of the new connection, and the session then
says LOGGED_ON without one. The properties carry the guards (`kind = "none"`,
`kind # "network"`, `~raced`) that mark this.

Of the components modelled since:

* Stream cache: a datum is marked as seen before it is queued, so a dropped one
  cannot be offered again; a low watermark of 0 never resumes, which is why the
  models assume one; the index keeps keys whose entry another symbol's overwrote.
* Accounts: a fill larger than the position it reduces books profit for all of
  it and loses the excess; reconciliation deletes only from its own map, so a
  position the broker lacks stays; one critical difference reconciles all.
* Risk: orders are admitted against the same portfolio until one is booked, so
  several together may break a limit. One alone may too: it is checked at its limit
  price or at 100, whatever its symbol trades at. `LimitsHold` says where the limits
  do hold, by the history variable `fits`.
* Data synchronisation: calls that overlap on one symbol may leave its status stale
  until the next number is received.
* Engine: a `start()` that goes through while `stop()` waits leaves loops running
  in a STOPPED engine. A one-shot callback cannot schedule its own id again. A
  PAUSED strategy that is started hears each bar twice; one whose `on_start`
  raised is RUNNING and hears none. A second load of a plugin leaks the first
  instance, and a plugin in ERROR is unloaded without `on_stop`.
* Feeds: a start during a waiting stop has its buffer task cancelled, a second
  start leaves a second loop; `flush` splits a period in two bars.
* Live engine: the breaker, once open, ends a reconnection at the first attempt;
  order synchronisation finds an order only if its id is also the broker's.
* IG: an exhausted polling reports REJECTED although the deal may exist
  (`ig_broker.py:1117`); an update submits again although the cancellation failed.
  OANDA: a POST is retried after a lost answer; the caches outlive a disconnect.
  Crypto: the task of a start during a stop is forgotten; the candle that opens
  at the end of a range may be missing; `get_top_coins(150)` returns ranks 51 to 100
  twice and 101 to 150 never, since its last page is cut by its own size.
* Router: `update_metrics` sets the connectivity of a broker back. A broker that is
  unregistered while `check_all_brokers` waits, and another registered, leave the
  size of the dictionary as it was; if the registration finds it full it is rebuilt,
  and the check passes over a broker without an error (five brokers A to E, A asked,
  A replaced by F: B is skipped).

`late`, `crossed`, `exact`, `hurt`, `replaced`, `raced`, `fits` and `rebuilt` are
the history variables by which the properties except these cases.

## 5. The proofs

Assumptions are those in `BreakerAssumption`, `OrdersAssumption`,
`WebSocketAssumption`, `SyncAssumption`, `FixAssumption`, `QueueConstants`,
`PlatformConstants`, `IgConstants` and `PartsConstants`: constants have their types, thresholds, capacities, periods
and sizes are at least one, the bounds on history counters are no lower than the
thresholds, the orders of `LiveOrders`, the symbols and the names of brokers are
finitely many, `Serves` maps threads
and `SymbolOf` maps data to symbols, watermarks lie between 1 and 100 percent,
the warning level of an alert is below the critical one, and names that
the code tells apart by their type (a listener, a strategy, no object) differ.
TLC evaluates them on every run.

**CircuitBreakerProofs.** `CountersBelowThresholds` is nearly inductive; the
action properties need more: `StreaksBackCounters` says that each counter is
backed by outcomes that were really consecutive (`failureCount <= failStreak` in
CLOSED, `successCount <= okStreak` in HALF_OPEN) and that an OPEN breaker has a
time stamp. With them `IInv` is inductive; the proof goes by what a step records
(a read, a success, a failure, a report), not by who records it.
`AttemptLeft` (a task in backoff has an attempt left) is needed for the type of
the loop variable. Theorems: `TypeCorrect`, `CountersBounded`,
`TripsOnlyOnConsecutiveFailures`, `ClosesOnlyOnConsecutiveSuccesses`,
`OpenLastsItsCooldown`, and `TransitionsAlwaysEarned`, which joins them to the
property the run checks.

**LiveOrdersProofs.** The three safety invariants are not inductive, together
neither: what a step may do to the books depends on what else is under way. `IInv`
adds `KindInv` (submissions and cancellations wait, and `stop()` goes through a list,
only with a network adapter; without an adapter no link comes up; only the simulated broker holds
an order it is about to fill), `KnownInv` (what `stop()` has left to
cancel, what is queued and what is being filled is registered), `CountInv` (the
daily count is at most the number of orders whose submission is over, which bounds its type) and
`PeakInv` (no more orders are in `submit_order` than at the peak) and `FillInv` (no order is FILLED with a network adapter, none is filled or cancelled
unless it is registered, and the order in the fill loop is not FILLED). The
cancellation that four actions share has its lemma, `CancelBooksHolds`; then there is
one lemma per action or pair. Theorems: `Invariance`, `TypeCorrect`,
`AcceptedAlwaysTracked`, `PaperBooksAlwaysAgree`, `OverrunAlwaysBounded`, and the action
property `TerminalAlwaysSticks`.

**DataSyncProofs.** `ManagerInv` is the invariant of a sequence manager: every
number below the expected one is received or lies in a gap, the expected number
is one above the highest received, the current number is above them all, gaps
are open, below the expected number and disjoint. `RecordHolds` shows that
`record_received` keeps it; it implies that `get_missing_sequences` is exact
(`MissingExact`) and equals the holes of the abstract specification
(`MissingIsHoles`), from which `ImplementsTracker` follows: every step delivers,
forgets or stutters. `StatusInv` is about the status: what a thread has read is
still what the manager holds, and what it has written follows from it, until a
reset makes it an orphan whose writes are lost. With two threads on one symbol
that is false, so the invariant speaks of symbols that are not `raced`, which one
thread at a time serves (`AloneInv`). Theorems: `Invariance`, `TypeCorrect`, `MissingIsAlwaysExact`,
`GapsStayWellFormed`, `GapsStayExact` (both together), `NumbersStayFresh`,
`ImplementsTracker`, `StatusAlwaysSettles`.

**FixSessionProofs.** `NextIsHighest` (the next number is above that of every
message but the logouts) is inductive because only four kinds of step touch the
numbers (`StepSends`): none, a send, a logon, a logout; `NumbersAlwaysAscend`
follows. The rest needs `IInv`: `UnusedInv` (a socket not yet opened has no loops,
no entry in `_tasks`, and a number left for its logon), `BoundInv`, `WalkInv` (what
`disconnect()` has passed in its list has ended), the known loops, and, while no
start has overlapped a stop, `SoloInv`: `stop()` is alone with the loops, the only
open socket is the current one, and until `disconnect()` begins, `QuietInv`: one
loop reads, from the current connection, with a heartbeat beside it. Each action
has a lemma. Theorems: `Invariance`, `TypeCorrect`, `SessionAlwaysServed`,
`StopAlwaysEndsAll`.

**WebSocketFeedProofs.** Who opens a socket or disconnects holds the lock
(`LockInv`); an open socket is the current one, no task uses another beside it,
and the state is CONNECTED until it is lost or about to be closed (`OpenInv`);
while the newest loop reconnects nothing is open, so it is never closing a socket
(`LastLoopInv`); and `CallInv` says where the manager's call is and what it has done
to its books. Theorems: `Invariance`, `TypeCorrect`, `SocketsAlwaysKnown`,
`NewestLoopIsCancellable`, and the action property `RemoveAlwaysEndsDisconnected`.

**PlatformPartsProofs**, the stream queue. `IInv` adds the types to
`BackpressureAgrees`: the counter is the length of the queue and within the
capacity, the event is set exactly while nothing is throttled, nobody waits at a
set event, and a throttled queue is not empty, so that the get that resumes the
producers can happen. What deduplication keeps does not touch it. The proof has a
lemma for each method the actions share (`DropThenAppend`, `EnqueueAgrees`,
`ResumeAgrees`), then one for each action. Theorems: `Invariance`, `TypeCorrect`,
`BackpressureAlwaysAgrees`, and `ImplementsChannel`, the refinement of
`LossyChannel`: a put appends and drops a prefix, a get takes the head, every
other step stutters.

**PlatformPartsProofs and PlatformProofs.** One inductive invariant for each part,
under its own heading: in the first module `IInv` of the queue, `StoreInv`,
`RiskInv`, `BooksInv`, `CoreInv`, `ClockInv`, `PluginsInv` and `StrategiesInv`; in
the second, which extends it, `LiveInv`, `StreamInv`, `AlertsInv`, `BarsInv`,
`CacheInv`, `IndicatorsInv` and `BacktestInv`. Their conjunction is `PlatformInv`;
`PartsStep` shows that a step of the platform is a step of one part while all
others stutter, so no part needs the invariant of another. The properties of
accounts and time keeper are inductive with their types; what the others had to
add is:

* *Cache*: the order list has every key with an entry once, and the symbol of an
  entry has its key in the index; a `SymbolCache` holds the last ticks added.
* *Risk limits*: an order that nothing came after would still pass at the price it
  was checked at.
* *Engine*: a running engine has its flag, starts are used in their order, and the
  loops that exist while a stop waits belong to starts that came meanwhile.
* *Plugins*: an object that is active in a state which unloading does not stop had
  a hook that raised.
* *Strategies*: how often a strategy is in the handler list is the number of its
  starts, and of the calls that the last event owed, at most one was missed: that
  of the handler behind a listener that left.
* *Live engine*: the health task exists only in a started engine and reconnects
  only while the link is down, with an attempt left after each delay; an end the
  broker has reported stays its end.
* *Feed*: the current buffer task is the one that goes on; the data emitted come
  before those that wait. Each bar goes on where the one before it ends, the
  pending ticks where the last one does, and unless there was a flush what is
  pending is of a later period than the last bar.
* *Alerts*: the alert before the last was a cooldown earlier, and after a check
  whatever is beyond its threshold was alerted within the cooldown.
* *Indicators, backtest*: a cached result lacks its warmup, is that of a series
  with its hash and has its key to itself; before the first run after a load
  nothing is replayed, and after one everything is.

Sums over lists, selections from lists and replays need induction. The prover has
no induction rule that takes a formula, so a statement about every number is
proved as a set of numbers that is all of `Nat` (`NatSets`, by the well-founded
`<` and `WFMin`), one about finite sets likewise, and `RecursionExists` gives the
recursive function that a definition chooses; `SelectedProperties` says what
`Selected` keeps and in which order. Theorems of `PlatformProofs`:
`PlatformInvariance`, `PlatformTyped`, `AccountsAlwaysBalance`,
`StoredDataAlwaysExact`, `EngineAlwaysServed`, `LiveStateAlwaysTrue`,
`QueueAlwaysAgrees`. The modules are long because the parts are many; each takes
some minutes to prove.

**BrokersProofs.** `BrokersInv` joins the invariants of the four parts. A part that
is not explored stays in its initial state, so the conjunction needs no condition
on `part`.

* *IG* (`IgInv`): that an order has one deal for each `submit_order` is not inductive,
  since a request on the wire is a deal to come. `CountInv` counts both: the deals
  of an order and the calls that may still open one (`Pending`: a submission whose
  deal reference the exchange has not seen, an update that has yet to submit) are
  together at most the submits. It needs `RefsInv`, two calls never use one
  reference, and `JobsInv`, what the answer in a call's hands says of the deal it
  asked about.
* *OANDA* (`OandaInv`): a POST may be carried out once for each attempt, so
  `OCountInv` counts orders in the book and attempts left (`Attempts`, pairs of a
  task and an attempt) against submits times `RetryAttempts`. `OJobsInv` is what a
  job's stage says of the book, `OCacheInv` that a cached CANCELLED is so.
* *Crypto* (`CryptoInv`): `FeedInv` is `RunningIsServed` with its types. `PagesInv` is
  the loop invariant of the two downloads: the pages so far cover every candle
  before the cursor, in rising order and none beyond it (`RangeInv`), or are the
  ranks up to the last full page (`TopInv`), to which the shorter last page adds
  ranks within the limit. `KlinesPage`, `OrderFull` and a few lemmas on division
  and products carry the arithmetic for every candle width and page size.
* *Router* (`RouterInv`): no name is registered twice, rules are sorted, fills do not
  exceed submissions, and (`CheckInv`) a check under way waits for a broker and the
  entries its iterator has passed were asked (`Passed`), unless the dictionary was
  rebuilt meanwhile. `PartsCoverOrder` is a fact about a function of that state:
  `TotalSums` shows what `Total` computes, by the induction described above, and
  `SharesCover` that the last share, as the remainder, makes the parts the whole,
  whatever the weights. `AnswerHolds` is the step of the check: an answer that ends
  it leaves no registered name unvisited, unless the dictionary was rebuilt, and one
  that does not has an entry to go on with.

Theorems: `BrokersTypeCorrect`, `RetriesAlwaysBounded`, `ReportsAlwaysTrue`,
`FeedAlwaysServed`, `PartsAlwaysCover`, and the action property `ChecksAreComplete`.

**Only model-checked**: the liveness properties (`RetryEnds`, `Recovers`,
`PaperOrdersResolve`, `CallsReturnOrSelfWait`, `LossResolves`, `LossIsNoticed`,
`AdaptersReturn`, `WaitsEnd`), which are beyond the prover. Every safety invariant
and every action property of a passing run is a theorem; the violations are
counterexamples of TLC.

## 6. Not modelled

* The retransmission buffer of `sync_manager.py`, its gap retries and
  register/unregister: another write to the state that `DataSync` proves about.
* The read-only requests of the remote adapters (instruments, prices, history,
  watchlists, account figures) and the conversion of their answers; the
  historical downloads `alpha_vantage.py` and `yahoo_finance.py`. They await one
  request and keep nothing but caches.
* Encoding, parsing and framing of FIX messages.
* Formulas over decimals and windows: indicators, optimisation, metrics and
  results of backtests, percentiles. TLC has no fractions.
* `storage.py`, configuration, logging, the Prometheus exporter, the command line,
  the dashboard and the native and operations tooling: I/O and layout.
* In the modelled components, what the header of each module lists under "Left
  out"; among them the backtest branch of `Engine`, asynchronous event handlers,
  bars and quotes of a `SymbolCache`, and statistics that nothing reads.
