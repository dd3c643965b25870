# Stinger-FX: TLA+ models of the trading engine

Stinger-FX (`src/src/stinger_fx`) is an event-driven trading engine: one process,
one asyncio event loop, strategies that emit signals, a router that turns signals
into orders at one or more MetaTrader 5 accounts, and a risk monitor that may
refuse them. Almost every object is reached from one event loop, so there are no
data races in the usual sense. What is hard is *when* each task runs: every
`await` lets other tasks in, events travel through one queue per subscriber, a
broker call returns much later than it was made, the broker does things on its
own, the configuration is reloaded under way, and the process may be killed
between any two of these steps with only a SQLite database left.

Around the engine are the programs a user runs beside it: the simulated broker and
the backtests, the searches over their parameters, the history files they read,
and the commands that start and stop an engine in the background. There the
difficulty is in the arithmetic of edges (the end of a chunk, of a week, of a
fold) and in processes that share a file.

This directory holds TLA+ modules of the parts where that matters, instances of
them that TLC checks exhaustively, and theorems that TLAPS proves for every value
of the constants.

Paths below are relative to `src/src/stinger_fx` unless they begin with `src/`.

## 1. Inventory

| Component | State | Operations | Correct when |
|---|---|---|---|
| Event bus `core/event_bus.py` | list of subscriptions, a bounded queue and a consumer task each, closed flag | subscribe, publish, consume, unsubscribe, close | a subscriber sees each publisher's events in order and none twice; `block` loses nothing, `drop_oldest` only what is stale; publishers and consumers go on |
| Engine, scheduler `core/engine.py`, `core/scheduler.py` | registered components, periodic jobs | register, start, stop; run a job | components start in order, a failed job does not end its loop |
| Order router `execution/order_router.py` | strategy -> account, strategy -> magic, subscriptions | handle_signal, handle_close, handle_partial_close, handle_modify, handle_cancel, replay | an order goes to the strategy's account, only if risk allows; nobody acts on another strategy's position |
| Order queue `brokers/order_queue.py` | table `pending_order_requests` | submit, replay_pending_results | a request survives a crash, is resolved once, and is executed twice only if it has to be |
| Risk monitor `risk/monitor.py` | counters per strategy and symbol, ticket owners, equity peak, kill switch, profit lock, day's P&L | check_signal, _on_filled, _on_closed, _on_snapshot, resets, rehydrate, update_config | counters follow the brokers; a tripped switch stays tripped, also over a restart |
| MT5 broker `brokers/mt5/broker.py` | connection, single-worker executor, last tick per symbol | connect, health loop, reconnect, gap fill, tick loop, place/modify/close/cancel, history | one SDK call at a time; no tick lost, repeated or reordered over a reconnect; retries do not duplicate orders |
| Bar aggregator `brokers/bar_aggregator.py` | the open bar | on_tick | bars cover all ticks, in order |
| Strategy context and runner `strategies/context.py`, `runner.py` | own positions, parameters, errors, paused / quarantined | buy, sell, close, move_stop; the handler of each event type; pause, resume, stop | a strategy's view of its positions is the broker's |
| Position managers `strategies/managers/` | OCO groups, ladders, best stops, bars held | on_tick, on_bar, on_order_filled, on_position_closed | a group dissolves once, stops only tighten, an exit is carried through |
| Example strategies `strategies/examples/` | open ticket, session counters, cooldowns, ratcheted stop | on_bar, on_order_filled, on_position_closed | no more entries than the strategy allows itself |
| Config reload, watcher `config/reload.py`, `watcher.py`, `runtime.py` | the configuration in force, debounce task and its pending flag | diff_and_apply and its actions | the running system becomes what the file says |
| Runtime `runtime.py` | all of the above | setup, run_until_signal, rehydrate, reload actions | state is restored before anybody reads it |
| Trade persister, reconciler `data/` | trade log, verification tasks | on closed, on filled | the log has every close; a mismatch is reported, and only a mismatch |
| Circuit breaker, drift monitor `observability/` | losing streaks, alerts, paused strategies | on closed | a strategy that loses is paused |
| Notifications `observability/notifications.py` | recent messages | a handler per event class | no message is repeated, none lost |
| Simulated broker, replay `backtest/replay_broker.py`, `file_backtester.py`, `slippage.py` | pending orders, positions, balance, clock | replay of a bar or tick, place, modify, close, cancel | stops, targets and pending orders trigger in a sound order; the books balance |
| Sweep, search, walk-forward `backtest/` | population, scores, cells, folds | suggest, run, report, rank | the best is the best, and judged on data it was not fitted on |
| Reports, portfolio, Pareto, Monte Carlo `backtest/` | | pure functions of finished runs | they agree with their definitions |
| History store `data/parquet_store.py`, `csv_import.py`, `historical.py` | daily partitions | import, download, read in chunks | nothing lost or doubled, the newest row of a bar wins |
| Swing aggregation `strategies/aggregation.py` | the open bucket per timeframe | feed | a folded bar has every open hour of its trading day |
| Detached engine `detach.py`, `cli.py` | the processes, `engine.pid` | run, run --detach, stop | one engine, and stop stops that one |
| Web backtest `ui/web/live_backtest.py` | one task | start, stop | one run at a time, whose report is its own |
| MT5 tester bridge `backtest/mt5_backtester.py` | order queue, socket | message loop | the tester is told every order once, in order |
| Configuration models, indicators, metrics, UIs | | | not modelled: validation, numerics, presentation |

How they interact. A broker publishes `TickEvent`; the aggregator turns ticks into
`BarEvent`; a runner's handler calls the managers and the strategy, whose context
publishes `SignalEvent` and the requests to move, close or cancel. The router's
consumers take them, may await the symbol info, ask the risk monitor (a plain
call), await `OrderQueue.submit()`, which awaits `place_order()`, and publish
`OrderFilledEvent`. The monitor, the runner, the persister, the reconciler and the
dispatcher of notifications each receive the fill through a queue of their own.
A backtest has the same bus, router and runner in front of `SimBroker`.

The behaviours that are hard:

* *Between tasks.* The router checks counters another task updates; it awaits
  between reading positions and acting on one. `publish()` may suspend in the
  middle of its loop. A runner handles fills, closes and changes in tasks of their
  own, under one lock. The tick loop goes on while the connection is replaced.
* *At the broker.* A stop loss closes a position, a pending order fills, and
  `MT5Broker`, which only polls ticks, publishes nothing. A reply is lost; a retry
  repeats what was already done; the gap fill is cut off half-way.
* *At a restart.* A row is pending although the broker executed it; a snapshot is
  handled before the state is restored; a strategy's view starts empty.
* *During a reload.* The callbacks of a reload await hooks, locks and brokers; the
  file changes again, a broker drops, an operator pauses a strategy. One step of
  several fails and the rest stays applied.
* *At a limit.* A full queue evicts a fill; the opening balance is still 0; a
  range ends within a day; a trading day spans a weekend.
* *Between processes.* Two imports merge one file, two commands look at one pid
  file, and a pid is used again.

`PROJECT.json` lists these hazards, each at its line, with the properties that
cover it.

## 2. Modules

| Module | Models | Extends / instantiates |
|---|---|---|
| `EventBus`, `EventBusProofs` | `core/event_bus.py`, whole | |
| `OrderFlow`, `OrderFlowProofs` | router, open-position counters, runner's tickets, brokers, account reload | |
| `Outbox` | what the order queue promises (abstract) | |
| `OrderQueue`, `OrderQueueProofs` | `brokers/order_queue.py` with the retry loop of `MT5Broker.place_order` and restarts | `Outbox` |
| `RiskMonitor`, `RiskMonitorProofs` | account-wide rules of `risk/monitor.py`, their persistence, the startup sequence of `runtime.py`, the snapshot job | |
| `LiveReload`, `LiveReloadProofs` | `config/watcher.py`, the strategy part of `config/reload.py`, the reload callbacks and feed wiring of `runtime.py` | |
| `BarAggregator` | `brokers/bar_aggregator.py`: one tick and a bar | |
| `MarketFeed` | connection, health loop, gap fill, tick loop and executor of `MT5Broker`; wiring and warm-up of `runtime.py` | `BarAggregator` |
| `TicketLife` | what a broker promises of a ticket (abstract) | |
| `SimBroker`, `SimBrokerProofs` | `replay_broker.py` under `file_backtester.py`, with `slippage.py` | `TicketLife` |
| `TradeDesk` | what one strategy trades through: context, router tasks, broker | |
| `PositionManagers` | the five managers | `TradeDesk` |
| `ExampleStrategies` | the twelve strategies | `PositionManagers` |
| `StrategyHost` | `strategies/runner.py` around all of these | `ExampleStrategies` |
| `Notifications` | the dispatcher of notifications | |
| `Observers`, `ObserversProofs` | reconciler, persister, drift monitor, circuit breaker | `Notifications` |
| `BacktestReports` | metrics, Pareto frontier, portfolio, bootstrap | |
| `ParameterSearch` | sweep, search backends, walk-forward | `BacktestReports` |
| `DetachedEngine` | `detach.py`, run and stop of the CLI, start and stop of the engine | |
| `HistoryStore` | partitions, imports, downloads, replays | |
| `LiveBacktest` | the web UI's backtest and what it attaches to the shared bus | |
| `TesterBridge` | the driver of the MT5 strategy tester | |
| `SwingBars` | `strategies/aggregation.py` | |
| `Workbench`, `WorkbenchProofs` | the parts around the live engine, one at a time | the six before it |
| `MC...` | instances for TLC | |

Operators marked `(mutant)` in a comment are wrong variants of the operator that
follows, kept to show that each property notices such a bug; no specification
uses them.

### EventBus

`subList`, `open`, `queue`, `task`, `busClosed` are `_subs`, `Subscription.closed`,
the asyncio queues, the consumer tasks and `_closed`. A publisher is a task; one
that lives in a handler names the subscription as its `Host`. asyncio switches
tasks only at an `await`, so `Walk` is the whole loop of `publish()` up to the next
full `block` queue, one step; `PutResumes` continues it, without looking at
`closed` again, as the code does. `Unsubscribe` sets the flag and requests the
cancellation, `CancelDelivered` is the moment it reaches the task, and abandons a
`put()` the handler was waiting in. `offered`, `taken`, `returned`, `joined` are
history variables for the properties.

### OrderFlow

The state is the router's account map, the two consumers of the router
(`router`, `closer`: where `handle_signal` and `handle_close` stand), the queues of
`risk.fill` and `risk.close`, the monitor's `_open_positions` (`openCount`) and
`_ticket_to_strategy` (`owner`), the tickets each strategy tracks, and the brokers:
open positions, pending orders, and a ticket counter *per account*, so that tickets
of two accounts collide.

The scheduling of asyncio matters here and is modelled: `queue.get()` on a
non-empty queue does not suspend. A consumer that finishes one signal goes on with
the next before any other task runs. `turn = "router"` says so, and all other
actions wait for `turn = "free"`. That is why a second queued signal is checked
before `risk.fill` has counted the first one's fill.

`FetchesInfo` are the strategies whose signals make the router await the symbol
info (risk-based sizing or the aggregate-risk limit, with a stop loss). The
constants `BrokerCloses`, `Reroutes`, `PendingFills` switch on what the environment
may do: stops hit at the broker, configuration reloads, pending orders.

`place_order()` tries an order up to `MaxAttempts` times (`TryAgain`). `AnswerLost` is
an attempt the broker executes, or accepts, without the router's knowing: a TIMEOUT
that is tried again or was the last attempt, `order_send()` that returns `None`, an
outcome the outbox cannot take. The position is then in `unreported`: it is there for
`get_positions()` and can be closed, but no event tells the monitor or the strategy,
as with a pending order that fills at the broker. `positions` are those whose fill was
answered.

### OrderQueue and Outbox

A row is `none`, `pending`, `sent` or `failed`. A call of `place_order()` by a
submitting task or by the startup replay is a record with the attempt and the broker's
answer. `BrokerAnswers` lets the broker execute a request and, with `RepliesLost`, lose
the answer (a TIMEOUT retcode, which is retried, or `None`, which is reported as a
rejection). `Stop` may happen anywhere; only the rows, and what the broker did, survive.
Only `place_order()` stands inside a `try`: the outcome of a request may not be written
(`SubmitUnwritten`, which leaves the row `stranded` until the next start), and a replay
that meets such an outcome or one of the `unreadable` rows ends the startup and the
process (`ReplayAborts`). `Outbox` is the promise without calls and crashes: accepted,
executed while pending, resolved once, `sent` only if executed.

### RiskMonitor

`mem` holds the fields of the monitor, `stored` the `risk_state` row, `log` the
trade log by day. The handlers are functions of `mem` (`Snapshot`, `Roll`,
`Rehydrated`, `KillReset`, ...), used by one action each. `calls[a]` is the queue
of the single-worker executor of account `a`'s broker: the startup task and the
snapshot job wait for its answers in the order they asked, which decides whether a
snapshot can be handled before `rehydrate()`; `early` remembers that one was. `pool`,
the configured accounts, is chosen at the start. Percentages are compared by
multiplying out, amounts are integers. The database may fail (`Fails`): a write of the
row is then only logged (`Persist`), a close is missing in the log (`OnClosed`), a
start goes on without the row or without rehydrating at all (`Rehydrate`).

The history variables say what ought to be. `due` are the peak and the flags as the
snapshots handled and the operator's resets make them, over all runs of the process;
`amiss` the fields a failure has cost, until memory and row are right about them
again; `made` what the closes of a day made, `unlogged` the days the log misses a close
of, `uncounted` those for which the P&L in memory is not `made` because of a start
that could not read the log or read one that lacks a close. `unsaved` says that the
last write of the row failed. `skewed` remembers that the opening balance of the day
was taken while it disagreed with the trade log.

### LiveReload

`file` is `strategies.yaml`, `full` the runtime's `full_cfg`. `task` and `pending`
are the watcher's `_debounce_task` and `_pending`. `reload` is a run of
`diff_and_apply()`: the new configuration, the set of callbacks still to call
(`Wanted`, ordered by `InTurn` as the three loops of `_diff_strategies()` order
them) and whether any was applied or failed. `waiting` is the await the callback
under way stands at: `"stopping"` (`runner.stop()`), `"starting"` (`on_start`),
`"updating"` (the reload lock), `"subscribing"` (`symbol_select` of the broker).
Between two awaits the reload has the event loop for itself, so file events,
pauses and connection changes are enabled only when `LoopIsFree`. `runner[s]` is
`runners[s]`; `orphans[s]` counts runners that were overwritten there and are still
on the bus. `aggs` counts the aggregators on the bus per feed, `ticking[a]` is
`_bar_subs` of the broker of account `a`. `Pool` are the accounts that have a broker:
a callback that adds or replaces a strategy takes any account, and one without a
broker is fed and traded on the primary one (`BrokerOf`, the same fallback in
`_subscribe_for_strategy` and in the router); only `ChangeAccount` raises. `flawed` and
`loaded` are history variables. A feed does not depend on the parameters of its strategy.

### MarketFeed and BarAggregator

Ticks of a symbol are numbered as the market makes them, a bar is the set of the
ticks in it. `calls` is the queue of the executor with one thread: the health loop,
the tick loop and the task that wires feeds queue calls and sleep until `reply`
has the result; a call meets the terminal as it is when the thread runs it
(`RunCall`). Every `await` of the three tasks is therefore two actions (ask, and
go on with the answer), and the health loop's timeouts (`FillTimesOut`) leave the
call in the executor for nobody. `lastSeen` is `_last_tick_time`; the rows of a gap
fill and of a history come in order or the other way round (`Orders`), are published
and folded as they come, and the last of them is the new `lastSeen`. `cut`, `raced` and
`atLoss` remember what the properties exclude or start from; `shuffled` and
`overtaken` the symbols whose missed rows came out of order, or whose ticks the tick
loop published while they were fetched; `settled` from which period on the bars of a
feed are whole. Aggregators are
taken to keep up with their queues: what a full queue loses is in `EventBus`.

### SimBroker and TicketLife

A backtest replays bars or ticks; one step of the loop moves the clock and prices,
closes what is breached (`StopOut`), then fills what is triggered (`FillPending`),
then publishes. Nothing suspends between, so the strategy's orders come only while
the loop sleeps and, from the queue, after the data is used up (`phase = "ending"`).
Prices are half points, so the middle price of the `volatility` model is an integer;
`Fee` and `Swap` charge the commission of either side and the nights between.
`TicketLife` is the life of a ticket seen from outside, and `SimBroker` is shown to
implement it: the volume of a ticket only shrinks once it is open, and a closed
ticket is never revived.

### TradeDesk, PositionManagers, ExampleStrategies, StrategyHost

`TradeDesk` is what lies between a strategy and its positions: the requests its
context publishes, the router's handlers (of which `handle_modify` is taken apart,
as it reads the positions, asks the broker and reads again), the broker, and
`inbox`, the events on their way back. `PositionManagers` and `ExampleStrategies`
give every hook as an operator on the managers' and strategies' fields.
`StrategyHost` is the runner: `Start` takes the first event whose type's task is
idle, looks whether the runner is active, brings `view` up to date, and lists the
hooks the event calls; `RunHook` runs the hook of the first waiter of the reload
lock (asyncio's lock is fair). Between two hooks of one event, hooks of other events
run. `Cases` are the strategies and managers to run, with what the environment may
do to each (pauses, raising hooks, refused closes, restarts).

Only buys are modelled; a sell is the mirror image. What an indicator says of a bar
is a choice from `Inputs`. `told`, `blind`, `missed`, `stale` are history variables
that say when a strategy cannot know better; `refused` has the tickets whose close
the broker refused. A hook that raises does so before its first effect; `MaxErrors` of
them quarantine the runner.

### Notifications and Observers

A published event is handed to the persister, the drift monitor, the breaker and
the reconciler in one step and in that order, which is their order of start; the
reconciler's checks and the notification handlers are tasks of their own. `Deal`
and `Closed` are the two moments of a close, the broker's and its event.
`checks` has every verification task ever started, `table` is `_tasks`; a task that
was cancelled ends later and its callback removes whatever entry its ticket has.
`Walk` goes from one send to the next: what it passes over needs no await.
`PublishClose` lets the trade row be written or not and the drift monitor judge or
fail. The breaker remembers that it tripped before it asks for the pause (`Trips`), and
the pause needs a runner in the table (`Pauses`), which a hot replace takes out and
puts back (`Removed`, `Added`); `freed` says that the strategy was resumed or its
runner replaced after the breaker had tripped.

### Workbench

The six parts share neither file nor object, so a behaviour is one of them, chosen
at the start (`subject`).

* `ParameterSearch`: a backtest is a function from parameters to a report, drawn
  when it is first run; the genetic search's random numbers are choices. Money is
  integral, percentages and profit factors are rounded down. `SearchAssumption` says
  what the configuration is validated for (`config/models.py:615-653`: a list of
  candidates for at least one parameter, none empty, at least one trial) and what
  `slice_folds` checks, that the in-sample part of a fold takes at least one unit of
  time, and that a metric lies between `Worst` and `-Worst`, which stand for the
  infinities a score is compared with.
* `DetachedEngine`: a command is a sequence of system calls (`RunDetach`, `Popen`,
  `OpenPidfile`, `WritePidfile`; `Stop`, `PostShutdown`, `Polled`, `SignalPid`,
  `Unlink`), between any two of which other commands, engines, crashes and the reuse
  of a pid may come.
* `HistoryStore`: an import reads a partition and replaces it in two steps
  (`ReadDay`, `ReplaceDay`) and may be killed; `ReplayChunk` reads up to the next
  midnight. `HistoryAssumption` says that the rows have a time and a value, once in
  UTC, and are of the days looked at, and that a range does not end before it begins.
* `LiveBacktest`: a run attaches its runner and router to the one bus; a tick of its
  replay reaches every runner, a signal every router that is there.
* `TesterBridge`: the expert asks and waits, the driver answers with the oldest
  order; the strategy's task may lag behind.
* `SwingBars`: an hour is a number, a folded bar the set of its hours.

## 3. What the runs check

| Run | Instance | Shows |
|---|---|---|
| `bus` | a `drop_oldest` and a `block` subscription of one slot, a broker and a handler that publish, 3 events | order, completeness and eviction (`Delivered`, `ReachesEverySubscriber`); publishers go on and queues drain (`Progress`) |
| `flow` | two strategies, two accounts, cap 1, queues of 2, 3 signals, stops and pending orders at the broker, two attempts, one lost answer | counters and owners are right, and of the positions whose fill is answered none is missing (`CountersSound`); of these the cap is exceeded by one at most, by none for strategies whose signals await the symbol info (`CapWithSlack`) |
| `flow_reload` | the same with reloads, 2 signals, one attempt | no close on behalf of a strategy takes another one's position (`ClosesOwnOnly`); every signal is handled (`SignalsHandled`) |
| `queue` | two requests, two submitting tasks, two attempts, lost replies, two stops, any rows unreadable, one outcome of each request not written | nothing pending is left behind but what could not be written in this run (`PendingIsUnderway`), a duplicate needs a stop, a lost reply or an outcome not written, and what was executed is announced (`ExecutionsAccounted`); `ImplementsOutbox`; a request is resolved unless it is stranded or behind an unreadable row (`PendingIsResolved`) |
| `risk` | one account or two, with and without pending orders to replay, equity falling and rising, trades of +-10, two days, failing snapshots, one failure of the database, two restarts (of the pair one day, one close, one restart and no failure) | the peak, the flags and the day's P&L survive (`DrawdownGuarded`, `DayLossGuarded`, `FlagsKept`), and what exceeds a limit blocks signals; except for the fields and days a failure is recorded for, and of the peak and the flags until a start handles a snapshot before `rehydrate()` |
| `reload` | two strategies on one feed, two accounts and one without a broker, two classes, valid and invalid parameters, two saves, one dropped connection, pauses at any moment | while every reload goes well, what runs is what is in force and fed by the broker its signals go to (`InForceAndFed`), once (`RunsOnce`); a save is read or marked as missed, reloads end (`ReloadsComplete`) |
| `feed` | two symbols, one with a malformed tick, one with a second feed wired while it streams, rows in either order, one outage, one retired subscription | ticks in order and once unless the terminal shuffled them, bars of their own ticks and all of them once the feed is settled (`StreamSound`); a gap fill that runs to its end leaves no gap (`GapFilled`); the stream recovers (`CatchesUp`) |
| `sim` | two symbols, four kinds of order, two slippage models, ticks and bars, two nights, 3 operations | balance, trade records, volumes and nights agree (`BooksBalance`); no stop is passed over, no limit order overpays, the book is flat when the strategy is stopped (`FairReplay`); `ImplementsLife` |
| `host` | each strategy and each manager, with the events that test it | one position at a time, session caps, crosses of adjacent bars (`EntriesKept`); view and brackets agree with the broker once all is quiet (`Settles`); stops only tighten (`StopTightens`); exits are carried through although closes are refused and hooks raise (`ExitsComplete`) |
| `observers` | one ticket filled twice, two closes of either result on either account, two channels that want the same alert, one resume or hot replace, three events in all | an alarm is real, a registered loser is paused, no message storms (`ReportsSound`); a lost position is reported, and at every place of a walk the message is sent or was sent within the window before (`ReportsComplete`) |
| `workbench` | 2 commands, 3 processes; 4 imports run twice over 2 days; sweeps of 4 backends and 2 folds; 3 web backtests and 2 stops; 4 tester ticks; a week of hours for 96 markets | `OneEngine`, `FilesSound`, `ReplaySound`, `SearchSound`, `AnalysisSound`, `BacktestSound`, `BridgeSound`, `SwingSound`, one per part and aspect |
| `risk_restart` | a pending order replayed at the start | counterexample, see below |

The bounds. What can go wrong in the bus needs a full queue, an event behind it and a
publisher waiting in the middle of its loop: one slot and three events give all of
these. In the flow, a strategy can exceed its cap with two signals, a ticket collides
with the first order on each account, and three signals leave room for a third position
after a close, or beside one whose answer was lost. A request that is executed twice
needs one stop or one lost answer, one that is in doubt twice needs two; one outcome of
each request not written is one in a submit and one in a replay. Two levels on either
side of the initial equity, one 25 % below the other, trip the kill switch and arm and
trip the profit lock; one failed statement is one field or one day lost, and the second
restart comes after it. After a failure, or an early snapshot, one close is enough, and
after both one stop (`IsSmall`). One save changes one entry in any way (or makes the
file unreadable); saves in a burst are read as one, so two saves give reloads with the
changes of two strategies as well as two reloads in a row, each with every callback,
with a second event during either of them. One outage with three ticks puts a tick
before, during and after it and a bar boundary between, and two missed rows have two
orders; a second symbol shows what the first one's call delays. Two tickets are a
position and its successor, or the legs of a bracket; prices 1 to 3 have a step up and a
step back for a trailing stop; a hold, a cooldown and a session cap of one are reached
in a few bars. One error quarantines no runner, a second one does, and one refusal lets
the exit be asked for again. Two fills of a ticket are what confuses the reconciler; two
losers are a streak, one release (`MaxFreed`) is a resume or a replace, before or after
the breaker has tripped, and three events (`MaxEvents`: fills, closes, releases) are two
of one kind and one of another. Two runs of imports are two that meet on a partition, or
one that is killed and run again. Two parameters of two values have a grid in which an
order can be wrong, two individuals an elite and one that is bred. A trading day's rules
repeat weekly, so a week and a half of hours with one missing hour meets all of them,
for all 24 anchors. Three web backtests are one before, one during and one after a stop.

A run idles when its bounded input is used up (saves, ticks, bars, commands), hence
`CHECK_DEADLOCK FALSE` in those instances.

Fairness. Ready asyncio tasks run, so every step of a consumer, a runner's task or
a loop is weakly fair; a handler ends because what it awaits (an SDK call with its
own timeout, SQLite, a timer) answers; a stopped process is started again and a
terminal that is down comes back (the operator's part); an operator resumes what was
paused. In `StrategyHost` bars keep coming where they are not counted, for exits are
retried on bars. In `Workbench` only the tester's driver is fair. Nothing obliges the
environment otherwise: no fairness on signals, market, stops, resets or commands.

### Disagreements

`risk_restart` shows one between the code and the changelog, which says that a
restart no longer un-trips the kill switch: the snapshot job runs from
`engine.start()` on. When a pending order is replayed first, a snapshot reaches the
empty monitor, which writes its own, untripped row over the stored one;
`rehydrate()` then loads that.

Others were met while modelling. They are recorded here and, where a property had
to be stated around them, in the comment of the property; no run is spent on them.

*Orders and risk*
* The daily loss limit is measured from an opening balance that the monitor derives:
  at midnight from the balance of the last snapshot (`_maybe_roll_daily`), after a
  restart from the first snapshot less the P&L logged so far ("the current balance
  already includes today's realized P&L"). A close that is at the broker but not in
  the log yet, or in the log but not in that snapshot, makes it wrong by its amount
  for the rest of the day. `LossLimitHolds` excludes this (`skewed`); without that
  conjunct TLC refutes it with `MaxCloses = 3`, and with the two closes of `risk` it
  holds only because none is left to exceed the limit. The proof showed it.
* A write of the risk row that fails is only logged (`monitor.py:272-273`); a start that
  cannot load it goes on with an untripped switch and no peak (`243-245`), one that cannot
  read the trade log does not rehydrate at all (`runtime.py:435-441`), and a close the
  persister could not write (`trade_persister.py:81-83`) is missing in the day's P&L after
  a restart. All of this is meant not to stop trading; it also un-trips a switch
  (`amiss`, `unlogged`, `uncounted`).
* In live mode nothing publishes `PositionClosedEvent` when a stop loss or take
  profit closes a position at the broker. The counter keeps its place; after `Cap`
  stops the strategy is refused for ever. The other way round, an order executed whose
  answer was lost (`broker.py:845-874`: `None` becomes a rejection, a TIMEOUT is tried
  again), one executed twice, and a pending order filled at the broker are positions the
  counter never hears of: the cap is exceeded by as many.
* The router's docstring says a crash replay never double-submits; when the process
  stops after the execution and before the row is updated it does
  (`order_queue.py` itself says so).
* "Without losing requests" (`order_queue.py:5`) holds as long as rows can be read and
  written. A row that cannot be parsed, or an outcome that cannot be written, ends the
  replay (`order_queue.py:143-144, 150`) and, as nothing catches it
  (`runtime.py:318, 384-390`), the start: the results collected so far are not
  published, though their rows are resolved, and an unreadable row ends every start
  after it. An outcome that a submit cannot write (`order_queue.py:115`) leaves an
  executed request pending, to be sent again by the next start.
* A reload that changes a strategy's account during `place_order()` records the fill
  under the wrong account (`FillAccount`). Snapshots of several accounts share one
  peak.
* `block` is documented for order-flow events but no subscription of the program
  asks for it, so a full queue evicts fills. A publisher that waits in a `block`
  queue whose subscription is closed waits for ever (`Stuck`). `unsubscribe()`
  swallows a cancellation of its own caller (`event_bus.py:43-46`).

*Reload and feed*
* The README promises that a saved file is applied within half a second. An event
  that comes while the previous change is being applied only sets `_pending`; the
  task has left its debounce loop and never looks again.
* Adding a strategy on a feed in use (or replacing, enabling, re-routing one) puts a
  second aggregator for it on the bus. Both publish each bar, every strategy on the
  feed handles it twice.
* A reload that fails in part leaves `full_cfg` as it was: the next one adds a
  strategy that runs already, and the older runner goes on trading unregistered.
* `_connected` stays false during the gap fill to close "the race where the live loop
  could republish a tick that gap-fill also replays" (`broker.py:465-469`). The tick
  loop looks at it once per pass only; what keeps a pass under way from publishing what
  the fill replays is that the reconnect selects every symbol first, a call each,
  before it fills one. With four symbols in the pass, three of them unsubscribed during
  the reconnect, the pass gets to the fourth between the fill's baseline and its
  reply, and a tick is published twice (TLC finds it from a wired broker; not with two
  unsubscribed). `InOrder` names this case (`overtaken`). Nothing in the program
  unsubscribes a symbol yet.
* A malformed tick ends the tick loop, which is started again only by the next
  subscription. A malformed row in the history of a feed raises after the rows before it
  have been folded.
* "The first live tick lands on warmed state" (`_subscribe_one`) is true of the first
  feed of a symbol only. A second one is on the bus before its history is read, so ticks
  of the running symbol fold first, the history of two days is then folded into the same
  bar, and a bar that closes during the warm-up is not published. Of a first feed the
  newest tick of the history is published again by the first poll, so that the bar's
  tick volume counts it twice (bars here are sets of ticks and do not show it).
* The gap fill publishes rows as the terminal gives them; when these are not in order
  the ticks are not, and `_last_tick_time` is that of the last row, not of the newest
  (`broker.py:603-613` says that a filter would lose ticks).
* `setup()` rejects a configuration with an unknown account (`runtime.py:133-139`) and
  `change_account` raises; a reload that adds or replaces a strategy takes it, and the
  strategy trades on the primary account.

*Strategies*
* `D1H4Trend` settles its saved state on the first bar after a restart; the view is
  empty then, so the state is discarded and the position has no manager
  (`d1h4_trend.py:408-433`). Its fill hook sets the stop back to the order's.
* A close handled before its fill (the fill's task is busy) leaves the position in
  the view for ever; so does a change reported of a position that is gone
  (`order_router.py:469-473`).
* With several trailing or break-even managers, each with a record of its own, a
  stop can move back. The time exit manager asks for a close once; a refusal leaves the
  position open. A refused change of a stop is only logged. A fill hook that raises leaves
  the trade uncounted, and the session's cap may be exceeded by it.

*Observers*
* The breaker remembers a strategy it paused for ever: after a resume, or after a reload
  has replaced its runner, it never pauses it again (`circuit_breaker.py:80-83`). It also
  remembers one it could not pause because its runner was out of the table
  (`runtime.py:220-223`).
* A close at the server publishes no event, so the reconciler reports a
  `position_missing` for every stop hit within its grace period, a `volume_drift`
  for a partial close, and either when it is answered between a deal and its event.
  A second fill's verification escapes its cancellation (`reconciliation.py:111`).
* Deduplication is shared by the channels and remembers a message before it is sent:
  the second channel is skipped, and a message that failed is not sent again for
  thirty seconds.

*Around the engine*
* Ranking a sweep by `profit_factor` raises `TypeError` as soon as one of two cells
  has no losing trade. An unknown `rank_by` scores 0 in the search and minus
  infinity in the ranking. The in-sample sweeps of a walk-forward run do not get
  `symbol_contract_sizes`.
* A portfolio's final balance is that of the last equity sample, not of the last
  close; `StrategyContribution.max_drawdown_pct` holds money.
* Signals still queued when a replay ends may open a position after the loop that
  closes what remains (`file_backtester.py:166-170`).
* A cancelled backtest of the web UI leaves its runner and router on the bus; a
  start during a stop is forgotten by it and can no longer be stopped.
* `recv()` of the tester's driver, cancelled after a second, may take a message with
  it (`mt5_backtester.py:177`).
* Two commands at once can leave an engine that no pid file names; a shutdown request
  goes to whoever serves the URL; a pid that was used again is signalled; a component
  that fails to start leaves those before it running to the end of the process.
* Imports into one partition at once lose rows. A download up to now stores the bar
  that is still forming (the next download replaces it).

## 4. What is proved

The theorems hold for all strategies, accounts, orders, tasks, caps, queue sizes
and bounds, under the named assumptions of the modules (types of the constants,
`Cap` and `QueueSize` positive, the set of submitters finite).

*`OrderFlowProofs`*
* `TypeCorrect`: `Spec => []TypeOK`. `TypeOK` alone is not inductive: a ticket
  must exist for every signal still to come (`Budget`).
* `ClosesOwn`: `Spec => ClosesOwnOnly`, with reloads, stops and pending fills. The
  router checks ownership, awaits, and then closes by ticket alone. The argument is
  that an account never issues a ticket twice (`Issued`) and that whatever is known
  about a ticket, an open position, a pending order, a position just found or just
  reported, names one owner (`OneOwner`).
* `CapHolds`: without reloads, `CapWithSlack` and `NeverUndercounts` hold, whatever is
  executed unreported and however often an order is tried. The invariant `CapInv` adds
  that at most one fill and one close are in the monitor's queues (`OneAtATime`), that
  owners are recorded exactly for tickets that were issued (`Recorded`, `Unrecorded`),
  and that the counter and the fills under way stay within the cap (`Reserved`); the two
  bounds together give the cap.
* `CountersHold` (`Spec => []CountersSound`), under the same condition. `BooksInv` adds
  which tickets are recorded: none whose fill still waits (`NotYet`), all others of
  positions that are open or whose close is on its way (`OnBooks`), and a close is on
  its way once, for a position that is gone (`GoneApart`). The last is why a ticket is
  released once: a second close would find no owner. A ticket nobody was told of is not
  recorded (`Silent`). `Exact` counts the recorded tickets of a strategy; that risk.fill
  adds one and risk.close takes one away is `CountRecorded` and `CountReleased`.

*`EventBusProofs`*
* `Inductive`, with `NothingLost` (`Spec => []Delivered`) and `ReachesAll`
  (`Spec => []ReachesEverySubscriber`), for any publishers, subscriptions, sizes and
  numbers of events. The invariant follows a `put()` under way: its position in the
  list and the subscriptions from there on are behind its event, all others it is
  due to have it (`PutInv`); a list has each subscription once (`ListInv`); the queue
  is the end of what was offered, and what went before was handled or evicted by
  `MaxSize` newer events (`QueueInv`). `publish()` walks its list up to the first
  full queue: `LeastNatural` and `FirstIs` find that position.

*`OrderQueueProofs`*
* `TypeCorrect`, and `Inductive` for the strengthening `IInv`: every call works on
  a pending row of its own (`CallsInv`), the replay has exactly the pending rows
  still to do (`TodoInv`), executions leave traces (`RunInv`, `OnceInv`), and what is
  stranded is pending for a write that failed (`StrandedInv`).
* `NoneLeftBehind` (`PendingIsUnderway`), `ExecutionsCounted`
  (`ExecutionsAccounted`), `DoubtBounded` (`FewInDoubt`, proved only: an injection
  from pending rows to submitters).
* `Refinement`: `Spec => ImplementsOutbox`, by a step simulation.

*`LiveReloadProofs`*
* `TypeCorrect`, `NeverTwice` (`Spec => []RunsOnce`) and `RemovedIsGone`, from
  `IInvHolds`. `RunsOnce` rests on what every callback finds when it starts: the calls
  left are among those the two configurations want (`TodoInv`), a callback that waits
  for `on_start` has found or made its place in the registry empty (`WaitInv`), and the
  calls left account for every difference between registry and configuration
  (`InForceInv`). `CallStep` does the work once for all callbacks: a step ends one
  call or leaves it waiting, and touches one strategy.
* `RunsAndFed`: `Spec => []InForceAndFed`. `RunInv` says for each strategy which
  callbacks must still come for it to run as the new configuration says, `FedInv`
  that only the strategy that waits for its subscription may lack ticks, `AwaitInv`
  from which entry a waiting callback will go on, `FreshInv` that until a callback
  returned everything that differs is still to do. Accounts without a broker are among
  those it holds for.

*`RiskMonitorProofs`*
* `TypeCorrect`: `Spec => []TypeOK`.
* `DrawdownTrips` (`Spec => []DrawdownGuarded`) and `FlagsSurvive`
  (`Spec => []FlagsKept`), for any accounts, any limits and any number of restarts and
  failures of the database, both until a start handles a snapshot before it rehydrates
  (`early`). `StartInv` says that until then a process that has not rehydrated knows no
  equity; `RowInv` that every field that is not `amiss` is `due` in the row, unless its
  last write failed, and, while the engine runs, in memory, so that a restart loads what
  was lost; `TripInv` that a drawdown beyond the limit has tripped the switch.
* `DayLossTrips` (`Spec => []DayLossGuarded`): the P&L in memory is what the closes of
  the day it is anchored at made, unless the day is `uncounted`, the log has the same of
  every day it misses no close of, and nothing is logged for a later day (`LogInv`); one
  close at a time is between broker, log and handler (`CloseInv`); and the opening
  balance in memory is the one the day opened with, unless it was taken out of step
  (`OpenInv`).

*`SimBrokerProofs`*
* `Inductive`: a ticket is handed out once and is waiting or open but never both
  (`BookInv`), and what the loops of the replay have still to do is there
  (`LoopInv`), although the strategy closes and changes positions between them.
* `Typed` (`Spec => []TypeInv`): prices, volumes and amounts are integers however
  often a position is slipped, changed and cut, because whatever is on the book has
  been quoted (`Priced`). Slippage takes the largest of a sequence of bounds, a
  replayed tick the best of several (`Extremes`, `SlippedTypes`).
* `MoneyAddsUp` (`Spec => []BooksBalance`): the balance is the initial one plus what
  was realised less the commission of the positions still open, what was realised is
  the sum of the trade records (`Realised`), the open commission that of the open
  positions (`OpenCost`), and each ticket's filled volume is what is open of it plus
  its trade records (`Filled`). A step opens or closes, in part or whole, one position
  (`OpenedBooks`, `ClosedBooks`). `RolloversCount`: for any opening hour and any number
  of nights, the closed form of `_rollover_count()` is the number of rollover hours.
* `ReplayFair` (`Spec => FairReplay`): `NoStopPassed` (whatever is not in `todo`
  during the loop over the stops is not breached, `StopInv`); a limit order that
  fills was triggered by the prices it is filled at (`PassInv`, `LimitReached`); and
  what is open in the closing loop is still to be closed, so that the book is flat
  and the ledger closed when the strategy is stopped (`FlatBook`).
* `Refinement`: `Spec => ImplementsLife`. An action of the broker touches one
  ticket; each of them is a step of `TicketLife` for that ticket, or a stutter.

The sums are folds that take the terms in an order that `CHOOSE` picks. The section
"Numbers and sums" shows that a fold over a finite set is a sum (`FoldsExist`,
`SumFolds`), that any term may be taken out of it first (`SumWithout`), and hence what
one change of the book does to it (`TotalsDiffer`, `TotalAppended`). It needs
induction, which is derived as `Induct` from the order of the naturals being
well-founded: stated for a set instead of a predicate, it has no operator parameter.

*`ObserversProofs`*
* `Justified` (`Spec => []ReportsSound`). The alarms (`CheckInv`): a ticket filled once
  has one check, the table has it while it is live, and so the handling of the close
  cancels it; with a second fill the callback of the first check takes the second one's
  entry away, and the argument ends. The pauses (`WatchInv`): the streak is the run of
  losses in a row, what should pause the strategy has tripped the breaker, and a breaker
  that tripped has paused a registered runner unless it was freed. The messages
  (`SentInv`): the recent list is always the end of what was sent, and what went before
  is outside the window or was pushed out by `MaxRecent` others (`PrunedIs`,
  `RememberedIs`); hence a repetition within the window comes after more than
  `MaxRecent` messages (`NotRepeated`).

*`WorkbenchProofs`*
* `OneBacktest` (`Spec => []BacktestSound`): a stop request waits for the one run
  there was (`WaitInv`), and what is on the bus belongs to a run under way (`BusInv`).
* `OneDetached` (`Spec => []OneEngine`): each command knows, at each of its points,
  what the pid file says and which detached engines run (`KnowsFile`), as long as
  commands do not overlap.
* `OrdersTold`: the orders told, under way and queued are the orders asked for, in
  their order, once each (`OrdersInOrder`, the safety part of `BridgeSound`); expert
  and driver take turns on the wire (`TurnInv`).
* `ImportsKept` (`Spec => []FilesSound`), for any imports, days and batch sizes. What
  an import has still to do is the end of its file: at most one batch, whose rows are
  those of a set of positions in file order (`JobsInv`). Until two imports met in one
  partition, the partition is what sorting and dropping duplicates makes of the log's
  rows of that day, position by position (`FilesMatch`), the file a reading import
  holds included; and every row of an import is in the log, or its position is still
  to come. `ReplaceDay` is then one fact about `SortDedupe`: to merge what was kept
  with new rows keeps what keeping from the whole log would (`MergeMatches`).
* `RowsReplayed` (`Spec => []ReplaySound`), with imports going on. The rows emitted
  are before the cursor and in order, those of the next chunk are not before it, and
  keys never leave a partition without a race (`KeysKept`), so a chunk finds every row
  that was there at the start (`ReplayInv`).
* `SearchConcludes` (`Spec => []SearchSound`), for any grid, metrics, population and
  number of folds. The suggestions of a sweep are its cells and the one under way
  (`CellsInv`), the i-th of a grid is `GridPoint(i)` (`GridInv`), a drawn sweep stops at
  its trials (`DrawInv`), and a genetic one has asked for `gen * PopSize + inGen`
  (`BreedInv`). Every score is that of the report the parameters gave, and the first of
  a bred generation is one whose score was the best before (`ScoreInv`), because the
  sort puts it first (`BestIsFirst`). The conclusions rest on lemmas about the
  operators: dividing by the sizes of the later parameters gives each combination of
  candidates at exactly one place (`DivideTwice`, `CombosDiffer`, `CombosReached`,
  `GridCovers`), the cell chosen has the highest rank and so is beaten by none
  (`RankTyped`, `BestCellIs`), windows cut by rounded division stay apart
  (`FoldsApart`), and chains of domination end on the frontier (`TopExists`,
  `FrontierReached`).

Rows are selected by `Arranged`, which chooses the enumeration of a finite set along
an order; that there is exactly one is shown by induction (`Ordering`, `ListsExist`,
`ArrangedIs`), and what the selections of the store return follows (`RowsAtIs`,
`SortDedupeIs`, `RowsOfIs`, `ReadRangeIs`).

Only model-checked: `MarketFeed`, `StrategyHost`, `BacktestReports` and `SwingBars`
(`StreamSound`, `EntriesKept`, `Settles`, `StopTightens`, `GapFilled`,
`AnalysisSound`, `SwingSound`); and the liveness properties (`Progress`,
`SignalsHandled`, `PendingIsResolved`, `ReloadsComplete`, `CatchesUp`,
`ExitsComplete`, `ReportsComplete`, `NeverStuck` in `BridgeSound`). Liveness under
fairness and ENABLED are out of the prover's reach, and so is what is a fold along the
trades of a report or sorted by `SortSeq` (`AnalysisSound`), which needs induction over
data. `StreamSound` says that it takes three retirements to publish a tick twice, which
is a matter of counting the calls in the executor's queue, and is checked within the
bounds of `feed` only; `SwingSound` is about the calendars and
hours of a week, which `workbench` goes through one by one. No module uses recursive
operators; `SizeFrom`, the only recursive function of `ParameterSearch`, is shown to
satisfy its equation (`SizesExist`, `SizesAre`).

## 5. Plan

Done: the bus, the order flow, the order queue, the risk rules, the reload, the
market feed, the simulated broker, the host of strategies with every manager and
example, the observers, and the parts around the engine. Next, in this order:

1. Proofs: `EntriesKept`; the types and the order of the market feed, with the
   retirements bounded.
2. Partial closes in the router, with the counters per symbol, the aggregate-risk sum
   and the margin floor; `update_config` of the monitor with the hot settings of a
   reload; rehydration of the counters from the brokers.
3. The engine's stop with the bus, the router and the runners under way.
4. Sells beside buys in `TradeDesk`, for hedged pairs.

## 6. Not modelled

Configuration models and their validation, the expression language of the metrics,
position sizing and exposure arithmetic, trading-hour filters, indicators, regimes
and cointegration (floating-point numerics without order of events), SQLite access
except for the rows above, CSV dialects, metrics and logging (read-only), the web
server's pages, the TUI and the other commands of the CLI (presentation; their
resets, pauses and shutdowns are actions of `RiskMonitor`, `LiveReload`,
`StrategyHost` and `DetachedEngine`), the configuration file and report of the MT5
tester, and the MT4 package, which is empty.
