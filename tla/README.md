# Verification of the KIS Trend-ATR trading system

This directory holds TLA+ specifications of `kis_trend_atr_trading`, the multi-day trend-ATR trader
for Korea Investment & Securities, and of the two smaller programs beside it, the TLC runs that check
them on small instances and the TLAPS proofs that hold for every instance. Paths below are relative
to `src/kis_trend_atr_trading/`.

1. [The system](#1-the-system): inventory, interactions, what is hard
2. [The modules](#2-the-modules) and how they correspond to the code
3. [The runs](#3-the-runs): bounds, mishaps, fairness
4. [The proofs](#4-the-proofs)
5. [Where code and documents disagree](#5-where-code-and-documents-disagree)
6. [What is not modelled](#6-what-is-not-modelled)
7. [The plan](#7-the-plan)

## 1. The system

One process (`apps/kr_trade.py`) trades one or more stocks. Each stock has a `MultidayExecutor`
that evaluates signals, sends orders through an `OrderSynchronizer`, which uses the broker's REST
client `KISApi`, and writes its position to a file. A database keeps the rows of orders, which
survive a restart.

| Component | State | Operations | What must hold |
| --- | --- | --- | --- |
| **Order synchronizer** `engine/order_synchronizer.py` `OrderSynchronizer` | table `order_state` (one row per idempotency key), process-wide guard store (class attribute under a lock) | `execute_buy_order`, `execute_sell_order`, `get_pending_order_guard_state`, `recover_pending_orders` with its clean-up | one unfinished BUY per stock; a key is not sent twice; an order at the broker has an unfinished row; every row is settled; reports are of shares really bought |
| **Broker client** `api/kis_api.py` `KISApi` | three caches of the account, the mark of the one call under way, token and its file | `place_order`, `wait_for_execution`, `cancel_order`, `get_order_status`, `get_holdings`, tokens and retries | a timed-out order is cancelled; a fill told from the holdings is not invented; every call ends; an answer is recent |
| **Multiday executor** `engine/multiday_executor.py` | the strategy's position, pending exit with its backoff, entry control, snapshots of the account | `restore_position_on_start`, `execute_buy`, `execute_sell`, `_execute_exit_with_pending_control`, `retry_entry_unblock_via_resync`, `_save_position_on_exit` | never buys on top of shares it does not know of; keeps the terms of the entry over restarts; a refused exit waits |
| **Position resynchronizer, position store** `engine/order_synchronizer.py`, `utils/position_store.py` | `positions.json`: position and pending exit | `synchronize_on_startup`; save, load and clear | file and memory agree whenever the process may crash |
| **Pullback pipeline** `engine/pullback_pipeline_workers.py`, `engine/pullback_pipeline_stores.py` | entry-intent queue, active keys, counts, candidates, stop event | setup, timing and order worker threads; `put_if_absent`, `get`, `complete` | no key is lost or stays; nobody buys on stale checks; a stop or an exception ends every worker |
| **Pipeline registry, health, persistence** `engine/strategy_pipeline_*.py` | heartbeats, degraded mode, journals of intents and orders | monitor thread, journal writer thread, recovery at a start | hysteresis of the degraded mode; the journal's recovery |
| **Runtime state machine** `engine/runtime_state_machine.py` | session, overlay, feed status | `evaluate` on each iteration | no entry outside the session or on a stale feed |
| **Multi-symbol loop, universe service** `deprecated/legacy_main_multiday.py`, `universe/universe_service.py` | per iteration: holdings, candidates, capacity; the day's list and its cache file | a turn of each executor, the change of the day, stop, crash, restart | never more positions than allowed; every held stock gets its turn; one universe a day |
| **Universe selection** `universe/universe_selector.py` | cache of the last choice | `select` by four methods, the fallback | filters and reserved places hold whatever the source |
| **Market regime** `utils/market_regime.py`, `engine/market_regime_worker.py` | snapshot, heartbeat, restarts | worker iteration, watchdog, verdict on a BUY | a BUY rests on a regime of today; a hung worker is replaced |
| **Strategies** `strategy/*.py`, `engine/trading_state.py`, `utils/gap_protection.py` | position with stop, target, trailing stop, peak | entry rules in order, exit rules, breakout in two paths | a loss is cut, over restarts too; both paths decide alike |
| **Records and daily report** `db/repository.py`, `reporting/daily_report_service.py` | tables of positions and trades | records of fills, completion from the broker's day | an execution counts once |
| **Database trader** `trading/trader.py` | tables, the order not written yet | `buy`, `sell`, restart, trailing stop | tables and account agree |
| **Cost-based testing** `cbt/*.py` | virtual account, its file, the file of trades | a minute's evaluation, entry, exit, metrics | cash and report balance |
| **Run modes** `config/settings*.py`, `env.py`, `apps/kr_trade.py` | environment, what a program settled on, stop file | start, approval, order, `/halt` | real money only with every approval |
| **WebSocket market data** `adapters/kis_ws/*` | connection, subscriptions, cached prices, bars | reconnect, fallback to REST, aggregation | a stale price is not taken for a fresh one |
| **Risk manager** `engine/risk_manager.py` | daily loss, kill switch | `check_order_allowed`, records of results | closing orders always pass; the switch stays on |
| **Single-instance lock** `engine/order_synchronizer.py` `SingleInstanceLock` | lock file and its PID | `acquire`, `release`, clean-up of a stale file | one process trades |

Two programs share the repository but no state: `src/kis_auto_trader` polls and trades a fixed list,
`src/kis_websocket_trader` follows a stream and only tells what it would do. The other parts
(backtest, analytics, Telegram, older entry points) are listed with their status in `PROJECT.json`.

**Interactions.** Signals reach `execute_buy` of an executor from two threads: the main loop, for the
signals it evaluates itself, and the pipeline's order worker, for queued intents. Both call the same
synchronizer without a lock around the call. The synchronizer reads and writes the guard store, the
table and the broker one at a time; the broker fills, cancels and forgets on its own. The executor
turns an order's result into its position and file. A start reads table, file and account, in this
order. The entry control is written by the reconciliation and by the multi-symbol loop and read by
the main loop. The feed's listener threads, the regime worker, the account thread and the pipeline's
workers run beside the loop and talk to it through snapshots that age. Files connect a process with
its next life: the position, the universe of the day, the candidates, the token, the lock, the kill
switch.

**Hard behaviours** (each one at its line under `hazards` in `PROJECT.json`): the guard is several
steps and not a lock; replies, inquiries and database calls fail between the steps of one order;
a wait ends while the order is live; holdings are cached for seconds; a crash may come between
sending and recording; start-up clean-up closes rows of orders that may be live; the position file
is rewritten by several handlers; backoffs have to survive restarts; workers check things that
change before they act; a snapshot is read long after it was taken; a thread that hangs or outlives
its stop; a lock file that several starts judge at once; a call that fails between taking a mark and
giving it back; a terminal state of one table that the next order meets.

## 2. The modules

| Module | Models | Is checked by |
| --- | --- | --- |
| `OrderLifecycle` | abstract: the life of an `order_state` row | refinement from `OrderSync`, checked and proved |
| `OrderSync` | order synchronizer, wait loop, broker | `MCOrderSync`, five runs; `OrderSyncProofs` |
| `PositionControl` | one executor, its file and its account over restarts | `MCPositionControl`, three runs; `PositionControlProofs` |
| `EntryPipeline` | timing worker, queue, order worker, main loop | `MCEntryPipeline`, one run; `EntryPipelineProofs` |
| `InstanceLock` | lock file of several processes | `MCInstanceLock`, a violation |
| `ApiAccess` | token, retries, one account inquiry at a time, its caches | `MCApiAccess`, a violation; part `api` |
| `FeedControl` = `RuntimeState` + `MarketFeed` + `MarketHours` | feed of the main loop over the sessions | part `feed`; `MainLoopProofs` |
| `TradingLoop` = `Universe` + `RiskGate` | loop over several stocks, universe, risk manager | part `loop`; `MainLoopProofs` |
| `MarketRegime` | regime worker and its watchdog | part `regime`; `MainLoopProofs` |
| `RunModes` | which money a program trades with | part `modes`; `MainLoopProofs` |
| `EntryChecks` | what an entry is judged by between signal and order | part `checks`; `EntryProofs` |
| `Candidates` | setups of the pullback strategy over a restart | part `setup`; `EntryProofs` |
| `OpeningRange` | breakout strategy, by `evaluate` and by the workers | part `range`; `EntryProofs` |
| `PositionRules` with `EntrySignals` | stop, target, trailing stop, entry order | part `rules`; `EntryProofs` |
| `UniverseSelection` | choice of the day's stocks | part `selection`; `MainLoopProofs` |
| `TradeRecords` | table of trades and daily report | parts `records`, `partial`; `RecordsProofs` |
| `DatabaseTrader` | trader over two tables | part `tables`; `RecordsProofs` |
| `VirtualTrading` | cost-based testing | part `virtual`; `RecordsProofs` |
| `AutoTrader` | `kis_auto_trader` | part `auto`; `TradersProofs` |
| `StreamTrader` | `kis_websocket_trader` | part `stream`; `TradersProofs` |
| `Ages` | ages that stop one past the largest limit | used by three modules |
| `Components` | the sixteen parts side by side | `MCComponents`, run `Components`; `ComponentsProofs` |

`Components` gives each part its constants as a record of settings (`FeedSettings`, ...), whose values
are in `MCComponents`, and states in `Constants` what they must satisfy. A part is an instance of the
module that *proves* what the part keeps (`MainLoop`, `Entry`, `Traders`, `Books`, and `PartBooks`
for a second choice of `TradeRecords`' constants), so that `ComponentsProofs` can cite the lemmas and
the run checks the very definitions they are about.

`PROJECT.json` gives for each definition the lines it stands for. A definition whose name has an
underscore is a variant of the definition after it with a plausible mistake; it is in no behaviour and
serves to show that a property does depend on the code.

### OrderLifecycle and OrderSync

`row`, `age` are the table; `mem` is the guard store's BUY entry of each stock, with the values an
upsert leaves (`open`, `clear`) and those a query leaves for a few seconds (`db_open`, `db_clear`,
`unknown`); `ord`, `hold` are the broker; `hcache` is the holdings cache. `pc[w]` and `loc[w]` are a
thread's place in `execute_*_order` and its local variables. Every access to shared state is a step
of its own, so threads, broker and a crash interleave where the code lets them: asking the guard
(`query`, `cache`), the idempotency lookup (`lookup`), writing ahead (`publish` to the store, then
`persist` to the table), the snapshot of the holdings, sending, waiting, the final inquiry, the
cancellation and the inference of a fill from the holdings. `given`, `bought` and `reported` are
history variables: the rows a restart has given up, and what was bought and reported.

`OrderLifecycle` says what a reader of the table may rely on: a key is taken unless running or done,
submitted, settled, taken again only after CANCELLED or FAILED, and taken for a BUY only while no
other BUY of its stock is unfinished. `OrderSync` implements it (`ImplementsLifecycle`).

### PositionControl

The account (`held`, the shares orders left behind may still buy or sell), the executor's memory
(`pos`, `pending`, `entry`), its file (`file`, `fpending`), and whether a BUY row is unfinished
(`row`). An order is a phase in which the broker executes shares one by one; its result is one
action with everything the handler does after it, because the main loop is sequential and touches
only its own state. `OrderSync` is seen through what it has been shown to promise: a report never
counts too many shares, it may count too few, and an unsettled row blocks. Prices are reduced to
whose average a position has and where its stop comes from (`entry` or `rebuilt`). `resting` is the
exit whose backoff runs; `misled` is set by the mishaps after which no document promises that the
executor knows its account, and reset by the next start that reconciles. The model is of the main loop alone, the
default (`ENABLE_THREADED_PULLBACK_PIPELINE` off); `EntryPipeline` shows what the order worker adds.

### EntryPipeline

One stock, whose strategies are its intents' keys. `queue`, `active`, `count` are the
`EntryIntentQueue`; `offered` and `taken` are the intents in the hands of the timing and the order
worker; `pc` says where the two and the main loop are. `put_if_absent` is two steps, because the key
is taken under the lock and the intent put after it. `execute_buy` is its two questions (position,
unfinished row), the sending and the result, for both callers (`Buyers`). Exceptions stop the
pipeline and let the `finally` complete the intent. Candidates and expiry are nondeterminism: any
strategy may have a candidate, and any intent may be too late, whenever it is looked at. `left` lets
the pass that is under way at the stop finish. `crossed` is history: the two threads were inside
`execute_buy` at once, and what came of it is not yet sold and finished.

### The feed: MarketHours, RuntimeState, MarketFeed, FeedControl

`MarketHours` says which session a minute is in. `RuntimeState` is `evaluate`: `overlay`, when it
`changed`, and the evidence that the feed has recovered (`healthy`, `recent`, `reentered`).
`MarketFeed` is one `KISWSClient` with every thread its provider ever started: `running` is the only
way to stop one, so a listener that is asked to stop while it waits for a message goes on until its
wait ends. `FeedControl` is the part of `run_trade` that joins them: each `Iterate` reads the session
and the feed, evaluates, starts or stops the subscription, chooses the `source` of the bars and runs
the strategy on a bar newer than `gate`.

### The loop: Universe, RiskGate, TradingLoop

An iteration is `NewDay` or `NewIteration` (holdings, candidates and capacity from the account and the
policy), then a turn of each executor in any order, in which it may sell or buy as its strategy likes.
`held`, `file` and `account` differ exactly as the code lets them; `sticky` stocks failed to
reconcile. `Universe` builds the list and its cache, `RiskGate` is what every order has to pass.

### Snapshots that age: MarketRegime, EntryChecks, ApiAccess

Ages count steps of a clock (`Ages!Older`). `MarketRegime` has the worker thread, which may hang, die
or fail, the watchdog that replaces it with a growing delay, and the verdict `RegimeBlocks`.
`EntryChecks` follows one entry from signal to order, with the validation off, with its thread only, or
on (`checks`). The thread and the order worker both read the account. A snapshot has the time of its
call, but what `get_holdings` answers may have been in the client's caches for up to `AnswerLife`, and
an answer without the array of holdings is one of no holdings (`AnswersWithout`): so `account.last` is
how long ago the broker could last answer that the stock is held, and that it is not, and a call
may bring whatever was so within `AnswerLife` of its start (`Possible`). From the check (`Validate`) to
the order (`Send`) lie calls for the cash, the regime and the quote (`Quoted`); `entry.since` is
the time they take. `ApiAccess` is the account inquiry that all clients of a process share:
who may ask (`inflight`), who waits, the three caches of one life each, login and renewal.

### Setups and strategies: Candidates, OpeningRange, EntrySignals, PositionRules

`Candidates` takes a setup from the day's data through the candidate store, the timing worker and the
queue to the order, with the snapshot file and the degraded mode. The order worker looks at the
expiry once (`Prechecks`), then fetches a quote and the daily data and evaluates again
(`EvaluatesAgain`), and only then orders (`Orders`): `buying` says how far it is, and how long since
that look. `OpeningRange` has the breakout in
both forms and lets the market move between the workers' looks. `PositionRules` has the position with
its stop and trailing stop through `Opens`, `Averages`, `Evaluates`, restarts and the repair of what
comes back; `EntrySignals` is the order in which the entry rules are asked.

### Records and money: TradeRecords, DatabaseTrader, VirtualTrading, RunModes

`TradeRecords` has the two writers of the table `trades` (the executor as it is told of fills, the
report from the broker's day) and the keys by which rows are told apart. `DatabaseTrader` sends first
and writes after, in one transaction over two tables, with a crash or an error in between
(`unwritten`). `VirtualTrading` writes its account at every change and its trades apart, and either
write may be cut off. `RunModes` has the four readings of two variables that decide on the host, the transaction
ids, the namespace of the trades and the mode of the order rows, each as its module makes it, for both
programs: `apps/kr_trade.py`, which validates nothing, and the legacy one, which does.

### Programs: AutoTrader, StreamTrader, InstanceLock

`AutoTrader` keeps its positions in memory and takes an accepted order for an executed one; `astray`
names the stocks whose holding may have escaped it. `StreamTrader` is one event loop whose coroutines
interleave at each await; `wire` is what the service sends on this connection. Only a message with at
least 13 `|` and 13 `^` is parsed, an item of the list is refused only for a price that is not positive
(a stop above the entry is only warned of), and a reconnection asks for none of the stocks again:
all are in the model as they are. In `InstanceLock` a file is a number and the path names one, because a lock is
on the file: removing a locked file leaves its owner locked on something nobody can find.

## 3. The runs

| Run | Instance | Shows |
| --- | --- | --- |
| `OrderGuard` | 2 BUY keys, 1 thread, 1 crash, every mishap but `db_error`, `foreign_probe` | `TypeOK`, `NoSecondOpenBuy`, `ImplementsLifecycle` |
| `OrderFills` | a buying and a selling thread, 2 shares held, `no_rows`, `lost_reply`, `db_error` | `NoPhantomFills` |
| `OrderLive` | 2 BUYs and a SELL, 1 crash, every inquiry answered | `LiveIsRecorded`, `OneLiveBuy` |
| `OrderSettle` | fairness, slow broker | `OrdersSettle` |
| `PositionControl` | 4 orders of 2 shares, 2 stops or crashes, every mishap | `TypeOK`, `NoBlindEntry`, `FileIsCurrent`, `PendingBelongs`, `StoredTermsLast`, `BackoffHolds` |
| `EntryPipeline` | 3 strategies, 3 intents, queue of 1, limit of 2, fairness | `TypeOK`, `KeysMatch`, `OneEntry`, `KeysAreFreed`, `StopEnds` |
| `Components` | sixteen parts, see below | 21 properties of the parts, and `PartTypes` |
| `OrderTimeout` | one BUY | violation, see section 5 |
| `PositionAverage`, `PositionSold` | 2 orders, 2 stops | violations |
| `InstanceLock` | 2 processes | violation |
| `ApiLogin` | 2 threads that share one client, fairness | violation |

**Components.** The parts of this run touch each other only through files, tables and the broker, so
they need no common state space: a behaviour is one part's, chosen by `part` in `Init`, and its
variables are renamed to the first of `s1`, `s2`, ... (`INSTANCE ... WITH`). Each property is an
implication from its part, and each part has its own `Next` as a disjunct.

| Part | Instance | Properties |
| --- | --- | --- |
| `feed` | a day of 9 minutes with a warm-up, an auction and a post-session, the beginning of the next, 2 threads | `OneListener`, `RecoveryIsEarned`, `TrustedFeedIsFresh`, `BarsRunOnce` |
| `loop` | 2 stocks, a universe and a capacity of one, 2 days, 2 starts | `HeldIsWatched`, `OrdersWithinLimits`, `OneUniverseADay` |
| `regime` | snapshot stale after 2, worker stalled after 3, 2 errors in a row | `RegimeIsTodays`, `NoWorkerStaysHung` |
| `checks` | quotes of 1, holdings of 2, cached answers of 2, calls of 1 step, 1 step from check to order; validation off, thread, light | `EntryKnowsAccount` |
| `api` | 2 threads with a client each, caches of 2, one retry | `AccountIsRecent` |
| `setup` | setups, data and snapshot of 1, 1 step from precheck to order, days of 3, times up to 4 | `BuysOnCurrentSetup` |
| `range` | range of 2 bars, 3 prices, 4 minutes | `PathsAgree` |
| `rules` | 2 prices around the entry, 2 ATRs, 2 shares, 2 days | `LossesAreCut` |
| `selection` | 3 stocks, one an ETF, a place for each kind, an entry that is no code, four configurations | `QuotasAreKept` |
| `records`, `partial` | a BUY and a SELL; a BUY of two shares filled in parts; fills with and without execution numbers, written through the repository or by plain SQL | `ReportCountsOrdersOnce` |
| `tables` | one stock, 3 orders, 2 starts, all modes | `TablesAgree` |
| `virtual` | 3 prices, 2 ATRs, 2 trades | `BooksBalance` |
| `modes` | every value of both variables that the code tells apart, with and without an `.env` file | `RecordsFollowTheMoney` |
| `auto` | 2 stocks, room for one, 2 starts | `NothingIsForgotten` |
| `stream` | 2 stocks, 3 kinds of item (one with stop and target on the wrong sides, one refused), 3 prices, 3 forms of message, 2 reconnections | `ReportTellsTheDay` |

**Bounds.** Orders are of two shares, so that a partial fill, a fill in two parts and a fill between
two inquiries all happen. Two BUY keys of one stock are the least for a second open BUY; a third
key brings the SELL whose fills a holdings inference could mistake. Two order numbers let a key be
sent again after FAILED. One crash is enough for every point of an order to be interrupted and
recovered; after the recovery the state is one the model may also reach without it. In
`PositionControl`, four orders and two stops allow buy, sell, restart and a second position of the
same stock. In `EntryPipeline`, three intents, a queue of one and a limit of two are the smallest
numbers at which a duplicate, a full queue and the stock's limit all happen: one intent at work,
one waiting and one offered. In `Components` each life is the least that tells "still good" from "too
old" and from "one longer than a call"; the feed's day is long enough for a degradation, a whole
stable period and a second one; two threads are what an old listener and its successor need, and
being alike, as are the two callers of `api` with a client each, they are a symmetry of the run; two
stocks and a capacity of one make the ranking and the capacity bite; two days and two starts make a
restart on the same and on the next day. Ages stop one past the largest limit, where nothing
distinguishes them, and prices stand for below, at and above the levels a rule compares. Runs are with
deadlock checking off because each bound on orders, intents, stops, days or starts lets the system
stop.

**Mishaps.** `Env` chooses what goes wrong. A run that leaves a mishap out says so by its property's
limits: `NoSecondOpenBuy` does not survive `db_error` on the write ahead (the guard store is
published, the table is not) or `foreign_probe` (a stale answer written over a newer one), and the
theorem names them as assumptions; `NoPhantomFills` does not survive a stale holdings cache;
`LiveIsRecorded` needs a broker that answers and cancels, as `OrderTimeout` shows. These
limits are recorded with their hazards. In `PositionControl` every mishap is on, and `misled`
says up to where a property is claimed; `astray` in `AutoTrader`, `unwritten` and `kept` in
`DatabaseTrader` and `anew` in `VirtualTrading` do the same there, and their mutants show that they
do not excuse what the code prevents.

**Fairness.** `OrderSync!FairSpec` has weak fairness of each thread's step: a thread in
`wait_for_execution` polls a bounded number of times and every call has a timeout. Nothing is assumed
of the broker. `EntryPipeline!FairSpec` has weak fairness of the timing worker, of the order worker and of
the main loop inside `execute_buy`: started threads go on, `get` waits half a second, and
`execute_buy` returns because its wait is bounded (`OrdersSettle`). No signal, exit, stop or
exception has to come. `ApiAccess` under `ApiLogin` has weak fairness of each caller's next step: a
request has a timeout and a bounded number of retries; nobody has to begin a call.
`NoWorkerStaysHung` needs none: it bounds the iterations a hung worker lasts.

## 4. The proofs

Every safety property of the passing runs is a theorem, for all values of the constants.
A proof follows one pattern: the invariant strengthened until it is inductive, one lemma or step per
action, and temporal reasoning only in the last step. The invariants were checked by TLC first.

**The order synchronizer** (`OrderSyncProofs`).

| Theorem | Assumes besides `ASSUME`s | Rests on |
| --- | --- | --- |
| `TypeCorrect` (`TypeOK`) | | `AllFit`: what each place in the code knows of the local variables |
| `OneOpenBuy` (`NoSecondOpenBuy`) | `OneBuyerPerSymbol`, no `db_error`, no `foreign_probe` | a guard entry that lets an order pass is backed by a table without an unfinished BUY of the stock, except the one its own thread is about to settle; without it the cached answer is just a value |
| `TableImplementsLifecycle` (`ImplementsLifecycle`) | the same | the refinement, step by step: only `Persist` and `Recover` write the table; the guard's invariant knows what the row was (`RowFor`) and that no other BUY is open, which is what `Take` demands |
| `LiveOrdersAreRecorded`, `OneLiveBuyOnly` | the same, and a broker that answers and cancels | `LiveInv`: the thread that works on the key of a live order is asking for leave, which its row will refuse, or attends to that very order; a result other than SUBMITTED is written only after the order has ended |
| `NoFillIsInvented` (`NoPhantomFills`) | `OneBuyerPerSymbol`, no `stale_holdings` | `ReportInv`: whatever a BUY may yet report (what its order has executed, what the account gained since its snapshot, a result that was settled) is bought and not reported yet |

`OneBuyerPerSymbol` is what `requires_single_writer_order` declares and nothing enforces (section 5).
`NoFillIsInvented` needs no database and no clean guard: errors of the table, lost replies and
crashes cannot invent a fill, only a stale view of the holdings can.

**The position** (`PositionControlProofs`). `IInv` is `TypeOK`, `PhaseInv` (an executor waits for an
order only in the state its sending checked), `KnownInv` (where no row blocks, the position and the
shares sold by the order waited for cover the account), `FileIsCurrent` and `PendingBelongs`.
`NoBlindEntry` is not inductive: a sell or a timeout only keeps it because `KnownInv` bounds the
holdings while the order runs. From it come `EntryNeverBlind`, `FileStaysCurrent`,
`PendingHasPosition`, `PositionTypes` and the action property `StoredTermsStay`. `BackoffAlwaysHolds`
(`BackoffHolds`) rests on `RestInv`: the exit whose backoff runs is the pending one, in the file and,
while the process is up, in memory, and an executor that waits for an exit order has none.

**The pipeline** (`EntryPipelineProofs`). `KeysAreHeld` (`KeysMatch`): an intent under way is in one
place only (`PlaceInv`) and a thread has one exactly while it works on it (`HandsInv`), so that what
leaves a place takes exactly its own key, and the count is the cardinality of the keys.
`OneEntryHolds`: `InsideInv` carries the answers of `execute_buy`'s questions over the steps between
them. `TypesHold`: types.

**The parts of `Components`.** `ComponentsProofs` states the properties of the run and adds only that a
step of `Components` is a step of its part. The invariants are in four modules:

| Property | Theorem | Invariant, and why it is needed |
| --- | --- | --- |
| `OneListener` | `NeverTwoListeners` | `ListenerInv` in `MainLoopProofs`: a subscription is held exactly while the session the loop saw wants one; a listener told to stop has ended before a session wants the next, which is an argument about the clock |
| `RecoveryIsEarned`, `TrustedFeedIsFresh` | `RecoveryIsAlwaysEarned`, `TrustedFeedIsAlwaysFresh` | `SinceOutage`: the evidence of a recovery is younger than the last outage |
| `BarsRunOnce` | `BarsAlwaysRunOnce` | `BarsInv`: no feed has a completed bar of a minute that is not over |
| `HeldIsWatched`, `OrdersWithinLimits`, `OneUniverseADay` | `HeldIsAlwaysWatched`, `OrdersStayWithinLimits`, `OneUniverseEveryDay` | `LoopInv`: the day's universe is the cache's; what a strategy holds is saved and has an executor; what the risk manager booked is the day's losses or of an earlier day |
| `RegimeIsTodays` | `RegimeIsAlwaysTodays` | `Faithful`: every copy of a snapshot, published, shared or under construction, is as true as it says it is old |
| `NoWorkerStaysHung` | `NoWorkerEverStaysHung` | `Attended`: a heartbeat and what is left of a backoff are together no longer than the longest backoff |
| `RecordsFollowTheMoney` | `RecordsAlwaysFollowTheMoney` | `Settled`: host, ids, namespace and rows of a program that runs are four readings of one environment, the one it took at its start, which for the legacy program has passed the validation |
| `EntryKnowsAccount` | `EntryAlwaysKnows` | `Knows` in `EntryProofs`: who says that none is held, the snapshot, a call or a checked entry, was told so by a broker that could say it no longer before than an answer may be kept; from the check on, that time and the entry's own grow together |
| `BuysOnCurrentSetup` | `SetupsAreAlwaysCurrent` | `SetupInv`: wherever a setup is, in the store, with a worker, in the queue or on disk, it was made in a session on data that was fresh then; one the order worker has taken up has been expired for no longer than it has been under way |
| `PathsAgree` | `PathsAlwaysAgree` | it compares two copies of the rules on the inputs of the order, not either with a document; inductive as it stands: whatever changes the minute, the bars or the quote takes the word "sent" back |
| `LossesAreCut` | `LossesAreAlwaysCut` | `RulesInv`: the stop of a position the strategy has is at no loss above `MaxLossPct`; the saved one may be worse and passes the guard first |
| `AccountIsRecent` | `AccountIsAlwaysRecent` | `ApiInv`: a payload is as old as its stamp says at most, through both caches |
| `NothingIsForgotten` | `NothingIsEverForgotten` | `AutoInv` in `TradersProofs`: in the monitoring half of a pass the stocks still to visit are watched and differ, so a sale takes out what is watched |
| `ReportTellsTheDay` | `ReportAlwaysTellsTheDay` | `StreamInv`: each count is the number of stocks in, or past, a state; who finds the controller up sends the report and nobody raises it again; a stock is entered only on the connection it was asked for on, and after that nothing is pending, so that a later one brings no price of any stock |
| `ReportCountsOrdersOnce` | `ReportAlwaysCountsOnce` | `RecordsInv` in `RecordsProofs`: the key of a row names its order, so a key that is taken is of the same order |
| `BooksBalance` | `BooksAlwaysBalance` | `BooksInv`: a file that can be read balances; from a sale to its storing the store is one trade behind and adds up with it; a store that lost a trade never catches up with the account |
| `QuotasAreKept` | `QuotasAreAlwaysKept` | `SelectionTypes`, and what the lists are made of (`CombinedKeeps`, below) |
| `PartTypes` | `PartsKeepTheirTypes` | `TypesInv`: the types of each part, with what its variables need of each other |
| `TablesAgree` | `TablesAlwaysAgree` | `TablesInv`: an order that is not written yet finds its row as its sending saw it, because no other goes out before |

`BooksBalance` and `TablesAgree` rest on sums over finite sets, which `SumFunctionOnSet` folds in an order that nobody
knows. `RecordsProofs` proves of them what is needed, by induction: the library's induction theorems
take an operator and cannot be used, but that the subsets of a finite set are well-founded is a
statement without one (`FS_StrictSubsetOrderingWellFounded`), and `SetInduction` states induction over
a set of subsets. From it come that the fold is what it says (`SumByOne`), that it takes its elements in
any order (`SumTakes`), and the sum of one more and of two parts (`SumAdds`, `SumJoins`). The daily
summary and the rows are compared by induction over the stocks (`SummariesAdd`), the store trade by
trade (`OneMoreTrade`).

`QuotasAreKept` is about lists that are cut, filtered, ranked and merged. `SelectSeq` and `SortSeq` are
defined by recursion over a length, of which nothing can be proved here, so `UniverseSelection` says
directly which place each element gets: `Arranged` puts the element of rank i at place i, a rank being
the number of the places that are not behind. Ranks that differ and are no more than the places reach
all of these (`RanksReachAll`), from which follows what `InOrder`, `Among`, `Deduped` and `SortedBy`
keep, in which order. Then: a stock before which fewer than n others stand is among the first n
(`LeaderIsFirst`); so the leaders of the pool by trade value reach the first stage's list, by the scan
(`ScanReaches`) and by the ranking (`RankingReaches`), where those of its first that cannot be asked end
the choice; the quotas hold of any list (`QuotaKeeps`), and `_finalize` drops nothing of it
(`FinalizedKeeps`).

`PartTypes` holds of each part for a reason of its own, and of four only (the regime, the checks, the
opening range, the choice of stocks) are the types inductive as they stand. The counters and ages stay
within one step past their limits. A list of the day is the choice's or the fallback's (`LoopInv`); a position has shares because
a BUY was one, and is sold only where `SellsHeld` knows of one; the watched quantity is of an order
that was accepted (`AutoInv`); an account with a virtual position has room for its trade
(`AccountsHaveRoom`); a fill takes from the strategy no more than it holds and the broker sells no
share the account does not have (`WholeNumbers`); data of no time are of no day (`DaysAreDated`).
The level of an opening range is one of the bars' levels, because finitely many numbers
have a bound and the least bound is one of them (`AllBounded`, `LargestIs`): induction over the naturals,
from the library's theorem that their order is well-founded, as above for sets.

**What the constants are assumed to be.** The named `ASSUME`s, and for the parts `Constants`, which TLC
evaluates in the run. Most only say that a number is one. Those that say more:

- `FeedTimes`: whenever the program leaves the feed it leaves it for longer than a listener can hang in
  its `recv`. The default plan leaves it for the evening and the night, against 90 seconds. It is a
  real condition: with `DefaultFeed` "rest", `OffsessionWs` on and a warm-up (10 minutes by default)
  shorter than that, TLC finds two listeners that feed one aggregator.
- `SetupTimes`: the life of a setup, the way to its order and a session together are no longer than a
  day (`SetupLife + EntryTime + Session <= DayLength`), so that no setup lives into the next
  session. Minutes and hours in the defaults.
- `EntryTime` (from the precheck of an intent to its order), `OrderTime` (from the check of the holdings
  to the order) and `CallTime` are bounds that the models assume and name; the code has timeouts and
  numbers of retries for each call, and no limit for the whole way. `BuysOnCurrentSetup` and
  `EntryKnowsAccount` say how what they promise grows with them. `AnswerLife` is what `AccountIsRecent`
  shows of `ApiAccess`.
- `NoWorkerEverStaysHung` assumes `MaxBackoff <= StallAfter`: by default 60 and 120 seconds
  (`config/settings_base.py:783-790`). Nothing checks it; a longer backoff lets a worker hang on.
- `QuotasAreAlwaysKept` assumes `QuotasFit`, the reserved places are no more than the list holds, and
  `ScanFits`, `market_scan_size` is at most five times the longer of `volume_top_n` and the list: 5 and
  3 of 8 places, and 500 against five times 120, in `universe.yaml`. Nothing checks either. With more
  places reserved than there are, the cut at the end takes from the kind of the lower scores; with a
  larger scan, the ranking call stops short of stocks that a scan would have found.
- `TablesData`, `RecordsData`: an order is of at least one share, at a price above zero.
- `ModeNames`: a variable of the environment may be unset. It is a condition on the settings a run is
  given, not on the program: a variable that is not there is read as an empty one.

**What is only model-checked, and why.**

- Liveness: `OrdersSettle`, `KeysAreFreed`, `StopEnds`. The prover has no rules for fairness and ENABLED.

## 5. Where code and documents disagree

- **A timeout does not always cancel** (`OrderTimeout`). An order that the final inquiry does not show
  stays live at the broker, its row CANCELLED.
- **An adjusted average is not restored** (`PositionAverage`): the start reports success and the
  strategy has no position.
- **A sold-out account is not noticed** (`PositionSold`): an account without the stock and an account
  that did not answer are the same value.
- **Two instances can trade** (`InstanceLock`): a start that judges the lock file while its owner has
  emptied and not yet signed it removes the locked file.
- **A failed login leaves every caller waiting** (`ApiLogin`): the mark of the inquiry under way is
  taken before the headers are built and given back only by what follows.

Limits that the models show and that need no run of their own:

- `requires_single_writer_order` is declared for each strategy
  (`engine/strategy_pipeline_protocols.py:24`) and read nowhere; `OneBuyerPerSymbol` and `~crossed` are
  exactly what it would have to ensure.
- The cached choice of `UniverseSelector` is never found for `volume_top` and `atr_filter`: the name is
  cut at its first underscore before it is compared, so each call selects anew.
- The database trader's BUY of a stock whose row is closed goes out and then fails on the primary
  key; a `TRADING_MODE` and an `EXECUTION_MODE` that differ give the trader and its repositories
  different rows.
- The race of the order worker and the main loop into one `execute_buy` is covered by no property:
  `OneEntry` is claimed until both were inside together, `NoSecondOpenBuy` for one buying thread.
- The check of the holdings before a pullback BUY (`EntryKnowsAccount`) is off by default
  (`ENABLE_RISK_SNAPSHOT_THREAD`, `config/settings_base.py:672`) and made only where
  `ORDER_FINAL_VALIDATION_MODE` is `light` (`engine/multiday_executor.py:3680-3683`). The time of its
  snapshot is that of the call and not of the answer, and a reply without the array counts as
  one of no holdings (`api/kis_api.py:2306-2310`).
- The expiry of a setup is checked once. Its order may go out later, by as long as a quote, the daily
  data with their retries and an evaluation take
  (`engine/pullback_pipeline_workers.py:1625-1636`, `1646-1703`).
- `apps/kr_trade.py` asks for no confirmation before real orders, although the program's README
  says twice (`README.md:199`, `README.md:353`) that REAL needs `--confirm-real-trading`: only the
  legacy program reads that argument. Its approvals are the variables, and it does not validate their
  combination: with EXECUTION_MODE=REAL and without ENABLE_REAL_TRADING it orders at the paper
  host and records the trades as real ones, where `config/settings_real.py:10-14` promises DRY_RUN.
  A mode that the executor does not know (PROD, DEV) orders at the paper host as well.
  `RecordsFollowTheMoney` holds as far as it says: from the real host to real records always, from real
  records to the real host for the legacy program in the modes the executor knows.
- `kis_websocket_trader` asks for no stock again after a reconnection
  (its `websocket_client.py:297`, `380-389`): the new connection brings no prices, although that program's
  README counts reconnection among its features (line 21). `ReportTellsTheDay` shows that the loss is
  never partial, and no more.

## 6. What is not modelled

- The fast evaluation of the main loop (`ENABLE_FAST_EVAL_SCHEDULER`, off by default,
  `config/settings_base.py:885`).
- Of `UniverseSelection`'s two calls, for the list of codes and for the ranking, that one succeeds and
  the other fails: one flag (`ranks`) stands for both.
- The initial capital in the virtual account's file: in `VirtualTrading` it never
  differs from that of the settings.
- Price protections of a market order and the executor's event log; indicators over price series.
- Several stocks in one `positions.json`, `verify_position_before_order` and `force_sync`.
- The exits' quantity rules; sells are guarded only by their keys.
- The journals of the pipeline, which are only counted, and the save on exit that may race a worker
  past its two-second join.
- The rate limit of requests and the decoding of market data.
- Limits of the risk manager by count, by amount and by consecutive losses.
- The composition of all parts in one state space: where one module needs another, it uses what
  that one has been shown to promise (a report counts no share too many, a wait ends) or lets it do anything.
- Backtest, analytics, performance, Telegram, older single-stock entry points: offline, read-only or
  output.

## 7. The plan

Done: the orders, the position, the pipeline and the sixteen parts of `Components`, modelled and
checked; every safety property of the passing runs proved. Next, the most important first:

1. Several stocks in one `positions.json`, and a BUY after a start for another stock.
2. The risk manager's other limits in `RiskGate`, and price protections in `EntryChecks`.
3. The pipeline's journals over a crash.
