# Bybit connector: verification project

This directory holds TLA+ specifications of the trading program in `src/`, the TLC
configurations that check them, and proofs about them that TLAPS checks. The program
is a C++ robot that trades one instrument on the Bybit exchange: it reads the public
market stream, computes a signal, opens and closes one position at a time through a
trade connection, and follows its orders on a private stream. The settings it trades
with are found by Python programs that read the logs it writes: they join recorded trades
into bars, compute the indicator, backtest exit rules and search for the best ones.

Everything here is translated from the code. The exchange, the network and the
operating system are external and are modelled from how the code uses them.

## 1. Inventory

### Threads and how they meet

| thread | runs | shares with the others |
| --- | --- | --- |
| main | `main.cpp`: create, subscribe, connect, `start()`, wait for Enter, `stop()` | `running_`, `dataMutex_`, `dataCV_` of the strategy |
| public io | `PublicDataHandler`: order book and public trades, indicator | the signal and its version (atomics), `newData_`, last price |
| private io | `PrivateDataHandler`: order updates | `orderQueue_` under `orderQueueMutex_`, `newData_` |
| sender io | `OrderSender`: writes requests, reads their answers | the three lock-free queues and `startSending_`; `orderRequestResults_` under `orderQueueMutex_` |
| strategy | `BaseTradingStrategy::work`, `TradeManager` | everything above; it alone changes the trade |

The connection manager sits between: it owns the three clients, replaces a client that
reports an error, and passes requests, answers and updates on by callback.

### Components

**Trade manager** (`trading_strategy/trade_manager`).
State: the side of the trade, `tradeIsOpen_`, six `wait*_` flags, four quantities, the
close reason, the trade number, the orders known (`ordersStatus`), the time points.
Operations: `makeTrade`, `closeTrade`, `checkCurrentPrice`, `setOrder`,
`onOrderRequestResult`, `checkInverseSignal`.
Hard: an opening limit order that is not filled in time is cancelled and replaced by a
market order; a close may be filled in part by two orders; each attempt may be refused,
rejected, cancelled or answered late, and answers and updates come on two connections in
either order.
Correct when: it holds one trade at a time, the account is flat without a trade, what it
believes to be open is what the exchange holds, every opening is resolved and every
close completed.

**Order sender** (`websocket_client/order_sender`).
State: three bounded queues (cancel, replace, new), `startSending_`,
`authenticated_`, `pendingRequests_`, one write buffer.
Operations: `placeOrder` (strategy's thread); `sendNext`, `on_write`, `onRead`,
`checkStatus`, `handleOrderResponse` (io thread).
Hard: the last empty pop and the reset of the flag are two steps; a write fails while
requests are queued; the connection is replaced while `placeOrder` is running.
Correct when: a queued request is sent, none twice, none after it was reported refused,
in order within its type, one write at a time.

**Websocket clients** (`base_websocket_client`, `private_connector`, the three
handlers). State: the connecting stage, the pending operations, `isReconnecting_`,
`isWaitPing_`, the timers, `authenticated_`.
Hard: handlers of a closed socket still run; ping, read and writes notice a failure in
any order, and only one of them gets the error; a client may outlive its replacement, and
a handler its client.
Correct when: one failure leads to one replacement, a broken connection is always
replaced, two streams never arrive at once, no handler runs on a client that is gone.

**Connection manager** (`connection_manager`). State: one pointer per connection and the
callbacks. Operations: connect, reconnect, `placeOrder`, `notify*`.

**Strategy's thread** (`base_trading_strategy`, `imbalance_and_large`). State:
`running_`, `newData_`, the two queues, the last signal version.
Operations: `start`, `stop`, `work`, the setters, `onMarketUpdate`.
Hard: the sleep between predicate and wait, the reset of the flag before the drains, two
atomics read one after the other.
Correct when: no update is lost, duplicated or left lying until the next one, `stop()`
returns, confirmations are applied before the price and the signal are judged.

**Indicator `price_flow_divergence`**. State: the volumes of the interval, the time it
began, ring buffers of prices, flows, volatilities and raw signals, the signal and its
version. Operations: `setPublicTrade`, `setMidPrice`, each of which may close the
interval.
Hard: the buffers fill at different rates, an interval may have no price, no movement or
no flow, and before the first order book the statistics are not a number.
Correct when: the signal is that of the windows over the whole history, nothing rests on
a missing price, and the signal does not turn over between two intervals.

**Indicators `order_book_imbalance`, `trade_flow_imbalance`**: compiled, not used.

**JSON parsers, data structures**: text to records. The order book parser also keeps
the book (snapshot, deltas, removal of a level).

**Logging, latency, `check_parsing`, `check_place_orders`, `utils`**: output, reading of
an ini file, programs run by hand.

**Aggregation of recorded trades** (`research_on_data/aggregate_1s.py`,
`data_loader.py`). State: the log on the disk, which the trading program may still be
writing; the aggregates of the chunks; the file of bars.
Operations: `data_limit`, `open_input`, `aggregate_file`, `write_aggregated`,
`load_aggregated_1s`, `aggregate_intervals`.
Hard: the file grows, ends in the middle of a row or in zero bytes; a chunk ends in the
middle of a second; the writing of the bars is interrupted.
Correct when: a bar is that of all trades of its second in the order of the log, however
the log was cut.

**Offline indicator** (`pfd_indicator.py`): the same signal as `price_flow_divergence`,
computed for a whole series at once, with filters that the program does not have.
Correct when: no later interval changes a signal.

**Backtester** (`backtest.py`): `run_backtest` searches arrays for the exit of a position,
`run_backtest_trailing` walks from bar to bar with a stop that follows the price.
Hard: several exits in one bar, holdings that reach past a gap, the end of the part or of
the data.
Correct when: one position at a time, both agree where they must, nothing is known before
its time.

**Walk-forward optimizer, metrics** (`walk_forward.py`, `metrics.py`): divides the days into
folds, evaluates every combination of signal and exit on both parts of each fold, selects
on the training, reports the test.
Hard: training and test are evaluated together and sorted out afterwards.
Correct when: the selection sees the training only, the report is of what was selected,
tests do not overlap.

**Research programs** (`research_*.py`): take one signal and compare ways to leave a
position on the test parts: early exit by the score, trailing stops, take profits that
follow the volatility. `research_pfd.py` prints statistics.

**Decoders** (`decoder/*.py`): plots of the program's logs; four of them label signals a
success or not, three choose a threshold by these labels on a first part of the log and
verify it on the rest. Correct when: a label is what a position would have earned, and
the choice does not look into the test.

## 2. Modules

| module | models | composed with |
| --- | --- | --- |
| `TradeManager` | the trade manager, open to any event its callers can hand it | |
| `TradingSystem` | trade manager, sender queues, exchange, answers and updates, faults | extends `TradeManager` |
| `TradingSystemProofs` | the inductive invariants of the open manager, of the system, and of the lots held with all that is under way; fourteen theorems | extends `TradingSystem` |
| `TradeLifecycle` | abstract: one trade at a time, and what the position may do in it | refined by `TradingSystem` |
| `OrderSender` | the sender between the strategy's thread and its io thread | |
| `OrderSenderProofs` | its inductive invariant and five theorems | extends `OrderSender` |
| `WebSocketClient` | one connection: its clients one after another, and the manager replacing them | |
| `WebSocketClientProofs` | its inductive invariant and four theorems | extends `WebSocketClient` |
| `StrategyLoop` | the strategy's thread, three io threads, the main thread | |
| `StrategyLoopProofs` | its inductive invariant and four theorems | extends `StrategyLoop` |
| `PriceFlowDivergence` | the indicator, and the same signal as a function of the history | |
| `OfflineIndicator` | the Python version of the indicator, by columns, with its filters | extends `PriceFlowDivergence` |
| `PriceFlowDivergenceProofs` | the inductive invariant of the indicator and four theorems; that the Python version repaints nothing | extends `OfflineIndicator` |
| `TradeAggregation` | from the log of trades to bars and intervals | |
| `AggregationProofs` | the inductive invariants of reading, joining and writing, and five theorems | extends `TradeAggregation` |
| `Backtest` | both backtesters as operators | |
| `TrailingBacktest` | the walk from bar to bar as a state machine | extends `Backtest` |
| `HitLabels` | the success labels of the decoders | |
| `LabelledBacktest` | labels and backtester on the same prices | extends `TrailingBacktest`, `HitLabels` |
| `Evaluation` | folds, parts, metrics, constraints, objectives | extends `Backtest` |
| `BacktestProofs` | the inductive invariants of the walk; the theorems about the walk, the search in arrays, the labels and the folds | extends `LabelledBacktest`, `Evaluation` |
| `WalkForward` | the optimizer | extends `Evaluation` |
| `ResearchStudy` | the research programs, after the optimizer on the same data | extends `WalkForward` |
| `WalkForwardProofs` | the inductive invariants of the search and of the study, and six theorems | extends `ResearchStudy`, `BacktestProofs` |
| `DecoderStudy` | how three decoders choose and verify a threshold | extends `HitLabels` |
| `MC*` | constants that a `.cfg` cannot hold (records, sequences, negative numbers) | extend the module they instantiate |

Definitions whose comment begins with `Mutant` are deliberate faults that stand beside
the definition they spoil. No specification uses them; replacing a definition by its
mutant shows that a property can fail.

### `TradeManager`

A variable per member of the class: `side` is `currentTradeSide_`, `wait` the set of the
`wait*_` flags that are true, `ordersStatus` the keys of the map in `Trade`. One action
per public function; each stands for the whole call with everything it calls, e.g.
`CheckCurrentPrice` includes the retries, the repeated cancels and what `retryClose` and
`closeTrade` send. `ok` is what `placeOrder` returns, false also while the queue has
room: the sender refuses before it is authenticated.

Data: the price is the zone it lies in relative to stop loss and take profit; a quantity
is a number of lots; "time since" is `Waited`, the limits a timer has passed; the holding
time is a clock of `HoldTicks` ticks. `orderLinkId` is a function of trade number and
role (`Trade::getOrderType`, `makeReqId`), so an id is such a pair. The module is open:
an update or answer for any id, with any quantities, may come at any time, whether or not
an exchange would send it. What is proved here (section 5) holds whatever the exchange does.

`Take` is what the order sender does with the queues: requests leave them at the front, or
are lost from the end on with a connection.

Left out: profit figures, counters and logs; `moveOpenOrderToPrice`,
`replaceLimitOpenOrder` and `checkProfit`, which nothing calls.

### `TradingSystem` and `TradeLifecycle`

`TradingSystem` closes the open module: the requests the manager queues reach an
exchange; its answers go into `results`, its order updates into `updates`, and the
strategy's actions `DrainResult` and `DrainUpdate` hand them to the manager. The two
channels are independent, as the two connections are. The exchange is external. It is
modelled from the fields the requests carry (reduce-only, IOC market orders, resting
limit orders). Faults: a request refused by the sender (`refuse`) or rejected by the
exchange (`reject`), a market order cut short (`thinBook`), an order ended by the
exchange (`expire`), an answer or update later than the manager's timer (`slow`), and the
loss of updates (`loseUpdates`) or of requests and answers (`loseRequests`) with a
connection.

`TradeLifecycle` knows neither orders nor messages: a stage, a side, a position. The
refinement mapping takes the stage from `side`, `tradeIsOpen` and `closeReason` of the
manager and the position from the exchange, so it relates what the manager believes to
what is true: `OneTradeAtATime`. That trades make progress is said of the system itself
(`OpeningResolves`, `ClosingCompletes`, `HeldUnlessRenewed`), because whether a retried close
is taken is not the program's to promise: a retry repeats the reqId of the attempt before
(`trade.cpp:104`, 200-221), which by `trade.h:43-44` the exchange refuses with 20006, while the
code expects it to be taken. The exchange of the model may do either (`Repeated`).

### `OrderSender`

A step is one access to what the threads share: a push, a pop, the test and set or the
reset of `startSending_`, the second look after the reset. `caller` is the program
counter of `placeOrder`, `io` that of `sendNext`. A write's completion and the answer of
the exchange come in either order. `Break` loses the connection, `Reconnect` is the new
sender with empty queues; `stale` says that the strategy is still inside a call of the
old one. The ids of requests are unique here; the overwriting of `pendingRequests_` by a
retried reqId is not modelled.

### `WebSocketClient`

A step is one handler. `kind` is chosen once: what differs between the three classes (who
subscribes, who authenticates) is in the guards. A link may break, at once or silently; the
exchange may refuse authentication or subscription. `Replace` is the posted reconnect
callback.

Beast is external, and its part matters here (`Succeeds`, `Fails`, `Failed`): the first of
the operations under way that meets a broken stream ends with the stream's error, the
others with `operation_aborted`, and so do all that are under way when `onClose` closes the
socket. An operation that ended before the close still runs its handler afterwards
(`ended`). `OnClose` happens five seconds after `scheduleReconnect`, whatever is under way.
Of the handlers, that of a read returns on `operation_aborted`, that of a ping ignores every
error, those of the writes ask for a reconnection on any.

Who keeps a client alive is as in the code: the connecting steps, the ping and the two
timers are bound to `shared_from_this()` (`Holds`), reads, writes and `auth_timer_` to a raw
pointer. A client that neither the manager nor one of these holds is destroyed (`Kept`). Its
timer's and its read's handlers then end without touching it; that of a write does not
(`OrphanWritten`): undefined, it may do nothing or end the program (`over`).

### `StrategyLoop`

A step is one access to `dataMutex_`, `dataCV_`, `newData_`, `running_`, a queue, or the
signal and its version. `worker` is the program counter of `work()` and
`onMarketUpdate()`. Items are numbered in their order of arrival, so what was lost,
repeated or reordered is visible in `applied`; `due` remembers what had arrived when the
round began. `wait()` gives up the mutex and blocks in one step, and may wake spuriously.

### `PriceFlowDivergence`

`prices`, `flows`, `sigPxs` and `raws` are the four `circular_buffer`s. `closed` is the
history, which the program does not keep. The formulas are replaced by integer ones that
vanish, change sign and grow as they do (momentum: change over the window; deviation:
spread; t-value of the flow: sum); NaN is kept as a case of its own (`IsNumber`). Which
values enter which window, and what becomes of an interval without a price, without
movement or without flow, is as in the code.

`OfflineIndicator` has the columns of `pfd_indicator.py` over the recorded intervals (those
with a price), and `CombColumn`, the same score a third time in `decoder_LTFI.py`. Its
window of flows ends one interval before that of the prices, as in the code.

### `TradeAggregation`

The log is a sequence of rows known from the start; `flushed` says how much of it is on the
disk, up to any place in a row, and `zeros` whether zero bytes follow. A step is a flush of
the trading program, a chunk read, a batch of lines written. `TornRow` says what
`read_csv` makes of a piece of a row: nothing after the cut, and a price cut within its
digits is a smaller price. `lines` remembers what was read, so that the properties can
compare the bars with the trades. Valid rows keep their index in `lines`, as those of a data
frame do, and `V` is the set of a chunk's; `VolumeOf` is the sum of one side.

### `Backtest`, `TrailingBacktest`, `LabelledBacktest`

A position is looked at from its side: `Best` and `Worst` of a bar, a price multiplied with
its direction; the two branches of the code become one definition. `Exit` is the search in
arrays (`ProfitBars`, `StopBars`, `TurnedScores`), `RunSignals` the loop over the signals.
`TrailingBacktest` walks: one action per bar and outcome. Its reference definition,
`TrailingExit`, knows no state: the stop a bar is compared with is computed from the bars
before it. `StopAfter` moves the stop at the first bar at the earliest, even when the trail
follows from the entry on and closer than the stop (`--activation 0` of
`research_trailing`): the code looks at the trail at the end of a bar. Take profit, stop loss,
activation and distance are added to prices, where the code multiplies. Thresholds that are
taken from the same price keep their order, as take profit and activation do, both taken
from the entry. The stop of a trail is taken from the best price, so when it passes the
first stop is not the same: in the model never with a distance of take profit and stop
loss together, in the code for a short it may (2%, 0.5% and 2.5%: `backtest.py:437`).
Hence `Loose` is a trail whose activation is at the take profit or beyond, and says nothing of
distances. `HitLabels` has both
kinds of label: `Hit` by rows, `Verdict` by time.

### `Evaluation`, `WalkForward`, `ResearchStudy`

The arguments of the command line and of the configuration file are the record `c`. Ratios
are pairs of integers, so comparisons are exact; the Sharpe ratio stands squared with its
sign. An action of `WalkForward` is one pass of the innermost loop: training and test of
one combination in one fold. `Report` is what is written at the end. `Unique` and
`SignalKeys` say which place a configuration gets (a first occurrence; the number of those
before it), instead of repeating the dictionaries of the code; `Picked` is a selection of
rows in their order; a metric that counts is a
cardinality. `ResearchStudy` follows with a division of its own; a variant is a record, and
`TryVariant` one pass of the loop over the variants. The volatility measure is an input
(`vol`).

### `DecoderStudy`

`program` chooses among `decoder_PFD`, `decoder_LTFI` and `decoder_OBI`; the actions are the
steps of `main`. A frame has the columns that the steps add, label columns included, which
is what the finding is about. The quantiles of a score are replaced by its values.

What these programs do that a reader might not expect, and the modules follow: a label
counts target and then stop as no success, although the docstring (`decoder_PFD.py:96`)
speaks of the target before the stop; `evaluate_config` of `decoder_LTFI` goes to the nearest
quantile of the frame it is given; its `ev_series` counts the last rows of a frame, which
have no whole horizon, as losses; `decoder_OBI` selects by the accuracy on the test, and
gives `analyze_signals` only the rows beyond the threshold, so that the future of a signal
is looked for among them; the research programs average over the folds they traded in; a
window of one or two for autocorrelation or volatility raises an error.

## 3. Runs

| run | module | result | shows |
| --- | --- | --- | --- |
| `system` | `TradingSystem` | holds | with any one fault the account is flat without a trade, the lots to close cover the position, nothing is closed twice, one step is awaited, a close is never forgotten, and the abstract lifecycle is implemented; when no message is lost, nothing is awaited that cannot come, openings resolve, closings complete that need no repeated reqId, and a trade that no signal renews ends in time |
| `opening_race` | `TradingSystem` | violated | finding 1 |
| `order_sender` | `OrderSender` | holds | no request is stranded, reordered within its kind or sent twice |
| `two_writes` | `OrderSender` | violated | finding 2 |
| `connection` | `WebSocketClient` | holds | nothing but a failed ping leaves a connection unnoticed; two streams never meet until a closed client has asked again; but for these the connection comes up again and stays up |
| `asked_twice` | `WebSocketClient` | violated | finding 3 |
| `strategy_loop` | `StrategyLoop` | holds | no wakeup, update or signal is lost, confirmations come first, `stop()` returns |
| `indicator` | `MCOfflineIndicator` | holds | the signal is that of the history, rests on no missing price and never turns over at once; the offline columns never change their past |
| `aggregation` | `MCTradeAggregation` | holds | bars and intervals are those of the trades in the log, and no row that was on the disk is left out |
| `backtest` | `MCTrailingBacktest` | holds | one position at a time, both backtesters agree, nothing looks ahead, the conservative rule is the worse one, a label is a profit |
| `walk_forward` | `MCResearchStudy` | holds | selection on the training alone, tests of the selected, no overlap, metrics agree with trades, the studies repeat the optimizer |
| `hit_leak` | `MCDecoderStudy` | violated | finding 4 |

### Bounds

- `system`: two lots, so that an order can be filled in part; two trades, so that late
  updates of the first meet the second; two ticks of holding time, so that a signal can renew
  it in between; one fault of all seven kinds. `faults` remembers which: the liveness
  properties and `NothingAwaitedInVain` say nothing after a loss, when the manager may wait
  for ever (section 6). One side: the theorems of section 5 cover both. Two and three faults
  were explored with one trade; the safety holds as well. `OpeningResolves` holds with one
  fault only, see finding 1.
- `order_sender`: three requests of two kinds, so that one kind queues up behind the other
  and both orders within a kind occur, a queue of two, so that it overflows, one broken
  connection. It stops when the requests are used up; deadlock is not checked.
- `connection`, `asked_twice`: three clients and one failure. `OnClose` stops when every client
  is made or asked for (`current + posted < MaxClients`), so that a third client is left to
  itself; deadlock is not checked. A third client is needed only after a closed one has asked
  again, so the bound hides nothing from `Recovers`, which sets that apart. The safety was
  explored with two failures, and is proved for any number.
- `strategy_loop`: two items over both channels, two signals, one start; with a restart
  the safety and liveness hold too (a run of five minutes). The theorems of section 5
  have no bound.
- `indicator`: windows of two, two prices besides the missing one, one confirming
  interval, a volatility window of two and six intervals: every buffer is filled and
  overwritten, and intervals with and without a score alternate. The volatility bounds
  (80 and 120 percent of the median) each reject some values and admit others. Columns
  are compared up to five recorded intervals, with two combinations of filters that have
  every filter between them.
- `aggregation`: three rows of six kinds over three seconds, chunks of one and two rows,
  bars written one by one, intervals of two seconds: a chunk ends within a second, a second
  spans an interval's end, a row is invalid, a file ends in any part of a row.
- `backtest`: four seconds, each with one of four bars (still, rising, falling, both) or
  none, at most two signals; five exit rules with trails that follow at once (with a
  distance below the stop, and with one beyond it, which must not lower the stop), from a
  profit on, and from the take profit on, where the walk must be the search; both ends of
  the data.
- `walk_forward`: four days of three seconds and three shapes, so that tests gain, lose
  and turn; three signals, one of them twice in the grid; two exit rules; rolling,
  expanding and default divisions with constraints that some evaluations fail.
- `hit_leak`: five rows, two prices, three scores; `opening_race`: one lot, two faults;
  `two_writes`: as `order_sender`.

### Fairness

- `TradingSystem`: the strategy's loop drains its queues and looks at the price when its
  timers have passed; the exchange handles what it received. The price is never forced
  out of the zone it is in, no limit order need be filled, no fault need happen.
- `OrderSender`: both threads run, and a write ends, well or badly. The exchange need
  answer nothing.
- `WebSocketClient`: what is due in the io thread runs, the timers expire, and every
  operation ends. The code sets no limit on resolving, connecting and the handshakes, so
  that part is assumed of the operating system and the exchange. Weak fairness is enough:
  nothing keeps a timer from expiring. `auth_timer_` need not expire on a live link, where an
  answer cancels it.
- `StrategyLoop`: every thread runs. A mutex that another thread takes and gives up again
  and again is got in the end, hence strong fairness of the setters. Nothing need arrive.

## 4. Findings

1. `opening_race` (`trade_manager.cpp:263`): a rejected opening order whose answer comes
   after its cancel was sent is mistaken for the rejection of the cancel; the trade is
   then neither opened nor given up.
2. `two_writes` (`order_sender.cpp:204`): `checkStatus` starts a chain of `sendNext()`
   without taking `startSending_`; an order placed in between starts another one.
3. `asked_twice` (`base_websocket_client.cpp:192`): `isReconnecting_` is reset before what the
   close ends has ended. In the trace the authentication was refused, and `auth_timer_`
   expires after the close: it schedules a second `onClose` of the closed client, whose
   callback replaces the new client, healthy and receiving. A write that the close aborts
   does the same: `scheduleReconnect` means to ignore such duplicates (lines 159-161).
4. `hit_leak` (`decoder_PFD.py:155`): the labels of the whole log are made before it is split
   (line 446, then 466), and the search on the training part finds and uses them; those of
   its last rows were decided by the prices of the test part. `decoder_PFD.py:11` promises
   not to look ahead.

Behaviours met on the way for which there is no run:

- A link breaks while a ping is under way, and the ping gets the error, which `onPingSent`
  ignores without starting its timer again (`base_websocket_client.cpp:146-153`); the read ends
  with `operation_aborted` and schedules nothing, "it is scheduled already"
  (`public_data_handler.cpp:89`). The connection has no handler, no timer and no successor left.
  `NeverAbandoned` names this as the only way to lose one, and `Recovers` sets it apart.
- `shared_from_this().get()` is captured, not the pointer that owns (`private_data_handler.cpp:72`).
  A write begun on a closed client (an order, or the subscription after an answer that had
  come before the close) ends after `Replace` destroyed it, although the class is meant to keep
  itself alive for its callbacks (`base_websocket_client.h:35-36`). What then happens is
  undefined; `Recovers` allows for the end of the program.
- After a market close that was refused or cut short, every retry repeats its reqId
  (`trade.cpp:104`, 200-221). With an exchange that refuses it, as `trade.h:43-44` expects of
  cancels and replacements, "let checkCurrentPrice repeat the close"
  (`trade_manager.cpp:292`) goes on for ever and the position stays open: without its last
  disjunct `ClosingCompletes` is violated by one rejection. Safety holds for either exchange.
- The offline indicator averages the flow over a window that ends one interval earlier than
  the program's (`pfd_indicator.py:157`), although its docstring (line 97) says that it
  computes the components exactly as the C++ code does.
- A signal stored between the reading of the version and the reading of the signal is acted
  on under both versions (`imbalance_and_large.cpp:162-170`); what is checked is that the
  newest one is never missed.
- A signal of the trade's own side restarts its holding time (`trade_manager.cpp:307`), so
  that the 24 hours bound only the time since the last of them; `HeldUnlessRenewed` says so.

## 5. Proofs

All proofs are checked by TLAPS with SMT, Zenon and the temporal prover, for every value
of the constants the named assumptions admit.

**Trade manager** (assumes `ConstantsAssumption`: quantities, bounds and queue sizes are
positive). None of the invariants is inductive alone: that a closing flag implies a reason
needs that closing orders are known only in a trade with a reason; that needs the
discipline of the flags; and that needs that no closing order's update arrives before the
trade is open. `IInv` is `TypeOK /\ WaitDiscipline /\ KnownOrders /\ ReasonKnown`;
`ReasonKnown` says that while nobody closes the trade no part of it is closed and no
closing order is known. One lemma per operation shows that it keeps `IInv`;
`StepKeeps` joins them and gives the step property `ReasonKept` on the way. Theorems:
`InductiveInvariant`, `TypeCorrect`, `OneStepAwaited`, `OnlyOwnOrders`, `ReasonRecorded`,
`ReasonIsFinal`. Since the module is open, they hold for every exchange. `TypeOK`,
`KnownOrders` and `CloseHasReason` are proved only; no run repeats them.

**Trading system** (also `SystemAssumption`). `SysInv` is `IInv` and `ExchangeTyped`: the
orders of the exchange and all messages under way are of a kind that the manager's handlers
are specified for. It is needed because `DrainUpdate` hands to `SetOrder` whatever the
channel holds. `SysStepIsManagerStep`: from `SysInv` every step of the system is a step
of the open manager or leaves it alone; one lemma per step of the exchange and per
fault. Hence `SystemIsManager`, the refinement `SysSpec => Spec`, and through it
`SystemOneStepAwaited` and `SystemReasonIsFinal`: what was proved of the open manager
holds in the system without another proof. `SystemTypeCorrect` is its type invariant.

**Exposure** (in `TradingSystemProofs` too, with the same assumptions). `FlatWithoutTrade`, `ExposureCovered` and
`NeverOverclosed` are far from inductive: whether a fill is counted once, and whether what
is held can still be closed, depends on every message under way. `LotsInv` says, part by
part, what each of them may still do: a queued request (`RequestOk`, `QueueOk`), a queued
cancel (`CancelOk`), an answer (`ResultOk`), an update (`UpdateOk`, `UpdatesOk`), a resting
order (`OrderOk`), the position (`PositionOk`). Its last part is `Ledger`: while a trade is
open, the lots that `closePartiallyFilledQty` counts, those that the updates under way will
add, those a resting order has executed without telling, and those still held are together
never more than `openQty`. The updates under way are a queue, so the sum over them is
stated by a witness (`Tally`: a sequence of partial sums exists), for which the lemmas
about `Append`, `Tail` and `SubSeq` need no induction. `LotsInv` was found with TLC on
small instances before it was proved. A step of the strategy then has one of a few
outcomes (`Outcome`: it asks for something and changes no lot, ends the trade, enters it
with the opening order's last word, falls back to the market, starts the next one), a step
of the exchange opens, reduces or fades an order; one lemma per outcome keeps `LotsInv`,
one per handler says which outcomes it has, and the actions of `TradeLifecycle` are read
off the same cases. Theorems: `ExposureInvariant`, `AccountFlat`, `ExposureIsCovered`,
`NoTradeOverclosed` and `SystemIsLifecycle`, the refinement of `TradeLifecycle`'s safety
(`OneTradeAtATime`), for any number of trades and faults.

**Order sender** (assumes `OrderSenderAssumption`). `SenderInv` is `TypeOK /\ Wake /\ Order`.
`Wake`: while the connection is up, a raised flag means that a chain of `sendNext()` is
under way, and a queue that holds something with the flag down has a thread that is about
to look. `Order`: the queues hold younger requests than the wire, in order, and nothing
refused. Neither needs the other; both need the types. Theorems: `SenderInvariant`,
`TypeCorrect`, `NothingStranded`, `OneOrderPerKind`, `RefusedStaysHere` (what was refused is
never sent; proved only, no run repeats it).

**Connection** (`WebSocketClientAssumption`). The environment is not restricted: whatever is
under way at a close, whichever operation gets the error. `Inv` is
`Tended /\ (AskedAgain \/ OneAtATime)`. `Tended`: the types, what is true of each client by
itself (`Sound`), and that the manager's client exists and is being replaced once it has
asked. `Running`, the main part of `Sound`: a client not yet closed reads, or will be closed, or
its ping got the error; one that was closed receives nothing any more. `OneAtATime`: every
client before the manager's has asked for its replacement, once; the manager's own has not,
or has and its replacement is posted. A step changes one client to a sound one and
either asks for nothing or for one replacement, which is posted (`Changes`; one lemma for the
connecting client, one for the running, one for the destroyed), and `Replace` keeps the rest.
`OneAtATime` is false of the code as such (finding 3), hence the alternative: what is proved
holds until a closed client asks again. Theorems: `ClientsTyped`, `ReplacedInTurn`,
`NeverTwoStreams`, `AlwaysServed`, for any number of clients and failures.

**Strategy's thread** (no assumption is needed). `LoopInv` joins four parts. `SyncTyped`
and `Sync`: between the predicate and the sleep the flag is down, and a thread that finds
`running_` reset outlives it only while `stop()` is under way. `Items`: what was applied,
what is in the batch and what is in the queue are together all that arrived, in order, and
a batch reaches as far as what was due. `Versions`: the version seen never exceeds the one
published. `ItemsNext` and `VersionsNext` need `Sync`, because `start()` must not find a
thread in the middle of a round. Theorems: `WakeupNotLost`, `EveryItemInOrder`,
`ConfirmationsFirst`, `NewestSignalNotMissed`.

**Indicator** (`IndicatorAssumption`). That the signal is the one the history defines is
not inductive: the code keeps ring buffers and forgets the rest. `Inv` joins the types
with `BuffersOfHistory`: each buffer holds the last items, as many as it has room for, of a
column of the history (`Recent`), namely the closed intervals' prices and flows, the raw
signals and the volatilities of the intervals that had a score. The intervals with a score
are a set in the definition and a list in the code; `Lists` relates the two by rank, so
that "the last so many scored intervals" (cardinalities) becomes "the items of the buffer"
(positions). `PastIsFixed` says that an interval that closes changes nothing that the
history says of earlier ones. Theorems: `IndicatorInvariant`; `SignalIsOfHistory`, that the
published signal is `SignalOfHistory`'s; `NoSignalFromNaN`, that a signal rests on prices
that exist; and, with at least one confirming interval, `ConfirmationBetween`: from
`SignalOnRecord`, a standing signal is the newest raw signal on record, and the next
interval is confirmed only if all on record agree with it. Without a confirming interval
it is false, which its assumption says.

**Offline indicator** (`IndicatorAssumption`, `FiltersAssumption`; in the same module).
`NothingIsRepainted`: one lemma per operation says that its column goes on (`GoesOn`) where
the column of the shorter series ended, because an entry rests on the entries up to its own
row (`SameWindow`). The exponential mean is the only recursion; the least row at which two
means would differ does not exist (`MeanGoesOn`), nor does the least number of rows without
a mean (`MeanExists`). `Recorded` drops intervals without a price, so a row and an interval
have different numbers; it is written with ranks and not with `SelectSeq`, of which the
prover knows nothing.

**Aggregation** (`AggregationAssumption`: numbers are numbers, and a row's side is one of the
two or none). Four invariants, each resting on the ones before. `ReadInv`: while the log is
read, what was read is its beginning, and the limit is an end that the file had. `PartsInv`
relates the parts of the chunks to the rows read, second by second (`Covered`): parts with
rows of a second follow each other as their row numbers do (`InTurn`), the first and the
last of them have its first and last price and all together its extremes (`SameEnds`), and
their sums add up to its sums (`SameSums`). It is needed because `combine` picks the opening
price by the least row number: `BarsOfLog` alone says nothing of a log half read. `TotalInv`
and `LinesInv`: what was written, batch by batch, is the beginning of the combined bars in
the order of their seconds, however the writing ended. `BarsInv`: loading keeps one bar for
every second of it, in order; a second missing from the file comes after all that are
there, so that only the last interval can be short of trades.

The sums are why the proofs are long. A sum is a recursion on the finite set it goes over,
so the laws (it exists, one element more, two parts, the parts of a division, equal sums of
equal functions) come first; each is shown by the smallest set for which it would fail.
Theorems: `ReadsBeginning`, `PartsOfLog` (the two invariants), `ReadsAll`
(`NothingLeftOut`), `BarsAreOfLog`, `IntervalsAreOfLog`.

**Division into folds** (`EvaluationAssumption`). `TrainBeforeTest`: for all settings and any
number of days the training of a fold ends before its test, both lie within the data, and
tests of different folds have no second in common.

**Backtest** (`TrailingAssumption`, `BacktestAssumption`). `Inv` joins the types with the order
of the positions: those closed end before the next begins and within the data, and the open
one began after them (`OnePositionAtATime`). That the walk finds what the history defines
needs more, `WalkInv`. `SignalsInTurn`: the trades made so far are those that the signals
seen so far define; `BarsInTurn`: best price and stop of the open position are those of the
bars seen so far, and none of these has ended it (`Quiet`). Each action then adds one signal
or one bar to what has been seen (`SkipInTurn` to `HoldEndsInTurn`), and `StopIsOfHistory`,
which states `StopOfHistory`, is its end.

`RunSignals` is a fold over a set of seconds. The fold of the community modules unfolds to
a recursive function on the subsets of the set (`RunSignalsIs`, `DoneIs`). That this
function exists is shown by the least number of seconds for which it would not
(`InTurnExists`), and what holds of no signals and is kept by the next one holds of all
(`SignalInduction`, about a set of sets, since a property cannot be a parameter). With it:

- `LooseTrailMakesSameTrades`: a loose trail is one that becomes active at the take profit or
  beyond; as long as no bar takes the profit it moves no stop (`LooseStop`), so the walk and
  the search find the same exit (`LooseExit`), hence the same trades (`SameExits`). A profit above zero is assumed: with a take profit of zero the
  statement of `pfd_optimizer/README.md:73` is false, because a trail that is active from
  the entry on (activation zero) would count as loose and yet moves the stop.
- `ConservativeIsLowerBound`: the two runs go in lockstep, with the same last exit after
  every signal (`RunsInLockstep`), because the flag decides the price of an exit and never
  its time.
- `SearchDoesNotLookAhead`: an exit up to second T is found without the data after it
  (`ExitUpTo`); a run on the data up to T has done the same as one on all data as long as no
  position outlasts T, and after one that does it may enter again, but keeps the trades
  before (`Follows`).
- `LabelsAreProfits`: the rows of a label are the seconds in order, each at the place that is
  the number of seconds up to it (`InOrderIs`), so the rows between two are the bars between
  them; of a verdict by time the farthest prices exist (`FarthestIs`). Again a target above
  zero is assumed: with none the price of the signal itself reaches the target.

**Walk-forward search and the study after it** (`OptimizerAssumption`, `EvaluationAssumption`,
`BacktestAssumption`, `StudyAssumption`: the data has a last second, prices are numbers,
signals stand where a bar is, and grid and variants hold exit rules). `SearchInv` says what the search has found after any number of evaluations:
for every fold the entry of the first best among those that may be chosen (`Leaders`), or
none when none may; one row for each, its own; and in a report nothing but these. That one
comparison with the best so far is enough (`LeaderStep`) needs that "not greater" hands on,
which holds of fractions with positive denominators (`GreaterIs`); and that every objective
is one needs a fact about the Sharpe ratio: the spread it divides by is not negative
(`SpreadsAre`, Cauchy's inequality by one more element). Theorems:

- `SearchIsOfEvaluations`: `SearchInv` in every state.
- `SelectionIsOfTrain`, `ReportIsOfSelected`: the trades of a part and their metrics are the
  same when nothing but the data of the part has been recorded (`TradesOnAre`), because an
  exit sees no bar beyond the end of its part (`ExitWithin`).
- `TestsOnOneAccount`: by `TrainBeforeTest`, and because every trade of a part lies in it.
- `MetricsOfTrades`: the drawdown, one pass with a peak, is the greatest fall between two
  points (`CurvesAre`); the time in positions is at most that of the part, since trades
  follow one another (`Tidy`); the reasons add up in whatever order the sum takes them
  (`SumOfCounts`).
- `StudyIsOfOptimizer`: a variant that changes nothing repeats the optimizer. The combinations
  of the grid are all different (`UniqueIs`, `SignalKeysAre`, `ExitKeysAre`), so the rows of
  one are its own and follow each other fold by fold (`CombinationIs`, `RowsAre`). Such a
  variant makes the trades of the tests (`StudyTradesAre`; of a loose trail by `LooseExit`).
  The study joins them fold after fold and takes them apart by their entry: since no two
  tests have a second in common, that finds the trades of every fold again (`AllTradesAre`),
  and what the study sums over the folds that traded is the sum over all (`SumAcross`).
  `StudyInv` says that a study begins only after the report, when every row of the search
  is there. Take profits above zero are assumed, as for `LooseTrailMakesSameTrades`.

Sums and curves are folds of the community modules, which unfold to recursive functions on
sets of places. `StepsExist` shows that such a function exists, and `SeqInduction` takes the
place of induction over sequences, about a set instead of a property.

The attempt to prove `StopOfHistory` found an error of the model: `StopAfter` let a trail that
follows at once and closer than the stop take effect before the first bar. The exit rule
that shows it is in the run now.

## 6. What is model-checked only, and what is not modelled

Liveness (`OpeningResolves`, `ClosingCompletes`, `HeldUnlessRenewed`, `QueuedIsSent`, `Recovers`,
`UpdatesApplied`, `StopReturns`) is out of the reach of the prover and stays with TLC.
`NothingAwaitedInVain` is no theorem: it is true with one fault, as its run has it, and
false with two (an opening order that is rejected and whose answer is late: the behaviour
of `opening_race`), so it says something of the bound as well and stays a property of the
run.

Not covered:

- What was accepted on a connection that then breaks is lost, as the TODO at
  `connection_manager.cpp:83` says, and updates are lost with a private stream; the
  trade manager's market flags have no time limit and wait for ever then. The safety
  properties hold under these losses; the liveness properties say nothing after one.
- `pendingRequests_` keyed by a reqId that a retry reuses.
- Deltas of the order book applied without their sequence number.
- Several orders in one frame of the private stream (only the first is parsed).
- Exceptions thrown inside a round of the strategy.
- Parsers, logging, reading of the configuration, the two indicators that are compiled but
  not used, programs run by hand: text, formulas and I/O without a protocol.
- Of the Python programs: correlations, quantiles and averages of real numbers, plots and
  dashboards (`decoder_TFI` and most of `decoder_OBI`, `decoder_full`), the ATR features and
  the take profit scaled by them, `research_pfd`, the writing of csv files.
- A price of the last row that was cut within its digits is a smaller price to the
  aggregation. Nothing in the code can tell, and the properties speak of the rows as read.

## 7. Plan

Written in this order, each next module resting on what the ones before showed:

1. done: `TradeManager`, its proofs; `TradeLifecycle`, `TradingSystem`.
2. done: `OrderSender`, `WebSocketClient`; `StrategyLoop` and `PriceFlowDivergence` with
   proofs.
3. done: the research programs from the recorded trades to the choice of the settings:
   `TradeAggregation`, `OfflineIndicator`, `Backtest`, `TrailingBacktest`, `Evaluation`,
   `WalkForward`, `ResearchStudy`; the decoders' labels and thresholds.
4. done: `SysSpec` implements `Spec` of the open manager; the safety of the sender and of
   the connection; the folds; the lots of the account and the refinement of
   `TradeLifecycle`; the indicator against its history; the backtesters (the walk against
   the history and against the search, no look ahead, the lower bound, the labels); the
   walk-forward search, its metrics and the study after it; the bars of the aggregation.
5. open: an order book (snapshot, delta, removal of a level, reconnection) as the source of
   the prices of `PriceFlowDivergence`.
6. open: the sender with retries: reqIds repeated, `pendingRequests_` overwritten, answers
   dropped; frames of the private stream with several orders.
