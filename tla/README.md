# Verification of quantis

quantis is a trading system for one perpetual-futures instrument: Rust crates
that receive market data, keep a book, backtest and paper-trade a strategy
behind a risk gate, and a Python package that evaluates research on recorded
data. This directory holds TLA+ models of both, the TLC configurations that
check them on small instances, and TLAPS proofs of the results that matter most.

    tlc -workers 2 -config MCPaperGateway.cfg MCPaperGateway   # a run
    tlapm TradeLoopProofs.tla                                  # a proof

`PROJECT.json` maps every definition to the lines it models and lists the runs,
the mutants that show each property can fail, the findings and the hazards.

## 1. The system

| component | state it keeps | operations | interacts with | correct when |
|---|---|---|---|---|
| order manager (`execution/manager.rs`, `order.rs`, `reconcile.rs`) | orders by client id with their status, fills seen, average price; position, realized PnL, fees, average entry | `register`, `apply(report)`, `reconcile` | called by a gateway for each report | each fill is booked exactly once whatever the feed does; terminal orders stay terminal; accounts agree with the fills |
| risk gate (`risk/gate.rs`) | peak and last equity, latched kill switch | `on_equity`, `check_order`, `reset_kill_switch` | marked and asked by the paper gateway | the caps hold whatever is submitted; a killed portfolio only shrinks |
| order book (`market-data/book.rs`) | two ladders, last timestamp, counters | `apply_snapshot`, `apply_level`, reads | fed by events, read by the gateways, strategies and the engine | ladders sorted, no empty level, whatever arrives |
| fill engine (`backtest/fill.rs`) | none; resting orders are passed in | `market`, `match_resting` | used by the paper gateway and the backtest engine | fills only depth that is visible or traded |
| paper gateway (`execution/paper.rs`) | book, gate, manager, unpolled reports, fill id counter | `on_event`, `submit`, `cancel`, `poll_reports` | called by the trading loop | all of the above together; reports, fills and position agree |
| trading loop (`cli/trade.rs`, `execution/metrics.rs`) | strategy, order ids, metrics | one step per market event | feed or log -> gateway -> strategy -> gateway -> metrics | gate marked before it is asked; metrics agree with the gateway |
| strategies (`backtest/strategy.rs`) | price window and sums, last signal; maker's outstanding flag | `on_event` | asked by loop and engine | sums exact; position within the target |
| backtest engine (`backtest/engine.rs`, `runner.rs`) | ledger, in-flight and resting orders, next funding time | `run` over a stream of events | book, fill engine, strategy | no look-ahead; every submitted quantity accounted for; each funding boundary charged once |
| event log (`market-data/recorder.rs`, `cli/record.rs`) | a file of length-prefixed frames | `create`, `write_event`, `finish`, `open`, `next` | written by the recorder, read by replay | what is read is a prefix of what was written, and a cut is reported |
| market-data feed (`market-data/ws.rs`) | connection, attempt counter, staleness timer, counters | `run_feed`, `connect_and_stream`, `handle_text` | websocket -> bounded channel -> loop or recorder | reconnects for ever, stops when its consumer does, counts what it drops |
| testnet gateway (`execution/testnet.rs`) | none | every order answered `Gated` | | never sends an order |
| features and strategies (`python/quantis/features`, `evaluation/*_strategy.py`) | none: functions of the closes | `build_features`, `is_causal`, the `causal_*` functions | models; called by the studies and the daily signal | a value for a day depends on no later day; the variants agree where they should |
| statistical models and tests (`models/hmm.py`, `bocpd.py`, `evaluation/cscv.py`, `multiple_testing.py`) | fitted parameters | filter, smooth, decode; run lengths; PBO, SPA | strategies, studies | filtering looks at the past only; the recursions equal what they are recursions of |
| evaluation (`evaluation/cross_validation.py`, `walk_forward.py`) | none; the loop over windows | splits, the leak assertion, walk-forward | research configuration, studies | no row is scored by a model that was fitted on it or on a label overlapping it |
| holdout (`data/holdout.py`, `scripts/evaluate_holdout.py`) | the committed manifest; result file | `load_research`, `reveal_holdout` | the candle file, which changes | what is published was computed on the sealed bars |
| studies and report (`scripts/*_eval.py`, `regime_search.py`, `compare_strategies.py`, `research_report.py`, `evaluation/trial_log.py`) | trial logs, artifacts, report (files) | one script after another, or `make research` | candle file, manifest, each other's files | every trial counted once; nothing learned from the holdout |
| daily signal (`scripts/daily_signal.py`) | frozen model, signal log (files) | `freeze`, `signal`, `review` | candle file | one row per bar; the review agrees with what was announced |

Everything in the gateway and the trading loop is one thread: a `&mut` borrow
serialises the calls, and the loop body of `trade.rs` never blocks. What is
hard there is not parallelism but long sequences of legal calls, partial
fills, and values read before they were refreshed. Real asynchrony enters at
two places: execution reports of a live venue, which arrive late, twice, in
any order or not at all (`tests/chaos.rs`), and the websocket with its channel
and timers. The research side is sequential scripts that share files: what is
hard there is a value that has seen a later day, a file cut by a crash (event
log, trial log, artifact, signal log), and a candle file that is no longer the
one that was sealed.
The hazards, each at its line, are listed in `PROJECT.json`.

## 2. Modules

| module | models | state and actions |
|---|---|---|
| `FixedPoint` | `core/types.rs` arithmetic | operators; Rust's `/` truncates toward zero, so `TruncDiv` does |
| `OrderManager` | `manager.rs`, `order.rs` | the manager as a record; `register` and `apply` return the next record |
| `PositionLedger` | abstract: what the manager promises | `position`, `booked`; one action `Book` |
| `OrderFeed` | the manager behind an unreliable feed | manager, venue orders, reports `sent` and `delivered`; `Submit` (also again), `VenueAck/Fill/Close`, `Deliver` of any sent report any number of times |
| `Ladder` | ladders of `book.rs` under snapshots | operators: `Kept` drops empty levels, `Rank` gives the place of the stable sort, `StoredLadder` the result |
| `RiskGate` | `gate.rs` | the gate as a record; `on_equity`, `check_order` |
| `PaperGateway` | `paper.rs`, `FillEngine::market` | composes manager, ladder and gate; `OnSnapshot`, `DuplicateSubmit`, `SubmitRejected`, `SubmitAccepted`, `FillLevel`, `EndWalk`, `Cancel`, `CancelIgnored`, `PollReports` |
| `SmaCross` | the moving-average strategy | the strategy as a record; `Observe`, `Delta` |
| `TradeLoop` | `trade.rs` step and `metrics.rs` | gateway, strategy, metrics and the phase of the loop body |
| `OrderBook` | `book.rs` in full: `OrderBook` and, fed the same events, `BTreeBook` | ladders, counters, price map; `OnSnapshot`, `OnLevel` |
| `BacktestEngine` | `engine.rs`, both halves of `fill.rs`, `PassiveMaker` | book, orders in flight and resting, ledger, next funding boundary, strategy; one action per kind of event: `OnSnapshot`, `OnTrade`, `OnCandle`, each the whole loop body |
| `EventLog` | `recorder.rs` | frames written, bytes on disk, a reader; `write_event`, `finish`, `Kill`, `Open`, `ReadNext` |
| `MarketFeed` | `ws.rs` | connection, watchdog, channel, counters; one action per arm of `select!`, per outcome of a send, and per retry |
| `Recorder` | `cli/record.rs` | composes `MarketFeed` and `EventLog`: the recording loop is the feed's consumer and the log's writer |
| `RegimeRows` | the row arithmetic of strategies and walks | `CandleIndex`: the rows a strategy is scored on; `WindowRows`: those of one window of a walk |
| `Features` | `features/pipeline.py` | operators on a series of log prices: each registered feature, `build_features`, `is_causal` |
| `GaussianHmm` | `models/hmm.py` after fitting | operators: forward, backward, posteriors, the counts of the M-step, Viterbi, `filter_proba`, `predict_proba` |
| `Bocpd` | `models/bocpd.py` | `Absorb`: the run-length weights after one more value, cut at the maximum; the most likely run length |
| `RegimeStrategies` | the four `*_strategy.py` | the positions and returns of each strategy over a prefix of the closes, from the `View` all of them compute first |
| `MultipleTesting` | `cscv.py`, `multiple_testing.py`, `trial_log.performance_matrix` | PBO, SPA and Reality Check over logged trials and given resamples; `LogTrial`, `Resample`, `Judge` |
| `CrossValidation` | `cross_validation.py` | operators: both schemes as sets of rows, `assert_no_leakage` |
| `WalkForward` | `walk_forward.py` | the loop: `WalkStart`, `WalkWindow`, and the windows it has scored |
| `ResearchStream` | composes the eight above | bars arriving one at a time (`ArriveBar`), folds asked for (`BuildFolds`), a walk, or a search judged |
| `ResearchData` | `data/candles.py`, `data/holdout.py` | the candle file; `Refresh`, `RollWindow`, `Restate`; operators for sealing, loading, revealing |
| `ResearchStudies` | the scripts, `trial_log.py` | the files and the running script; `Launch`, `StartStudy`, `AppendTrial`, `WriteArtifact`, `CompareStrategies`, `StartReport`, `WriteReport`, `StartHoldout`, `WriteHoldout`, and a death in each of them |
| `SignalLog` | `daily_signal.py` | frozen model, log, running command; `StartFreeze`, `WriteFrozen`, `StartSignal`, `ReadLog`, `AppendLog`, and deaths; `TrackRecord` is the review |
| `ResearchDesk` | composes the three above | |
| `BasicLemmas` | what the proofs share | sums over finite sets, number and subset induction, fixed-point arithmetic, sorted ladders, what `register` and `apply` do to a manager |
| `OrderFeedProofs`, `TradeLoopProofs` (with the gateway), `BacktestEngineProofs`, `OrderBookProofs`, `RecorderProofs`, `ResearchStreamProofs` (with folds, walks, strategies and tests), `ResearchDeskProofs` | the theorems | |
| `MC*` | instances for TLC | values of the constants |

Correspondence worth knowing:

* Components that are plain values in the code (manager, gate, strategy) are
  record values here, so one definition serves the feed, the gateway, the loop
  and the proofs; operations return the unchanged record where the code
  returns early.
* `submit` is one call in the code. `PaperGateway` takes one step per level of
  the book walk, with every other action disabled in between, so invariants
  are checked between two fills of one order as well. `FillEngine::market`
  collects the fills before `submit` emits them; the two loops are merged,
  which nothing can observe because neither reads what the other writes.
* A `BacktestEngine` step is one pass of the loop over an event, in the order
  of the code: book or resting orders, funding, arrivals, strategy, mark. No
  other thread sees the engine between these stages. The strategy is either the
  repository's `PassiveMaker` or one that may ask for anything, because the
  engine takes any `Strategy`. Timestamps may step back: the stream is not
  sorted by the engine, and `book.rs` counts such regressions.
* `binary_search_by` may find any of several levels at one price, so `OnLevel`
  chooses among them.
* `Vec` fields that only count for a report (`fills`, `volume`, event counts)
  are left out of the engine's ledger; `filled` stands for the quantity.
* `MarketFeed` counts time in ticks of 15 s, the greatest common divisor of
  the 30 s ping and the 75 s limit. Connections may fail or go silent at any
  moment. The length of the backoff delay is not modelled, only that it ends.
* `EventLog` counts bytes only in frame lengths. `BufWriter` hands its buffer
  to the file whenever it is full, so a killed process leaves any prefix behind.
  When a process ends, the feed's memory is gone (`FeedEnds`).
* The drawdown limit is a rational `dd_num/dd_den`; the code compares a
  floating-point quotient. Equality at the exact limit may round differently.
* Price levels carry no order count and reports no reason text: neither is
  ever read by the modelled code.
* The research models keep which bars a value is computed from, and in which
  order, and abstract what floating point does with them: prices are powers of
  two, so a log return is an integer; a Gaussian or Student-t density is a small
  integer weight that keeps the order of near and far; probabilities are kept unnormalised, as products of
  integer weights, and compared by cross-multiplication; weights of positions
  are multiples of `1/Scale`; a standard deviation is a spread (`Spread`). The
  code's scaling of each step and its logarithms cancel in all of these.
* A script is one process; `AppendTrial`, `WriteArtifact` and the like are the
  writes another process, or a crash, can tell apart. `write_text` that is cut
  leaves a file that does not parse (`Torn`), an `append` that is cut leaves a
  last line that does not, and the next append continues that line.
* The signal log's lines reach the file when it is closed, so a run that dies
  while appending leaves the log as it was, or, the first time, an empty file.
* Hashes are taken to tell different bars apart (`HashValues`).
* Definitions marked `MUTANT` are deliberate bugs; no specification uses them.

## 3. Runs

The type invariant of a module is a run's own property where its theorem needs
it (`paper_gateway`) and a conjunct of another property elsewhere
(`QuantitiesAccountedFor`, `LaddersSorted`, `EventsAccountedFor`,
`ReadsWholeEvents`, `MetricsAgree`).

**order_feed** (`MCOrderFeed.cfg`). Two orders of up to two lots, both sides,
three fill ids, prices 3 and 12 with `SCALE = 2`, so that averages and halves
do not divide evenly and yet differ by more than the rounding allowed. Three fills are enough for open, extend, reduce, close and
flip in one behaviour, and for a fill to be redelivered around each of them.
Checks `RefinesLedger`, the refinement of `PositionLedger`;
`PnLMatchesCashFlow`, that fees, realized PnL and entry price, which the code
maintains fill by fill, agree with the booked fills seen as a set up to one
rounding per fill; `NoPhantomPosition`, the reconciliation of `chaos.rs` once
everything has arrived; `TerminalIsFinal`; and the liveness property
`EveryFillLands`.
Fairness: `WF(DeliverNew)`: a report not delivered yet is delivered eventually.
That is what the reconnect of `chaos.rs:55-68` supplies ("the exchange
RE-DELIVERS the recent fills"); which report, when, and how often remain free.

**order_feed_truth** (violation). `reconcile.rs:8-9` says that after a
disruption the tracked position must still equal the truth. It does not when a
fill arrives after its order's cancellation: `apply_fill` drops it.

**paper_gateway** (`MCPaperGateway.cfg`). Three orders of two or four lots
against a cap of two, fees at the configured maximum, three snapshots: a normal
book that arrives unsorted with an empty level, a crash with one lot of ask
depth, and a one-sided book. With these the switch trips while a position is
held, orders fill partially, and orders reverse. Checks `TypeOK`,
`PositionCap`, `KilledExposureBounded`, `WalkFillsBooked`,
`ReportsMatchPosition`, `FillsAreVisibleDepth`. Client ids are only compared
for equality, hence the symmetry set; there is no liveness in this run.

**paper_gateway_killed** (violation). `gate.rs:122-125` lets an order pass
a tripped switch only when it shrinks the position "without flipping past
flat". `check_order` compares absolute values: in the run a short of 2 trips the
switch, and an order to buy 4 passes and leaves the account long.

**trade_loop** (`MCTradeLoop.cfg`). The loop with windows of two and three
snapshots, target two under a position cap of three (so that it is the strategy
and not the gate that keeps the position within the target), a notional cap that
vetoes orders in a dear market, four books. Six order ids bound the session, hence `CHECK_DEADLOCK FALSE`: the
model stops when they are used. Checks `RollingSumsExact`,
`WithinTarget`, `KilledWhenDue`, `MetricsAgree` and `UsesGateway` (the loop's steps
are steps of `PaperGateway!Spec`).

**backtest** (`MCBacktestEngine.cfg`). Three books (one with thin bids, one
one-sided), three trades (part of a queue, all of it, through it), candles, and
ticks of -1, 1 and 5 against a funding interval of 2 and a latency of one: time
steps back, moves within an interval, and jumps over boundaries. Streams of up
to seven events for the maker, which is one round trip of quoting, filling
partly, filling, and quoting the exit; up to five for the free strategy with two
orders of market or limit type, which is what two orders that arrive, rest, and
fill together need. Checks `QuantitiesAccountedFor`, that what was
submitted is filled, unfilled or reported as expired; `LastInLine`;
`OneWorkingOrder`, the maker's claim to need no cancellation;
`FundingChargedOnce`, that an event charges exactly the boundaries it is the first
to reach, by the position after its own trades and before what then arrives, or not
at all without a mid (so possibly late, and for another position than the one held at
the boundary: see the findings); and `OrdersFillWhenDue`, no look-ahead and no delay. The stream ends, hence
`CHECK_DEADLOCK FALSE`.

**backtest_overcredit** (violation). `fill.rs:113-114` says that the maker model
"never over-credits a maker fill". The loop matches each resting order against
the whole of a trade, so two orders at one price fill more than was traded.

**order_book** (`MCOrderBook.cfg`). Four events out of snapshots that are
sorted, unsorted, hold an empty level or one price twice, and of level updates
that add, change and remove on both sides. Checks `LaddersSorted`,
`BooksAgree` (with `BTreeBook`, unless a price repeats) and `RepairsAreCounted`:
no level is dropped or moved uncounted, and a snapshot counts as crossed exactly
when some bid of it meets some ask, wherever in its ladders they stood.
Four events let a repaired ladder be updated, emptied and refilled. The bound
ends the model, hence `CHECK_DEADLOCK FALSE`.

**recorder** (`MCRecorder.cfg`). A session on a channel of one event with
messages of none or two (so the second is dropped unless the consumer is quick),
two messages, frames of two lengths, six failed connections (one more than the
five at which the attempt counter is capped). The process is killed at any point
with any prefix on disk, or stops at its deadline, at which the system may stop:
`CHECK_DEADLOCK FALSE`. Checks `EventsAccountedFor`, that feed and
recorder lose nothing between them without counting it; `SilenceBounded`;
`ReadsWholeEvents` and `ReadInOrder`, what replay gets back; and the liveness
property `QuietFeedReconnects`. `idle` saturates above every value the code
compares it with. Fairness: `WF(FeedAlone)`: the runtime fires the feed
task's timers and lets its sends run. Nothing is assumed of the venue, of the
consumer, or of `connect_async`, which has no timeout; the property therefore
ends where the feed dials again.

**log_truncated** (violation). `recorder.rs:6-8` promises that anything but a cut
at a frame boundary surfaces as `TruncatedFrame`. A file cut inside a length
prefix reads as a clean end.

**research_stream** (`MCResearchStream.cfg`). One of four tasks is picked at the
start. *Bars*: up to six closes, each step down, flat or up, with a funding rate
of either sign, under a model that moves between three regimes easily and one that
stays. *Folds*: any accepted
configuration over up to ten rows with labels of 0, 1 or 3 rows: shorter and
longer than an embargo, and folds with a remainder. *Walk*: training windows just
long enough, test windows shorter, as long as and longer than the step. *Search*:
up to three trials with equal, constant, winning and losing columns, judged over
four blocks and two resamples. Checks

* `PositionsFinal`: the bar that arrived last changes no position and no return,
  after costs and funding, of any strategy for an earlier day, and the repository's
  own canary (`is_causal`) finds every feature causal. The strategies are evaluated
  over the whole series, so only filtering (not smoothing) makes this true.
* `InferenceExact`: filter, posteriors, expected transitions and Viterbi path, which
  the code computes by recursion, equal sums and maxima over all paths of regimes;
  the run-length weights and statistics equal sums over all segmentations the cut
  keeps.
* `StrategiesAgree`: all strategies have a position for the same bars and earn the
  same returns on them. Each of the regime, long/short and overlay strategies has its
  own accounting in the code, the sizers share one, and so it is in the module; yet
  long/short without shorts, the overlay in segments that have just lasted long
  enough, and the sizer without a volatility target repeat the regime strategy
  exactly, costs and funding included. Elsewhere the overlay keeps the position or is
  flat, long/short keeps it or is short, the volatility target holds only where the
  position is long, and conviction there no more than the volatility target. What
  conviction holds elsewhere, and Kelly anywhere, is not compared with it.
* `OutOfSample`: no purged fold leaks; walk-forward folds leak exactly when labels
  reach past the embargo, because that scheme is not given the label span; and
  no window of a walk scores a row its model was fitted on.
* `SelectionTestsSound`: doubling the size of a trial changes neither the
  overfitting count nor a p-value, SPA is never the more severe of the two tests,
  and a search in which nothing beats the benchmark is never significant.

Six bars are one more than the longest warm-up, run length and window need for a
decision to be followed by bars that could change it. A task ends, hence
`CHECK_DEADLOCK FALSE`.

**research_desk** (`MCResearchDesk.cfg`). Nine bars are sealed with the last three
held out; the file may grow by two days, one or two at a time and latest first,
lose its oldest day for a new one, and have a bar restated before or behind the
boundary. Two launches, each any script or all of `make research`, one death at any
point of any script; or the daily signal with any regimes. Grids of two
configurations with different warm-ups, the second longer than the training half,
so that aligning rows matters. The walk of `evaluate_funding_impact` has four
windows of one to two rows from the fourth bar on, before, across and behind the
boundary. Two launches let every script follow every other, a repeat follow an
interrupted run, the chart follow a torn or a good holdout evaluation, and the report
follow a failed make. Checks

* `OneRowPerBar` and `TrackRecordHonest`, of the signal log and its review, except
  for the log whose first run died before its header was written: without a header
  the code does forget a row (see the findings).
* `HoldoutKept`: while the file only grows no trial, no comparison chart and no
  walk-forward of a study meets a sealed bar; and a published holdout number is
  computed on exactly the sealed bars by a model fitted on none of them.
  `evaluate_funding_impact` publishes beside it a walk over the whole close series:
  its windows may be fitted and scored on sealed bars, and all the property says of
  them is that none is scored on a bar its own model was fitted on (see the findings).
  The length check of `load_research` would let a file rolled forward at its length
  through with the boundary shifted; it is the hash compared by `reveal_holdout` that
  keeps the number off other bars.
* `ChartNeverDrifts`: `full_history_chart` draws only when its holdout segment is the
  one `evaluate_holdout` has published. The model it draws is fitted again, so a
  restated research bar, a torn file or a missing one must stop it.
* `ArtifactsSound` and `ReportCountsEveryTrial`.

`OneAtATime` keeps either the scripts or the daily
signal idle: they share only the candle file, which neither writes, so no
property of one could be broken by a step of the other. Scripts and days run out,
hence `CHECK_DEADLOCK FALSE`.

## 4. Proofs

All theorems hold for every value of the constants under the named assumptions
(`ScaleAssumption`, `FeedAssumption`, `RiskLimitsAssumption`,
`GatewayAssumption`, `FillIdAssumption`, `SnapshotAssumption`, `FeedAssumption`,
`SmaAssumption`, `LoopAssumption`, `EngineAssumption`, `BookAssumption`,
`LogAssumption`, `WalkAssumption`, `StreamAssumption`, `VolWindowAssumption`,
`BocpdAssumption`, `StrategyAssumption`, `TestsAssumption`, `SealAssumption`,
`GridAssumption`, `WalkArgsAssumption`), which restate what the configuration's validation enforces, how
the venue numbers fills, that bounds are numbers, (`StreamAssumption`) that in a
fitted model the start and every row of the transition matrix are distributions and
that windows are at least one bar, and (`GridAssumption`) that the scripts' grids
are not empty, give every configuration a name of its own and leave a row to score.

**Induction over data.** The library's induction rules take a predicate as a
parameter, which the installed provers cannot instantiate. `BasicLemmas` states
them about sets instead (`NumberInduction`: a set that contains 0 and with every
number the next contains all; `SubsetInduction` likewise for finite subsets),
and a proof applies them to the set of the numbers that have its property. With
them the folds of the community modules can be reasoned about: `SumRemove`,
`SumAdd`, `SumUpdate`, `SumUnion`, `SumShift` and the like say what
`SumFunctionOnSet` becomes when its index set or one of its terms changes,
whatever order `MapThenFoldSet` takes the elements in. Recursive functions over
numbers (`Subsequence`, `Offset`, the settling of arrivals) are shown to exist
and to satisfy their equations in the same way.

* `BasicLemmas`, beside these: ranks are a bijection from the kept levels of a
  snapshot to the positions of the ladder, hence `StoredLadder` is sorted and
  holds levels of positive size only (`SnapshotNormalised`). It also holds what
  `register` and `apply` do to one manager value, by the kind of report.
* `OrderFeedProofs`: `FeedInv` is inductive: besides the types it says that a
  fill id names at most one sent fill (`FillIdsUnique`), that ids seen by the
  manager are below the venue's counter (`SeenIdsAreSent`) and that the venue
  fills tracked orders only (`VenueOrdersTracked`). Without these a
  new fill might already look booked, and the refinement step would fail. From
  it: `TypeCorrect`, `ManagerImplementsLedger` (`Spec => RefinesLedger`) and
  `TerminalOrdersStayTerminal`. `AccountsInv` adds the sums: the venue's filled
  quantity of an order is that of the fills it sent, the manager's that of the
  fills booked, the position is the signed sum over all orders, and a fill that
  was delivered is booked unless its order was closed (`ArrivedFills`). That last
  part needs that an order is `Filled` only when its whole quantity is booked,
  so that no outstanding fill can be dropped. `PositionReconciles` follows.
  `AccountsMatchCash` adds `PnLInv`: each kind of fill (opening, extending,
  reducing, flipping) moves realized profit, cash flow and the cost of the open
  position so that their difference changes by less than one rounding.
* `TradeLoopProofs`, the gateway: `GatewayInv == TypeOK /\ ExposureInv /\ WalkInv`
  is inductive. `PositionCap` alone is not: between two fills nothing bounds the
  next one. `ExposureInv` adds `WalkTarget`, the position the order under way
  leads to, which the gate admitted when the order was submitted; each fill
  moves the position part of the way, so it stays between two bounded values.
  `WalkInv` adds that an order under way is open and that unused fill ids are
  fresh, so no fill can be dropped. From it: `GatewayTypeCorrect`,
  `PositionStaysCapped`, `KilledExposureStaysBounded`, `NoWalkFillIsDropped`.
  `ReportsAlwaysMatch` adds that reports still waiting are about tracked orders,
  so that what each one tells of does not change while it waits.
  `FillsMatchVisibleDepth` adds `DepthInv`: what a walk has filled is the depth of
  the levels it has passed, or the whole order if that is less.
* `TradeLoopProofs`, the loop: `LoopInv` adds to `GatewayInv` that order ids are
  handed out in order, that the strategy's sums are exact, that an order is asked
  for only between two calls on the gateway, and that the walk under way leads no
  further than the target. Every step of the loop is then a step of the gateway
  (`LoopImplementsGateway`), which hands it all of the gateway's invariants.
  From it: `SumsNeverDrift`, `LoopWithinTarget`, `SwitchTripsInTime`; and, with
  `MetricsInv` (a counter lags behind the orders by exactly the reports of its kind
  that still wait), `MetricsAlwaysAgree`.
* `BacktestEngineProofs`: `EngineInv`: well typed, what rests is unfilled and in
  line, submitted = filled + unfilled + in flight + resting, and funding is ahead
  of the clock. One event settles any number of arrivals, so the steps are lemmas
  about the settled state after each of them. From it: `NothingIsLost`,
  `RestingOrdersQueue`, `FundingIsChargedOnce`, `NoLookAhead`. `MakerHasOneOrder` needs
  `MakerInv`: the maker's one order is nowhere (the position is then flat or a full
  quote), in flight, or resting with its fills reflected in the position; and while
  it has not filled at all the maker's memory of the position still makes it wait.
  `OneWorkingOrder` alone is not inductive, since a maker that forgot an order in
  flight would quote again.
* `OrderBookProofs`: `BookInv`: both ladders sorted, and equal to the price maps
  unless a snapshot repeated a price. The binary search of `apply_level` finds the
  one place where a new price keeps the ladder sorted, because the levels better
  than a price form an initial segment of a sorted ladder (`InitialSegment`). From
  it: `LaddersStaySorted`, `BothBooksAgree`, `NoSilentRepair`. That a snapshot is
  crossed when the first levels of the stored ladders meet is the same as any two
  levels of it meeting because sorting puts the best first.
* `RecorderProofs`, the session: `SessionInv` is inductive. `SilenceBounded` alone
  is not: the watchdog is looked at only when a ping is due, so `WatchdogDue` bounds
  the silence plus the time to the next ping. `Accounted` follows every event from
  the parser to the log and needs that what waits to be sent was parsed
  (`MessageParsed`) and that the backoff counts no more failures than there were.
  From it: `SilenceIsBounded`, `RecorderLosesNothing`.
* `RecorderProofs`, the log: the offsets of a log grow strictly, so a frame's start
  identifies it, whatever the lengths (`OffsetEnds`, `EndsGrow`, `WholeEvents`).
  `LogInv` then relates the reader to the file: it stands behind the last frame it
  returned and has returned exactly the frames before. When it ends, the next frame
  is not whole, so it has returned all that are (`LogReadsBack`). `OrderInv` orders
  the events along their way: what is in the log is older than what waits in the
  channel, and that older than what is still to be forwarded. `EventsReadInOrder`
  follows from both.
* `ResearchStreamProofs`: rows of a training set lie before the test fold by more
  than a label or after it by more than the embargo (`ClearOfTheBlock`); hence
  `PurgedFoldsDoNotLeak` and, for the scheme that is not given the label span,
  `WalkForwardLeaksPastEmbargo`: it leaks exactly when labels are longer than the
  embargo. `WalkInv`: every window scored so far is out of sample, and the next one
  starts after all of its training rows; the warm-up given to the strategy is
  exactly what it drops. `WalkForwardOutOfSample` follows. `OutOfSampleInv` adds to
  it that folds come from a configuration the library accepts;
  `EvaluationOutOfSample` is the run's `OutOfSample` for all lengths,
  configurations and models.
* `ResearchStreamProofs`, no look-ahead: `PositionsAreFinal`. `Begins` says that one
  series is the start of another, `RowsBegin` the same of tables. Every feature, the
  forward recursion of the HMM and the run-length recursion take a start to a start:
  a recursion over a prefix does not see what follows it (by `NumberInduction` on the
  row). So two views share their rows (`SharedRows`), and the weight, the turnover and
  the funding of a shared bar are the same. The invariant is only that the series has
  numbers on a range from 0 (`SeriesInv`); what is deep is what one state says.
* `ResearchStreamProofs`, the strategies: `StrategiesAlwaysAgree`. A view is sound
  (`SoundView`) when its weights of the states are distributions and its variances are
  not negative. The first holds because in a fitted model every state leads somewhere
  and every density is positive (`FilterIs`), the second by the
  inequality between the square of a sum and the sum of squares (`SquaresBound`).
  Conviction then is a share of the sized weight (`ShareIs`). The accountings are
  shown equal on one weight (`AccountsAre`), which is what makes the strategies repeat
  one another. `StreamInv` adds to the series that the model
  is one of the fitted ones.
* `ResearchStreamProofs`, the tests of a search: `SelectionAlwaysSound`. Ratios are
  compared crosswise; `RatioAtMost` is a total preorder on them (`AtMostTransitive`,
  `AtMostTotal`), so the largest of a finite set exists and comparing the largest
  of two sets compares their members (`LargestAtMost`). Doubling a trial
  multiplies both parts of its ratios by four or neither (`Scaled`), which no
  comparison notices (`ScaledCompares`): every winner, rank,
  relevant strategy and reached resample stays (`OverfitDoubled`, `PValuesDoubled`).
  `TestsInv` says that a verdict is what the tests make of the log and the resamples
  it was given, and that resamples are drawn only from trials that align.

* `ResearchDeskProofs`: `DeskInv == FileInv /\ SignalInv /\ StudiesInv`.
  `FileInv`: the file has no two bars of a day and never fewer bars than were
  sealed. So `load_candles`, which sorts by a bar's rank among the days, returns
  a strictly increasing series whose last bar is the latest day
  (`DeskInvariant` and the lemmas before it).
  `SignalInv`: as long as the log has its header, its rows follow each other, none
  is later than the file, and a command under way has scored no older bar than the
  last row logged; once it has compared itself with that row, the row it is about to
  append follows it. Rows in order alone say nothing of the row under way. From it:
  `SignalLogInOrder` and `ReviewHonest`: the review leaves no row out because no two
  rows are of one bar. `StudiesInv`: the log of the study under way is the trials it
  has done so far and nothing else; every finished artifact is a search over its
  whole grid, on common rows no trial was fitted on, deflated by its own trials;
  a result of the holdout is about exactly the sealed bars, and a chart under way
  has the holdout segment that is published; and `make research` has
  started its first k scripts with every study before the running one complete
  (`MakeAt`), which the report counts on. Artifacts stay unsealed while the file
  changes, because `OnlyExtended`, once lost, does not come back. From it:
  `ArtifactsStaySound`, `ReportIsComplete`, `HoldoutIsKept` and, for every step that
  writes the chart, `ChartStaysPublished`. None of these is
  inductive alone: each speaks of what a script left behind, and what makes it true
  is what the script had loaded when it started.

Assumptions that are more than ranges: `LoopAssumption` takes the session's order
ids to be 1, 2, ... up to their number and `Quantities` to contain whatever the
strategy can ask for (up to twice its target, when it reverses), which is how
`CloidGenerator` and `SmaCross` produce them; `FeedAssumption` of `OrderFeed` takes
the orders of a session to be finitely many.

Only model-checked: liveness (`EveryFillLands` and
`QuietFeedReconnects`), which is out of the provers' reach; and `InferenceExact` of
the research stream, which compares the recursions of the models with sums and
maxima over all state paths and all segmentations: it numbers the paths, and the
state of a path is a digit of its number, but the provers know nothing of powers.

## 5. Not modelled

Message parsing, decimal text, logging, the metrics HTTP server, the CLI and
the Python bindings are I/O or conversions without state. The position sizing
of `risk/sizing.rs` is floating-point formulas. Of the statistical models the
iteration of EM to convergence, the k-means starts, and the probabilistic and
deflated Sharpe ratios are floating-point and left out; of floating point
elsewhere, rounding. Drawing, pages and printing are left out, and with them
`walk_forward_eval.py`, `regime_charts.py`, `render_dashboard.py` and
`dashboard/report.py` (the first two fit on and score sealed bars, as
`evaluate_funding_impact.py` does, whose walk is modelled); so are the loading of the funding file (the daily rates are
an input of every strategy) and the webhook of the daily signal. Two scripts running at once, or two daily signals, are left out: nothing
in the repository starts them so.
`reset_kill_switch` has no caller outside tests; `reduce_only` is read only by
`testnet.rs`, which copies it to the wire format. 64-bit overflow panics and is
far above configured amounts. The testnet gateway registers an order and then
answers `Gated`; no report ever reaches its manager. I/O errors of the log other
than a short file end the program and are left out, as is the length of the
backoff delay.

## 6. Plan

Done: order manager and feed, risk gate, paper gateway, trading loop, order
book, backtest engine, event log, market-data feed and recorder; features,
models, strategies, evaluation, holdout, studies and daily signal. Left, in order:

1. Live trading: `TradeLoop` fed by `MarketFeed` through the bounded channel, as
   `run_live` composes them.
2. The last invariant without a proof, `InferenceExact`: sums over paths split by
   their last state, and over segmentations by their last change.
3. The scripts that only draw (`walk_forward_eval.py`, `regime_charts.py`), with the
   bars they read: they walk over the whole file, sealed days included.
