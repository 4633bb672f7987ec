# golang-trading-bot: TLA+ models

Models of the trading bot in `src/`: a Go process that polls market data, runs a stack of
strategies, places orders on a simulated ("paper") venue or on real exchanges, keeps a
portfolio snapshot for its risk checks, and takes commands from a Telegram chat. TLC checks
the models on small instances; TLAPS proves every safety property of the passing runs for every
value of the constants. `PROJECT.json` lists runs, mutants, findings, hazards, theorems and, for every
definition, the source lines it stands for.

## 1. The system

### Components, their state and operations

| Component | Source | State | Operations | Model |
|---|---|---|---|---|
| Runner control plane | `internal/app/runner.go` | under `runMu`: `paused`, `halted`, `nukeArmed`, `nukeUntil`, `loopCancel` | `StartTrading`, `StopTrading`, `PauseNewEntries`, `ResumeNewEntries`, `RequestNuke`, `IsNukePending`, `ConfirmNuke` | `RunnerControl` |
| Main goroutine | `cmd/bot/main.go` | the signal context | start-up (commands are served before the loop is armed), shutdown; or `runBacktest` | `RunnerControl`, `Backtest` |
| Command handler | `internal/notify/telegram.go` | none; commands are handled one at a time | `/start /stop /pause /resume /nuke /confirm nuke` | `RunnerControl` |
| Trading loop | `internal/app/runner.go`, `exits.go` | `posEnteredAt`, `prevEquity`, strategy state | `loop`, `onTick`, `closeVenuePosition`, `placeOrder`, `reconcilePortfolio`, `enforceMaxHoldExits` | `TradingLoop`, `Portfolio`, `Signals`, `Venues` |
| Paper venue | `internal/exchange/paper.go` | positions, orders, balances under a lock | `PlaceOrder`, `CancelOrder`, `CancelAll`, `FlattenAll` | `PaperConnector` |
| Order router | `internal/execution/router.go` | rate limiters | `PlaceFallback`, `PlaceParallel`, `placeOne`, `CancelAllVenues` | `OrderRouter` |
| Portfolio state | `internal/portfolio/state.go` | `Positions`, `EquityUSD`, `DayStartEquity`, `LastEquityAt` | `ReplaceVenuePositions`, `SetEquity`, `RollDailyIfNeeded`, `Snapshot` | `Portfolio` |
| Risk engine | `internal/risk/engine.go` | window of returns | sizing, `PreTrade`, `CheckDailyDrawdown`, `VaRCVaR` | `Signals`, `Portfolio` (the hard circuit) |
| Fill ledger | `internal/storage/store.go` | SQLite table of fills | `LogFill`, `NetOpenQtyByVenueSymbol` | `TradingLoop`, `Venues` |
| Venue connectors | `internal/exchange/*.go` | Deribit's token | the `Connector` interface over HTTP | `Connectors`, in `Venues` |
| Market data providers | `internal/exchange/{yahoo,finnhub,polygon,twelvedata}.go` | none | `FetchBookTop` | `Connectors`, in `Venues` |
| Strategies | `internal/strategy/*.go` | price series, averages, once-a-day flags | `BuildFromConfig`, `RunBar`, ten `OnBar`s | `Strategies`, in `Signals` and `Backtest` |
| Backtest | `internal/backtest`, `internal/execution/simulator.go` | one simulated account per run | `WalkForward`, `RunSimple`, `FillSim.Apply` | `Backtest` |
| TWAP, VWAP, configuration, ML helpers, metrics, secrets, charts | | none, read-only or write-only | | not modelled (section 5) |

### How they interact

* The Telegram goroutine and `main` call the runner's operations, which take `runMu`.
  `ConfirmNuke` holds `runMu` over its network calls. A loop goroutine reads `halted` and
  `paused` *without* the lock and is cancelled through its own context.
* `StopTrading` cancels and forgets the loop but does not wait for it; `StartTrading` looks
  only at the handle. Two loop goroutines can therefore be alive.
* A tick visits every instrument (`onTick`: book, strategies, exits and entries), then
  reconciles the portfolio with every venue, then closes positions held too long. Every
  decision of a tick reads the snapshot that the *previous* reconcile wrote.
* `placeOrder` goes to the paper venue directly or through the router along a chain of
  venues; fills the answer reports are logged and time the position.
* The stack runs every strategy on a bar, in their order; `onTick` handles the signals one by
  one: flatten, pause, exit on an opposite signal, entry (sized, then `PreTrade`).
* With mode `backtest`, `main` runs the same kind of stack over a CSV series instead and
  starts nothing else.

### What is hard

Interleavings of loops, commands and the nuke; network calls between reading and using
state; answers that are lost or late; venues that do not report fills or list positions;
partial failure in a reconcile and in a flatten; midnight in the middle of a tick; restarts
that lose everything in memory. `PROJECT.json` ("hazards") lists each at its line, with the
properties about it or the reason there is none.

### What makes each part correct

* control plane: one loop at most can be armed, the operator can always disarm it, and a
  nuke is final, is not cut short once it has begun before the shutdown, and never runs on a
  stale request;
* paper venue: every fill counts once, and a flatten closes what it set out to close;
* trading loop: ledger and snapshot follow the venue, exits close what they were sized for,
  a pause or halt lets no later order through;
* router: an intent becomes one order, recorded fills exist, `CancelAllVenues` reaches every
  venue, and every call returns;
* portfolio: the timers are those of the open positions, the circuit trips only on a loss,
  the baseline is of the day;
* connectors: what they report differs from the accounts in known ways only;
* strategies, sizing and risk: a visit risks one trade's budget, and nothing covered is held
  overnight without a cause;
* backtest: every bar is seen once and in order, and a win was earned before its bar.

## 2. Modules

`RunnerControl` is the abstract specification of the control plane. `TradingLoop` EXTENDS it
and takes each tick and the nuke apart, INSTANCEs `PaperConnector` for the venue, and is shown
to implement it (`ImplementsControl == ControlSpec`, checked by TLC including fairness; the
safety part is the theorem `TradingIsControl`: the mapping is the identity on the control
variables, and every step inside a tick stutters).
`OrderRouter` and `Portfolio` stand alone. `Venues` EXTENDS the operators of `Connectors`,
`Signals` those of `Strategies`, and `Backtest` EXTENDS `Signals`: one stack is built, and
`main` starts either the live loop or the backtest on it. `*Proofs` modules hold the theorems
(`BacktestProofs` those about strategies and signals too, since they run inside `Backtest`);
`SumProofs` has the lemmas on sums and recursive functions several of them need;
`MC*` modules give constants their values.

Four modules have `onTick` in them, each with one aspect exact and the others free:
`TradingLoop` where goroutines overtake each other (signals and results free), `Portfolio` time
and several venues (sizes free), `Signals` which signals come and what they may risk (a fill
is one lot), `Venues` what accounts and answers do (signals free).

**RunnerControl.** `nuke` is the progress of `ConfirmNuke` and doubles as the holder of
`runMu` (`RunMuFree`): the only operation that keeps the lock over a wait is the nuke, so all
others are single steps guarded by `RunMuFree`. `loop[l]` is the place of a loop goroutine:
in its `select`, inside a tick, or gone. A cancelled loop with its ticker ready may start one
more tick, as Go's `select` may. `CheckConfirm`/`Confirm` are the two lookups of the
confirmation window (`IsNukePending`, then `ConfirmNuke`), with time free to pass between.
The shutdown is two steps: `Shutdown` is `StopTrading`, which waits for `runMu` and has
released it when it returns; `ProcessEnds` is what follows (a log line, the deferred calls, the
exit) and waits for nobody. A nuke that takes the lock in between is remembered in `lateNuke`
and may be cut off. After `ProcessEnds` nothing moves.

**PaperConnector.** One step per lock region: `PlaceBook` (book fetch, outside the lock),
`Fill`, `FlattenCopy` (read lock), then `FlattenBook`/`FlattenClose` per position. The
order of closing is any, as Go's map iteration. Quantities are signed. Prices and fees are
left out: no decision depends on them. `PlaceOrder` may return an error *after* the fill.

**TradingLoop.** `at[l]` is where a loop is between two points where another goroutine can
change what it reads: `enter` (before `halted` and the book), `signals`, `place`, `fill`
(book fetched, waiting for the venue's lock), `log` (filled, before the insert), `replace`
(positions fetched, not yet written). Strategies may emit any list of signals up to
`MaxSignals`; sizing and risk may reject any order. `max_position_hold` is 0 here as in the
shipped configuration.

**OrderRouter.** One intent. `attempt[v]` is the progress of `placeOne` on a venue, `order[v]`
what the venue has. The venue may take the request after the router gave up on it. Venues
differ by whether their answer reports fills (paper, Binance and OANDA do) and whether
`CancelAll` cancels (paper, Alpaca, Deribit and CCXT do; for the others it is a no-op that
returns no error), and whether their rejections come in a 2xx body that the connector takes for
an open order without an id (`Lenient`: Bybit, OKX, Alpaca, Coinbase and CCXT): by
`RejectionPasses` such an attempt is "ok" with nothing at the venue.

**Portfolio.** One loop with its tick in phases: visits, reconcile venue by venue, prune,
max-hold exits. A key is an instrument at a venue; a position is open or flat, because no
decision modelled here depends on its size. The brokers move on their own (`BrokerMoves`),
the clock ticks between any two steps, fetches of positions and balances fail independently,
an order may land at a fallback venue, and an entry may go unreported. `trusted`, `opened`,
`missed`, `ahead`, `best`, `worst` and `baseDay` are history variables for the properties.
Not in it: the runner's `halted` flag, a second loop (see `TradingLoop`), connectors that are
missing from the registry, and `RealizedDayPnl` and the equity history, which no decision
reads.

**Connectors.** One operator per adapter and request: what the adapter returns for each kind
of answer. An answer is `lost`, `refused` (status), `garbled` (2xx, undecodable), `error`
(2xx, an error in the body) or right; an order's is `accepted`, `partial` or `filled`. The
differences between adapters are the subject: who looks at the status, who at the error in the
body, who reports fills, lists positions, or counts locked dollars. OANDA tells a short in
negative units, which its adapter subtracts (`OandaUnitsHeld`): a short is listed as a long.

**Venues.** One instrument, a chain of venues each behind some connector, with accounts
(`held`, `cash`, `work`: working orders) that fill, withdraw or refuse on their own. `Entry`
and `Exit` submit an order, `NotSent` and `Place` walk it along the chain (`placeOne` with its
slow cancel), `Reconcile` reads the first venue. A part costs one dollar, always, so that any
change of equity is the bot's own bookkeeping. `ledger` is the net of the rows of `LogFill`,
which names the intent's venue in each, whichever venue took the order; the insert may fail or
there may be no store. `elsewhere`, `silent`, `moved` and `told` are history: the rows of orders
a fallback took, the quantity of the primary's orders that no row tells of, whether its account
changed since the snapshot, and how the last reconcile went.

**Strategies.** `OnBar` is the set of a strategy's outcomes on a bar: signals and next state.
Averages, deviations and ranks of earlier prices are not computed; a comparison with them may
go either way where the code lets it: after the warm-up, when ranges have differed, when there
is an earlier average. Sessions, instrument lookup (by venue and symbol, or by symbol only),
stops, targets, legs of pairs and the once-a-day flatten are exact. Prices are counted in
two-thousandths, so that the middle of a quote and the 0.1% a live bar is widened by are whole
numbers. `RunBar` and `Select` are recursive functions, not `RECURSIVE` operators, so that they
can be reasoned about.

**Signals.** A tick visits the instruments in order (`NoQuote`, `Visit`, one `Handle...` step
per signal, `EndVisit`), then `Reconcile`. Sizes are fractions in hundredths of a percent of
the equity per price, so `Quantity`, `PreTrade` and `ExitGeometry` are exact on integers. The
clock, pauses and restarts fall between any two steps. `risked`, `visited` and `excused` are
history: the budget used in this visit, and the instruments a flatten should have closed today
or that have a reason to be held.

**Backtest.** `OpenSlice` (`WalkForward`, `sliceSeries`), `RunBars`, `SkipSignal` or
`TradeSignal` per signal, `EndBar`, `EndSlice`. Quantities, fees and slippage are any of a
small set. In the live phase the steps are those of `Signals`.

## 3. Runs

| Run | Question | Bounds |
|---|---|---|
| `control` | Is at most one loop armed, is a nuke that began before the shutdown never cut short, does its halt disarm, and does what was stopped stop? | 2 loops, clock 0..3, window 1 |
| `paper` | Does `FlattenAll`, which lets go of the lock, account for every fill of others? | 2 symbols, 1 caller, 2 fills |
| `trading_loop` | Do ledger and snapshot follow the venue, do exits close what they were sized for, what do a pause and a halt let through with an old loop still in its tick? | 2 loops, 1 signal, 2 fills (the second by a loop alone), one nuke, no termination signal |
| `trading_live` | Does the detailed loop implement the control plane, fairness included, and settle after a halt? | 1 loop, 1 signal, 1 fill |
| `router` | One intent over three venues whose answers may be lost, slow or silent, beside a sweep | 3 venues of different kinds, 2 slots |
| `portfolio` | Are timers, circuit and baseline right when the data behind them is? | 2 keys at 2 venues, one a fallback of the other; 3 times over 2 days |
| `venues` | How far may ledger, snapshot and equity be from the accounts, and what do exits do? | 2 venues; any of 11 connectors first, Binance or OANDA as fallback; 2 orders of 3 parts, a unit of 2, 6 dollars |
| `signals` | What may entries risk, does the session-end flatten do its work, which strategies can act, what does a walk-forward measure? | 2 instruments, 5 stacks of the ten strategies, 2 quotes, 1 lot, 2 days of 6 minutes; 4 bars, 5 window settings |

Why these bounds suffice. Two loops are the fewest that can be in ticks together, and a third
would be cancelled like the first. The clock passes the confirmation window twice, so a
request can expire between two lookups and be renewed. Two fills give an entry and an exit,
or a fill during a flatten. Three venues with two slots make one wait, and let a failure be
first, in the middle or last. In `portfolio`, midnight falls between time 1 and 2, a hold
lasts one unit, and the results let one venue lose less than the limit and two lose more, so
the circuit can trip for cause. In `venues`, three parts of a two-part unit make OANDA round,
an order can be partial, an entry and an exit follow each other, and two entries use up the
dollars, so an account is emptied; adapters do not interact, so one primary venue at a time and
two kinds of fallback (one that trades cash and one on margin) show what each does. In `signals`
warm-ups last one bar, so every strategy is past them in the first day; the quotes are a whole
and a one-sided book; the session leaves one hour of a day of three; windows overlap, abut,
leave gaps, do not fit, or are switched off.
`trading_loop` leaves the termination signal out by a constraint (`NoTermination`), which
`trading_live` has, ends with the second nuke (`OneNuke`), and lets a loop place a second order
only while no other lives (`AgainOnlyAlone`): two loops have an entry each in hand, and an entry
and its exit follow each other in one. Lists of two signals are in `paused_still_flattens`.

Properties in words stand beside each definition. Every property has a mutant: a plausible
bug in a modelled definition that makes TLC refute it in the same run.

### Disagreements between code and text

Each is a run that expects a violation; the quoted lines are in `PROJECT.json`.

* `nuke_leaves_flat`: a fill that crosses the flatten leaves a position after the halt.
* `paused_still_flattens`: while paused, an entry signal hides the flatten signals behind it.
* `no_duplicate_live_orders`: a lost answer sends the intent to a second venue.
* `exit_flattens`: a short at OANDA is listed as a long, and its exit doubles it.

### What else the models show of the code

These follow from the definitions or are excused in a property; no run repeats them.

* After `/stop` and `/start` two loops can be in `onTick` at once (`OneArmedLoop` is what holds;
  `trading_loop` runs on it).
* A reconcile that crosses midnight stamps the new day on `LastEquityAt`, and no tick of that
  day rolls the baseline (`state.go:82`); `RolledUnlessAhead` excuses exactly that.
* No connector sends `ReduceOnly`. On the venue of the position an exit still only reduces, a
  short at OANDA aside (`ExitReducesHere`); on a fallback venue it opens a position.
* A row of the ledger names the intent's venue even when a fallback took the order, so the drift
  check finds a difference at both (`LedgerGapExplained` sets such rows apart).
* Bybit and OKX place cash orders but list derivatives, and swallow errors of that list; Binance,
  Kraken and Coinbase list nothing. Their snapshots are always flat: no exit is ever due.
* A purchase at a spot venue is a loss to the drawdown circuit: only dollars and unrealized
  profit count (`LossIsSpent` is exact about it). Coinbase drops dollars that orders hold.
* A nuke that gets `runMu` after the shutdown's `StopTrading` returned is cut off when the process
  ends, possibly in the middle of its flatten: `NukeNotCutShort` and `NukeHalts` set it apart by
  `lateNuke`, against the promise to "flatten all and halt" (`telegram.go:225`).
* Rejections in a 2xx body are orders without an id at Bybit, OKX, Coinbase, Alpaca and the
  CCXT sidecar (`RejectionPasses`): `PlaceFallback` returns them as placed and tries no other
  venue, though it is to go on "until the first successful PlaceOrder" (`router.go:186`). Deribit reports fills of orders it calls open.
* Kraken's ticker is decoded without its envelope: every book fails, so no signal
  trades it; only a fallback may.
* Half of a one-sided book's price passes as its middle (`runner.go:435`).
* `CancelAll` does nothing, without an error, at Binance, Bybit, OKX, Kraken, Coinbase and OANDA.
* Without a stop or a notional cap, a buy of the full share is sized by the middle and checked at
  the ask, so `PreTrade` rejects it. A pair's second leg is sized by the first leg's book.
* Live, momentum, volatility and options_gamma never enter and breakout only buys
  (`LiveBarsAreBlind`); momentum, mean reversion and breakout signal every venue of a symbol.
* An overnight session never flattens. The once-a-day flatten is lost when its exit is refused,
  when a pause drops it or when the snapshot is stale (`HeldOvernightHasCause` lists these).
* The backtest ignores flatten signals and the signals' instruments, never runs the training
  bars, and keeps the strategies' state across windows, overlapping ones included; a pair never
  trades there.
* The correlation multiplier is computed and thrown away (`runner.go:572`);
  `max_portfolio_leverage` and `max_venue_exposure_pct` are never read.

### Fairness

Ticks and the nuke's calls are weakly fair: every network call has a timeout. `Boot` and
`Shutdown` wait for a Go mutex, which starves nobody, and `LoopExit` is a ready case of a
`select` that Go resolves at random: strongly fair. `ProcessEnds` is weakly fair: after
`StopTrading` only `srv.Shutdown`, with a context that never ends, can wait, for a scrape of the
metrics in progress. The router's steps are weakly fair since
each of its waits has a deadline; venues owe nothing. Commands, signals, the clock and
brokers have no fairness. `Venues`, `Signals` and `Backtest` state safety only and need none.

## 4. Proofs

All are for any value of the constants, under the `ASSUME`s of the modules (TLC evaluates
them on every run). They say of which kind the constants are, that an instrument list is not
empty, that limits are positive, that a venue is in the chain once; nothing about sizes. Every
invariant and action property of a passing run has a theorem. TLC finds each inductive
invariant named below true on the runs' instances too.

* **RunnerControlProofs.** `ControlIInv` adds to the types, `OneArmedLoop` and
  `NukeNotCutShort` what makes them inductive: a halted runner holds no loop, cancelled loops
  are alive, a nuke in progress is inside the command handler, and an armed request is on
  record with its deadline. From it: types, one armed loop, halt disarms, a nuke begun before
  the shutdown completes, the halt is final, a nuke has a fresh request.
* **PaperConnectorProofs.** `PaperIInv`: one placement per goroutine, and the flattener's
  placement is for exactly what its copy still has to close. From it: types, and that the
  flatten accounts for every position and leaves exactly what others filled. That positions
  are net fills (`PositionsAreTheFills`) is inductive by itself, given what a sum over the
  orders becomes when one is appended.
* **TradingLoopProofs.** First refinement: each step is one of `ControlNext` or leaves the
  control variables alone (`StepsAreControlSteps`), and is one of `PaperNext` for the loops as
  callers, the nuke's cancels aside. Both components' invariants carry over, and `TradingIInv`
  joins them: a placement at the venue is the order in its loop's hand, and the flatten runs
  only inside a nuke. From it: types, the control plane's promises, the flatten's accounts
  beside loops that trade, no order by a loop after the halt, and that a pause leaves each loop
  only the entry in its hand.
  `SnapshotIInv` is about a loop nothing disturbs: it is the only live one, what it fetched is
  what the venue still holds until it replaces the snapshot, and an exit in its hand is as
  large as the position it was decided from. Without these the snapshot property does not
  survive `ReplacePositions`. From it: the snapshot is the venue's truth, exits close what they
  saw. `LedgerIInv`: a fill left out of the table is remembered in `trouble`, so table plus
  fills on their way (a sum over the loops) follow the positions.
* **OrderRouterProofs.** `RouterIInv`: `PlaceFallback` has tried only venues of the route up
  to its position, one at a time; what the router knows of an attempt fits the venue.
  From it: types, one known order, and that recorded fills exist. `SweepReachesAll` needs that a
  sweep has asked every venue it is past.
* **PortfolioProofs.** `PortfolioIInv` adds: flat keys have no entry time; from its
  venue's fetch on a timed position has a row (so the prune spares its timer); while holds
  are enforced, what is due was tried or is still to come;
  the baseline is of the day of the visit or the equity was stamped ahead; the baseline is
  never older than the equity's date nor of a day to come. The last two need that division
  by the length of a day is monotone (`DayIsMonotone`). From it: types, timed positions,
  exits for what is overdue, and the baseline of the day.
  `MoneyIInv` is for the circuit: a total, an equity or a baseline with no failed fetch behind
  it lies between what the venues were worth at worst and at best, or is the initial equity.
  The total half-way through a reconcile is a sum over the venues asked so far, which is why
  `CircuitNeedsLoss` alone is not inductive.
* **VenuesProofs.** Lemmas about each adapter (an order answered reports nothing, or what was
  executed; an error reports nothing; positions and balances are integers) make
  `VenuesIInv`, the types and `LedgerGapExplained` with what still works added to the gap,
  inductive: each step of `Place` adds at least as much to `silent` as it leaves out of the
  ledger, and a fallback's row counts the same on both sides. `AccountsIInv` adds that OANDA
  holds whole units (so its rounding of an exit is the identity), an exit under way is of the
  position the snapshot shows, that snapshot is what the adapter lists of the account as long as
  the account has not changed (of a short at OANDA, the amount), and every dollar that left a
  cash account bought stock. From it: what the equity is short of was spent, and exits reduce.
  For any chain, connectors, sizes and cash.
* **BacktestProofs**, in three parts. `BacktestIInv`: inside a slice the next bar is past what
  was fed; between slices the last bar fed lies before the end of the last window, unless
  windows overlap; and a bar that opened flat is worth no more than at its open while it
  trades. From it: bars in order, and wins that are earlier. For any series, fees and slippage.
  Then the strategies: from any state and bar each `OnBar` yields signals of its instruments
  and a next state of its type, a flatten in its window comes out or was emitted that day,
  and on a bar of one quote the blind strategies stay blind (`OnBarTyped`, `FlattenOutcomes`,
  `LiveOutcomes`); `RunBarInTurn` says that the stack's outcome is each strategy's in turn.
  Then the loop: `LoopIInv` says that a flatten emitted today was emitted on a visit in its
  window, that whatever is held has an excuse or a flatten pending, and that the budget used
  leaves one share for every active signal still to come; and that `volatility` has seen one
  range only, the width of a live bar. From it: types, one budget per visit, flattens with
  their causes, blind strategies; for any stack, quotes and limits.
* **SumProofs.** What a sum over a finite set is after one term is added, removed or
  changed, and that sums compare as their terms do; that a function defined by recursion along
  a sequence exists. The community modules define sums by folds and the library's induction
  theorems take an operator, which no backend instantiates; induction here is on the *set* of
  the subsets (or of the positions) for which a statement holds, with the well-foundedness of
  the strict subset ordering from the library. No axiom is added.

Only model-checked, because liveness and `ENABLED` are outside the prover: `CanceledLoopExits`,
`NukeHalts`, `SignalEndsProcess`, `FlattenEnds`, `CallReturns`, `HaltSettles`, and the fairness
half of `ImplementsControl`. The four violations are counterexamples and need no proof.
`HaltIsFinal` and `NukeNeedsFreshRequest` are proved and not repeated by a run, and so are
`FlattenAccounts`, `FlattenLeavesOnlyLaterFills` and `PositionsAreNetFills` of the venue inside
`TradingLoop`.

## 5. Not modelled

* Request building, signing, encoding and the fields of answers no decision reads; OANDA's
  `UpdateTradeExits`, which `placeOrder` calls through `exchange.TradeExitUpdater` after a fill
  with a trade id and a stop or a target (`runner.go:693`): it changes only the broker's own stop
  and target, and its error is only logged.
* A `volatility` strategy with an `expansion_ratio` below 1: the model takes equal ranges as no
  expansion. The shipped configurations and the default have 1.15; the code accepts any value.
* Averages, deviations, ranks and model scores of strategies (nondeterministic), with the
  machine-learning helpers behind them; the allocator and correlation monitor, whose results the
  runner discards; `VaRCVaR`, which a chat command prints.
* Prices that move, in `Venues`; order sizes other than one lot, in `Signals`: there the size
  counts as a share of the budget.
* TWAP and VWAP slicing, which nothing calls.
* Rate-limiter arithmetic (a wait that ends or fails), the periodic Telegram report, message
  splitting, configuration parsing and defaults, reading CSV files, report ratios; metrics,
  secrets and charts.

Quantities are integers and compared exactly where the code compares floats with a tolerance.

## 6. Plan

1. *Proofs*: the parts of liveness arguments that are safety (what a fair step needs stays
   enabled until it is taken, a measure that falls), as lemmas beside the runs that check the
   liveness.
2. *Composition*: `Portfolio`'s fetches and unreported fills taken from `Connectors` instead of
   left free, so that `HeldIsTimed` can be said per connector; the lemmas of `VenuesProofs`
   about adapters are what its proof would rest on.
3. *Algorithms*: the rate limiter's bucket and message splitting as checked operators.
