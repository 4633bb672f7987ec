------------------------------- MODULE Backtest -------------------------------
(***************************************************************************)
(* The two programs main starts on a stack built from one configuration:   *)
(* the trading loop of Signals, or runBacktest, which runs the stack over  *)
(* the windows of a series of bars and fills its signals at the close.     *)
(*                                                                         *)
(* Prices and cash are integers.  What the risk fraction makes of a signal *)
(* is any quantity up to MaxQty; slippage (scaled by a random number) and  *)
(* fees are any of small sets.                                             *)
(***************************************************************************)
EXTENDS Signals

CONSTANTS
  Series,         \* bars: sequences of [open, high, low, close]
  WindowConfigs,  \* walk_forward: records of train, test, step, maybe not positive
  InitialEquity, MaxQty, Slips, Fees

ASSUME BacktestAssumption ==
  /\ Series \in Seq([open : Nat, high : Nat, low : Nat, close : Nat])
  /\ WindowConfigs \subseteq [train : Int, test : Int, step : Int]
  /\ InitialEquity \in Nat /\ MaxQty \in Nat /\ Slips \subseteq Nat /\ Fees \subseteq Nat

VARIABLES
  phase,          \* Live, or what runBacktest does next
  walk,           \* the walk-forward configuration
  start,          \* start of the window
  bar, end,       \* next bar of the series to be run, and the end of the slice
  signals,        \* signals of the bar not yet handled
  cash, held,     \* the simulated account
  openMark,       \* what it was worth at the bar's open
  traded, wins, losses,
  canceled,       \* the signal context
  fed,            \* history: the bar the strategies saw last
  heldOpen        \* history: held at the bar's open

sliceVars == <<walk, start, bar, end>>
simVars == <<cash, held, openMark, traded, wins, losses, heldOpen>>
backtestVars == <<phase, sliceVars, signals, simVars, canceled, fed>>
botVars == <<signalsVars, backtestVars>>
liveVars == <<stack, clock, paused, accountVars, tickVars, flatVars>>

Live == "live"
Total == Len(Series)
NoBar == -1
Nothing == <<>>

BacktestTypeOK ==
  /\ phase = Live => SignalsTypeOK
  /\ phase \in {Live, "slice", "bars", "trade", "done"}
  /\ walk \in WindowConfigs
  /\ (phase # "done" => start \in Nat)
  /\ bar \in 0..end /\ end \in 0..Total /\ (phase = "trade" => bar < end)
  /\ cash \in Int /\ held \in Int /\ openMark \in Int /\ heldOpen \in Int
  /\ traded \in BOOLEAN /\ wins \in Nat /\ losses \in Nat /\ wins + losses <= bar
  /\ canceled \in BOOLEAN /\ fed \in NoBar..(Total - 1)

(* main asks for the mode before it builds anything else. *)
BotInit ==
  /\ SignalsInit
  /\ phase \in {Live, "slice"} /\ walk \in WindowConfigs
  /\ phase = Live => walk = CHOOSE w \in WindowConfigs : TRUE   \* not read
  /\ start = 0 /\ bar = 0 /\ end = 0 /\ signals = Nothing
  /\ cash = InitialEquity /\ held = 0 /\ openMark = 0 /\ heldOpen = 0
  /\ traded = FALSE /\ wins = 0 /\ losses = 0 /\ canceled = FALSE /\ fed = NoBar

----------------------------------------------------------------------------
(* WalkForward: a window fits if its test bars do; none if a length is not *)
(* positive, and then the whole series is run.                             *)
Fits(s) ==
  /\ walk.train > 0 /\ walk.test > 0 /\ walk.step > 0
  /\ s + walk.train + walk.test <= Total
(* Plausible bug: the next window starts one bar early. *)
NextStartEarly(s) == s + walk.step - 1
NextStart(s) == s + walk.step

Slice(from, to) ==
  /\ phase' = "bars" /\ bar' = from /\ end' = to
  /\ cash' = InitialEquity /\ held' = 0 /\ wins' = 0 /\ losses' = 0 /\ traded' = FALSE
  /\ openMark' = 0 /\ heldOpen' = 0

(* sliceSeries of the test bars; the same stack for every window. *)
OpenSlice ==
  /\ phase = "slice"
  /\ IF Fits(start) THEN Slice(start + walk.train, start + walk.train + walk.test)
                    ELSE Slice(0, Total)
  /\ UNCHANGED <<liveVars, sts, walk, start, signals, canceled, fed>>

EndSlice ==
  /\ phase = "bars" /\ (bar = end \/ canceled)
  /\ start' = NextStart(start)
  /\ phase' = IF Fits(start) /\ Fits(start') THEN "slice" ELSE "done"
  /\ UNCHANGED <<liveVars, sts, walk, bar, end, signals, simVars, canceled, fed>>

Cancel ==
  /\ phase # Live /\ ~canceled /\ canceled' = TRUE
  /\ UNCHANGED <<liveVars, sts, phase, sliceVars, signals, simVars, fed>>

----------------------------------------------------------------------------
(* RunSimple, on bars of a minute each. *)
Bar == Series[bar + 1]
Mark(price) == cash + held * price

RunBars ==
  /\ phase = "bars" /\ bar < end /\ ~canceled
  /\ LET b == [ins |-> Head(Instruments), open |-> Bar.open, high |-> Bar.high,
               low |-> Bar.low, close |-> Bar.close]
     IN \E r \in RunBar(stack, sts, b, bar) : sts' = r.st /\ signals' = r.sigs
  /\ phase' = "trade" /\ openMark' = Mark(Bar.open) /\ traded' = FALSE
  /\ fed' = bar /\ heldOpen' = held
  /\ UNCHANGED <<liveVars, sliceVars, cash, held, wins, losses, canceled>>

(* FillSim.Apply: the price of a fill.                                     *)
(* Plausible bug: the slippage is in the trade's favour. *)
ApplyInFavour(mid, side, slip) == mid - side * slip
Apply(mid, side, slip) == mid + side * slip

(* Neither the signal's instrument nor its flatten flag matters. *)
Skips(s) == ~Active(s) \/ Mark(Bar.close) <= 0 \/ Bar.close = 0

SkipSignal ==
  /\ phase = "trade" /\ signals # Nothing /\ Skips(Head(signals)) /\ signals' = Tail(signals)
  /\ UNCHANGED <<liveVars, sts, phase, sliceVars, simVars, canceled, fed>>

TradeSignal ==
  /\ phase = "trade" /\ signals # Nothing /\ ~Skips(Head(signals))
  /\ signals' = Tail(signals) /\ traded' = TRUE
  /\ \E q \in 1..MaxQty, slip \in Slips, fee \in Fees :
       LET side == Sgn(Head(signals).dir)
       IN /\ cash' = cash - side * q * Apply(Bar.close, side, slip) - fee
          /\ held' = held + side * q
  /\ UNCHANGED <<liveVars, sts, phase, sliceVars, openMark, heldOpen, wins, losses, canceled, fed>>

EndBar ==
  /\ phase = "trade" /\ signals = Nothing
  /\ LET delta == Mark(Bar.close) - openMark
     IN /\ wins' = IF traded /\ delta > 0 THEN wins + 1 ELSE wins
        /\ losses' = IF traded /\ delta < 0 THEN losses + 1 ELSE losses
  /\ bar' = bar + 1 /\ phase' = "bars"
  /\ UNCHANGED <<liveVars, sts, walk, start, end, signals, cash, held, openMark, traded,
                 heldOpen, canceled, fed>>

BotNext ==
  \/ phase = Live /\ SignalsNext /\ UNCHANGED backtestVars
  \/ OpenSlice \/ RunBars \/ SkipSignal \/ TradeSignal \/ EndBar \/ EndSlice \/ Cancel

BotSpec == BotInit /\ [][BotNext]_botVars

----------------------------------------------------------------------------
(* The strategies keep their state from window to window (main.go:255).    *)
(* They see each bar once and in order, unless the windows overlap.        *)
FeedsBar == phase = "bars" /\ phase' = "trade"
BarsInOrder == [][FeedsBar /\ (walk.step >= walk.test \/ ~Fits(start)) => bar > fed]_botVars

(* The bars a run counts as won are earned by what was held before the     *)
(* bar: fills at the close cost, they never gain (engine.go:205-214).      *)
WinsAreEarlier == [][wins' > wins => heldOpen # 0]_botVars
===============================================================================
