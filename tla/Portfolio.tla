------------------------------ MODULE Portfolio ------------------------------
(***************************************************************************)
(* What one loop of the bot believes of its accounts: portfolio.State      *)
(* (position rows, equity, day baseline) as reconcilePortfolio writes it,  *)
(* the hold timers of max_position_hold, and the drawdown circuit that     *)
(* reads them, beside brokers and markets that move on their own, fetches  *)
(* that fail, fills a connector does not report, orders a fallback venue   *)
(* takes, midnight anywhere in a tick, and restarts of the process.        *)
(*                                                                         *)
(* A key is an instrument at a venue.  A position is open or flat: no      *)
(* decision here depends on its size.  Prices are left out: a venue's      *)
(* worth is its USD balance plus the unrealized result of its positions.   *)
(***************************************************************************)
EXTENDS Integers, Sequences, Functions

CONSTANTS
  Keys, Venues,
  VenueOf,      \* the venue of each key
  Instruments,  \* the keys the loop trades, in order
  Elsewhere,    \* per key: the same symbol at its fallback venues
  Cash,         \* USD balance per venue
  Results,      \* unrealized results a venue may show
  StartEquity,  \* what NewState is given
  HardPct,      \* risk.daily_drawdown_hard_pct
  MaxHold,      \* risk.max_position_hold
  DayLength, MaxTime      \* bound: the clock stops at MaxTime

Traded == {Instruments[i] : i \in DOMAIN Instruments}
Polled == {VenueOf[k] : k \in Traded}

ASSUME PortfolioAssumption ==
  /\ VenueOf \in [Keys -> Venues] /\ Instruments \in Seq(Keys) /\ Instruments # <<>>
  /\ Elsewhere \in [Keys -> SUBSET Keys]
  /\ Cash \in [Venues -> Nat] /\ Results \subseteq Int /\ 0 \in Results
  /\ StartEquity \in Nat /\ HardPct \in Nat \ {0} /\ MaxHold \in Nat \ {0}
  /\ DayLength \in Nat \ {0} /\ MaxTime \in Nat

VARIABLES
  clock,
  open,         \* keys with a position, at the brokers
  pc,           \* "idle", "visit", "signals", "reconcile", "prune", "holds"
  todo,         \* instruments the phase still has to go through
  polls,        \* venues the reconcile still has to ask
  now,          \* the time onTick or enforceMaxHoldExits took at its start
  total,        \* equity the reconcile has added up
  rows,         \* keys with a row of nonzero quantity in State.Positions
  entered,      \* posEnteredAt
  equity, dayStart, equityAt,   \* EquityUSD, DayStartEquity, LastEquityAt
  opened,       \* history: last entry reported filled while the key is open
  missed,       \* history: open keys a fetch left out since that entry
  tried,        \* history: keys this tick tried a max-hold exit for
  best, worst,  \* history: extreme results its fetches showed, per venue
  trusted,      \* history: the amounts that no failed fetch is in
  baseDay,      \* history: the day dayStart was taken on
  ahead         \* history: equity was stamped with a day no tick had seen

brokerVars == <<open, best, worst, opened, missed>>
stateVars == <<rows, entered>>
equityVars == <<equity, dayStart, equityAt, trusted, baseDay, ahead>>
tickVars == <<pc, todo, polls, now, total, tried>>
portfolioVars == <<clock, brokerVars, stateVars, equityVars, tickVars>>

NoTime == -1
Never == [k \in Keys |-> NoTime]
Even == [v \in Venues |-> 0]
Day(t) == t \div DayLength
AtLeastZero(x) == IF x > 0 THEN x ELSE 0

(* CheckDailyDrawdown's hard flag. *)
Hard == dayStart > 0 /\ (dayStart - equity) * 100 >= HardPct * dayStart

PortfolioTypeOK ==
  /\ clock \in Nat
  /\ open \in SUBSET Keys /\ rows \in SUBSET Keys
  /\ best \in [Venues -> Int] /\ worst \in [Venues -> Int]
  /\ pc \in {"idle", "visit", "signals", "reconcile", "prune", "holds"}
  /\ todo \in Seq(Traded) /\ (pc = "signals" => todo # <<>>)
  /\ polls \in SUBSET Polled
  /\ now \in 0..clock
  /\ total \in Nat
  /\ entered \in [Keys -> NoTime..clock] /\ opened \in [Keys -> NoTime..clock]
  /\ missed \in SUBSET open /\ tried \in SUBSET Traded
  /\ equity \in Nat /\ dayStart \in Nat /\ equityAt \in 0..clock
  /\ trusted \in SUBSET {"total", "equity", "dayStart"}
  /\ baseDay \in Nat /\ ahead \in BOOLEAN

PortfolioInit ==
  /\ clock = 0 /\ open = {} /\ best = Even /\ worst = Even
  /\ pc = "idle" /\ todo = <<>> /\ polls = {} /\ now = 0 /\ total = 0
  /\ rows = {} /\ entered = Never
  /\ equity = StartEquity /\ dayStart = StartEquity /\ equityAt = 0
  /\ opened = Never /\ missed = {} /\ tried = {}
  /\ trusted = {"equity", "dayStart"} /\ baseDay = 0 /\ ahead = FALSE

----------------------------------------------------------------------------
(* The world outside. *)

ClockTick ==
  /\ clock < MaxTime /\ clock' = clock + 1
  /\ UNCHANGED <<brokerVars, stateVars, equityVars, tickVars>>

(* The open keys become S; flat keys lose their history. *)
Holding(S) ==
  /\ open' = S
  /\ opened' = [k \in Keys |-> IF k \in S THEN opened[k] ELSE NoTime]
  /\ missed' = missed \cap S

(* A stop or target held by the broker closes a position, or somebody      *)
(* else trades on the account.                                             *)
BrokerMoves(k) ==
  /\ Holding(IF k \in open THEN open \ {k} ELSE open \cup {k})
  /\ UNCHANGED <<clock, best, worst, stateVars, equityVars, tickVars>>

(* The process ends and starts again: State and Runner are in memory only. *)
Restart ==
  /\ pc' = "idle" /\ todo' = <<>> /\ polls' = {} /\ now' = clock /\ total' = 0 /\ tried' = {}
  /\ rows' = {} /\ entered' = Never /\ opened' = Never /\ missed' = {}
  /\ equity' = StartEquity /\ dayStart' = StartEquity /\ equityAt' = clock
  /\ trusted' = {"equity", "dayStart"} /\ baseDay' = Day(clock) /\ ahead' = FALSE
  /\ best' = Even /\ worst' = Even
  /\ UNCHANGED <<clock, open>>

----------------------------------------------------------------------------
(* onTick, instrument by instrument. *)

TickStart ==
  /\ pc = "idle" /\ pc' = "visit" /\ todo' = Instruments /\ tried' = {}
  /\ UNCHANGED <<clock, brokerVars, stateVars, equityVars, polls, now, total>>

Baseline ==
  /\ dayStart' = equity /\ baseDay' = Day(clock) /\ ahead' = FALSE
  /\ trusted' = IF "equity" \in trusted THEN trusted \cup {"dayStart"}
                                       ELSE trusted \ {"dayStart"}

(* Plausible bug: the day rolls a full day after the last update. *)
RollAfterFullDay ==
  IF clock - equityAt >= DayLength THEN Baseline
  ELSE UNCHANGED <<dayStart, baseDay, ahead, trusted>>

(* Today is compared with the date of the last equity update. *)
RollDailyIfNeeded ==
  IF Day(equityAt) # Day(clock) THEN Baseline
  ELSE UNCHANGED <<dayStart, baseDay, ahead, trusted>>

(* Plausible bug: the loop indexes past its last instrument. *)
BeginVisitPastEnd ==
  /\ pc = "visit" /\ pc' = "signals"
  /\ RollDailyIfNeeded /\ now' = clock
  /\ UNCHANGED <<clock, brokerVars, stateVars, equity, equityAt, todo, polls, total, tried>>

BeginVisit ==
  /\ pc = "visit" /\ todo # <<>> /\ pc' = "signals"
  /\ RollDailyIfNeeded /\ now' = clock
  /\ UNCHANGED <<clock, brokerVars, stateVars, equity, equityAt, todo, polls, total, tried>>

(* What an order for k leaves open.  It is filled there or, that venue     *)
(* failing, elsewhere; no connector passes ReduceOnly on.                  *)
AfterOrder(k) ==
  UNION {{open \cup {where}, open \ {where}} : where \in {k} \cup Elsewhere[k]}

(* Plausible bug: an entry on a key that has a timer keeps it. *)
TrackFirst(k) ==
  entered' = [entered EXCEPT ![k] = IF @ = NoTime THEN now ELSE @]

(* markPositionOpened: the key is the intent's, wherever the fill was. *)
Track(k) == entered' = [entered EXCEPT ![k] = now]

(* An entry on the visited instrument that the answer reports as filled. *)
Entry ==
  /\ pc = "signals" /\ ~Hard
  /\ LET k == Head(todo)
     IN /\ \E S \in AfterOrder(k) :
             /\ open' = S
             /\ opened' = [j \in Keys |-> IF j \notin S THEN NoTime
                                          ELSE IF j = k THEN now ELSE opened[j]]
             /\ missed' = (missed \cap S) \ {k}
        /\ Track(k)
  /\ UNCHANGED <<clock, best, worst, rows, equityVars, tickVars>>

(* An exit by signal, or an entry whose answer reports no fill. *)
UntrackedOrder ==
  /\ pc = "signals" /\ ~Hard
  /\ \E S \in AfterOrder(Head(todo)) : Holding(S)
  /\ UNCHANGED <<clock, best, worst, stateVars, equityVars, tickVars>>

EndVisit ==
  /\ pc = "signals" /\ pc' = "visit" /\ todo' = Tail(todo)
  /\ UNCHANGED <<clock, brokerVars, stateVars, equityVars, polls, now, total, tried>>

----------------------------------------------------------------------------
(* reconcilePortfolio *)

StartReconcile ==
  /\ pc = "visit" /\ todo = <<>> /\ pc' = "reconcile"
  /\ polls' = Polled /\ total' = 0 /\ trusted' = trusted \cup {"total"}
  /\ UNCHANGED <<clock, brokerVars, stateVars, equity, dayStart, equityAt, baseDay, ahead,
                 todo, now, tried>>

At(v) == {k \in Keys : VenueOf[k] = v}

(* Plausible bug: each venue overwrites the total. *)
AddUpLast(cash, result) == AtLeastZero(cash + result)

(* USD balances plus unrealized results, if they are worth something. *)
AddUp(cash, result) == total + AtLeastZero(cash + result)

(* The positions are listed, worth r; their venue's rows are replaced. *)
Listed(v, r, cash) ==
  /\ rows' = (rows \ At(v)) \cup (open \cap At(v))
  /\ total' = AddUp(cash, r)
  /\ best' = [best EXCEPT ![v] = IF r > @ THEN r ELSE @]
  /\ worst' = [worst EXCEPT ![v] = IF r < @ THEN r ELSE @]
  /\ trusted' = IF cash = Cash[v] THEN trusted ELSE trusted \ {"total"}
  /\ UNCHANGED missed

(* The fetch fails: the rows are replaced all the same, by none. *)
NotListed(v, cash) ==
  /\ rows' = rows \ At(v)
  /\ total' = AddUp(cash, 0)
  /\ missed' = missed \cup (open \cap At(v))
  /\ trusted' = trusted \ {"total"}
  /\ UNCHANGED <<best, worst>>

(* One venue, in any order; no cash if its balances cannot be fetched. *)
ReconcileVenue(v) ==
  /\ pc = "reconcile" /\ v \in polls /\ polls' = polls \ {v}
  /\ \E cash \in {0, Cash[v]} :
       (\E r \in Results : Listed(v, r, cash)) \/ NotListed(v, cash)
  /\ UNCHANGED <<clock, open, opened, entered, equity, dayStart, equityAt, baseDay, ahead,
                 pc, todo, now, tried>>

(* A total of nothing keeps the equity; its date is new either way. *)
SetEquity ==
  /\ pc = "reconcile" /\ polls = {} /\ pc' = "prune"
  /\ equity' = IF total > 0 THEN total ELSE equity
  /\ trusted' = IF total = 0 THEN trusted \ {"total"}
                ELSE IF "total" \in trusted THEN (trusted \ {"total"}) \cup {"equity"}
                ELSE trusted \ {"equity"}
  /\ equityAt' = clock
  /\ ahead' = (ahead \/ Day(clock) > Day(now))
  /\ UNCHANGED <<clock, brokerVars, stateVars, dayStart, baseDay, todo, polls, now, total, tried>>

----------------------------------------------------------------------------
(* enforceMaxHoldExits *)

Prune ==
  /\ pc = "prune" /\ pc' = "holds" /\ todo' = Instruments /\ now' = clock
  /\ entered' = [k \in Keys |-> IF k \in rows THEN entered[k] ELSE NoTime]
  /\ UNCHANGED <<clock, brokerVars, rows, equityVars, polls, total, tried>>

Due(k) == k \in rows /\ entered[k] # NoTime /\ now - entered[k] >= MaxHold

(* Plausible bug: the loop ends at the first instrument that is not due. *)
SkipHoldReturns ==
  /\ pc = "holds" /\ todo # <<>>
  /\ ~Due(Head(todo)) \/ Hard
  /\ todo' = <<>>
  /\ UNCHANGED <<clock, brokerVars, stateVars, equityVars, pc, polls, now, total, tried>>

(* Nothing to exit, or the hard circuit, which holds exits back as well. *)
SkipHold ==
  /\ pc = "holds" /\ todo # <<>>
  /\ ~Due(Head(todo)) \/ Hard
  /\ todo' = Tail(todo)
  /\ UNCHANGED <<clock, brokerVars, stateVars, equityVars, pc, polls, now, total, tried>>

(* closeVenuePosition: the exit may be filled, here or elsewhere, or fail. *)
ExitHold ==
  /\ pc = "holds" /\ todo # <<>> /\ Due(Head(todo)) /\ ~Hard
  /\ tried' = tried \cup {Head(todo)} /\ todo' = Tail(todo)
  /\ \E S \in {open} \cup AfterOrder(Head(todo)) : Holding(S)
  /\ UNCHANGED <<clock, best, worst, stateVars, equityVars, pc, polls, now, total>>

EndTick ==
  /\ pc = "holds" /\ todo = <<>> /\ pc' = "idle"
  /\ UNCHANGED <<clock, brokerVars, stateVars, equityVars, todo, polls, now, total, tried>>

----------------------------------------------------------------------------
World ==
  \/ ClockTick
  \/ \E k \in Keys : BrokerMoves(k)
  \/ Restart

Loop ==
  \/ TickStart \/ BeginVisit \/ Entry \/ UntrackedOrder \/ EndVisit
  \/ StartReconcile \/ (\E v \in Polled : ReconcileVenue(v)) \/ SetEquity
  \/ Prune \/ SkipHold \/ ExitHold \/ EndTick

PortfolioNext == World \/ Loop

PortfolioSpec == PortfolioInit /\ [][PortfolioNext]_portfolioVars

----------------------------------------------------------------------------
(* A position the bot knows to have entered, and that every fetch since    *)
(* has listed, carries the time of that entry (posEnteredAt).              *)
HeldIsTimed ==
  \A k \in (Traded \cap open) \ missed : opened[k] # NoTime => entered[k] = opened[k]

(* When enforceMaxHoldExits ends, each such position that has been held    *)
(* for max_position_hold was given an exit, the hard circuit aside.        *)
OverdueIsExited ==
  pc = "holds" /\ todo = <<>> /\ ~Hard =>
    \A k \in (Traded \cap open) \ missed :
      opened[k] # NoTime /\ now - opened[k] >= MaxHold => k \in tried

(* The sum of what the polled venues were worth at results r. *)
Account(r) == SumFunction([v \in Polled |-> AtLeastZero(Cash[v] + r[v])])

(* With every fetch behind both amounts successful, CheckDailyDrawdown is  *)
(* hard only if the accounts did lose that share of what they were worth   *)
(* at best (or of the initial equity).                                     *)
CircuitNeedsLoss ==
  {"equity", "dayStart"} \subseteq trusted /\ Hard =>
    LET most == IF Account(best) > StartEquity THEN Account(best) ELSE StartEquity
    IN (most - Account(worst)) * 100 >= HardPct * most

(* Signals are judged by a baseline of the tick's own day, unless a        *)
(* reconcile has stamped that day before a tick of it could roll.          *)
RolledUnlessAhead == pc = "signals" => baseDay = Day(now) \/ ahead
=============================================================================
