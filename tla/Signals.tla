-------------------------------- MODULE Signals --------------------------------
(***************************************************************************)
(* From a quote to an order, live: Runner.onTick with the strategy stack   *)
(* it runs on a bar made of the quote, the sizing of entries, and          *)
(* risk.Engine.PreTrade; the operator's pause, the clock, fetches that     *)
(* fail and restarts around them.                                          *)
(*                                                                         *)
(* An order that passes fills or fails at once, one lot of its side        *)
(* (Venues has what else may become of it); what its quantity comes to is  *)
(* kept as the share of the risk budget it uses.  The kill switch, the     *)
(* drawdown circuit (Portfolio), the depth of the book and an equity of    *)
(* nothing can refuse any order at any time.  The halted flag is in        *)
(* TradingLoop.                                                            *)
(***************************************************************************)
EXTENDS Strategies, FiniteSets

CONSTANTS
  Instruments,   \* resolveLoopInstruments: what a tick visits, in order
  Configs,       \* the strategy lists a configuration may have
  Quotes,        \* top-of-book prices: [bid, ask]; 0 is a side without one
  RiskPct,       \* risk.max_risk_per_trade_pct
  NotionalPct,   \* risk.max_notional_per_trade_pct, 0 is off
  SpreadPct,     \* twice max_slippage_bps_default, in percent, 0 is off
  RequireBrokerStops, ExitOnOppositeSignal,
  MaxPos, MaxTime   \* bounds: lots held, the clock

ASSUME SignalsAssumption ==
  /\ Instruments \in Seq(Ins) /\ Instruments # <<>>
  /\ Configs \subseteq Seq(StrategyCfg)
  /\ Quotes \subseteq [bid : Nat, ask : Nat]
  /\ RiskPct \in Nat \ {0} /\ NotionalPct \in Nat /\ SpreadPct \in Nat
  /\ RequireBrokerStops \in BOOLEAN /\ ExitOnOppositeSignal \in BOOLEAN
  /\ MaxPos \in Nat /\ MaxTime \in Nat

VARIABLES
  stack, sts,    \* the strategies and their states
  clock, paused,
  pos,           \* lots held, per instrument
  snap,          \* State.Positions, of the last reconcile
  todo,          \* instruments the tick still has to visit
  visit,         \* onTick: the instrument, its quote, active signals; or NoVisit
  sigs,          \* signals it still has to look at
  risked,        \* history: percent of the budget times active, of this visit
  visited,       \* history: instruments visited in a flatten window today
  excused        \* history: instruments with a reason to be held tonight

stratVars == <<stack, sts>>
accountVars == <<pos, snap>>
tickVars == <<todo, visit, sigs, risked>>
flatVars == <<visited, excused>>
signalsVars == <<stratVars, clock, paused, accountVars, tickVars, flatVars>>

NoVisit == [ins |-> 0]
Sgn(n) == IF n < 0 THEN -1 ELSE IF n > 0 THEN 1 ELSE 0
Size(n) == IF n < 0 THEN -n ELSE n
Visiting == visit # NoVisit

SignalsTypeOK ==
  /\ Len(sts) = Len(stack)
  /\ clock \in 0..MaxTime /\ paused \in BOOLEAN
  /\ pos \in [Ins -> -MaxPos..MaxPos] /\ snap \in [Ins -> -MaxPos..MaxPos]
  /\ todo \in Seq(Range(Instruments)) /\ (Visiting => todo # <<>> /\ visit.ins = Head(todo))
  /\ \A k \in DOMAIN sigs : sigs[k].ins \in Ins /\ sigs[k].dir \in -100..100
                            /\ sigs[k].conf \in 0..100
  /\ (sigs # <<>> => Visiting)
  /\ risked \in Nat /\ visited \subseteq Ins /\ excused \subseteq Ins
  /\ \A k \in DOMAIN sts : \A i \in Ins : sts[k].emitted[i] \in NoDay..Day(clock)

SignalsInit ==
  /\ \E cfgs \in {c \in Configs : Builds(c)} : stack = BuildFromConfig(cfgs)
  /\ sts = [k \in DOMAIN stack |-> Fresh]
  /\ clock = 0 /\ paused = FALSE
  /\ pos = [i \in Ins |-> 0] /\ snap = [i \in Ins |-> 0]
  /\ todo = Instruments /\ visit = NoVisit /\ sigs = <<>> /\ risked = 0
  /\ visited = {} /\ excused = Ins

----------------------------------------------------------------------------
(* Around the loop *)

ClockTick ==
  /\ clock < MaxTime /\ clock' = clock + 1
  /\ IF Day(clock') = Day(clock) THEN UNCHANGED flatVars ELSE visited' = {} /\ excused' = Ins
  /\ UNCHANGED <<stratVars, paused, accountVars, tickVars>>

SetPaused(b) ==
  /\ paused # b /\ paused' = b
  /\ UNCHANGED <<stratVars, clock, accountVars, tickVars, flatVars>>

(* Strategies, snapshot and flags are in memory only. *)
Restart ==
  /\ sts' = [k \in DOMAIN stack |-> Fresh] /\ paused' = FALSE
  /\ snap' = [i \in Ins |-> 0] /\ todo' = Instruments /\ visit' = NoVisit /\ sigs' = <<>>
  /\ risked' = 0 /\ visited' = {} /\ excused' = Ins
  /\ UNCHANGED <<stack, clock, pos>>

----------------------------------------------------------------------------
(* onTick *)

(* The bar of one quote: its middle, with 0.1% on either side.             *)
(* Plausible bug: the bid stands for the open. *)
LiveBarFromBid(i, q) ==
  LET sum == q.bid + q.ask
  IN [ins |-> i, open |-> 2000 * q.bid, close |-> 1000 * sum,
      high |-> 1001 * sum, low |-> 999 * sum]
LiveBar(i, q) ==
  LET sum == q.bid + q.ask
  IN [ins |-> i, open |-> 1000 * sum, close |-> 1000 * sum,
      high |-> 1001 * sum, low |-> 999 * sum]

Active(s) == s.conf > 0 /\ s.dir # 0
CountActive(ss) == Cardinality({k \in DOMAIN ss : Active(ss[k])})

(* Universes of the strategies that flatten in a window open at t.         *)
Flattened(i, t) == \E k \in DOMAIN stack : /\ stack[k].type = "flatten_session_end"
                                           /\ Flattens(stack[k], i, t)

(* No connector, no quote, or a middle of nothing. *)
NoQuote ==
  /\ ~Visiting /\ todo # <<>> /\ todo' = Tail(todo)
  /\ UNCHANGED <<stratVars, clock, paused, accountVars, visit, sigs, risked, flatVars>>

Visit ==
  /\ ~Visiting /\ todo # <<>>
  /\ LET i == Head(todo) IN
     /\ \E q \in Quotes : /\ q.bid + q.ask > 0
          /\ \E r \in RunBar(stack, sts, LiveBar(i, q), clock) :
               /\ sts' = r.st /\ sigs' = r.sigs
               /\ visit' = [ins |-> i, quote |-> q, active |-> CountActive(r.sigs)]
     /\ risked' = 0
     /\ IF Flattened(i, clock) /\ i \notin visited
        THEN visited' = visited \cup {i} /\ excused' = excused \ {i}
        ELSE UNCHANGED flatVars
  /\ UNCHANGED <<stack, clock, paused, accountVars, todo>>

(* Plausible bug: the loop's variable outlives the visit. *)
EndVisitKept ==
  /\ Visiting /\ sigs = <<>> /\ todo' = Tail(todo) /\ risked' = 0
  /\ UNCHANGED <<stratVars, clock, paused, accountVars, visit, sigs, flatVars>>
EndVisit ==
  /\ Visiting /\ sigs = <<>> /\ visit' = NoVisit /\ todo' = Tail(todo) /\ risked' = 0
  /\ UNCHANGED <<stratVars, clock, paused, accountVars, sigs, flatVars>>

Handling(kinds) ==
  /\ sigs # <<>> /\ Head(sigs).flatten \in kinds
  /\ UNCHANGED <<stratVars, clock, paused, snap, todo, visit, visited>>

Fills(i, n) == Size(pos[i] + n) <= MaxPos /\ pos' = [pos EXCEPT ![i] = @ + n]

(* closeVenuePosition *)
Exit(i) ==
  \/ Fills(i, -snap[i]) /\ excused' = IF snap[i] = pos[i] THEN excused ELSE excused \cup {i}
  \/ UNCHANGED pos /\ excused' = excused \cup {i}

HandleFlatten ==
  /\ Handling({TRUE}) /\ sigs' = Tail(sigs) /\ UNCHANGED risked
  /\ LET i == Head(sigs).ins IN
     IF snap[i] # 0 THEN Exit(i)
     ELSE UNCHANGED pos /\ excused' = IF pos[i] = 0 THEN excused ELSE excused \cup {i}

(* The first other signal ends the list while paused. *)
HandlePaused ==
  /\ Handling({FALSE}) /\ paused /\ sigs' = <<>> /\ UNCHANGED <<pos, risked>>
  /\ excused' = excused \cup {sigs[k].ins : k \in {j \in DOMAIN sigs : sigs[j].flatten}}

Opposes(s) == ExitOnOppositeSignal /\ snap[s.ins] * s.dir < 0

HandleOpposite ==
  /\ Handling({FALSE}) /\ ~paused /\ Opposes(Head(sigs))
  /\ sigs' = Tail(sigs) /\ UNCHANGED risked
  /\ Exit(Head(sigs).ins)

----------------------------------------------------------------------------
(* Sizing and PreTrade, always at the quote of the visited instrument.     *)
Mid == 1000 * (visit.quote.bid + visit.quote.ask)
Ref(s) == 2000 * (IF s.dir > 0 THEN visit.quote.ask ELSE visit.quote.bid)
Distance(s) == Size(Ref(s) - s.stop)
HasStop(s) == s.stop > 0

(* |direction| * confidence in percent, spread over the active signals.    *)
Share(s) == (Size(s.dir) * s.conf) \div 100
(* Plausible bug: strategies that agree are not scaled down. *)
ScaleOne(active) == 1
Scale(active) == IF active > 1 THEN active ELSE 1

(* What a unit is sized by: MaxPositionQtyFromStop, MaxPositionQtyFromRisk.*)
Unit(s) == IF HasStop(s) THEN Distance(s) ELSE Mid

(* In hundredths of a percent of the equity per price, as a fraction.      *)
Quantity(s) ==
  LET num == RiskPct * Share(s)
      den == Scale(visit.active) * Unit(s)
  IN IF NotionalPct > 0 /\ num * Ref(s) > 100 * NotionalPct * den
     THEN [num |-> 100 * NotionalPct, den |-> Ref(s)] ELSE [num |-> num, den |-> den]

AtMost(q, price, pct) == q.num * price <= 100 * pct * q.den

(* validateExitGeometry: the stop on the losing side, the target (if any)  *)
(* on the winning side of the price.                                       *)
ExitGeometry(s) ==
  /\ Sgn(s.dir) * (Ref(s) - s.stop) > 0
  /\ s.target > 0 => Sgn(s.dir) * (s.target - Ref(s)) > 0

MustAttachExits(s) == RequireBrokerStops /\ s.ins.venue = "OANDA"

Spread == visit.quote.ask - visit.quote.bid
PreTradeCommon(s) ==
  /\ NotionalPct > 0 => AtMost(Quantity(s), Ref(s), NotionalPct)
  /\ SpreadPct > 0 /\ visit.quote.bid > 0 /\ visit.quote.ask > 0 =>
       Spread * 200000 <= SpreadPct * Mid

PreTrade(s) ==
  /\ Ref(s) > 0
  /\ MustAttachExits(s) => HasStop(s) /\ s.target > 0
  /\ HasStop(s) => Distance(s) > 0 /\ ExitGeometry(s)
  /\ AtMost(Quantity(s), IF HasStop(s) THEN Distance(s) ELSE Ref(s), RiskPct)
  /\ PreTradeCommon(s)

Used(s) == (Quantity(s).num * Unit(s) * visit.active) \div (RiskPct * Quantity(s).den)

HandleEntry ==
  /\ Handling({FALSE}) /\ ~paused /\ ~Opposes(Head(sigs))
  /\ sigs' = Tail(sigs)
  /\ LET s == Head(sigs) IN
     \/ UNCHANGED <<pos, risked, excused>>
     \/ /\ Active(s) /\ PreTrade(s)
        /\ Fills(s.ins, Sgn(s.dir))
        /\ risked' = IF s.ins = visit.ins THEN risked + Used(s) ELSE risked
        /\ excused' = excused \cup {s.ins}

----------------------------------------------------------------------------
(* reconcilePortfolio, and the next tick: the rows of a venue whose fetch  *)
(* fails are gone.                                                         *)
Reconcile ==
  /\ todo = <<>> /\ todo' = Instruments
  /\ \E failed \in SUBSET {i.venue : i \in Ins} :
       snap' = [i \in Ins |-> IF i.venue \in failed THEN 0 ELSE pos[i]]
  /\ UNCHANGED <<stratVars, clock, paused, pos, visit, sigs, risked, flatVars>>

SignalsNext ==
  \/ ClockTick \/ (\E b \in BOOLEAN : SetPaused(b)) \/ Restart
  \/ NoQuote \/ Visit \/ EndVisit
  \/ HandleFlatten \/ HandlePaused \/ HandleOpposite \/ HandleEntry
  \/ Reconcile

SignalsSpec == SignalsInit /\ [][SignalsNext]_signalsVars

----------------------------------------------------------------------------
(* The entries on the visited instrument that one onTick lets through risk *)
(* one trade's budget together, however many strategies agree, in each     *)
(* way of sizing.  (A pair's other leg is sized by the wrong price.)       *)
OneBudgetPerVisit == Visiting => risked <= 100 * visit.active

(* The once-a-day flatten counts as emitted before anything came of it     *)
(* (flatten_session_end.go:90).  Still: after the window, an instrument    *)
(* it covers is held only if no visit fell into the window, the signal was *)
(* dropped by a pause, the exit failed or was sized by a stale snapshot, or*)
(* an order was filled afterwards.                                         *)
Covered(i) ==
  \E k \in DOMAIN stack :
    LET c == stack[k]
    IN /\ c.type = "flatten_session_end" /\ c.session /\ c.start < c.end
       /\ Trades(c, i) /\ Hour(clock) >= c.end
HeldOvernightHasCause ==
  \A i \in Ins : pos[i] # 0 /\ Covered(i) =>
    i \in excused \/ \E k \in DOMAIN sigs : sigs[k].flatten /\ sigs[k].ins = i

(* On bars made of one quote, what looks at the shape or the range of a    *)
(* bar is blind: momentum, volatility and options_gamma never enter, and   *)
(* breakout only ever buys.                                                *)
Entered == sigs # <<>> /\ ~Head(sigs).flatten /\ ~Opposes(Head(sigs)) /\ pos' # pos
LiveBarsAreBlind ==
  [][Entered => /\ Head(sigs).by \notin {"momentum", "volatility", "options_gamma"}
                /\ Head(sigs).by = "breakout" => Head(sigs).dir > 0]_signalsVars
=============================================================================
