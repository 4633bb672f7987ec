---------------------------- MODULE BacktestProofs ----------------------------
(***************************************************************************)
(* Proofs about the bot of Backtest, for any configuration, quotes, series *)
(* and windows: first of the backtest, then of the strategies (what OnBar  *)
(* and RunBar return), then of the trading loop of Signals that runs them. *)
(***************************************************************************)
EXTENDS Backtest, SumProofs

(* The backtest *)

Ordered == walk.step >= walk.test

WalkTyped ==
  /\ walk \in [train : Int, test : Int, step : Int]
  /\ start \in Int /\ (phase # "done" => start \in Nat)
  /\ bar \in Nat /\ end \in 0..Total /\ fed \in Int
  /\ cash \in Int /\ held \in Int /\ openMark \in Int /\ heldOpen \in Int /\ wins \in Nat

(* Before a window nothing at or past its test bars was seen. *)
WindowAhead ==
  phase = "slice" => /\ Fits(start) \/ fed = NoBar
                     /\ Fits(start) /\ Ordered => fed < start + walk.train

(* Within a slice the next bar is past the last one seen. *)
BarAhead ==
  /\ phase = "bars" =>
       /\ bar <= end /\ (Ordered \/ ~Fits(start) => fed < bar)
       /\ Fits(start) => end = start + walk.train + walk.test
  /\ phase = "trade" =>
       /\ bar < end /\ fed = bar
       /\ Fits(start) => end = start + walk.train + walk.test

(* With nothing held at the open, the bar has only cost. *)
OnlyCosts == phase = "trade" /\ heldOpen = 0 => Mark(Bar.close) <= openMark

BacktestIInv == WalkTyped /\ WindowAhead /\ BarAhead /\ OnlyCosts

(* The series has a length. *)
LEMMA SeriesTotal == Total \in Nat
  BY BacktestAssumption DEF Total

(* Members of a sequence are where its type says. *)
LEMMA ElementOfSeq ==
  ASSUME NEW S, NEW s \in Seq(S), NEW i \in 1..Len(s) PROVE s[i] \in S
  OBVIOUS

(* The next bar of the series has prices. *)
LEMMA BarType == ASSUME bar \in Nat, bar < Total PROVE Bar.open \in Nat /\ Bar.close \in Nat
<1>1. bar + 1 \in 1..Len(Series)
  BY BacktestAssumption DEF Total
<1>2. Series[bar + 1] \in [open : Nat, high : Nat, low : Nat, close : Nat]
  BY <1>1, BacktestAssumption, ElementOfSeq
<1> QED BY <1>2 DEF Bar

(* A fill costs its slippage and its fee. *)
LEMMA FillCosts ==
  ASSUME NEW price \in Nat, NEW q \in Nat, NEW slip \in Nat, NEW fee \in Nat,
         NEW side \in {-1, 0, 1}, NEW c \in Int, NEW h \in Int
  PROVE  c - side * q * Apply(price, side, slip) - fee + (h + side * q) * price <= c + h * price
<1>1. q * slip >= 0 /\ q * slip \in Int /\ q * price \in Int /\ h * price \in Int
  OBVIOUS
<1>2. CASE side = 1
  BY <1>1, <1>2 DEF Apply
<1>3. CASE side = -1
  BY <1>1, <1>3 DEF Apply
<1>4. CASE side = 0
  BY <1>1, <1>4 DEF Apply
<1> QED BY <1>2, <1>3, <1>4

(* Before anything was run. *)
LEMMA InitBacktest == BotInit => BacktestIInv
<1> SUFFICES ASSUME BotInit PROVE BacktestIInv
  OBVIOUS
<1>1. /\ phase \in {"live", "slice"} /\ walk \in [train : Int, test : Int, step : Int]
      /\ start = 0 /\ bar = 0 /\ end = 0 /\ cash = InitialEquity /\ held = 0
      /\ openMark = 0 /\ heldOpen = 0 /\ wins = 0 /\ fed = NoBar
  BY BacktestAssumption DEF BotInit, Live
<1> QED
  BY <1>1, SeriesTotal, BacktestAssumption
  DEF BacktestIInv, WalkTyped, WindowAhead, BarAhead, OnlyCosts, Fits, NoBar

(* The trading loop leaves the backtest alone, and the other way round. *)
LEMMA NextBacktest == BacktestIInv /\ [BotNext]_botVars => BacktestIInv'
<1> USE SeriesTotal
<1> SUFFICES ASSUME BacktestIInv, [BotNext]_botVars PROVE BacktestIInv'
  OBVIOUS
<1>0. ASSUME UNCHANGED backtestVars PROVE BacktestIInv'
  BY <1>0 DEF backtestVars, sliceVars, simVars, BacktestIInv, WalkTyped, WindowAhead, BarAhead,
              OnlyCosts, Ordered, Fits, Mark, Bar
<1>1. ASSUME OpenSlice PROVE BacktestIInv'
  <2>1. WalkTyped'
    BY <1>1, BacktestAssumption
    DEF OpenSlice, Slice, liveVars, BacktestIInv, WalkTyped, Fits
  <2>2. BarAhead'
    BY <1>1 DEF OpenSlice, Slice, liveVars, BacktestIInv, WalkTyped, WindowAhead, BarAhead,
                Ordered, Fits, NoBar
  <2>3. WindowAhead' /\ OnlyCosts'
    BY <1>1 DEF OpenSlice, Slice, WindowAhead, OnlyCosts
  <2> QED BY <2>1, <2>2, <2>3 DEF BacktestIInv
<1>2. ASSUME EndSlice PROVE BacktestIInv'
  <2>1. start' = start + walk.step
    BY <1>2 DEF EndSlice, NextStart
  <2>2. CASE Fits(start)
    BY <1>2, <2>1, <2>2
    DEF EndSlice, liveVars, simVars, BacktestIInv, WalkTyped, WindowAhead, BarAhead, OnlyCosts,
        Ordered, Fits
  <2>3. CASE ~Fits(start)
    BY <1>2, <2>1, <2>3
    DEF EndSlice, liveVars, simVars, BacktestIInv, WalkTyped, WindowAhead, BarAhead, OnlyCosts,
        Ordered, Fits
  <2> QED BY <2>2, <2>3
<1>3. ASSUME Cancel PROVE BacktestIInv'
  BY <1>3 DEF Cancel, sliceVars, simVars, BacktestIInv, WalkTyped, WindowAhead, BarAhead,
              OnlyCosts, Ordered, Fits, Mark, Bar
<1>4. ASSUME RunBars PROVE BacktestIInv'
  <2>1. bar < Total /\ Bar' = Bar
    BY <1>4 DEF RunBars, sliceVars, BacktestIInv, WalkTyped, Bar
  <2>2. Bar.open \in Nat /\ Bar.close \in Nat
    BY <2>1, BarType DEF BacktestIInv, WalkTyped
  <2>3. WalkTyped'
    BY <1>4, <2>2 DEF RunBars, sliceVars, BacktestIInv, WalkTyped, Mark
  <2>4. WindowAhead' /\ BarAhead'
    BY <1>4 DEF RunBars, sliceVars, BacktestIInv, WalkTyped, WindowAhead, BarAhead, Fits
  <2>5. OnlyCosts'
    <3>1. ASSUME heldOpen' = 0 PROVE Mark(Bar.close)' <= openMark'
      <4>1. held = 0 /\ held' = 0 /\ cash' = cash /\ openMark' = cash + 0 * Bar.open
        BY <1>4, <3>1 DEF RunBars, Mark
      <4> QED BY <4>1, <2>1, <2>2 DEF Mark, BacktestIInv, WalkTyped
    <3> QED BY <3>1 DEF OnlyCosts
  <2> QED BY <2>3, <2>4, <2>5 DEF BacktestIInv
<1>5. ASSUME SkipSignal PROVE BacktestIInv'
  BY <1>5 DEF SkipSignal, sliceVars, simVars, BacktestIInv, WalkTyped, WindowAhead, BarAhead,
              OnlyCosts, Ordered, Fits, Mark, Bar
<1>6. ASSUME TradeSignal PROVE BacktestIInv'
  <2>1. Bar' = Bar /\ phase = "trade" /\ phase' = phase
        /\ heldOpen' = heldOpen /\ openMark' = openMark
    BY <1>6 DEF TradeSignal, sliceVars, Bar
  <2>2. Bar.open \in Nat /\ Bar.close \in Nat
    BY <2>1, BarType DEF BacktestIInv, WalkTyped, BarAhead
  <2> DEFINE side == Sgn(Head(signals).dir)
  <2>3. PICK q \in 1..MaxQty, slip \in Slips, fee \in Fees :
          /\ cash' = cash - side * q * Apply(Bar.close, side, slip) - fee
          /\ held' = held + side * q
    BY <1>6 DEF TradeSignal
  <2>4. side \in {-1, 0, 1} /\ q \in Nat /\ slip \in Nat /\ fee \in Nat
    BY BacktestAssumption DEF Sgn
  <2> HIDE DEF side
  <2>5. Mark(Bar.close)' <= Mark(Bar.close)
    <3>1. cash \in Int /\ held \in Int
      BY DEF BacktestIInv, WalkTyped
    <3>2. cash' + held' * Bar.close <= cash + held * Bar.close
      BY <2>2, <2>3, <2>4, <3>1, FillCosts
    <3> QED BY <2>1, <3>2 DEF Mark
  <2>6. cash' \in Int /\ held' \in Int
    <3>1. CASE side = 0
      BY <2>2, <2>3, <2>4, <3>1 DEF Apply, BacktestIInv, WalkTyped
    <3>2. CASE side = 1
      BY <2>2, <2>3, <2>4, <3>2 DEF Apply, BacktestIInv, WalkTyped
    <3>3. CASE side = -1
      BY <2>2, <2>3, <2>4, <3>3 DEF Apply, BacktestIInv, WalkTyped
    <3> QED BY <2>4, <3>1, <3>2, <3>3
  <2>7. WalkTyped' /\ WindowAhead' /\ BarAhead'
    BY <1>6, <2>6 DEF TradeSignal, sliceVars, BacktestIInv, WalkTyped, WindowAhead, BarAhead,
                      Ordered, Fits
  <2>8. Mark(Bar.close) \in Int /\ Mark(Bar.close)' \in Int
    BY <2>1, <2>2, <2>6 DEF Mark, BacktestIInv, WalkTyped
  <2>9. OnlyCosts'
    BY <2>1, <2>5, <2>8 DEF OnlyCosts, BacktestIInv, WalkTyped
  <2> QED BY <2>7, <2>9 DEF BacktestIInv
<1>7. ASSUME EndBar PROVE BacktestIInv'
  BY <1>7 DEF EndBar, BacktestIInv, WalkTyped, WindowAhead, BarAhead, OnlyCosts, Ordered, Fits
<1> QED BY <1>0, <1>1, <1>2, <1>3, <1>4, <1>5, <1>6, <1>7 DEF BotNext, botVars

(* The windows and the account of the backtest stay as described. *)
THEOREM BacktestInvariant == BotSpec => []BacktestIInv
  BY InitBacktest, NextBacktest, PTL DEF BotSpec

(* The strategies see every bar once and in order unless windows overlap,  *)
(* for any lengths of series, training, test and step.                     *)
THEOREM StrategiesSeeBarsInOrder == BotSpec => BarsInOrder
<1>1. BacktestIInv /\ [BotNext]_botVars
        => [FeedsBar /\ (walk.step >= walk.test \/ ~Fits(start)) => bar > fed]_botVars
  BY DEF BacktestIInv, WalkTyped, BarAhead, FeedsBar, Ordered
<1> QED BY <1>1, BacktestInvariant, PTL DEF BotSpec, BarsInOrder

(* A bar counted as won was earned by what was held at its open, whatever  *)
(* the strategies signal and whatever slippage and fees are.               *)
THEOREM TradesNeverWinTheirOwnBar == BotSpec => WinsAreEarlier
<1>1. ASSUME BacktestIInv, [BotNext]_botVars PROVE wins' > wins => heldOpen # 0
  <2>1. CASE EndBar
    <3>1. bar < Total /\ bar \in Nat
      BY <1>1, <2>1, SeriesTotal DEF EndBar, BacktestIInv, WalkTyped, BarAhead
    <3>2. Bar.close \in Nat
      BY <3>1, BarType
    <3>3. Mark(Bar.close) \in Int
      BY <1>1, <3>2 DEF Mark, BacktestIInv, WalkTyped
    <3> QED BY <1>1, <2>1, <3>3 DEF EndBar, BacktestIInv, WalkTyped, OnlyCosts
  <2>2. CASE ~EndBar
    <3>1. wins' = wins \/ wins' = 0
      BY <1>1, <2>2 DEF BotNext, botVars, backtestVars, simVars, OpenSlice, Slice, EndSlice, Cancel,
                        RunBars, SkipSignal, TradeSignal
    <3> QED BY <1>1, <3>1 DEF BacktestIInv, WalkTyped
  <2> QED BY <2>1, <2>2
<1>2. BacktestIInv /\ [BotNext]_botVars => [wins' > wins => heldOpen # 0]_botVars
  BY <1>1
<1> QED BY <1>2, BacktestInvariant, PTL DEF BotSpec, WinsAreEarlier

----------------------------------------------------------------------------
(* Select, and the values strategies work with *)

IsKept(f, s, T) ==
  f = [n \in 0..Len(s) |->
    IF n = 0 THEN <<>> ELSE IF s[n] \in T THEN Append(f[n - 1], s[n]) ELSE f[n - 1]]

(* Select is a value of that function. *)
LEMMA SelectIsChosen ==
  ASSUME NEW s, NEW T PROVE Select(s, T) = (CHOOSE f : IsKept(f, s, T))[Len(s)]
  BY DEF Select, IsKept

(* There is a function that keeps what is in T, up to any length.          *)
LEMMA KeptExists ==
  ASSUME NEW S, NEW s \in Seq(S), NEW T PROVE \E f : IsKept(f, s, T)
<1> DEFINE V == Seq(S)
           G == [p \in (1..Len(s)) \X V |-> IF s[p[1]] \in T THEN Append(p[2], s[p[1]]) ELSE p[2]]
<1>1. Len(s) \in Nat /\ <<>> \in V /\ G \in [(1..Len(s)) \X V -> V]
  OBVIOUS
<1>2. PICK f \in [0..Len(s) -> V] :
        Solves(f, Len(s), <<>>, G)
  <2> DEFINE n == Len(s)
             a == <<>>
  <2>1. n \in Nat /\ a \in V /\ G \in [(1..n) \X V -> V]
    BY <1>1
  <2> HIDE DEF n, a, G, V
  <2>2. \E f \in [0..n -> V] : Solves(f, n, a, G)
    BY <2>1, RecursionExists
  <2> QED BY <2>2 DEF n, a
<1>3. ASSUME NEW n \in 0..Len(s)
      PROVE  f[n] = IF n = 0 THEN <<>>
                    ELSE IF s[n] \in T THEN Append(f[n - 1], s[n]) ELSE f[n - 1]
  <2>1. CASE n = 0
    BY <1>2, <2>1 DEF Solves
  <2>2. CASE n # 0
    <3>1. n \in 1..Len(s) /\ n - 1 \in 0..Len(s)
      BY <1>1, <2>2
    <3>2. f[n] = G[<<n, f[n - 1]>>] /\ <<n, f[n - 1]>> \in (1..Len(s)) \X V
      BY <1>2, <3>1 DEF Solves
    <3> QED BY <2>2, <3>2
  <2> QED BY <2>1, <2>2
<1>4. IsKept(f, s, T)
  BY <1>3 DEF IsKept
<1> QED BY <1>4

(* What Select returns: a sequence, of members of s that are in T.         *)
LEMMA Selected ==
  ASSUME NEW S, NEW s \in Seq(S), NEW T
  PROVE  Select(s, T) \in Seq(S \cap T)
<1> DEFINE f == CHOOSE f : IsKept(f, s, T)
           Good == {m \in 0..Len(s) : f[m] \in Seq(S \cap T)}
<1>0. Len(s) \in Nat
  OBVIOUS
<1>1. IsKept(f, s, T)
  BY KeptExists
<1> HIDE DEF f
<1>2. 0 \in Good
  BY <1>0, <1>1 DEF IsKept
<1>3. ASSUME NEW m \in 0..(Len(s) - 1), m \in Good PROVE m + 1 \in Good
  <2>1. m + 1 \in 1..Len(s) /\ m + 1 \in 0..Len(s) /\ m + 1 # 0 /\ (m + 1) - 1 = m
    BY <1>0
  <2>2. s[m + 1] \in S /\ f[m] \in Seq(S \cap T)
    BY <1>3, <2>1
  <2>3. f[m + 1] = IF s[m + 1] \in T THEN Append(f[m], s[m + 1]) ELSE f[m]
    BY <1>1, <2>1 DEF IsKept
  <2>4. f[m + 1] \in Seq(S \cap T)
    BY <2>2, <2>3
  <2> QED BY <2>1, <2>4
<1>4. Len(s) \in Good
  <2> HIDE DEF Good
  <2>1. 0..Len(s) \subseteq Good
    BY <1>0, <1>2, <1>3, CountUp
  <2> QED BY <1>0, <2>1
<1> QED BY <1>4, SelectIsChosen DEF f

----------------------------------------------------------------------------
(* Types of what the strategies are made of. *)
Directions == -100..100
Confidences == 0..100
StateSet == [seen : [Ins -> Int], sign : [Ins -> Int], range : [Ins -> Int],
             emitted : [Ins -> Int], both : Int, residual : Int]
SignalSet == [by : STRING, ins : Ins, dir : Directions, conf : Confidences,
              stop : Int, target : Int, flatten : BOOLEAN]
BarSet == [ins : Ins, open : Int, high : Int, low : Int, close : Int]

(* A signal has the parts it is made of. *)
LEMMA SignalTyped ==
  ASSUME NEW c \in StrategyCfg, NEW i \in Ins, NEW dir \in Directions, NEW conf \in Confidences
  PROVE  /\ Signal(c, i, dir, conf) \in SignalSet
         /\ Signal(c, i, dir, conf).by = c.type
         /\ Signal(c, i, dir, conf).dir = dir /\ Signal(c, i, dir, conf).ins = i
  BY DEF Signal, SignalSet, StrategyCfg, Directions, Confidences

(* A flatten signal is one of its strategy and its instrument. *)
LEMMA FlattenTyped ==
  ASSUME NEW c \in StrategyCfg, NEW i \in Ins
  PROVE  FlattenSignal(c, i) \in SignalSet /\ FlattenSignal(c, i).flatten = TRUE
         /\ FlattenSignal(c, i).ins = i /\ FlattenSignal(c, i).by = c.type
<1> DEFINE s == Signal(c, i, 0, 0)
<1>1. s \in SignalSet /\ s.by = c.type /\ s.ins = i
  <2>1. 0 \in Directions /\ 0 \in Confidences
    BY DEF Directions, Confidences
  <2> QED BY <2>1, SignalTyped
<1>2. FlattenSignal(c, i) = [s EXCEPT !.flatten = TRUE]
  BY DEF FlattenSignal
<1> HIDE DEF s
<1> DEFINE f == [s EXCEPT !.flatten = TRUE]
<1>3. f \in SignalSet /\ f.ins = s.ins /\ f.by = s.by
  BY <1>1 DEF SignalSet
<1>4. f.flatten = TRUE
  BY <1>1, Zenon DEF SignalSet
<1> QED BY <1>1, <1>2, <1>3, <1>4

(* The outcome of a strategy is signals of its own and a state; the days   *)
(* of emission are left alone.                                             *)
Regular(c, st, o) ==
  /\ o.sigs \in Seq(SignalSet) /\ o.st \in StateSet /\ o.st.emitted = st.emitted
  /\ \A k \in DOMAIN o.sigs : o.sigs[k].by = c.type

(* No signal and a well-typed state are such an outcome. *)
LEMMA QuietIsRegular ==
  ASSUME NEW c \in StrategyCfg, NEW st \in StateSet, NEW next \in StateSet,
         next.emitted = st.emitted
  PROVE  Regular(c, st, Outcome(<<>>, next))
  BY DEF Regular, Outcome

(* So is a signal in some direction or none. *)
LEMMA DirectedIsRegular ==
  ASSUME NEW c \in StrategyCfg, NEW st \in StateSet, NEW next \in StateSet,
         next.emitted = st.emitted, NEW i \in Ins, NEW dir \in Directions, NEW conf \in Confidences
  PROVE  Regular(c, st, Outcome(Directed(c, i, dir, conf), next))
<1> DEFINE s == Directed(c, i, dir, conf)
<1>1. s \in Seq(SignalSet)
  BY SignalTyped DEF Directed
<1>2. \A k \in DOMAIN s : s[k].by = c.type
  <2>1. CASE dir = 0
    <3>1. s = <<>>
      BY <2>1 DEF Directed
    <3> QED BY <3>1
  <2>2. CASE dir # 0
    <3>1. s = <<Signal(c, i, dir, conf)>>
      BY <2>2 DEF Directed
    <3>2. \A k \in DOMAIN s : s[k] = Signal(c, i, dir, conf)
      BY <3>1
    <3>3. Signal(c, i, dir, conf).by = c.type
      BY SignalTyped
    <3> QED BY <3>2, <3>3
  <2> QED BY <2>1, <2>2
<1> QED BY <1>1, <1>2 DEF Regular, Outcome

(* So is a signal for every instrument of a symbol, all in one direction,  *)
(* with the state left alone.                                              *)
LEMMA SymbolIsRegular ==
  ASSUME NEW c \in StrategyCfg, NEW st \in StateSet, NEW i \in Ins, NEW dirs \in SUBSET Directions,
         NEW conf \in Confidences, NEW o \in ForSymbol(c, st, i, dirs, conf)
  PROVE  /\ Regular(c, st, o)
         /\ o.st = st /\ \A k \in DOMAIN o.sigs : o.sigs[k].dir \in dirs
<1>1. PICK dir \in dirs :
        o = Outcome([k \in DOMAIN OfSymbol(c, i) |-> Signal(c, OfSymbol(c, i)[k], dir, conf)], st)
  BY DEF ForSymbol
<1> DEFINE of == OfSymbol(c, i)
<1>2. of \in Seq(Ins)
  <2>1. c.universe \in Seq(Ins)
    BY DEF StrategyCfg
  <2>2. of \in Seq(Ins \cap {j \in Ins : j.sym = i.sym})
    BY <2>1, Selected DEF OfSymbol
  <2> HIDE DEF of
  <2> QED BY <2>2
<1> HIDE DEF of
<1> DEFINE s == [k \in DOMAIN of |-> Signal(c, of[k], dir, conf)]
<1>3. DOMAIN of = 1..Len(of) /\ Len(of) \in Nat /\ \A k \in DOMAIN of : of[k] \in Ins
  BY <1>2
<1>4. \A k \in DOMAIN of : /\ s[k] \in SignalSet /\ s[k].by = c.type /\ s[k].dir = dir
  BY <1>3, SignalTyped
<1>5. s \in Seq(SignalSet) /\ DOMAIN s = DOMAIN of
  BY <1>3, <1>4
<1>6. o = Outcome(s, st)
  BY <1>1 DEF of
<1> HIDE DEF s
<1> QED BY <1>4, <1>5, <1>6 DEF Regular, Outcome

(* The directions and confidences the strategies use. *)
LEMMA QuotedDirections ==
  /\ {-100, 0, 100} \in SUBSET Directions /\ {-30, 0, 30} \in SUBSET Directions
  /\ {25, -25} \in SUBSET Directions /\ {-50, 0, 50} \in SUBSET Directions
  /\ {5, 35, 40, 42, 45, 60, 64, 70, 72, 80, 100} \in SUBSET Confidences
  BY DEF Directions, Confidences

(* The three strategies without a state. *)
LEMMA BySymbolRegular ==
  ASSUME NEW c \in StrategyCfg, NEW st \in StateSet, NEW b \in BarSet,
         NEW o \in Momentum(c, st, b) \cup MeanReversion(c, st, b) \cup Breakout(c, st, b)
  PROVE  Regular(c, st, o) /\ o.st = st
<1>0. b.ins \in Ins
  BY DEF BarSet
<1>1. CASE o \in Momentum(c, st, b)
  <2> DEFINE dirs == {CASE b.close > b.open -> 30 [] b.close < b.open -> -30 [] OTHER -> 0}
  <2> DEFINE i == b.ins
             conf == 40
  <2>1. dirs \in SUBSET Directions /\ conf \in Confidences /\ i \in Ins
    BY <1>0, QuotedDirections
  <2>2. o \in ForSymbol(c, st, i, dirs, conf)
    BY <1>1 DEF Momentum
  <2> HIDE DEF dirs, i, conf
  <2> QED BY ONLY <2>1, <2>2, SymbolIsRegular, c \in StrategyCfg, st \in StateSet, ZenonT(30)
<1>2. CASE o \in MeanReversion(c, st, b)
  <2> DEFINE dirs == {d \in {25, -25} : \/ b.low > 0 /\ 2 * b.close = b.high + b.low
                                        \/ d = 25 <=> b.low > 0 /\ 2 * b.close < b.high + b.low}
  <2> DEFINE i == b.ins
             conf == 35
  <2>1. dirs \in SUBSET Directions /\ conf \in Confidences /\ i \in Ins
    BY <1>0, QuotedDirections
  <2>2. o \in ForSymbol(c, st, i, dirs, conf)
    BY <1>2 DEF MeanReversion
  <2> HIDE DEF dirs, i, conf
  <2> QED BY ONLY <2>1, <2>2, SymbolIsRegular, c \in StrategyCfg, st \in StateSet, ZenonT(30)
<1>3. CASE o \in Breakout(c, st, b)
  <2> DEFINE dirs == {IF 1000 * b.close >= 999 * b.high THEN 50
                       ELSE IF 1000 * b.close <= 1001 * b.low THEN -50 ELSE 0}
  <2> DEFINE i == b.ins
             conf == 45
  <2>1. dirs \in SUBSET Directions /\ conf \in Confidences /\ i \in Ins
    BY <1>0, QuotedDirections
  <2>2. o \in ForSymbol(c, st, i, dirs, conf)
    BY <1>3 DEF Breakout
  <2> HIDE DEF dirs, i, conf
  <2> QED BY ONLY <2>1, <2>2, SymbolIsRegular, c \in StrategyCfg, st \in StateSet, ZenonT(30)
<1> QED BY <1>1, <1>2, <1>3

(* The strategies that look the instrument up; one that is not looked for  *)
(* changes nothing.                                                        *)
LEMMA ScoredRegular ==
  ASSUME NEW c \in StrategyCfg, NEW st \in StateSet, NEW b \in BarSet,
         NEW o \in OptionsGamma(c, st, b) \cup MLMeta(c, st, b)
  PROVE  Regular(c, st, o)
<1> DEFINE i == b.ins
           n == More(st.seen[i], c.slow)
           next == [st EXCEPT !.seen[i] = n]
<1>1. i \in Ins /\ next \in StateSet /\ next.emitted = st.emitted
  <2>1. i \in Ins /\ st.seen[i] \in Int /\ c.slow \in Int
    BY DEF BarSet, StateSet, StrategyCfg
  <2>2. n \in Int
    BY <2>1 DEF More
  <2> HIDE DEF n, i
  <2> QED BY <2>1, <2>2 DEF StateSet
<1>2. o = Outcome(<<>>, st)
      \/ \E conf \in {5, 64, 80, 100}, dir \in {-100, 0, 100} :
           o = Outcome(Directed(c, i, dir, conf), next)
  <2>1. CASE o \in OptionsGamma(c, st, b)
    BY <2>1 DEF OptionsGamma
  <2>2. CASE o \in MLMeta(c, st, b)
    BY <2>2 DEF MLMeta
  <2> QED BY <2>1, <2>2
<1> HIDE DEF i, next
<1>3. CASE o = Outcome(<<>>, st)
  BY <1>3, QuietIsRegular
<1>4. CASE \E conf \in {5, 64, 80, 100}, dir \in {-100, 0, 100} :
             o = Outcome(Directed(c, i, dir, conf), next)
  <2>1. \E conf \in Confidences, dir \in Directions : o = Outcome(Directed(c, i, dir, conf), next)
    BY <1>4, QuotedDirections
  <2> QED BY <1>1, <2>1, DirectedIsRegular
<1> QED BY <1>2, <1>3, <1>4

(* Volatility keeps a length and a range. *)
LEMMA VolatilityRegular ==
  ASSUME NEW c \in StrategyCfg, NEW st \in StateSet, NEW b \in BarSet,
         NEW o \in Volatility(c, st, b)
  PROVE  Regular(c, st, o)
<1> DEFINE i == b.ins
           n == More(st.seen[i], c.slow)
           width == ((IF b.high < b.low THEN b.low - b.high ELSE b.high - b.low) * 1000) \div b.close
           range == IF st.range[i] \in {NoRange, width} THEN width ELSE Mixed
           next == [st EXCEPT !.seen[i] = n, !.range[i] = range]
<1>1. o = Outcome(<<>>, st)
      \/ (b.close > 0 /\ \E conf \in {45, 70}, dir \in {-100, 0, 100} :
                           o = Outcome(Directed(c, i, dir, conf), next))
  <2> DEFINE dirs == IF n > c.slow /\ range = Mixed THEN {-100, 0, 100} ELSE {0}
  <2>1. Volatility(c, st, b) =
          IF ~Trades(c, i) \/ b.close <= 0 THEN {Outcome(<<>>, st)}
          ELSE {Outcome(Directed(c, i, dir, conf), next) : conf \in {45, 70}, dir \in dirs}
    BY DEF Volatility
  <2>2. dirs \subseteq {-100, 0, 100} /\ b.close \in Int
    BY DEF BarSet
  <2> HIDE DEF dirs, next, i
  <2> QED BY <2>1, <2>2
<1>2. CASE o = Outcome(<<>>, st)
  BY <1>2, QuietIsRegular
<1>3. CASE b.close > 0 /\ \E conf \in {45, 70}, dir \in {-100, 0, 100} :
                            o = Outcome(Directed(c, i, dir, conf), next)
  <2>1. i \in Ins /\ st.seen[i] \in Int /\ c.slow \in Int
        /\ b.high \in Int /\ b.low \in Int /\ b.close \in Int
    BY DEF BarSet, StateSet, StrategyCfg
  <2>2. width \in Int
    BY <1>3, <2>1
  <2> HIDE DEF width
  <2>3. range \in Int /\ n \in Int
    BY <2>1, <2>2 DEF More, Mixed
  <2> HIDE DEF range, n, i
  <2>4. next \in StateSet /\ next.emitted = st.emitted
    BY <2>1, <2>3 DEF StateSet
  <2> HIDE DEF next
  <2>5. \E conf \in Confidences, dir \in Directions : o = Outcome(Directed(c, i, dir, conf), next)
    BY <1>3, QuotedDirections
  <2> QED BY <2>1, <2>4, <2>5, DirectedIsRegular
<1> QED BY <1>1, <1>2, <1>3

(* A bar more in the averages. *)
LEMMA AveragedTyped ==
  ASSUME NEW c \in StrategyCfg, NEW st \in StateSet, NEW i \in Ins, NEW s \in {-1, 0, 1}
  PROVE  Averaged(c, st, i, s) \in StateSet /\ Averaged(c, st, i, s).emitted = st.emitted
<1> DEFINE n == More(st.seen[i], c.slow)
<1>1. n \in Int /\ s \in Int
  <2>1. st.seen[i] \in Int /\ c.slow \in Int
    BY DEF StateSet, StrategyCfg
  <2> QED BY <2>1 DEF More
<1> DEFINE m == s
<1>2. Averaged(c, st, i, s) = [st EXCEPT !.seen[i] = n, !.sign[i] = m]
  BY DEF Averaged
<1>3. m \in Int
  BY <1>1
<1>4. n \in Int
  BY <1>1
<1> HIDE DEF n, m
<1> DEFINE next == [st EXCEPT !.seen[i] = n, !.sign[i] = m]
<1>5. next \in StateSet /\ next.emitted = st.emitted
  BY <1>3, <1>4 DEF StateSet
<1> HIDE DEF next
<1> QED BY <1>2, <1>5 DEF next

(* A cross comes with a stop and a target. *)
LEMMA CrossTyped ==
  ASSUME NEW c \in StrategyCfg, NEW b \in BarSet, NEW s \in {-1, 0, 1}, NEW dist \in StopDistances
  PROVE  CrossSignal(c, b, s, dist) \in SignalSet /\ CrossSignal(c, b, s, dist).by = c.type
<1> DEFINE dir == 100 * s
           conf == 72
           stop == b.close - s * dist
           target == b.close + 2 * s * dist
           i == b.ins
           sig == Signal(c, i, dir, conf)
<1>1. dist \in Int /\ b.close \in Int /\ i \in Ins
  BY StrategiesAssumption DEF BarSet
<1>2. dir \in Directions /\ conf \in Confidences /\ stop \in Int /\ target \in Int
  BY <1>1 DEF Directions, Confidences
<1>3. CrossSignal(c, b, s, dist) = [sig EXCEPT !.stop = stop, !.target = target]
  BY DEF CrossSignal
<1> HIDE DEF dir, conf, i, stop, target
<1>4. sig \in SignalSet /\ sig.by = c.type
  BY <1>1, <1>2, SignalTyped
<1> HIDE DEF sig
<1> QED BY <1>2, <1>3, <1>4 DEF SignalSet

(* The averages that cross. *)
LEMMA EMACrossRegular ==
  ASSUME NEW c \in StrategyCfg, NEW st \in StateSet, NEW b \in BarSet, NEW t,
         NEW o \in EMACrossATR(c, st, b, t)
  PROVE  Regular(c, st, o)
<1> DEFINE i == b.ins
<1>1. i \in Ins
  BY DEF BarSet
<1>2. \/ o = Outcome(<<>>, st)
      \/ \E s \in {-1, 0, 1} : o = Outcome(<<>>, Averaged(c, st, i, s))
      \/ \E s \in {-1, 0, 1}, dist \in StopDistances :
           o = Outcome(<<CrossSignal(c, b, s, dist)>>, Averaged(c, st, i, s))
  BY DEF EMACrossATR
<1> HIDE DEF i
<1>3. ASSUME NEW s \in {-1, 0, 1}, NEW dist \in StopDistances,
             o = Outcome(<<CrossSignal(c, b, s, dist)>>, Averaged(c, st, i, s))
      PROVE  Regular(c, st, o)
  <2> DEFINE q == <<CrossSignal(c, b, s, dist)>>
             next == Averaged(c, st, i, s)
  <2>1. q \in Seq(SignalSet) /\ \A k \in DOMAIN q : q[k].by = c.type
    BY CrossTyped
  <2>2. next \in StateSet /\ next.emitted = st.emitted
    BY <1>1, AveragedTyped
  <2> HIDE DEF q, next
  <2>3. o = Outcome(q, next)
    BY <1>3 DEF q, next
  <2> QED BY <2>1, <2>2, <2>3 DEF Regular, Outcome
<1> QED BY <1>1, <1>2, <1>3, QuietIsRegular, AveragedTyped

(* The two legs of a pair are signals of instruments of the universe.      *)
LEMMA LegsTyped ==
  ASSUME NEW c \in StrategyCfg, Len(c.universe) >= 2, NEW dir \in {-100, 0, 100},
         NEW sign \in {-1, 1}, NEW conf \in Confidences
  PROVE  Legs(c, dir, sign, conf) \in Seq(SignalSet)
         /\ \A k \in DOMAIN Legs(c, dir, sign, conf) : Legs(c, dir, sign, conf)[k].by = c.type
<1> DEFINE i == c.universe[1]
           j == c.universe[2]
           other == -sign * dir
<1>1. i \in Ins /\ j \in Ins
  <2>1. c.universe \in Seq(Ins)
    BY DEF StrategyCfg
  <2> QED BY <2>1
<1>2. dir \in Directions /\ other \in Directions
  BY DEF Directions
<1>3. Legs(c, dir, sign, conf) =
        IF dir = 0 THEN <<>> ELSE <<Signal(c, i, dir, conf), Signal(c, j, other, conf)>>
  BY DEF Legs
<1> HIDE DEF i, j, other
<1> DEFINE s1 == Signal(c, i, dir, conf)
           s2 == Signal(c, j, other, conf)
<1>4. s1 \in SignalSet /\ s2 \in SignalSet /\ s1.by = c.type /\ s2.by = c.type
  BY <1>1, <1>2, SignalTyped
<1> HIDE DEF s1, s2
<1>5. Legs(c, dir, sign, conf) = IF dir = 0 THEN <<>> ELSE <<s1, s2>>
  BY <1>3 DEF s1, s2
<1>6. CASE dir = 0
  BY <1>5, <1>6
<1>7. CASE dir # 0
  <2> DEFINE q == <<s1, s2>>
  <2>1. q \in Seq(SignalSet) /\ \A k \in DOMAIN q : q[k].by = c.type
    BY <1>4
  <2>2. Legs(c, dir, sign, conf) = q
    BY <1>5, <1>7
  <2> QED BY <2>1, <2>2
<1> QED BY <1>6, <1>7

(* Outcomes of both legs. *)
LEMMA LegsRegular ==
  ASSUME NEW c \in StrategyCfg, NEW st \in StateSet, NEW next \in StateSet,
         next.emitted = st.emitted, NEW o,
         \E conf \in Confidences, dir \in {-100, 0, 100}, sign \in {-1, 1} :
           Len(c.universe) >= 2 /\ o = Outcome(Legs(c, dir, sign, conf), next)
  PROVE  Regular(c, st, o)
<1>1. PICK conf \in Confidences, dir \in {-100, 0, 100}, sign \in {-1, 1} :
        Len(c.universe) >= 2 /\ o = Outcome(Legs(c, dir, sign, conf), next)
  OBVIOUS
<1> DEFINE q == Legs(c, dir, sign, conf)
<1>2. q \in Seq(SignalSet) /\ \A k \in DOMAIN q : q[k].by = c.type
  BY ONLY <1>1, LegsTyped, c \in StrategyCfg, SMTT(15)
<1> HIDE DEF q
<1>3. o = Outcome(q, next)
  BY <1>1 DEF q
<1> QED BY <1>2, <1>3 DEF Regular, Outcome

(* The spread of a pair. *)
LEMMA StatArbRegular ==
  ASSUME NEW c \in StrategyCfg, NEW st \in StateSet, NEW b \in BarSet, NEW o \in StatArb(c, st, b)
  PROVE  Regular(c, st, o)
<1> DEFINE i == b.ins
           priced == [st EXCEPT !.seen[i] = 1]
           n == More(st.both, c.slow)
           counted == [priced EXCEPT !.both = n]
           dirs == IF n >= c.slow THEN {-100, 0, 100} ELSE {0}
<1>1. /\ priced \in StateSet /\ priced.emitted = st.emitted
      /\ counted \in StateSet /\ counted.emitted = st.emitted
  <2>1. i \in Ins /\ st.both \in Int /\ c.slow \in Int
    BY DEF BarSet, StateSet, StrategyCfg
  <2>2. n \in Int
    BY <2>1 DEF More
  <2> HIDE DEF n, i
  <2>3. priced \in StateSet /\ priced.emitted = st.emitted
    BY <2>1 DEF StateSet
  <2> HIDE DEF priced
  <2> QED BY <2>2, <2>3 DEF StateSet
<1>2. StatArb(c, st, b) =
        IF ~Pair(c, b) THEN {Outcome(<<>>, st)}
        ELSE IF ~Priced(c, st, b) THEN {Outcome(<<>>, priced)}
        ELSE {Outcome(Legs(c, dir, 1, conf), counted) : conf \in {42, 60}, dir \in dirs}
  BY DEF StatArb
<1>3. dirs \subseteq {-100, 0, 100} /\ {42, 60} \subseteq Confidences
  BY QuotedDirections
<1> HIDE DEF dirs, n, counted, priced
<1>4. \/ o = Outcome(<<>>, st) \/ o = Outcome(<<>>, priced)
      \/ \E conf \in Confidences, dir \in {-100, 0, 100}, sign \in {-1, 1} :
           Len(c.universe) >= 2 /\ o = Outcome(Legs(c, dir, sign, conf), counted)
  BY <1>2, <1>3 DEF Pair
<1> QED BY <1>1, <1>4, QuietIsRegular, LegsRegular

(* The hedge of a pair. *)
LEMMA DeltaNeutralRegular ==
  ASSUME NEW c \in StrategyCfg, NEW st \in StateSet, NEW b \in BarSet,
         NEW o \in DeltaNeutral(c, st, b)
  PROVE  Regular(c, st, o)
<1> DEFINE i == b.ins
           priced == [st EXCEPT !.seen[i] = 1]
           n == More(st.both, c.fast)
           r == More(st.residual, c.slow)
           counted == [priced EXCEPT !.both = n]
           fit == [priced EXCEPT !.both = n, !.residual = r]
           dirs == IF r >= c.slow THEN {-100, 0, 100} ELSE {0}
<1>1. /\ priced \in StateSet /\ priced.emitted = st.emitted
      /\ counted \in StateSet /\ counted.emitted = st.emitted
      /\ fit \in StateSet /\ fit.emitted = st.emitted
  <2>1. i \in Ins /\ st.both \in Int /\ st.residual \in Int /\ c.slow \in Int /\ c.fast \in Int
    BY DEF BarSet, StateSet, StrategyCfg
  <2>2. n \in Int /\ r \in Int
    BY <2>1 DEF More
  <2> HIDE DEF n, r, i
  <2>3. priced \in StateSet /\ priced.emitted = st.emitted
    BY <2>1 DEF StateSet
  <2> HIDE DEF priced
  <2> QED BY <2>2, <2>3 DEF StateSet
<1>2. DeltaNeutral(c, st, b) =
        IF ~Pair(c, b) THEN {Outcome(<<>>, st)}
        ELSE IF ~Priced(c, st, b) THEN {Outcome(<<>>, priced)}
        ELSE {Outcome(<<>>, counted)}
             \cup (IF n < c.fast THEN {}
                   ELSE {Outcome(Legs(c, dir, beta, conf), fit) : beta \in {-1, 1},
                           conf \in {40, 60}, dir \in dirs})
  BY DEF DeltaNeutral
<1>3. dirs \subseteq {-100, 0, 100} /\ {40, 60} \subseteq Confidences
  BY QuotedDirections
<1> HIDE DEF dirs, n, counted, fit, priced
<1>4. \/ o = Outcome(<<>>, st) \/ o = Outcome(<<>>, priced) \/ o = Outcome(<<>>, counted)
      \/ \E conf \in Confidences, dir \in {-100, 0, 100}, sign \in {-1, 1} :
           Len(c.universe) >= 2 /\ o = Outcome(Legs(c, dir, sign, conf), fit)
  BY <1>2, <1>3 DEF Pair
<1> QED BY <1>1, <1>4, QuietIsRegular, LegsRegular

(* What a strategy of a known type makes of a bar: the flatten rule is the *)
(* only one that touches the days of emission.                             *)
LEMMA OnBarRegular ==
  ASSUME NEW c \in StrategyCfg, c.type \in Known, NEW st \in StateSet, NEW b \in BarSet, NEW t,
         NEW o \in OnBar(c, st, b, t)
  PROVE  IF c.type = "flatten_session_end" THEN o \in FlattenSessionEnd(c, st, b, t)
         ELSE Regular(c, st, o)
<1>1. CASE c.type \in {"momentum", "mean_reversion", "breakout"}
  <2>1. o \in Momentum(c, st, b) \cup MeanReversion(c, st, b) \cup Breakout(c, st, b)
    BY <1>1 DEF OnBar
  <2> QED BY <1>1, <2>1, BySymbolRegular
<1>2. CASE c.type = "volatility"
  BY <1>2, VolatilityRegular DEF OnBar
<1>3. CASE c.type = "stat_arb"
  BY <1>3, StatArbRegular DEF OnBar
<1>4. CASE c.type \in {"options_gamma", "ml_meta"}
  BY <1>4, ScoredRegular DEF OnBar
<1>5. CASE c.type = "delta_neutral"
  BY <1>5, DeltaNeutralRegular DEF OnBar
<1>6. CASE c.type = "ema_cross_atr"
  BY <1>6, EMACrossRegular DEF OnBar
<1>7. CASE c.type = "flatten_session_end"
  BY <1>7 DEF OnBar
<1> QED BY <1>1, <1>2, <1>3, <1>4, <1>5, <1>6, <1>7 DEF Known

(* The flatten rule: nothing, or its one signal and the day noted.         *)
LEMMA FlattenOutcomes ==
  ASSUME NEW c \in StrategyCfg, NEW st \in StateSet, NEW b \in BarSet, NEW t, Day(t) \in Int,
         NEW o \in FlattenSessionEnd(c, st, b, t)
  PROVE  /\ o.sigs \in Seq(SignalSet) /\ o.st \in StateSet
         /\ \A k \in DOMAIN o.sigs : o.sigs[k].by = c.type
         /\ \A i \in Ins : o.st.emitted[i] # st.emitted[i] =>
              i = b.ins /\ Flattens(c, i, t) /\ o.st.emitted[i] = Day(t)
         /\ Flattens(c, b.ins, t) /\ st.emitted[b.ins] # Day(t) =>
              o.sigs = <<FlattenSignal(c, b.ins)>>
<1> DEFINE i == b.ins
           d == Day(t)
           next == [st EXCEPT !.emitted[i] = d]
           f == FlattenSignal(c, i)
           q == <<f>>
<1>1. i \in Ins
  BY DEF BarSet
<1>2. \/ o = Outcome(<<>>, st) /\ (~Flattens(c, i, t) \/ st.emitted[i] = d)
      \/ o = Outcome(q, next) /\ Flattens(c, i, t)
  BY DEF FlattenSessionEnd
<1>3. next \in StateSet /\ \A j \in Ins : next.emitted[j] = IF j = i THEN d ELSE st.emitted[j]
  <2> HIDE DEF i, d
  <2> QED BY <1>1 DEF StateSet, d
<1>4. q \in Seq(SignalSet) /\ \A k \in DOMAIN q : q[k].by = c.type
  <2>1. f \in SignalSet /\ f.by = c.type
    BY <1>1, FlattenTyped
  <2> HIDE DEF f
  <2> QED BY <2>1
<1> HIDE DEF q, next
<1>5. CASE o = Outcome(<<>>, st) /\ (~Flattens(c, i, t) \/ st.emitted[i] = d)
  BY <1>5 DEF Outcome
<1>6. CASE o = Outcome(q, next) /\ Flattens(c, i, t)
  <2>1. o.sigs = q /\ o.st = next
    BY <1>6 DEF Outcome
  <2> QED BY <1>3, <1>4, <1>6, <2>1 DEF q
<1> QED BY <1>2, <1>5, <1>6

(* Every outcome has the right type, and its signals are the strategy's.   *)
LEMMA OnBarTyped ==
  ASSUME NEW c \in StrategyCfg, c.type \in Known, NEW st \in StateSet, NEW b \in BarSet, NEW t,
         Day(t) \in Int, NEW o \in OnBar(c, st, b, t)
  PROVE  /\ o.sigs \in Seq(SignalSet) /\ o.st \in StateSet
         /\ \A k \in DOMAIN o.sigs : o.sigs[k].by = c.type
  BY OnBarRegular, FlattenOutcomes DEF Regular

----------------------------------------------------------------------------
(* RunBar runs each strategy of the stack once, on its own state, and      *)
(* gathers all signals.                                                    *)
Stacks == {s \in Seq(StrategyCfg) : \A k \in DOMAIN s : s[k].type \in Known}
StatesOf(stk) == [DOMAIN stk -> StateSet]
Gathered(stk) == [sigs : Seq(SignalSet), st : StatesOf(stk)]
Step(stk, b, t, k, r) ==
  {Outcome(r.sigs \o o.sigs, [r.st EXCEPT ![k] = o.st]) : o \in OnBar(stk[k], r.st[k], b, t)}
IsRun(f, stk, states, b, t) ==
  f = [k \in 0..Len(stk) |->
         IF k = 0 THEN {Outcome(<<>>, states)} ELSE UNION {Step(stk, b, t, k, r) : r \in f[k - 1]}]

(* RunBar is a value of that function. *)
LEMMA RunBarIsChosen ==
  ASSUME NEW stk, NEW states, NEW b, NEW t
  PROVE  RunBar(stk, states, b, t) = (CHOOSE f : IsRun(f, stk, states, b, t))[Len(stk)]
  BY DEF RunBar, IsRun, Step

(* One step keeps what was gathered well-typed. *)
LEMMA StepTyped ==
  ASSUME NEW stk \in Stacks, NEW b \in BarSet, NEW t, Day(t) \in Int, NEW k \in DOMAIN stk,
         NEW r \in Gathered(stk)
  PROVE  Step(stk, b, t, k, r) \subseteq Gathered(stk)
<1> SUFFICES ASSUME NEW o \in OnBar(stk[k], r.st[k], b, t)
             PROVE  Outcome(r.sigs \o o.sigs, [r.st EXCEPT ![k] = o.st]) \in Gathered(stk)
  BY DEF Step
<1> DEFINE c == stk[k]
           st == r.st[k]
<1>1. c \in StrategyCfg /\ c.type \in Known
  BY DEF Stacks
<1>2. r.sigs \in Seq(SignalSet) /\ r.st \in StatesOf(stk) /\ st \in StateSet
  BY DEF Gathered, StatesOf
<1>3. o \in OnBar(c, st, b, t)
  OBVIOUS
<1> HIDE DEF c, st
<1>4. o.sigs \in Seq(SignalSet) /\ o.st \in StateSet
  BY <1>1, <1>2, <1>3, OnBarTyped
<1> DEFINE q == o.sigs
           n == o.st
           all == r.sigs \o q
           next == [r.st EXCEPT ![k] = n]
<1>5. all \in Seq(SignalSet)
  BY <1>2, <1>4
<1>6. next \in StatesOf(stk)
  <2> HIDE DEF n
  <2> QED BY <1>2, <1>4 DEF StatesOf, n
<1> HIDE DEF all, next
<1>7. Outcome(all, next) \in Gathered(stk)
  BY <1>5, <1>6 DEF Outcome, Gathered
<1> QED BY <1>7 DEF all, next

(* Such a function exists, for a well-typed stack and its states. *)
LEMMA RunExists ==
  ASSUME NEW stk \in Stacks, NEW states \in StatesOf(stk), NEW b \in BarSet, NEW t, Day(t) \in Int
  PROVE  \E f : IsRun(f, stk, states, b, t)
<1> DEFINE n == Len(stk)
           a == {Outcome(<<>>, states)}
           V == SUBSET Gathered(stk)
           G == [p \in (1..n) \X V |-> UNION {Step(stk, b, t, p[1], r) : r \in p[2]}]
<1>1. n \in Nat /\ DOMAIN stk = 1..n
  BY DEF Stacks
<1>2. a \in V
  BY DEF Outcome, Gathered
<1>3. G \in [(1..n) \X V -> V]
  <2> SUFFICES ASSUME NEW k \in 1..n, NEW W \in V
               PROVE  UNION {Step(stk, b, t, k, r) : r \in W} \in V
    OBVIOUS
  <2>1. \A r \in W : Step(stk, b, t, k, r) \subseteq Gathered(stk)
    BY <1>1, StepTyped
  <2> QED BY <2>1
<1>4. PICK f \in [0..n -> V] : Solves(f, n, a, G)
  <2> HIDE DEF n, a, G, V
  <2> QED BY <1>1, <1>2, <1>3, RecursionExists
<1>5. ASSUME NEW k \in 0..n
      PROVE  f[k] = IF k = 0 THEN a ELSE UNION {Step(stk, b, t, k, r) : r \in f[k - 1]}
  <2>1. CASE k = 0
    BY <1>4, <2>1 DEF Solves
  <2>2. CASE k # 0
    <3>1. k \in 1..n /\ k - 1 \in 0..n
      BY <1>1, <2>2
    <3>2. f[k] = G[<<k, f[k - 1]>>] /\ <<k, f[k - 1]>> \in (1..n) \X V
      BY <1>4, <3>1 DEF Solves
    <3> QED BY <2>2, <3>2
  <2> QED BY <2>1, <2>2
<1>6. IsRun(f, stk, states, b, t)
  <2> HIDE DEF V, G
  <2> QED BY <1>4, <1>5 DEF IsRun
<1> QED BY <1>6

(* What is gathered after the first k strategies.                          *)
Told(o, r) == Range(o.sigs) \subseteq Range(r.sigs)
EachInTurn(stk, states, b, t, k, r) ==
  /\ r \in Gathered(stk)
  /\ \A j \in DOMAIN stk :
       IF j <= k THEN \E o \in OnBar(stk[j], states[j], b, t) : r.st[j] = o.st /\ Told(o, r)
       ELSE r.st[j] = states[j]
  /\ \A s \in Range(r.sigs) : \E j \in DOMAIN stk : \E o \in OnBar(stk[j], states[j], b, t) :
       s \in Range(o.sigs)

(* One more strategy is run in its turn. *)
LEMMA StepInTurn ==
  ASSUME NEW stk \in Stacks, NEW states \in StatesOf(stk), NEW b \in BarSet, NEW t, Day(t) \in Int,
         NEW k \in DOMAIN stk, NEW r, EachInTurn(stk, states, b, t, k - 1, r),
         NEW x \in Step(stk, b, t, k, r)
  PROVE  EachInTurn(stk, states, b, t, k, x)
<1>1. PICK o \in OnBar(stk[k], r.st[k], b, t) :
        x = Outcome(r.sigs \o o.sigs, [r.st EXCEPT ![k] = o.st])
  BY DEF Step
<1>2. k \in Nat /\ DOMAIN stk \subseteq Nat /\ r \in Gathered(stk) /\ x \in Gathered(stk)
  BY StepTyped DEF Stacks, EachInTurn
<1>3. r.st[k] = states[k]
  BY <1>2 DEF EachInTurn
<1>4. o.sigs \in Seq(SignalSet) /\ r.sigs \in Seq(SignalSet) /\ r.st \in StatesOf(stk)
  <2>1. stk[k] \in StrategyCfg /\ stk[k].type \in Known /\ states[k] \in StateSet
    BY DEF Stacks, StatesOf
  <2> DEFINE c == stk[k]
             st == states[k]
  <2>2. o \in OnBar(c, st, b, t)
    BY <1>3
  <2> HIDE DEF c, st
  <2>3. o.sigs \in Seq(SignalSet)
    BY <2>1, <2>2, OnBarTyped DEF c, st
  <2> QED BY <1>2, <2>3 DEF Gathered
<1>5. x.sigs = r.sigs \o o.sigs /\ x.st = [r.st EXCEPT ![k] = o.st]
  BY <1>1 DEF Outcome
<1>6. Range(x.sigs) = Range(r.sigs) \cup Range(o.sigs)
  <2> DEFINE p == r.sigs
             q == o.sigs
  <2> HIDE DEF p, q
  <2>1. p \in Seq(SignalSet) /\ q \in Seq(SignalSet) /\ x.sigs = p \o q
    BY <1>4, <1>5 DEF p, q
  <2>2. Range(p \o q) = Range(p) \cup Range(q)
    <3>1. ASSUME NEW m \in DOMAIN (p \o q) PROVE (p \o q)[m] \in Range(p) \cup Range(q)
      <4>1. CASE m <= Len(p)
        BY <2>1, <4>1 DEF Range
      <4>2. CASE m > Len(p)
        <5>1. m - Len(p) \in DOMAIN q /\ (p \o q)[m] = q[m - Len(p)]
          BY <2>1, <4>2
        <5> QED BY <5>1 DEF Range
      <4>3. m \in Nat /\ Len(p) \in Nat
        BY <2>1
      <4> QED BY <4>1, <4>2, <4>3
    <3>2. ASSUME NEW m \in DOMAIN p PROVE p[m] \in Range(p \o q)
      <4>1. m \in DOMAIN (p \o q) /\ (p \o q)[m] = p[m]
        BY <2>1
      <4> QED BY <4>1 DEF Range
    <3>3. ASSUME NEW m \in DOMAIN q PROVE q[m] \in Range(p \o q)
      <4>1. m + Len(p) \in DOMAIN (p \o q) /\ (p \o q)[m + Len(p)] = q[m]
        BY <2>1
      <4> QED BY <4>1 DEF Range
    <3> QED BY <3>1, <3>2, <3>3 DEF Range
  <2> QED BY <2>1, <2>2 DEF p, q
<1>7. ASSUME NEW j \in DOMAIN stk
      PROVE  IF j <= k THEN \E w \in OnBar(stk[j], states[j], b, t) : x.st[j] = w.st /\ Told(w, x)
             ELSE x.st[j] = states[j]
  <2>0. j \in Nat
    BY <1>2
  <2>1. CASE j = k
    <3>1. x.st[j] = o.st /\ Told(o, x) /\ o \in OnBar(stk[j], states[j], b, t)
      BY <1>3, <1>4, <1>5, <1>6, <2>1 DEF Told, StatesOf
    <3> QED BY <1>2, <2>1, <3>1
  <2>2. CASE j < k
    <3>1. j <= k - 1 /\ j <= k
      BY <1>2, <2>0, <2>2
    <3>2. PICK w \in OnBar(stk[j], states[j], b, t) : r.st[j] = w.st /\ Told(w, r)
      BY <3>1 DEF EachInTurn
    <3>3. x.st[j] = r.st[j]
      BY <1>2, <1>4, <1>5, <2>0, <2>2 DEF StatesOf
    <3>4. Told(w, x)
      BY <1>6, <3>2 DEF Told
    <3> QED BY <3>1, <3>2, <3>3, <3>4
  <2>3. CASE j > k
    <3>1. ~(j <= k - 1) /\ ~(j <= k) /\ j # k
      BY <1>2, <2>0, <2>3
    <3> QED BY <1>4, <1>5, <3>1 DEF EachInTurn, StatesOf
  <2> QED BY <1>2, <2>0, <2>1, <2>2, <2>3
<1>8. ASSUME NEW s \in Range(x.sigs)
      PROVE  \E j \in DOMAIN stk : \E w \in OnBar(stk[j], states[j], b, t) : s \in Range(w.sigs)
  <2>1. CASE s \in Range(r.sigs)
    BY <2>1 DEF EachInTurn
  <2>2. CASE s \in Range(o.sigs)
    BY <1>3, <2>2
  <2> QED BY <1>6, <2>1, <2>2
<1> QED BY <1>2, <1>7, <1>8 DEF EachInTurn

(* At the end every strategy was run once. *)
LEMMA RunBarInTurn ==
  ASSUME NEW stk \in Stacks, NEW states \in StatesOf(stk), NEW b \in BarSet, NEW t, Day(t) \in Int,
         NEW r \in RunBar(stk, states, b, t)
  PROVE  EachInTurn(stk, states, b, t, Len(stk), r)
<1> DEFINE n == Len(stk)
           f == CHOOSE f : IsRun(f, stk, states, b, t)
           Good == {k \in 0..n : \A x \in f[k] : EachInTurn(stk, states, b, t, k, x)}
<1>1. n \in Nat /\ DOMAIN stk = 1..n
  BY DEF Stacks
<1>2. IsRun(f, stk, states, b, t)
  BY RunExists
<1> HIDE DEF f
<1>3. 0 \in Good
  <2> SUFFICES ASSUME NEW x \in f[0] PROVE EachInTurn(stk, states, b, t, 0, x)
    BY <1>1
  <2>1. x = Outcome(<<>>, states)
    BY <1>1, <1>2 DEF IsRun
  <2>2. x.sigs = <<>> /\ x.st = states /\ x \in Gathered(stk)
    BY <2>1 DEF Outcome, Gathered
  <2>3. Range(x.sigs) = {}
    BY <2>2 DEF Range
  <2> QED BY <1>1, <2>2, <2>3 DEF EachInTurn
<1>4. ASSUME NEW m \in 0..(n - 1), m \in Good PROVE m + 1 \in Good
  <2> DEFINE k == m + 1
  <2>1. k \in 1..n /\ k \in 0..n /\ k # 0 /\ k - 1 = m
    BY <1>1
  <2> HIDE DEF k
  <2> SUFFICES ASSUME NEW x \in f[k] PROVE EachInTurn(stk, states, b, t, k, x)
    BY <2>1 DEF k
  <2>2. f[k] = UNION {Step(stk, b, t, k, y) : y \in f[k - 1]}
    BY <1>2, <2>1 DEF IsRun
  <2>3. PICK y \in f[k - 1] : x \in Step(stk, b, t, k, y)
    BY <2>2
  <2>4. EachInTurn(stk, states, b, t, k - 1, y)
    BY <1>4, <2>1, <2>3
  <2> QED BY <1>1, <2>1, <2>3, <2>4, StepInTurn
<1>5. n \in Good
  <2> HIDE DEF Good, n
  <2>1. 0..n \subseteq Good
    BY <1>1, <1>3, <1>4, CountUp
  <2> QED BY <1>1, <2>1
<1> QED BY <1>5, RunBarIsChosen DEF f

----------------------------------------------------------------------------
(* Days, and the stack a configuration builds *)

(* Days are natural numbers that never run backwards. *)
LEMMA QuotientOfNat ==
  ASSUME NEW t \in Nat, NEW p \in Nat \ {0}
  PROVE  t \div p \in Nat /\ t \div p <= (t + 1) \div p /\ (t + 1) \div p \in Nat
<1> DEFINE q == t \div p
           r == (t + 1) \div p
<1>1. q \in Int /\ r \in Int /\ p * q <= t /\ t < p * q + p /\ p * r <= t + 1 /\ t + 1 < p * r + p
  OBVIOUS
<1> HIDE DEF q, r
<1>2. q <= r
  <2> SUFFICES ASSUME r + 1 <= q PROVE FALSE
    BY <1>1
  <2>1. p * (q - (r + 1)) >= 0
    BY <1>1
  <2>2. p * (q - (r + 1)) = p * q - (p * r + p)
    BY <1>1
  <2>3. p * q \in Int /\ p * r \in Int
    BY <1>1
  <2> QED BY <1>1, <2>1, <2>2, <2>3
<1>3. q >= 0
  <2> SUFFICES ASSUME q + 1 <= 0 PROVE FALSE
    BY <1>1
  <2>1. p * (-(q + 1)) >= 0
    BY <1>1
  <2>2. p * (-(q + 1)) = -(p * q + p)
    BY <1>1
  <2>3. p * q \in Int
    BY <1>1
  <2> QED BY <1>1, <2>1, <2>2, <2>3
<1> QED BY <1>1, <1>2, <1>3 DEF q, r

(* A day is not empty. *)
LEMMA DayLength == HourLen * DayHours \in Nat \ {0}
<1>1. HourLen \in Nat /\ DayHours \in Nat /\ HourLen >= 1 /\ DayHours >= 1
  BY StrategiesAssumption
<1> QED BY <1>1

(* The same of Day. *)
LEMMA DaysPass ==
  ASSUME NEW t \in Nat PROVE Day(t) \in Nat /\ Day(t) <= Day(t + 1) /\ Day(t + 1) \in Nat
  BY DayLength, QuotientOfNat DEF Day

----------------------------------------------------------------------------
(* The stack a configuration builds. *)
LEMMA NewTyped ==
  ASSUME NEW c \in StrategyCfg
  PROVE  New(c) \in StrategyCfg /\ New(c).type = c.type
<1>1. c.start \in Int /\ c.end \in Int /\ c.minutes \in Int /\ c.fast \in Int /\ c.slow \in Int
      /\ c.atr \in Int /\ HourLen \in Int /\ DayHours \in Int
  BY StrategiesAssumption DEF StrategyCfg
<1> DEFINE from == ClampHour(c.start)
           to == ClampHour(c.end)
           last == IF c.minutes > HourLen - 1 THEN HourLen - 1
                   ELSE IF c.minutes > 0 THEN c.minutes ELSE 1
           need == Larger(Larger(c.fast, c.slow), c.atr)
           trend == Larger(Larger(c.fast, c.slow), MinTrend)
<1>2. from \in Int /\ to \in Int /\ last \in Int /\ need \in Int /\ trend \in Int
  BY <1>1 DEF ClampHour, Larger, MinTrend
<1>3. /\ NewFlattenSessionEnd(c) = [c EXCEPT !.start = from, !.end = to, !.minutes = last]
      /\ NewEMACrossATR(c) = [c EXCEPT !.start = from, !.end = to, !.slow = need]
      /\ NewVolatility(c) = [c EXCEPT !.slow = trend]
  BY DEF NewFlattenSessionEnd, NewEMACrossATR, NewVolatility
<1> HIDE DEF from, to, last, need, trend
<1>4. NewFlattenSessionEnd(c) \in StrategyCfg /\ NewFlattenSessionEnd(c).type = c.type
  BY <1>2, <1>3 DEF StrategyCfg
<1>5. NewEMACrossATR(c) \in StrategyCfg /\ NewEMACrossATR(c).type = c.type
  BY <1>2, <1>3 DEF StrategyCfg
<1>6. NewVolatility(c) \in StrategyCfg /\ NewVolatility(c).type = c.type
  BY <1>2, <1>3 DEF StrategyCfg
<1> QED BY <1>4, <1>5, <1>6 DEF New

(* A configuration that builds gives a stack of known strategies. *)
LEMMA StackBuilt ==
  ASSUME NEW cfgs \in Configs, Builds(cfgs) PROVE BuildFromConfig(cfgs) \in Stacks
<1> DEFINE T == {c \in Range(cfgs) : c.enabled}
           on == Select(cfgs, T)
           S == StrategyCfg \cap T
<1>1. cfgs \in Seq(StrategyCfg)
  BY SignalsAssumption
<1>2. on \in Seq(S)
  <2> HIDE DEF T
  <2> QED BY <1>1, Selected
<1>3. ASSUME NEW c \in S PROVE c \in StrategyCfg /\ c.type \in Known
  <2>1. c.enabled /\ c \in Range(cfgs)
    BY Zenon
  <2>2. PICK k \in DOMAIN cfgs : cfgs[k] = c
    BY <2>1, Zenon DEF Range
  <2> QED BY <2>1, <2>2, Zenon DEF Builds
<1> HIDE DEF on, S
<1> DEFINE new == [k \in DOMAIN on |-> New(on[k])]
<1>4. DOMAIN on = 1..Len(on) /\ Len(on) \in Nat /\ \A k \in DOMAIN on : on[k] \in S
  BY <1>2
<1>5. \A k \in DOMAIN on : new[k] \in StrategyCfg /\ new[k].type \in Known
  BY <1>3, <1>4, NewTyped
<1>6. new \in Seq(StrategyCfg) /\ DOMAIN new = DOMAIN on
  BY <1>4, <1>5
<1>7. BuildFromConfig(cfgs) = new
  BY DEF BuildFromConfig, on
<1> HIDE DEF new
<1> QED BY <1>5, <1>6, <1>7 DEF Stacks

(* The state a strategy starts from. *)
LEMMA FreshTyped == Fresh \in StateSet
  BY DEF Fresh, StateSet, NoRange, NoDay

----------------------------------------------------------------------------
(* What the strategies can tell from a bar made of one quote.              *)
LiveWidth == 2
Blind(s) == /\ s.by = "momentum" => s.dir = 0
            /\ s.by # "volatility" /\ s.by # "options_gamma"
            /\ s.by = "breakout" => s.dir = 50
Narrow(c, st) == c.type = "volatility" => \A i \in Ins : st.range[i] \in {NoRange, LiveWidth}

(* The bar of a quote: open and close are its middle, high and low 0.1%    *)
(* off.                                                                    *)
LEMMA LiveBarTyped ==
  ASSUME NEW i \in Ins, NEW q \in [bid : Nat, ask : Nat], q.bid + q.ask > 0
  PROVE  /\ LiveBar(i, q) \in BarSet /\ LiveBar(i, q).ins = i
         /\ LiveBar(i, q).close > 0 /\ LiveBar(i, q).open = LiveBar(i, q).close
         /\ 1000 * LiveBar(i, q).high = 1001 * LiveBar(i, q).close
         /\ 1000 * LiveBar(i, q).low = 999 * LiveBar(i, q).close
<1> DEFINE sum == q.bid + q.ask
           b == [ins |-> i, open |-> 1000 * sum, close |-> 1000 * sum,
                 high |-> 1001 * sum, low |-> 999 * sum]
<1>1. sum \in Nat /\ sum > 0
  OBVIOUS
<1>2. LiveBar(i, q) = b
  BY DEF LiveBar
<1> HIDE DEF sum
<1>3. /\ b \in BarSet /\ b.ins = i /\ b.close = 1000 * sum /\ b.open = 1000 * sum
      /\ b.high = 1001 * sum /\ b.low = 999 * sum
  BY <1>1 DEF BarSet
<1> HIDE DEF b
<1> QED BY <1>1, <1>2, <1>3

(* A single direction is the direction of every signal. *)
LEMMA SymbolDirections ==
  ASSUME NEW c \in StrategyCfg, NEW st \in StateSet, NEW i \in Ins, NEW dir \in Directions,
         NEW conf \in Confidences, NEW o \in ForSymbol(c, st, i, {dir}, conf)
  PROVE  \A k \in DOMAIN o.sigs : o.sigs[k].dir = dir
<1> DEFINE dirs == {dir}
<1>1. dirs \in SUBSET Directions /\ o \in ForSymbol(c, st, i, dirs, conf)
  OBVIOUS
<1> HIDE DEF dirs
<1>2. \A k \in DOMAIN o.sigs : o.sigs[k].dir \in dirs
  BY <1>1, SymbolIsRegular
<1> QED BY <1>2 DEF dirs

(* No direction, no signal. *)
LEMMA NothingDirected ==
  ASSUME NEW c, NEW i, NEW conf, NEW next
  PROVE  Outcome(Directed(c, i, 0, conf), next).sigs = <<>>
         /\ Outcome(Directed(c, i, 0, conf), next).st = next
  BY DEF Outcome, Directed

(* The width of a live bar, whatever the quote. *)
LEMMA LiveBarWidth ==
  ASSUME NEW b \in BarSet, b.close > 0, 1000 * b.high = 1001 * b.close, 1000 * b.low = 999 * b.close
  PROVE  ((IF b.high < b.low THEN b.low - b.high ELSE b.high - b.low) * 1000) \div b.close
           = LiveWidth
<1> DEFINE p == b.close
           diff == IF b.high < b.low THEN b.low - b.high ELSE b.high - b.low
<1>1. p \in Nat \ {0} /\ b.high \in Int /\ b.low \in Int /\ 1000 * b.high = 1001 * p
      /\ 1000 * b.low = 999 * p
  BY DEF BarSet
<1>2. diff * 1000 = 2 * p
  BY <1>1
<1> HIDE DEF p, diff
<1>3. (2 * p) \div p = 2
  BY <1>1
<1>4. (diff * 1000) \div p = LiveWidth
  BY <1>2, <1>3 DEF LiveWidth
<1> QED BY <1>4 DEF p, diff

(* On such a bar every signal is blind and every range is as wide as the   *)
(* last.                                                                   *)
LEMMA LiveOutcomes ==
  ASSUME NEW c \in StrategyCfg, c.type \in Known, NEW st \in StateSet, Narrow(c, st),
         NEW b \in BarSet, b.close > 0, b.open = b.close,
         1000 * b.high = 1001 * b.close, 1000 * b.low = 999 * b.close,
         NEW t, Day(t) \in Int, NEW o \in OnBar(c, st, b, t)
  PROVE  Narrow(c, o.st) /\ \A k \in DOMAIN o.sigs : Blind(o.sigs[k])
<1>0. \A k \in DOMAIN o.sigs : o.sigs[k].by = c.type
  BY OnBarTyped
<1>b. b.ins \in Ins /\ b.open \in Int /\ b.high \in Int /\ b.low \in Int /\ b.close \in Int
  BY DEF BarSet
<1>1. CASE c.type = "momentum"
  <2> DEFINE i == b.ins
             dir == 0
             conf == 40
  <2>1. o \in ForSymbol(c, st, i, {dir}, conf)
    BY <1>1, <1>b DEF OnBar, Momentum
  <2>2. i \in Ins /\ dir \in Directions /\ conf \in Confidences
    BY <1>b, QuotedDirections
  <2> HIDE DEF i, dir, conf
  <2>3. \A k \in DOMAIN o.sigs : o.sigs[k].dir = dir
    BY <2>1, <2>2, SymbolDirections
  <2> QED BY <1>0, <1>1, <2>3 DEF dir, Blind, Narrow
<1>2. CASE c.type = "breakout"
  <2> DEFINE i == b.ins
             dir == 50
             conf == 45
  <2>0. 1000 * b.close >= 999 * b.high
    BY <1>b
  <2> DEFINE got == IF 1000 * b.close >= 999 * b.high THEN 50
                    ELSE IF 1000 * b.close <= 1001 * b.low THEN -50 ELSE 0
  <2>4. o \in Breakout(c, st, b)
    BY <1>2 DEF OnBar
  <2>5. got = dir
    BY <2>0
  <2>6. Breakout(c, st, b) = ForSymbol(c, st, i, {got}, conf)
    BY DEF Breakout
  <2> HIDE DEF got
  <2>1. o \in ForSymbol(c, st, i, {dir}, conf)
    BY <2>4, <2>5, <2>6
  <2>2. i \in Ins /\ dir \in Directions /\ conf \in Confidences
    BY <1>b, QuotedDirections
  <2> HIDE DEF i, dir, conf
  <2>3. \A k \in DOMAIN o.sigs : o.sigs[k].dir = dir
    BY <2>1, <2>2, SymbolDirections
  <2> QED BY <1>0, <1>2, <2>3 DEF dir, Blind, Narrow
<1>3. CASE c.type = "options_gamma"
  <2> DEFINE i == b.ins
             n == More(st.seen[i], c.slow)
             next == [st EXCEPT !.seen[i] = n]
  <2>1. o = Outcome(<<>>, st) \/ \E conf \in {64, 80} : o = Outcome(Directed(c, i, 0, conf), next)
    BY <1>3 DEF OnBar, OptionsGamma
  <2> HIDE DEF next, i
  <2>2. o.sigs = <<>>
    BY <2>1, NothingDirected DEF Outcome
  <2> QED BY <1>3, <2>2 DEF Narrow
<1>4. CASE c.type = "volatility"
  <2> DEFINE i == b.ins
             n == More(st.seen[i], c.slow)
             width == ((IF b.high < b.low THEN b.low - b.high ELSE b.high - b.low) * 1000)
                        \div b.close
             range == IF st.range[i] \in {NoRange, width} THEN width ELSE Mixed
             next == [st EXCEPT !.seen[i] = n, !.range[i] = range]
             dirs == IF n > c.slow /\ range = Mixed THEN {-100, 0, 100} ELSE {0}
  <2>1. o \in Volatility(c, st, b)
    BY <1>4 DEF OnBar
  <2>2. Volatility(c, st, b) =
          IF ~Trades(c, i) \/ b.close <= 0 THEN {Outcome(<<>>, st)}
          ELSE {Outcome(Directed(c, i, dir, conf), next) : conf \in {45, 70}, dir \in dirs}
    BY DEF Volatility
  <2>3. width = LiveWidth
    BY LiveBarWidth
  <2> HIDE DEF width
  <2>4. range = LiveWidth
    BY <1>4, <1>b, <2>3 DEF Narrow
  <2>5. dirs = {0}
    BY <2>4 DEF LiveWidth, Mixed
  <2> HIDE DEF range, dirs, n
  <2>6. \A j \in Ins : next.range[j] \in {NoRange, LiveWidth}
    <3> HIDE DEF i
    <3>1. st.range \in [Ins -> Int]
      BY DEF StateSet
    <3>2. next.range = [st.range EXCEPT ![i] = range]
      BY DEF StateSet
    <3> QED BY <1>4, <2>4, <3>1, <3>2 DEF Narrow
  <2> HIDE DEF next, i
  <2>7. o = Outcome(<<>>, st) \/ \E conf \in {45, 70} : o = Outcome(Directed(c, i, 0, conf), next)
    BY <2>1, <2>2, <2>5
  <2>8. o.sigs = <<>> /\ (o.st = st \/ o.st = next)
    BY <2>7, NothingDirected DEF Outcome
  <2> QED BY <2>6, <2>8 DEF Narrow
<1>5. CASE c.type \notin {"momentum", "breakout", "options_gamma", "volatility"}
  BY <1>0, <1>5 DEF Blind, Narrow
<1> QED BY <1>1, <1>2, <1>3, <1>4, <1>5

----------------------------------------------------------------------------
(* The arithmetic of sizing *)

(* What an order uses of the budget, capped by the notional or not, is at  *)
(* most what its share of the active signals gives it.                     *)
LEMMA ProductMonotone ==
  ASSUME NEW a \in Int, NEW b \in Int, NEW c \in Nat, a <= b
  PROVE  a * c <= b * c /\ c * a <= c * b /\ a * c \in Int /\ b * c \in Int
<1>1. (b - a) * c >= 0
  OBVIOUS
<1>2. (b - a) * c = b * c - a * c
  OBVIOUS
<1> QED BY <1>1, <1>2

(* Products of natural numbers. *)
LEMMA ProductNat ==
  ASSUME NEW a \in Nat, NEW b \in Nat
  PROVE  a * b \in Nat /\ (a > 0 /\ b > 0 => a * b > 0)
  OBVIOUS

(* A quotient is at most m if the numerator is at most m denominators. *)
LEMMA QuotientAtMost ==
  ASSUME NEW x \in Nat, NEW y \in Nat \ {0}, NEW m \in Nat, x <= m * y
  PROVE  x \div y \in 0..m
<1> DEFINE q == x \div y
<1>1. q \in Nat /\ y * q <= x
  BY QuotientOfNat
<1> HIDE DEF q
<1>2. q <= m
  <2> SUFFICES ASSUME m + 1 <= q PROVE FALSE
    BY <1>1
  <2>1. y * (m + 1) <= y * q
    BY <1>1, ProductMonotone
  <2>2. y * (m + 1) = m * y + y /\ m * y \in Int /\ y * q \in Int
    BY <1>1
  <2> QED BY <1>1, <2>1, <2>2
<1> QED BY <1>1, <1>2 DEF q

(* num0/den0 is what the risk gives; num/den what is left of it. *)
LEMMA BudgetShare ==
  ASSUME NEW risk \in Nat \ {0}, NEW share \in 0..100, NEW active \in Nat \ {0},
         NEW scale \in Nat \ {0}, active <= scale, NEW unit \in Nat \ {0},
         NEW num \in Nat, NEW den \in Nat \ {0},
         num * (scale * unit) <= (risk * share) * den
  PROVE  (num * unit * active) \div (risk * den) \in 0..100
<1> DEFINE x == num * unit * active
           y == risk * den
           d0 == scale * unit
<1>1. x \in Nat /\ y \in Nat \ {0} /\ d0 \in Nat \ {0}
  <2>1. num * unit \in Nat /\ risk * den \in Nat /\ risk * den > 0 /\ scale * unit \in Nat
        /\ scale * unit > 0
    BY ProductNat
  <2> QED BY <2>1, ProductNat
<1>2. x <= num * d0
  <2> DEFINE nu == num * unit
  <2>1. nu \in Nat
    BY ProductNat
  <2>2. x = nu * active /\ num * d0 = nu * scale
    OBVIOUS
  <2> HIDE DEF nu, x, d0
  <2> QED BY <2>1, <2>2, ProductMonotone
<1>3. (risk * share) * den <= 100 * y
  <2>1. y \in Nat /\ (risk * share) * den = share * y
    BY <1>1
  <2> HIDE DEF y
  <2>2. share \in Int /\ share <= 100
    OBVIOUS
  <2>3. share * y <= 100 * y
    BY <2>1, <2>2, ProductMonotone
  <2> QED BY <2>1, <2>3
<1>4. x <= 100 * y
  <2>1. num * d0 \in Int /\ (risk * share) * den \in Int /\ num * d0 <= (risk * share) * den
    OBVIOUS
  <2> HIDE DEF x, y, d0
  <2> QED BY <1>1, <1>2, <1>3, <2>1
<1> HIDE DEF x, y
<1> DEFINE m == 100
<1>5. m \in Nat /\ x <= m * y
  BY <1>4
<1> HIDE DEF m
<1>6. x \div y \in 0..m
  BY <1>1, <1>5, QuotientAtMost
<1> QED BY <1>6 DEF m, x, y

VisitSet == {v \in [ins : Ins, quote : [bid : Nat, ask : Nat], active : Nat] :
               v.quote.bid + v.quote.ask > 0}

(* A share is in percent. *)
LEMMA SharesAreParts ==
  ASSUME NEW s \in SignalSet PROVE Share(s) \in 0..100
<1> DEFINE d == Size(s.dir)
           x == d * s.conf
<1>1. d \in 0..100 /\ s.conf \in 0..100
  BY DEF SignalSet, Directions, Confidences, Size
<1>2. x \in Nat /\ x <= 100 * 100
  <2> DEFINE c == s.conf
             m == 100
  <2>1. d \in Int /\ m \in Int /\ c \in Nat /\ d <= m /\ c <= m /\ d \in Nat
    BY <1>1
  <2> HIDE DEF d, c, m
  <2>2. d * c <= m * c /\ d * c \in Nat
    BY <2>1, ProductMonotone, ProductNat
  <2> QED BY <2>1, <2>2 DEF c, m
<1> HIDE DEF x, d
<1> DEFINE m == 100
           p == 100
<1>3. m \in Nat /\ p \in Nat \ {0} /\ x <= m * p
  BY <1>2
<1> HIDE DEF m, p
<1>4. x \div p \in 0..m
  BY <1>2, <1>3, QuotientAtMost
<1> QED BY <1>4 DEF Share, m, p, x, d

(* An order that passes the check uses at most one share of the budget. *)
LEMMA OrderUsesItsShare ==
  ASSUME NEW s \in SignalSet, visit \in VisitSet, visit.active > 0, PreTrade(s)
  PROVE  Used(s) \in 0..100
<1> DEFINE risk == RiskPct
           share == Share(s)
           active == visit.active
           scale == Scale(active)
           unit == Unit(s)
           ref == Ref(s)
           cap == 100 * NotionalPct
           num0 == risk * share
           den0 == scale * unit
           capped == NotionalPct > 0 /\ num0 * ref > cap * den0
           num == IF capped THEN cap ELSE num0
           den == IF capped THEN ref ELSE den0
<1>1. /\ visit.quote \in [bid : Nat, ask : Nat] /\ visit.quote.bid + visit.quote.ask > 0
      /\ active \in Nat \ {0} /\ s.stop \in Int
  BY DEF VisitSet, SignalSet
<1>2. risk \in Nat \ {0} /\ share \in 0..100 /\ cap \in Nat
  BY SharesAreParts, SignalsAssumption
<1>3. scale \in Nat \ {0} /\ active <= scale
  BY <1>1 DEF Scale
<1>4. ref \in Nat \ {0}
  <2>1. ref \in Int
    BY <1>1 DEF Ref
  <2>2. ref > 0
    BY DEF PreTrade
  <2> QED BY <2>1, <2>2
<1>5. unit \in Nat \ {0}
  <2>1. Mid \in Nat \ {0}
    BY <1>1 DEF Mid
  <2>2. HasStop(s) => Distance(s) > 0
    BY DEF PreTrade
  <2>3. Distance(s) \in Nat
    BY <1>1, <1>4 DEF Distance, Size
  <2> QED BY <2>1, <2>2, <2>3 DEF Unit
<1>6. Quantity(s) = IF capped THEN [num |-> cap, den |-> ref] ELSE [num |-> num0, den |-> den0]
  BY DEF Quantity
<1> HIDE DEF scale, unit, ref, cap, share, active, risk
<1>7. num0 \in Nat /\ den0 \in Nat \ {0}
  BY <1>2, <1>3, <1>5, ProductNat
<1>8. num * den0 <= num0 * den /\ num \in Nat /\ den \in Nat \ {0}
  <2>1. cap * den0 \in Int /\ num0 * ref \in Int
    BY <1>2, <1>4, <1>7
  <2> HIDE DEF num0, den0
  <2> QED BY <1>2, <1>4, <1>7, <2>1
<1>9. (num * unit * active) \div (risk * den) \in 0..100
  <2>1. num * (scale * unit) <= (risk * share) * den
    BY <1>8
  <2> HIDE DEF num, den
  <2> QED BY <1>1, <1>2, <1>3, <1>5, <1>8, <2>1, BudgetShare DEF active
<1>10. Quantity(s).num = num /\ Quantity(s).den = den
  <2> HIDE DEF num0, den0
  <2> QED BY <1>6
<1> QED BY <1>9, <1>10 DEF Used, active, unit, risk

----------------------------------------------------------------------------
(* The active signals still to be looked at. *)
Actives(ss) == {k \in DOMAIN ss : Active(ss[k])}

(* CountActive counts them. *)
LEMMA ActivesCounted ==
  ASSUME NEW ss \in Seq(SignalSet)
  PROVE  IsFiniteSet(Actives(ss)) /\ CountActive(ss) \in Nat
         /\ CountActive(ss) = Cardinality(Actives(ss))
<1>1. IsFiniteSet(1..Len(ss)) /\ Actives(ss) \subseteq 1..Len(ss)
  BY FS_Interval DEF Actives
<1>2. IsFiniteSet(Actives(ss))
  BY <1>1, FS_Subset
<1>3. CountActive(ss) = Cardinality(Actives(ss))
  BY DEF CountActive, Actives
<1> QED BY <1>2, <1>3, FS_CardinalityType

(* There are none in no signals. *)
LEMMA NoActives == CountActive(<<>>) = 0
<1>1. {k \in DOMAIN <<>> : Active(<<>>[k])} = {}
  OBVIOUS
<1> QED BY <1>1, FS_EmptySet DEF CountActive

(* The first signal counts if it is active, the rest as before. *)
LEMMA TailCounted ==
  ASSUME NEW ss \in Seq(SignalSet), ss # <<>>
  PROVE  CountActive(ss) = CountActive(Tail(ss)) + (IF Active(Head(ss)) THEN 1 ELSE 0)
<1> DEFINE rest == Tail(ss)
           A == Actives(ss)
           B == Actives(rest)
           C == A \ {1}
           f == [k \in B |-> k + 1]
<1>1. rest \in Seq(SignalSet) /\ Len(rest) = Len(ss) - 1 /\ Len(ss) \in Nat /\ Len(ss) > 0
      /\ (\A k \in 1..Len(rest) : rest[k] = ss[k + 1]) /\ Head(ss) = ss[1]
  OBVIOUS
<1> HIDE DEF rest
<1>2. DOMAIN ss = 1..Len(ss) /\ DOMAIN rest = 1..Len(rest)
  BY <1>1
<1>3. IsFiniteSet(A) /\ IsFiniteSet(B) /\ CountActive(ss) = Cardinality(A)
      /\ CountActive(rest) = Cardinality(B)
  BY <1>1, ActivesCounted
<1>4. ASSUME NEW k \in B PROVE k \in Nat /\ k + 1 \in C
  BY <1>1, <1>2 DEF Actives
<1>5. ASSUME NEW j \in C PROVE j - 1 \in B /\ j \in Nat
  <2>1. j \in 1..Len(ss) /\ j # 1 /\ Active(ss[j])
    BY <1>2 DEF Actives
  <2>2. j - 1 \in 1..Len(rest) /\ (j - 1) + 1 = j
    BY <1>1, <2>1
  <2>3. rest[j - 1] = ss[j]
    <3>1. rest[j - 1] = ss[(j - 1) + 1]
      BY <1>1, <2>2
    <3> QED BY <2>2, <3>1
  <2> QED BY <1>2, <2>1, <2>2, <2>3 DEF Actives
<1> HIDE DEF A, B, C
<1>6. f \in Bijection(B, C)
  <2>1. f \in [B -> C]
    BY <1>4
  <2>2. \A k, j \in B : f[k] = f[j] => k = j
    BY <1>4
  <2>3. \A j \in C : \E k \in B : f[k] = j
    BY <1>5
  <2> QED BY <2>1, <2>2, <2>3 DEF Bijection, Injection, Surjection, IsInjective
<1>7. Cardinality(B) = Cardinality(C) /\ IsFiniteSet(C)
  <2>1. IsFiniteSet(C)
    BY <1>3, FS_Subset DEF C
  <2> QED BY <1>3, <1>6, <2>1, FS_Bijection DEF ExistsBijection
<1>8. 1 \in A <=> Active(Head(ss))
  BY <1>1, <1>2 DEF A, Actives
<1>9. CASE 1 \in A
  <2>1. A = C \cup {1} /\ 1 \notin C
    BY <1>9 DEF C
  <2>2. Cardinality(A) = Cardinality(C) + 1
    BY <1>7, <2>1, FS_AddElement
  <2> QED BY <1>3, <1>7, <1>8, <1>9, <2>2 DEF rest
<1>10. CASE 1 \notin A
  <2>1. A = C
    BY <1>10 DEF C
  <2>2. CountActive(rest) \in Nat
    BY <1>1, ActivesCounted
  <2> QED BY <1>3, <1>7, <1>8, <1>10, <2>1, <2>2 DEF rest
<1> QED BY <1>9, <1>10

----------------------------------------------------------------------------
(* The trading loop *)

(* The trading loop of Signals, whatever program is running.               *)
LoopTyped ==
  /\ stack \in Stacks /\ clock \in 0..MaxTime
  /\ pos \in [Ins -> -MaxPos..MaxPos] /\ snap \in [Ins -> -MaxPos..MaxPos]
  /\ todo \in Seq(Range(Instruments)) /\ sigs \in Seq(SignalSet) /\ risked \in Nat
  /\ visited \subseteq Ins /\ excused \subseteq Ins
  /\ Visiting => visit \in VisitSet /\ todo # <<>> /\ visit.ins = Head(todo)
  /\ sigs # <<>> => Visiting
PausedTyped == paused \in BOOLEAN

(* The states of the strategies; a backtest shares them.                   *)
StatesTyped ==
  phase = Live =>
    sts \in StatesOf(stack)
    /\ \A k \in DOMAIN stack : \A i \in Ins : sts[k].emitted[i] \in NoDay..Day(clock)

(* What was emitted today was emitted on a visit in the window.            *)
EmissionsVisited ==
  phase = Live =>
    \A k \in DOMAIN stack : stack[k].type = "flatten_session_end" =>
      \A i \in Ins : sts[k].emitted[i] = Day(clock) => i \in visited

(* What is held has an excuse or is about to be flattened, covered or not. *)
Pending(i) == \E s \in Range(sigs) : s.flatten = TRUE /\ s.ins = i
Accounted == \A i \in Ins : pos[i] = 0 \/ i \in excused \/ Pending(i)

(* Every active signal still to come may use its share. *)
Budgeted == Visiting => risked + 100 * CountActive(sigs) <= 100 * visit.active

SignalsBlind == \A s \in Range(sigs) : Blind(s)
StatesNarrow == phase = Live => \A k \in DOMAIN stack : Narrow(stack[k], sts[k])

LoopIInv == LoopTyped /\ StatesTyped /\ EmissionsVisited /\ Accounted /\ Budgeted
            /\ SignalsBlind /\ StatesNarrow

StatesIInv == StatesTyped /\ EmissionsVisited /\ StatesNarrow

(* A list of signals is its first and the rest. *)
LEMMA FirstAndRest ==
  ASSUME NEW ss \in Seq(SignalSet), ss # <<>>
  PROVE  Head(ss) \in SignalSet /\ Tail(ss) \in Seq(SignalSet)
         /\ Range(ss) = {Head(ss)} \cup Range(Tail(ss))
<1> DEFINE rest == Tail(ss)
<1>1. rest \in Seq(SignalSet) /\ Len(rest) = Len(ss) - 1 /\ Len(ss) \in Nat /\ Len(ss) > 0
      /\ (\A k \in 1..Len(rest) : rest[k] = ss[k + 1]) /\ Head(ss) = ss[1] /\ Head(ss) \in SignalSet
  OBVIOUS
<1> HIDE DEF rest
<1>2. DOMAIN ss = 1..Len(ss) /\ DOMAIN rest = 1..Len(rest)
  BY <1>1
<1>3. ASSUME NEW k \in DOMAIN ss, k # 1 PROVE ss[k] \in Range(rest)
  <2>1. k - 1 \in DOMAIN rest /\ (k - 1) + 1 = k
    BY <1>1, <1>2, <1>3
  <2>2. rest[k - 1] = ss[k]
    <3>1. rest[k - 1] = ss[(k - 1) + 1]
      BY <1>1, <1>2, <2>1
    <3> QED BY <2>1, <3>1
  <2> QED BY <2>1, <2>2 DEF Range
<1>4. ASSUME NEW k \in DOMAIN rest PROVE rest[k] \in Range(ss)
  <2>1. k + 1 \in DOMAIN ss /\ rest[k] = ss[k + 1]
    BY <1>1, <1>2
  <2> QED BY <2>1 DEF Range
<1>5. 1 \in DOMAIN ss /\ Head(ss) \in Range(ss)
  <2>1. 1 \in DOMAIN ss /\ Head(ss) = ss[1]
    BY <1>1, <1>2
  <2> QED BY <2>1 DEF Range
<1>6. Range(ss) \subseteq {Head(ss)} \cup Range(rest)
  <2> SUFFICES ASSUME NEW k \in DOMAIN ss PROVE ss[k] \in {Head(ss)} \cup Range(rest)
    BY DEF Range
  <2> QED BY <1>1, <1>3
<1>7. Range(rest) \subseteq Range(ss)
  <2> SUFFICES ASSUME NEW k \in DOMAIN rest PROVE rest[k] \in Range(ss)
    BY DEF Range
  <2> QED BY <1>4
<1> QED BY <1>1, <1>5, <1>6, <1>7 DEF rest

(* An empty list has no members. *)
LEMMA NothingLeft == Range(<<>>) = {}
  BY DEF Range

(* Strategies that have just been built. *)
LEMMA FreshStates ==
  ASSUME NEW stk \in Stacks, NEW states, states = [k \in DOMAIN stk |-> Fresh]
  PROVE  /\ states \in StatesOf(stk)
         /\ \A k \in DOMAIN stk : Narrow(stk[k], states[k])
         /\ \A k \in DOMAIN stk : \A i \in Ins : states[k].emitted[i] = NoDay
<1>1. \A i \in Ins : Fresh.emitted[i] = NoDay /\ Fresh.range[i] = NoRange
  BY DEF Fresh
<1>2. \A k \in DOMAIN stk : states[k] = Fresh
  OBVIOUS
<1>3. states \in StatesOf(stk)
  BY FreshTyped DEF StatesOf
<1> QED BY <1>1, <1>2, <1>3 DEF Narrow

(* What a tick visits are instruments. *)
LEMMA InstrumentsKnown ==
  Range(Instruments) \subseteq Ins /\ Instruments \in Seq(Range(Instruments))
<1>1. Instruments \in Seq(Ins)
  BY SignalsAssumption
<1> QED BY <1>1 DEF Range

(* The clock tells a day. *)
LEMMA ClockTyped ==
  ASSUME LoopTyped PROVE clock \in Nat /\ Day(clock) \in Nat
<1>1. clock \in Nat
  BY SignalsAssumption DEF LoopTyped
<1> QED BY <1>1, DaysPass

(* Before the first tick. *)
LEMMA InitLoop == BotInit => LoopIInv
<1> SUFFICES ASSUME BotInit PROVE LoopIInv
  OBVIOUS
<1>0. SignalsInit
  BY DEF BotInit
<1>1. stack \in Stacks
  <2>1. PICK cfgs \in Configs : Builds(cfgs) /\ stack = BuildFromConfig(cfgs)
    BY <1>0 DEF SignalsInit
  <2> QED BY <2>1, StackBuilt
<1>2. /\ sts \in StatesOf(stack)
      /\ \A k \in DOMAIN stack : Narrow(stack[k], sts[k])
      /\ \A k \in DOMAIN stack : \A i \in Ins : sts[k].emitted[i] = NoDay
  <2>1. sts = [k \in DOMAIN stack |-> Fresh]
    BY <1>0 DEF SignalsInit
  <2> QED BY <1>1, <2>1, FreshStates
<1>3. /\ clock = 0 /\ pos = [i \in Ins |-> 0] /\ snap = [i \in Ins |-> 0]
      /\ todo = Instruments /\ visit = NoVisit /\ sigs = <<>> /\ risked = 0
      /\ visited = {} /\ excused = Ins
  BY <1>0 DEF SignalsInit
<1>4. 0 \in 0..MaxTime /\ 0 \in -MaxPos..MaxPos /\ ~Visiting
  BY <1>3, SignalsAssumption DEF Visiting
<1>5. LoopTyped
  BY <1>1, <1>3, <1>4, InstrumentsKnown DEF LoopTyped
<1>6. StatesTyped /\ EmissionsVisited /\ StatesNarrow
  <2>1. Day(clock) \in Nat
    BY <1>5, ClockTyped
  <2>2. NoDay \in NoDay..Day(clock) /\ NoDay # Day(clock)
    BY <2>1 DEF NoDay
  <2> QED BY <1>2, <2>2 DEF StatesTyped, EmissionsVisited, StatesNarrow
<1>7. Accounted /\ Budgeted
  BY <1>3, <1>4 DEF Accounted, Budgeted
<1>8. SignalsBlind
  BY <1>3, NothingLeft DEF SignalsBlind
<1> QED BY <1>5, <1>6, <1>7, <1>8 DEF LoopIInv

(* What no step of the loop's own may change when strategies do not run.   *)
LEMMA StatesKept ==
  ASSUME LoopIInv, UNCHANGED <<stack, sts, clock, visited, phase>>
  PROVE  StatesTyped' /\ EmissionsVisited' /\ StatesNarrow'
  BY DEF LoopIInv, StatesTyped, EmissionsVisited, StatesNarrow

(* A new day starts with every excuse and no visit, and with nothing       *)
(* emitted.                                                                *)
LEMMA ClockTickLoop == ASSUME LoopIInv, ClockTick, phase' = phase PROVE LoopIInv'
<1>1. clock \in Nat /\ Day(clock) \in Nat /\ Day(clock') \in Nat /\ Day(clock) <= Day(clock')
      /\ clock' \in 0..MaxTime
  <2>1. LoopTyped /\ clock \in Nat /\ clock' = clock + 1 /\ clock < MaxTime
    BY ClockTyped DEF LoopIInv, ClockTick
  <2>2. Day(clock) \in Nat /\ Day(clock) <= Day(clock + 1) /\ Day(clock + 1) \in Nat
    BY <2>1, DaysPass
  <2> QED BY <2>1, <2>2, SignalsAssumption
<1>2. UNCHANGED <<stack, sts, pos, snap, todo, visit, sigs, risked>>
  BY DEF ClockTick, stratVars, accountVars, tickVars
<1>3. \/ Day(clock') = Day(clock) /\ visited' = visited /\ excused' = excused
      \/ Day(clock') # Day(clock) /\ visited' = {} /\ excused' = Ins
  BY DEF ClockTick, flatVars
<1>4. LoopTyped'
  BY <1>1, <1>2, <1>3 DEF LoopIInv, LoopTyped, Visiting
<1>5. StatesTyped'
  <2> SUFFICES ASSUME phase = Live, NEW k \in DOMAIN stack, NEW i \in Ins
               PROVE  sts[k].emitted[i] \in NoDay..Day(clock')
    BY <1>2 DEF LoopIInv, StatesTyped
  <2>1. sts[k].emitted[i] \in NoDay..Day(clock)
    BY DEF LoopIInv, StatesTyped
  <2> QED BY <1>1, <2>1 DEF NoDay
<1>6. EmissionsVisited'
  <2> SUFFICES ASSUME phase = Live, NEW k \in DOMAIN stack, stack[k].type = "flatten_session_end",
                      NEW i \in Ins, sts[k].emitted[i] = Day(clock')
               PROVE  i \in visited'
    BY <1>2 DEF EmissionsVisited
  <2>1. sts[k].emitted[i] \in NoDay..Day(clock)
    BY DEF LoopIInv, StatesTyped
  <2>2. Day(clock') = Day(clock)
    BY <1>1, <2>1 DEF NoDay
  <2> QED BY <1>3, <2>2 DEF LoopIInv, EmissionsVisited
<1>7. StatesNarrow' /\ Budgeted' /\ SignalsBlind'
  BY <1>2 DEF LoopIInv, StatesNarrow, Budgeted, SignalsBlind, Visiting
<1>8. Accounted'
  BY <1>2, <1>3 DEF LoopIInv, Accounted, Pending
<1> QED BY <1>4, <1>5, <1>6, <1>7, <1>8 DEF LoopIInv

(* A restart forgets what was emitted and excuses everything. *)
LEMMA RestartLoop == ASSUME LoopIInv, Restart, phase' = phase PROVE LoopIInv'
<1>1. /\ sts' = [k \in DOMAIN stack |-> Fresh] /\ snap' = [i \in Ins |-> 0]
      /\ todo' = Instruments /\ visit' = NoVisit /\ sigs' = <<>> /\ risked' = 0
      /\ visited' = {} /\ excused' = Ins /\ UNCHANGED <<stack, clock, pos>>
  BY DEF Restart
<1>2. LoopTyped'
  <2>1. ~Visiting' /\ 0 \in -MaxPos..MaxPos
    BY <1>1, SignalsAssumption DEF Visiting
  <2> QED BY <1>1, <2>1, InstrumentsKnown DEF LoopIInv, LoopTyped
<1>3. stack \in Stacks /\ Day(clock) \in Nat
  BY ClockTyped DEF LoopIInv, LoopTyped
<1>4. /\ sts' \in StatesOf(stack)
      /\ \A k \in DOMAIN stack : Narrow(stack[k], sts'[k])
      /\ \A k \in DOMAIN stack : \A i \in Ins : sts'[k].emitted[i] = NoDay
  BY <1>1, <1>3, FreshStates
<1>5. NoDay \in NoDay..Day(clock) /\ NoDay # Day(clock)
  BY <1>3 DEF NoDay
<1>6. StatesTyped' /\ EmissionsVisited' /\ StatesNarrow'
  BY <1>1, <1>4, <1>5 DEF StatesTyped, EmissionsVisited, StatesNarrow
<1>7. Accounted' /\ Budgeted' /\ SignalsBlind'
  BY <1>1, NothingLeft DEF Accounted, Budgeted, SignalsBlind, Visiting
<1> QED BY <1>2, <1>6, <1>7 DEF LoopIInv

(* Steps that run no strategy and place no order. *)
LEMMA QuietLoop ==
  ASSUME LoopIInv, phase' = phase,
         NoQuote \/ EndVisit \/ Reconcile \/ (\E b \in BOOLEAN : SetPaused(b))
  PROVE  LoopIInv'
<1>0. UNCHANGED <<stack, sts, clock, visited, phase>> /\ UNCHANGED <<pos, sigs, excused>>
  BY DEF NoQuote, EndVisit, Reconcile, SetPaused, stratVars, accountVars, tickVars, flatVars
<1>1. StatesTyped' /\ EmissionsVisited' /\ StatesNarrow'
  BY <1>0, StatesKept
<1>2. Accounted' /\ SignalsBlind'
  BY <1>0 DEF LoopIInv, Accounted, Pending, SignalsBlind
<1>3. LoopTyped' /\ Budgeted'
  <2>1. CASE NoQuote
    <3>1. UNCHANGED <<snap, visit, risked>> /\ todo' = Tail(todo) /\ todo # <<>> /\ ~Visiting
      BY <2>1 DEF NoQuote, accountVars
    <3> QED BY <1>0, <3>1 DEF LoopIInv, LoopTyped, Budgeted, Visiting
  <2>2. CASE EndVisit
    <3>1. UNCHANGED <<snap>> /\ todo' = Tail(todo) /\ visit' = NoVisit /\ sigs = <<>> /\ risked' = 0
          /\ Visiting
      BY <2>2 DEF EndVisit, accountVars
    <3> QED BY <1>0, <3>1 DEF LoopIInv, LoopTyped, Budgeted, Visiting
  <2>3. CASE Reconcile
    <3>1. UNCHANGED <<visit, risked>> /\ todo = <<>> /\ todo' = Instruments
      BY <2>3 DEF Reconcile
    <3>2. PICK failed \in SUBSET {i.venue : i \in Ins} :
            snap' = [i \in Ins |-> IF i.venue \in failed THEN 0 ELSE pos[i]]
      BY <2>3 DEF Reconcile
    <3>3. snap' \in [Ins -> -MaxPos..MaxPos]
      BY <3>2, SignalsAssumption DEF LoopIInv, LoopTyped
    <3> QED BY <1>0, <3>1, <3>3, InstrumentsKnown DEF LoopIInv, LoopTyped, Budgeted, Visiting
  <2>4. CASE \E b \in BOOLEAN : SetPaused(b)
    <3>1. UNCHANGED <<snap, todo, visit, risked>>
      BY <2>4 DEF SetPaused, accountVars, tickVars
    <3> QED BY <1>0, <3>1 DEF LoopIInv, LoopTyped, Budgeted, Visiting
  <2> QED BY <2>1, <2>2, <2>3, <2>4
<1> QED BY <1>1, <1>2, <1>3 DEF LoopIInv

----------------------------------------------------------------------------
(* Handling a signal: the rest keeps what was true of all. *)
Handled == /\ sigs # <<>> /\ UNCHANGED <<stack, sts, clock, snap, todo, visit, visited, phase>>
           /\ sigs' \in {Tail(sigs), <<>>}

(* Handling a signal leaves the strategies and the visit alone. *)
LEMMA HandlingIsHandled ==
  ASSUME NEW kinds, Handling(kinds), sigs' \in {Tail(sigs), <<>>}, phase' = phase
  PROVE  Handled
  BY DEF Handling, Handled, stratVars

(* The parts of the invariant no handler disturbs. *)
LEMMA HandledLoop ==
  ASSUME LoopIInv, Handled,
         pos' \in [Ins -> -MaxPos..MaxPos], risked' \in Nat, excused' \subseteq Ins,
         Accounted', Budgeted'
  PROVE  LoopIInv'
<1>1. sigs \in Seq(SignalSet) /\ Visiting
  BY DEF Handled, LoopIInv, LoopTyped
<1>2. sigs' \in Seq(SignalSet) /\ Range(sigs') \subseteq Range(sigs)
  <2>1. CASE sigs' = Tail(sigs)
    BY <1>1, <2>1, FirstAndRest DEF Handled
  <2>2. CASE sigs' = <<>>
    BY <2>2, NothingLeft
  <2> QED BY <2>1, <2>2 DEF Handled
<1>3. LoopTyped'
  BY <1>1, <1>2 DEF Handled, LoopIInv, LoopTyped, Visiting
<1>4. StatesTyped' /\ EmissionsVisited' /\ StatesNarrow'
  BY StatesKept DEF Handled
<1>5. SignalsBlind'
  BY <1>2 DEF LoopIInv, SignalsBlind
<1> QED BY <1>3, <1>4, <1>5 DEF LoopIInv

(* The budget after a signal that used u of it. *)
LEMMA BudgetLeft ==
  ASSUME LoopIInv, Handled, sigs' = Tail(sigs), NEW u \in 0..100, risked' = risked + u,
         u = 0 \/ Active(Head(sigs))
  PROVE  Budgeted' /\ risked' \in Nat
<1>1. sigs \in Seq(SignalSet) /\ Visiting /\ risked \in Nat /\ visit.active \in Nat
  BY DEF Handled, LoopIInv, LoopTyped, VisitSet
<1>2. Tail(sigs) \in Seq(SignalSet)
  BY <1>1, FirstAndRest DEF Handled
<1>3. CountActive(sigs) = CountActive(Tail(sigs)) + (IF Active(Head(sigs)) THEN 1 ELSE 0)
  BY <1>1, TailCounted DEF Handled
<1>4. CountActive(sigs) \in Nat /\ CountActive(Tail(sigs)) \in Nat
  BY <1>1, <1>2, ActivesCounted
<1>5. risked + 100 * CountActive(sigs) <= 100 * visit.active
  BY <1>1 DEF LoopIInv, Budgeted
<1>6. risked' + 100 * CountActive(Tail(sigs)) <= 100 * visit.active
  BY <1>1, <1>3, <1>4, <1>5
<1> QED BY <1>1, <1>6 DEF Budgeted, Handled

(* A fill changes one position, within the bound. *)
LEMMA FillTyped ==
  ASSUME LoopTyped, NEW i \in Ins, NEW n \in Int, Fills(i, n)
  PROVE  /\ pos' \in [Ins -> -MaxPos..MaxPos]
         /\ \A j \in Ins : pos'[j] = IF j = i THEN pos[i] + n ELSE pos[j]
<1>1. pos \in [Ins -> -MaxPos..MaxPos] /\ MaxPos \in Nat
  BY SignalsAssumption DEF LoopTyped
<1>2. pos[i] \in Int /\ Size(pos[i] + n) <= MaxPos /\ pos' = [pos EXCEPT ![i] = @ + n]
  BY <1>1 DEF Fills
<1>3. pos[i] + n \in -MaxPos..MaxPos
  BY <1>1, <1>2 DEF Size
<1> QED BY <1>1, <1>2, <1>3

(* closeVenuePosition leaves nothing, or a reason. *)
LEMMA ExitAccounts ==
  ASSUME LoopTyped, NEW i \in Ins, Exit(i)
  PROVE  /\ pos' \in [Ins -> -MaxPos..MaxPos] /\ excused \subseteq excused'
         /\ excused' \subseteq Ins
         /\ \A j \in Ins : j # i => pos'[j] = pos[j]
         /\ pos'[i] = 0 \/ i \in excused'
<1>1. excused \subseteq Ins /\ pos \in [Ins -> -MaxPos..MaxPos] /\ pos[i] \in Int /\ snap[i] \in Int
  BY SignalsAssumption DEF LoopTyped
<1>2. CASE /\ Fills(i, -snap[i])
           /\ excused' = IF snap[i] = pos[i] THEN excused ELSE excused \cup {i}
  <2> DEFINE n == -snap[i]
  <2>1. n \in Int /\ Fills(i, n)
    BY <1>1, <1>2
  <2> HIDE DEF n
  <2>2. /\ pos' \in [Ins -> -MaxPos..MaxPos]
        /\ \A j \in Ins : pos'[j] = IF j = i THEN pos[i] + n ELSE pos[j]
    BY <2>1, FillTyped
  <2>3. snap[i] = pos[i] => pos'[i] = 0
    BY <1>1, <2>2 DEF n
  <2> QED BY <1>1, <1>2, <2>2, <2>3
<1>3. CASE UNCHANGED pos /\ excused' = excused \cup {i}
  BY <1>1, <1>3
<1> QED BY <1>2, <1>3 DEF Exit

(* A flatten signal leaves nothing or a reason. *)
LEMMA FlattenLoop == ASSUME LoopIInv, HandleFlatten, phase' = phase PROVE LoopIInv'
<1> DEFINE i == Head(sigs).ins
<1>1. Handled /\ sigs' = Tail(sigs) /\ risked' = risked
  BY HandlingIsHandled DEF HandleFlatten
<1>2. LoopTyped /\ sigs \in Seq(SignalSet) /\ sigs # <<>>
  BY <1>1 DEF LoopIInv, LoopTyped, Handled
<1>3. i \in Ins /\ Range(sigs) = {Head(sigs)} \cup Range(sigs')
  BY <1>1, <1>2, FirstAndRest DEF SignalSet
<1>4. /\ pos' \in [Ins -> -MaxPos..MaxPos] /\ excused \subseteq excused' /\ excused' \subseteq Ins
      /\ \A j \in Ins : j # i => pos'[j] = pos[j]
      /\ pos'[i] = 0 \/ i \in excused'
  <2>1. CASE snap[i] # 0
    <3>1. Exit(i)
      BY <2>1 DEF HandleFlatten
    <3> HIDE DEF i
    <3> QED BY <1>2, <1>3, <3>1, ExitAccounts
  <2>2. CASE snap[i] = 0
    <3>1. UNCHANGED pos /\ excused' = IF pos[i] = 0 THEN excused ELSE excused \cup {i}
      BY <2>2 DEF HandleFlatten
    <3> HIDE DEF i
    <3> QED BY <1>2, <1>3, <3>1 DEF LoopTyped
  <2> QED BY <2>1, <2>2
<1>5. Accounted'
  <2> SUFFICES ASSUME NEW j \in Ins PROVE pos'[j] = 0 \/ j \in excused' \/ Pending(j)'
    BY DEF Accounted
  <2>1. CASE j = i
    BY <1>4, <2>1
  <2>2. CASE j # i
    <3>1. Pending(j) => Pending(j)'
      BY <1>3, <2>2 DEF Pending
    <3>2. pos[j] = 0 \/ j \in excused \/ Pending(j)
      BY DEF LoopIInv, Accounted
    <3> HIDE DEF i
    <3> QED BY <1>4, <2>2, <3>1, <3>2
  <2> QED BY <2>1, <2>2
<1>6. Budgeted' /\ risked' \in Nat
  <2> DEFINE u == 0
  <2>1. u \in 0..100 /\ risked' = risked + u /\ u = 0
    BY <1>1, <1>2 DEF LoopTyped
  <2> HIDE DEF u
  <2> QED BY <1>1, <2>1, BudgetLeft
<1> QED BY <1>1, <1>4, <1>5, <1>6, HandledLoop

(* A signal that is not a flatten is nobody's last reason. *)
LEMMA OthersPending ==
  ASSUME LoopIInv, sigs # <<>>, sigs' = Tail(sigs), Handling({FALSE}), NEW j \in Ins, Pending(j)
  PROVE  Pending(j)'
<1>1. sigs \in Seq(SignalSet)
  BY DEF LoopIInv, LoopTyped
<1>2. Range(sigs) = {Head(sigs)} \cup Range(sigs')
  BY <1>1, FirstAndRest
<1>3. Head(sigs).flatten \in {FALSE}
  BY DEF Handling
<1>4. PICK s \in Range(sigs) : s.flatten = TRUE /\ s.ins = j
  BY Zenon DEF Pending
<1>5. s # Head(sigs)
  BY <1>3, <1>4, Zenon
<1>6. s \in Range(sigs')
  BY <1>2, <1>5
<1> QED BY <1>4, <1>6, Zenon DEF Pending

(* So does an exit on the opposite signal. *)
LEMMA OppositeLoop == ASSUME LoopIInv, HandleOpposite, phase' = phase PROVE LoopIInv'
<1> DEFINE i == Head(sigs).ins
<1>1. Handled /\ sigs' = Tail(sigs) /\ risked' = risked /\ Handling({FALSE}) /\ Exit(i)
  BY HandlingIsHandled DEF HandleOpposite
<1>2. LoopTyped /\ sigs \in Seq(SignalSet) /\ sigs # <<>>
  BY <1>1 DEF LoopIInv, LoopTyped, Handled
<1>3. i \in Ins
  BY <1>2, FirstAndRest DEF SignalSet
<1> HIDE DEF i
<1>4. /\ pos' \in [Ins -> -MaxPos..MaxPos] /\ excused \subseteq excused' /\ excused' \subseteq Ins
      /\ \A j \in Ins : j # i => pos'[j] = pos[j]
      /\ pos'[i] = 0 \/ i \in excused'
  BY <1>1, <1>2, <1>3, ExitAccounts
<1>5. Accounted'
  <2> SUFFICES ASSUME NEW j \in Ins PROVE pos'[j] = 0 \/ j \in excused' \/ Pending(j)'
    BY DEF Accounted
  <2>1. Pending(j) => Pending(j)'
    BY <1>1, <1>2, OthersPending
  <2>2. pos[j] = 0 \/ j \in excused \/ Pending(j)
    BY DEF LoopIInv, Accounted
  <2> QED BY <1>4, <2>1, <2>2
<1>6. Budgeted' /\ risked' \in Nat
  <2> DEFINE u == 0
  <2>1. u \in 0..100 /\ risked' = risked + u /\ u = 0
    BY <1>1, <1>2 DEF LoopTyped
  <2> HIDE DEF u
  <2> QED BY <1>1, <2>1, BudgetLeft
<1> QED BY <1>1, <1>4, <1>5, <1>6, HandledLoop

(* What a pause drops is excused. *)
LEMMA PausedLoop == ASSUME LoopIInv, HandlePaused, phase' = phase PROVE LoopIInv'
<1>1. Handled /\ sigs' = <<>> /\ risked' = risked /\ pos' = pos
  BY HandlingIsHandled DEF HandlePaused
<1>2. LoopTyped /\ sigs \in Seq(SignalSet) /\ Visiting
  BY <1>1 DEF LoopIInv, LoopTyped, Handled
<1> DEFINE dropped == {sigs[k].ins : k \in {j \in DOMAIN sigs : sigs[j].flatten}}
<1>3. excused' = excused \cup dropped
  BY DEF HandlePaused
<1>4. dropped \subseteq Ins
  <2>1. \A k \in DOMAIN sigs : sigs[k].ins \in Ins
    <3>1. \A k \in DOMAIN sigs : sigs[k] \in SignalSet
      BY <1>2
    <3> QED BY <3>1 DEF SignalSet
  <2> QED BY <2>1, Zenon
<1>5. ASSUME NEW j \in Ins, Pending(j) PROVE j \in dropped
  <2>1. PICK s \in Range(sigs) : s.flatten = TRUE /\ s.ins = j
    BY <1>5, Zenon DEF Pending
  <2>2. PICK k \in DOMAIN sigs : s = sigs[k]
    BY <2>1, Zenon DEF Range
  <2> QED BY <2>1, <2>2, Zenon
<1> HIDE DEF dropped
<1>6. Accounted'
  BY <1>1, <1>3, <1>5 DEF LoopIInv, Accounted
<1>7. Budgeted'
  <2>1. CountActive(sigs') = 0 /\ CountActive(sigs) \in Nat /\ risked \in Nat
        /\ visit.active \in Nat
    BY <1>1, <1>2, NoActives, ActivesCounted DEF LoopTyped, VisitSet
  <2>2. risked + 100 * CountActive(sigs) <= 100 * visit.active
    BY <1>2 DEF LoopIInv, Budgeted
  <2>3. risked' + 100 * CountActive(sigs') <= 100 * visit'.active
    BY <1>1, <2>1, <2>2 DEF Handled
  <2> QED BY <2>3 DEF Budgeted
<1>8. pos' \in [Ins -> -MaxPos..MaxPos] /\ risked' \in Nat /\ excused' \subseteq Ins
  BY <1>1, <1>2, <1>3, <1>4 DEF LoopTyped
<1> QED BY <1>1, <1>6, <1>7, <1>8, HandledLoop

(* An entry uses at most its share, and is a reason itself. *)
LEMMA EntryLoop == ASSUME LoopIInv, HandleEntry, phase' = phase PROVE LoopIInv'
<1> DEFINE s == Head(sigs)
<1>1. Handled /\ sigs' = Tail(sigs) /\ Handling({FALSE})
  BY HandlingIsHandled DEF HandleEntry
<1>2. LoopTyped /\ sigs \in Seq(SignalSet) /\ sigs # <<>> /\ Visiting
  BY <1>1 DEF LoopIInv, LoopTyped, Handled
<1>3. s \in SignalSet /\ s.ins \in Ins
  BY <1>2, FirstAndRest DEF SignalSet
<1>4. \A j \in Ins : Pending(j) => Pending(j)'
  BY <1>1, <1>2, OthersPending
<1>5. \/ UNCHANGED <<pos, risked, excused>>
      \/ /\ Active(s) /\ PreTrade(s) /\ Fills(s.ins, Sgn(s.dir))
         /\ risked' = IF s.ins = visit.ins THEN risked + Used(s) ELSE risked
         /\ excused' = excused \cup {s.ins}
  BY DEF HandleEntry
<1>6. CASE UNCHANGED <<pos, risked, excused>>
  <2> DEFINE u == 0
  <2>1. u \in 0..100 /\ risked' = risked + u /\ u = 0
    BY <1>6, <1>2 DEF LoopTyped
  <2> HIDE DEF u
  <2>2. Budgeted' /\ risked' \in Nat
    BY <1>1, <2>1, BudgetLeft
  <2>3. Accounted' /\ pos' \in [Ins -> -MaxPos..MaxPos] /\ excused' \subseteq Ins
    BY <1>2, <1>4, <1>6 DEF LoopIInv, Accounted, LoopTyped
  <2> QED BY <1>1, <2>2, <2>3, HandledLoop
<1>7. CASE /\ Active(s) /\ PreTrade(s) /\ Fills(s.ins, Sgn(s.dir))
           /\ risked' = IF s.ins = visit.ins THEN risked + Used(s) ELSE risked
           /\ excused' = excused \cup {s.ins}
  <2> DEFINE i == s.ins
             n == Sgn(s.dir)
  <2>1. i \in Ins /\ n \in Int /\ Fills(i, n)
    BY <1>3, <1>7 DEF Sgn
  <2>2. excused' = excused \cup {i}
    BY <1>7
  <2> HIDE DEF i, n
  <2>3. /\ pos' \in [Ins -> -MaxPos..MaxPos]
        /\ \A j \in Ins : pos'[j] = IF j = i THEN pos[i] + n ELSE pos[j]
    BY <1>2, <2>1, FillTyped
  <2>4. Accounted'
    BY <1>4, <2>2, <2>3 DEF LoopIInv, Accounted
  <2>5. visit.active > 0
    <3>1. CountActive(sigs) = CountActive(Tail(sigs)) + 1 /\ CountActive(Tail(sigs)) \in Nat
      BY <1>2, <1>7, TailCounted, FirstAndRest, ActivesCounted
    <3>2. risked + 100 * CountActive(sigs) <= 100 * visit.active /\ risked \in Nat
          /\ visit.active \in Nat
      BY <1>2 DEF LoopIInv, Budgeted, LoopTyped, VisitSet
    <3> QED BY <3>1, <3>2
  <2>6. Used(s) \in 0..100
    BY <1>2, <1>3, <1>7, <2>5, OrderUsesItsShare DEF LoopTyped
  <2> DEFINE u == IF s.ins = visit.ins THEN Used(s) ELSE 0
  <2>7. u \in 0..100 /\ risked' = risked + u
    BY <1>2, <1>7, <2>6 DEF LoopTyped
  <2> HIDE DEF u
  <2>8. Budgeted' /\ risked' \in Nat
    BY <1>1, <1>7, <2>7, BudgetLeft
  <2>9. excused' \subseteq Ins
    BY <1>2, <2>1, <2>2 DEF LoopTyped
  <2> QED BY <1>1, <2>3, <2>4, <2>8, <2>9, HandledLoop
<1> QED BY <1>5, <1>6, <1>7

----------------------------------------------------------------------------
(* A visit runs every strategy on the bar of one quote. *)
LEMMA VisitedStates ==
  ASSUME LoopIInv, phase = Live,
         NEW b \in BarSet, b.close > 0, b.open = b.close,
         1000 * b.high = 1001 * b.close, 1000 * b.low = 999 * b.close,
         NEW r \in RunBar(stack, sts, b, clock)
  PROVE  /\ r.sigs \in Seq(SignalSet) /\ r.st \in StatesOf(stack)
         /\ \A k \in DOMAIN stack : Narrow(stack[k], r.st[k])
         /\ \A s \in Range(r.sigs) : Blind(s)
         /\ \A k \in DOMAIN stack : \A i \in Ins : r.st[k].emitted[i] # sts[k].emitted[i] =>
              /\ stack[k].type = "flatten_session_end" /\ i = b.ins /\ Flattens(stack[k], i, clock)
              /\ r.st[k].emitted[i] = Day(clock)
         /\ \A k \in DOMAIN stack :
              stack[k].type = "flatten_session_end" /\ Flattens(stack[k], b.ins, clock)
              /\ sts[k].emitted[b.ins] # Day(clock)
                => FlattenSignal(stack[k], b.ins) \in Range(r.sigs)
<1>1. stack \in Stacks /\ sts \in StatesOf(stack) /\ clock \in Nat /\ Day(clock) \in Int
  BY ClockTyped DEF LoopIInv, LoopTyped, StatesTyped
<1>2. EachInTurn(stack, sts, b, clock, Len(stack), r)
  BY <1>1, RunBarInTurn
<1>3. Len(stack) \in Nat /\ DOMAIN stack = 1..Len(stack)
  BY <1>1 DEF Stacks
<1>4. r.sigs \in Seq(SignalSet) /\ r.st \in StatesOf(stack)
  BY <1>2 DEF EachInTurn, Gathered
<1>5. ASSUME NEW k \in DOMAIN stack
      PROVE  /\ stack[k] \in StrategyCfg /\ stack[k].type \in Known /\ sts[k] \in StateSet
             /\ Narrow(stack[k], sts[k])
             /\ \E o \in OnBar(stack[k], sts[k], b, clock) : r.st[k] = o.st /\ Told(o, r)
  <2>1. k <= Len(stack)
    BY <1>3
  <2> QED BY <1>1, <1>2, <2>1 DEF EachInTurn, Stacks, StatesOf, LoopIInv, StatesNarrow
<1>6. ASSUME NEW k \in DOMAIN stack, NEW o \in OnBar(stack[k], sts[k], b, clock)
      PROVE  Narrow(stack[k], o.st) /\ \A s \in Range(o.sigs) : Blind(s)
  <2> DEFINE c == stack[k]
             st == sts[k]
  <2>1. c \in StrategyCfg /\ c.type \in Known /\ st \in StateSet /\ Narrow(c, st)
        /\ o \in OnBar(c, st, b, clock)
    BY <1>5
  <2> HIDE DEF c, st
  <2>2. Narrow(c, o.st) /\ \A m \in DOMAIN o.sigs : Blind(o.sigs[m])
    BY <1>1, <2>1, LiveOutcomes
  <2> QED BY <2>2 DEF c, Range
<1>7. ASSUME NEW k \in DOMAIN stack PROVE Narrow(stack[k], r.st[k])
  BY <1>5, <1>6
<1>8. ASSUME NEW s \in Range(r.sigs) PROVE Blind(s)
  <2>1. PICK k \in DOMAIN stack : \E o \in OnBar(stack[k], sts[k], b, clock) : s \in Range(o.sigs)
    BY <1>2 DEF EachInTurn
  <2> QED BY <1>6, <2>1
<1>9. ASSUME NEW k \in DOMAIN stack, NEW i \in Ins, r.st[k].emitted[i] # sts[k].emitted[i]
      PROVE  /\ stack[k].type = "flatten_session_end" /\ i = b.ins /\ Flattens(stack[k], i, clock)
             /\ r.st[k].emitted[i] = Day(clock)
  <2> DEFINE c == stack[k]
             st == sts[k]
  <2>1. PICK o \in OnBar(c, st, b, clock) : r.st[k] = o.st
    BY <1>5
  <2>2. c \in StrategyCfg /\ c.type \in Known /\ st \in StateSet
    BY <1>5
  <2>3. o.st.emitted[i] # st.emitted[i]
    BY <1>9, <2>1
  <2> HIDE DEF c, st
  <2>4. c.type = "flatten_session_end" /\ o \in FlattenSessionEnd(c, st, b, clock)
    BY <2>2, <2>3, OnBarRegular DEF Regular
  <2>5. i = b.ins /\ Flattens(c, i, clock) /\ o.st.emitted[i] = Day(clock)
    BY <1>1, <2>2, <2>3, <2>4, FlattenOutcomes
  <2> QED BY <2>1, <2>4, <2>5 DEF c
<1>10. ASSUME NEW k \in DOMAIN stack, stack[k].type = "flatten_session_end",
              Flattens(stack[k], b.ins, clock), sts[k].emitted[b.ins] # Day(clock)
       PROVE  FlattenSignal(stack[k], b.ins) \in Range(r.sigs)
  <2> DEFINE c == stack[k]
             st == sts[k]
  <2>1. PICK o \in OnBar(c, st, b, clock) : Told(o, r)
    BY <1>5
  <2>2. c \in StrategyCfg /\ c.type \in Known /\ st \in StateSet /\ c.type = "flatten_session_end"
        /\ Flattens(c, b.ins, clock) /\ st.emitted[b.ins] # Day(clock)
    BY <1>5, <1>10
  <2> HIDE DEF c, st
  <2>3. o \in FlattenSessionEnd(c, st, b, clock)
    BY <2>2, OnBarRegular
  <2>4. o.sigs = <<FlattenSignal(c, b.ins)>>
    BY <1>1, <2>2, <2>3, FlattenOutcomes
  <2>5. FlattenSignal(c, b.ins) \in Range(o.sigs)
    <3>1. 1 \in DOMAIN o.sigs /\ o.sigs[1] = FlattenSignal(c, b.ins)
      BY <2>4
    <3> QED BY <3>1 DEF Range
  <2> QED BY <2>1, <2>5 DEF Told, c
<1> QED BY <1>4, <1>7, <1>8, <1>9, <1>10

(* A visit starts a budget, and flattens what it takes the excuse from. *)
LEMMA VisitLoop == ASSUME LoopIInv, Visit, phase = Live, phase' = phase PROVE LoopIInv'
<1> DEFINE i == Head(todo)
<1>1. PICK q \in Quotes : q.bid + q.ask > 0
        /\ \E r \in RunBar(stack, sts, LiveBar(i, q), clock) :
             /\ sts' = r.st /\ sigs' = r.sigs
             /\ visit' = [ins |-> i, quote |-> q, active |-> CountActive(r.sigs)]
  BY DEF Visit
<1> DEFINE b == LiveBar(i, q)
<1>2. PICK r \in RunBar(stack, sts, b, clock) :
             /\ sts' = r.st /\ sigs' = r.sigs
             /\ visit' = [ins |-> i, quote |-> q, active |-> CountActive(r.sigs)]
  BY <1>1
<1>3. LoopTyped /\ ~Visiting /\ todo # <<>> /\ sigs = <<>> /\ q \in [bid : Nat, ask : Nat]
  BY SignalsAssumption DEF Visit, LoopIInv, LoopTyped
<1>4. i \in Ins
  <2>1. i \in Range(Instruments)
    BY <1>3 DEF LoopTyped
  <2> QED BY <2>1, InstrumentsKnown
<1>5. UNCHANGED <<stack, clock, pos, snap, todo, phase>> /\ risked' = 0
  BY DEF Visit, accountVars
<1>6. IF Flattened(i, clock) /\ i \notin visited
      THEN visited' = visited \cup {i} /\ excused' = excused \ {i}
      ELSE visited' = visited /\ excused' = excused
  BY DEF Visit, flatVars
<1> HIDE DEF i
<1>7. /\ b \in BarSet /\ b.ins = i /\ b.close > 0 /\ b.open = b.close
      /\ 1000 * b.high = 1001 * b.close /\ 1000 * b.low = 999 * b.close
  BY <1>1, <1>3, <1>4, LiveBarTyped
<1> HIDE DEF b
<1>8. /\ r.sigs \in Seq(SignalSet) /\ r.st \in StatesOf(stack)
      /\ \A k \in DOMAIN stack : Narrow(stack[k], r.st[k])
      /\ \A s \in Range(r.sigs) : Blind(s)
      /\ \A k \in DOMAIN stack : \A j \in Ins : r.st[k].emitted[j] # sts[k].emitted[j] =>
           /\ stack[k].type = "flatten_session_end" /\ j = i /\ Flattens(stack[k], j, clock)
           /\ r.st[k].emitted[j] = Day(clock)
      /\ \A k \in DOMAIN stack :
           stack[k].type = "flatten_session_end" /\ Flattens(stack[k], i, clock)
           /\ sts[k].emitted[i] # Day(clock)
             => FlattenSignal(stack[k], i) \in Range(r.sigs)
  BY <1>2, <1>7, VisitedStates
<1>9. CountActive(r.sigs) \in Nat
  BY <1>8, ActivesCounted
<1>10. visit' \in VisitSet /\ visit'.ins = i /\ visit'.active = CountActive(r.sigs)
  <2> DEFINE n == CountActive(r.sigs)
  <2>1. n \in Nat /\ visit' = [ins |-> i, quote |-> q, active |-> n]
    BY <1>2, <1>9
  <2> HIDE DEF n
  <2>2. visit' \in VisitSet /\ visit'.ins = i /\ visit'.active = n
    BY <1>1, <1>3, <1>4, <2>1 DEF VisitSet
  <2> QED BY <2>2 DEF n
<1>11. visit' # NoVisit
  BY <1>2 DEF NoVisit
<1>12. LoopTyped'
  <2>1. visited' \subseteq Ins /\ excused' \subseteq Ins
    BY <1>3, <1>4, <1>6 DEF LoopTyped
  <2> QED BY <1>2, <1>3, <1>5, <1>8, <1>10, <1>11, <2>1 DEF LoopTyped, Visiting, i
<1>13. Day(clock) \in Nat
  BY <1>3, ClockTyped
<1>14. StatesTyped'
  <2>1. ASSUME NEW k \in DOMAIN stack, NEW j \in Ins PROVE r.st[k].emitted[j] \in NoDay..Day(clock)
    <3>1. sts[k].emitted[j] \in NoDay..Day(clock)
      BY DEF LoopIInv, StatesTyped
    <3>2. Day(clock) \in NoDay..Day(clock)
      BY <1>13 DEF NoDay
    <3> QED BY <1>8, <3>1, <3>2
  <2> QED BY <1>2, <1>5, <1>8, <2>1 DEF StatesTyped
<1>15. EmissionsVisited'
  <2>1. ASSUME NEW k \in DOMAIN stack, stack[k].type = "flatten_session_end", NEW j \in Ins,
               r.st[k].emitted[j] = Day(clock)
        PROVE  j \in visited'
    <3>1. CASE r.st[k].emitted[j] = sts[k].emitted[j]
      <4>1. j \in visited
        BY <2>1, <3>1 DEF LoopIInv, EmissionsVisited
      <4> QED BY <1>6, <4>1
    <3>2. CASE r.st[k].emitted[j] # sts[k].emitted[j]
      <4>1. j = i /\ Flattens(stack[k], j, clock)
        BY <1>8, <3>2
      <4>2. Flattened(i, clock)
        BY <2>1, <4>1 DEF Flattened
      <4> QED BY <1>6, <4>1, <4>2
    <3> QED BY <3>1, <3>2
  <2> QED BY <1>2, <1>5, <2>1 DEF EmissionsVisited
<1>16. Accounted'
  <2> SUFFICES ASSUME NEW j \in Ins PROVE pos'[j] = 0 \/ j \in excused' \/ Pending(j)'
    BY DEF Accounted
  <2>1. pos[j] = 0 \/ j \in excused
    <3>1. ~Pending(j)
      BY <1>3, NothingLeft DEF Pending
    <3> QED BY <3>1 DEF LoopIInv, Accounted
  <2>2. CASE ~(Flattened(i, clock) /\ i \notin visited) \/ j # i
    BY <1>5, <1>6, <2>1, <2>2
  <2>3. CASE Flattened(i, clock) /\ i \notin visited /\ j = i
    <3>1. PICK k \in DOMAIN stack : /\ stack[k].type = "flatten_session_end"
                                   /\ Flattens(stack[k], i, clock)
      BY <2>3 DEF Flattened
    <3>2. sts[k].emitted[i] # Day(clock)
      BY <1>4, <2>3, <3>1 DEF LoopIInv, EmissionsVisited
    <3>3. FlattenSignal(stack[k], i) \in Range(sigs')
      BY <1>2, <1>8, <3>1, <3>2
    <3>4. stack[k] \in StrategyCfg
      BY <1>3 DEF LoopTyped, Stacks
    <3>5. FlattenSignal(stack[k], i).flatten = TRUE /\ FlattenSignal(stack[k], i).ins = i
      BY <1>4, <3>4, FlattenTyped
    <3> DEFINE s == FlattenSignal(stack[k], i)
    <3>6. s \in Range(sigs') /\ s.flatten = TRUE /\ s.ins = j
      BY <2>3, <3>3, <3>5
    <3> HIDE DEF s
    <3>7. Pending(j)'
      BY <3>6, Zenon DEF Pending
    <3> QED BY <3>7
  <2> QED BY <2>2, <2>3
<1>17. Budgeted'
  BY <1>2, <1>5, <1>9, <1>10 DEF Budgeted
<1>18. SignalsBlind' /\ StatesNarrow'
  BY <1>2, <1>5, <1>8 DEF SignalsBlind, StatesNarrow
<1> QED BY <1>12, <1>14, <1>15, <1>16, <1>17, <1>18 DEF LoopIInv

----------------------------------------------------------------------------
(* Every step of either program keeps the invariant of the loop. *)
LEMMA NextLoop == LoopIInv /\ [BotNext]_botVars => LoopIInv'
<1> SUFFICES ASSUME LoopIInv, [BotNext]_botVars PROVE LoopIInv'
  OBVIOUS
<1>1. CASE phase = Live /\ SignalsNext /\ UNCHANGED backtestVars
  <2>1. phase' = phase
    BY <1>1 DEF backtestVars
  <2>2. CASE ClockTick
    BY <2>1, <2>2, ClockTickLoop
  <2>3. CASE Restart
    BY <2>1, <2>3, RestartLoop
  <2>4. CASE NoQuote \/ EndVisit \/ Reconcile \/ (\E b \in BOOLEAN : SetPaused(b))
    BY <2>1, <2>4, QuietLoop
  <2>5. CASE Visit
    BY <1>1, <2>1, <2>5, VisitLoop
  <2>6. CASE HandleFlatten
    BY <2>1, <2>6, FlattenLoop
  <2>7. CASE HandlePaused
    BY <2>1, <2>7, PausedLoop
  <2>8. CASE HandleOpposite
    BY <2>1, <2>8, OppositeLoop
  <2>9. CASE HandleEntry
    BY <2>1, <2>9, EntryLoop
  <2> QED BY <1>1, <2>2, <2>3, <2>4, <2>5, <2>6, <2>7, <2>8, <2>9 DEF SignalsNext
<1>2. CASE OpenSlice \/ RunBars \/ SkipSignal \/ TradeSignal \/ EndBar \/ EndSlice \/ Cancel
  <2>1. UNCHANGED liveVars /\ phase # Live /\ phase' # Live
    BY <1>2 DEF OpenSlice, Slice, RunBars, SkipSignal, TradeSignal, EndBar, EndSlice, Cancel, Live
  <2>2. UNCHANGED <<stack, clock, pos, snap, todo, visit, sigs, risked, visited, excused>>
    BY <2>1 DEF liveVars, accountVars, tickVars, flatVars
  <2>3. LoopTyped' /\ Accounted' /\ Budgeted' /\ SignalsBlind'
    BY <2>2 DEF LoopIInv, LoopTyped, Accounted, Pending, Budgeted, SignalsBlind, Visiting
  <2>4. StatesTyped' /\ EmissionsVisited' /\ StatesNarrow'
    BY <2>1 DEF StatesTyped, EmissionsVisited, StatesNarrow
  <2> QED BY <2>3, <2>4 DEF LoopIInv
<1>3. CASE UNCHANGED botVars
  <2>1. UNCHANGED <<stack, sts, clock, pos, snap, todo, visit, sigs, risked, visited, excused,
                   phase>>
    BY <1>3 DEF botVars, signalsVars, stratVars, accountVars, tickVars, flatVars, backtestVars
  <2> QED
    BY <2>1 DEF LoopIInv, LoopTyped, Accounted, Pending, Budgeted, SignalsBlind, Visiting,
                StatesTyped, EmissionsVisited, StatesNarrow
<1> QED BY <1>1, <1>2, <1>3 DEF BotNext

(* The loop stays as described. *)
THEOREM LoopInvariant == BotSpec => []LoopIInv
  BY InitLoop, NextLoop, PTL DEF BotSpec

----------------------------------------------------------------------------
(* What follows *)

(* What the strategies' orders on a visit use never exceeds one budget.    *)
THEOREM EntriesShareOneBudget == BotSpec => []OneBudgetPerVisit
<1>1. LoopIInv => OneBudgetPerVisit
  <2> SUFFICES ASSUME LoopIInv, Visiting PROVE risked <= 100 * visit.active
    BY DEF OneBudgetPerVisit
  <2>1. sigs \in Seq(SignalSet) /\ risked \in Nat /\ visit.active \in Nat
    BY DEF LoopIInv, LoopTyped, VisitSet
  <2>2. CountActive(sigs) \in Nat
    BY <2>1, ActivesCounted
  <2>3. risked + 100 * CountActive(sigs) <= 100 * visit.active
    BY DEF LoopIInv, Budgeted
  <2> QED BY <2>1, <2>2, <2>3
<1> QED BY <1>1, LoopInvariant, PTL

(* An instrument held after its window has one of the known reasons.       *)
THEOREM FlattensOrHasCause == BotSpec => []HeldOvernightHasCause
<1>1. LoopIInv => HeldOvernightHasCause
  <2> SUFFICES ASSUME LoopIInv, NEW i \in Ins, pos[i] # 0, i \notin excused
               PROVE  \E k \in DOMAIN sigs : sigs[k].flatten /\ sigs[k].ins = i
    BY Zenon DEF HeldOvernightHasCause
  <2>1. Pending(i)
    BY DEF LoopIInv, Accounted
  <2>2. PICK s \in Range(sigs) : s.flatten = TRUE /\ s.ins = i
    BY <2>1, Zenon DEF Pending
  <2>3. PICK k \in DOMAIN sigs : s = sigs[k]
    BY <2>2, Zenon DEF Range
  <2> QED BY <2>2, <2>3, Zenon
<1> QED BY <1>1, LoopInvariant, PTL

(* Live, what looks at the shape of a bar never enters, or only one way.   *)
THEOREM QuotesBlindStrategies == BotSpec => LiveBarsAreBlind
<1>1. ASSUME LoopIInv, [BotNext]_botVars, Entered
      PROVE  /\ Head(sigs).by \notin {"momentum", "volatility", "options_gamma"}
             /\ Head(sigs).by = "breakout" => Head(sigs).dir > 0
  <2> DEFINE s == Head(sigs)
  <2>1. sigs # <<>> /\ sigs \in Seq(SignalSet) /\ pos' # pos /\ ~Opposes(s)
    BY <1>1 DEF Entered, LoopIInv, LoopTyped
  <2>2. s \in SignalSet /\ s \in Range(sigs)
    BY <2>1, FirstAndRest
  <2>3. Blind(s)
    BY <1>1, <2>2 DEF LoopIInv, SignalsBlind
  <2>4. s.flatten # TRUE
    BY <1>1, Zenon DEF Entered
  <2>5. ~HandleFlatten
    BY <2>4 DEF HandleFlatten, Handling
  <2>6. HandleEntry
    <3>1. ~(UNCHANGED pos)
      BY <2>1
    <3>2. ~ClockTick /\ ~Restart /\ ~NoQuote /\ ~Visit /\ ~EndVisit /\ ~HandlePaused /\ ~Reconcile
          /\ ~(\E b \in BOOLEAN : SetPaused(b))
      BY <3>1 DEF ClockTick, Restart, NoQuote, Visit, EndVisit, HandlePaused, Reconcile, SetPaused,
                  accountVars
    <3>3. ~HandleOpposite
      BY <2>1 DEF HandleOpposite
    <3>4. ~(OpenSlice \/ RunBars \/ SkipSignal \/ TradeSignal \/ EndBar \/ EndSlice \/ Cancel)
      BY <3>1 DEF OpenSlice, RunBars, SkipSignal, TradeSignal, EndBar, EndSlice, Cancel, liveVars,
                  accountVars
    <3>5. ~(UNCHANGED botVars)
      BY <3>1 DEF botVars, signalsVars, accountVars
    <3> QED BY <1>1, <2>5, <3>2, <3>3, <3>4, <3>5 DEF BotNext, SignalsNext
  <2>7. Active(s)
    BY <2>1, <2>6 DEF HandleEntry
  <2>8. s.dir # 0
    BY <2>7 DEF Active
  <2> QED BY <2>3, <2>8 DEF Blind
<1>2. LoopIInv /\ [BotNext]_botVars =>
        [Entered => /\ Head(sigs).by \notin {"momentum", "volatility", "options_gamma"}
                    /\ Head(sigs).by = "breakout" => Head(sigs).dir > 0]_signalsVars
  BY <1>1
<1> QED BY <1>2, LoopInvariant, PTL DEF BotSpec, LiveBarsAreBlind

----------------------------------------------------------------------------
(* Types. *)
RunTyped ==
  /\ phase \in {Live, "slice", "bars", "trade", "done"}
  /\ walk \in WindowConfigs
  /\ bar \in 0..end /\ (phase = "trade" => bar < end)
  /\ wins \in Nat /\ losses \in Nat /\ wins + losses <= bar
  /\ fed \in NoBar..(Total - 1)
FlagsTyped == traded \in BOOLEAN /\ canceled \in BOOLEAN /\ paused \in BOOLEAN

(* Types hold at the start. *)
LEMMA InitTyped == BotInit => RunTyped /\ FlagsTyped
<1> SUFFICES ASSUME BotInit PROVE RunTyped /\ FlagsTyped
  OBVIOUS
<1>1. RunTyped
  BY SeriesTotal DEF BotInit, RunTyped, Live, NoBar
<1>2. FlagsTyped
  BY DEF BotInit, SignalsInit, FlagsTyped
<1> QED BY <1>1, <1>2

(* Flags stay flags. *)
LEMMA NextFlags == FlagsTyped /\ [BotNext]_botVars => FlagsTyped'
<1> SUFFICES ASSUME FlagsTyped, [BotNext]_botVars PROVE FlagsTyped'
  OBVIOUS
<1>1. traded' \in {traded, TRUE, FALSE}
  BY DEF BotNext, botVars, backtestVars, simVars, OpenSlice, Slice, EndSlice, Cancel, RunBars,
         SkipSignal, TradeSignal, EndBar
<1>2. canceled' \in {canceled, TRUE}
  BY DEF BotNext, botVars, backtestVars, OpenSlice, EndSlice, Cancel, RunBars, SkipSignal,
         TradeSignal, EndBar
<1>3. paused' \in {paused, FALSE} \/ \E b \in BOOLEAN : paused' = b
  BY DEF BotNext, botVars, signalsVars, liveVars, OpenSlice, EndSlice, Cancel, RunBars, SkipSignal,
         TradeSignal, EndBar, SignalsNext, ClockTick, SetPaused, Restart, NoQuote, Visit, EndVisit,
         HandleFlatten, HandlePaused, HandleOpposite, HandleEntry, Handling, Reconcile
<1> QED BY <1>1, <1>2, <1>3 DEF FlagsTyped

(* Windows and counters keep their types; a bar is won or lost, not both. *)
LEMMA NextTyped == BacktestIInv /\ RunTyped /\ [BotNext]_botVars => RunTyped'
<1> USE SeriesTotal
<1> SUFFICES ASSUME BacktestIInv, RunTyped, [BotNext]_botVars PROVE RunTyped'
  OBVIOUS
<1>0. ASSUME UNCHANGED backtestVars PROVE RunTyped'
  BY <1>0 DEF backtestVars, sliceVars, simVars, RunTyped
<1>1. ASSUME OpenSlice PROVE RunTyped'
  BY <1>1 DEF OpenSlice, Slice, RunTyped, BacktestIInv, WalkTyped, Fits
<1>2. ASSUME EndSlice PROVE RunTyped'
  BY <1>2 DEF EndSlice, simVars, RunTyped
<1>3. ASSUME Cancel PROVE RunTyped'
  BY <1>3 DEF Cancel, sliceVars, simVars, RunTyped
<1>4. ASSUME RunBars PROVE RunTyped'
  BY <1>4 DEF RunBars, sliceVars, RunTyped, BacktestIInv, WalkTyped, NoBar
<1>5. ASSUME SkipSignal PROVE RunTyped'
  BY <1>5 DEF SkipSignal, sliceVars, simVars, RunTyped
<1>6. ASSUME TradeSignal PROVE RunTyped'
  BY <1>6 DEF TradeSignal, sliceVars, RunTyped
<1>7. ASSUME EndBar PROVE RunTyped'
  <2>1. wins' \in Nat /\ losses' \in Nat /\ wins' + losses' <= wins + losses + 1
    <3>1. (wins' = wins \/ wins' = wins + 1) /\ (losses' = losses \/ losses' = losses + 1)
      BY <1>7 DEF EndBar
    <3>2. ~(wins' # wins /\ losses' # losses)
      <4> DEFINE delta == Mark(Bar.close) - openMark
      <4>1. delta \in Int
        <5>1. bar < Total /\ bar \in Nat
          BY <1>7 DEF EndBar, BacktestIInv, WalkTyped, BarAhead
        <5>2. Bar.close \in Nat
          BY <5>1, BarType
        <5> QED BY <5>2 DEF Mark, BacktestIInv, WalkTyped
      <4>2. /\ wins' = IF traded /\ delta > 0 THEN wins + 1 ELSE wins
            /\ losses' = IF traded /\ delta < 0 THEN losses + 1 ELSE losses
        BY <1>7 DEF EndBar
      <4> HIDE DEF delta
      <4> QED BY <4>1, <4>2
    <3>3. wins \in Nat /\ losses \in Nat
      BY DEF RunTyped
    <3>4. CASE wins' = wins
      BY <3>1, <3>3, <3>4
    <3>5. CASE losses' = losses
      BY <3>1, <3>3, <3>5
    <3> QED BY <3>2, <3>4, <3>5
  <2>2. bar' = bar + 1 /\ phase' = "bars" /\ end' = end /\ walk' = walk /\ fed' = fed /\ bar < end
    BY <1>7 DEF EndBar, RunTyped
  <2>3. bar \in Nat /\ end \in Nat /\ wins + losses <= bar /\ wins \in Nat /\ losses \in Nat
    BY DEF RunTyped, BacktestIInv, WalkTyped
  <2>4. bar' \in 0..end'
    BY <2>2, <2>3
  <2>5. wins' + losses' <= bar'
    <3> DEFINE w == wins'
               l == losses'
               b == bar'
    <3>1. w \in Nat /\ l \in Nat /\ w + l <= wins + losses + 1 /\ b = bar + 1
      BY <2>1, <2>2
    <3> HIDE DEF w, l, b
    <3>2. w + l <= b
      BY <2>3, <3>1
    <3> QED BY <3>2 DEF w, l, b
  <2> QED BY <2>1, <2>2, <2>4, <2>5 DEF RunTyped
<1> QED BY <1>0, <1>1, <1>2, <1>3, <1>4, <1>5, <1>6, <1>7 DEF BotNext, botVars

(* The loop and the backtest keep to their types, for any configuration,   *)
(* quotes and series.                                                      *)
THEOREM BotTypeCorrect == BotSpec => []BacktestTypeOK
<1>1. ASSUME LoopIInv, BacktestIInv, RunTyped, FlagsTyped PROVE BacktestTypeOK
  <2>1. phase = Live => SignalsTypeOK
    <3> SUFFICES ASSUME phase = Live PROVE SignalsTypeOK
      OBVIOUS
    <3>1. LoopTyped /\ sts \in StatesOf(stack)
          /\ \A k \in DOMAIN stack : \A i \in Ins : sts[k].emitted[i] \in NoDay..Day(clock)
      BY <1>1 DEF LoopIInv, StatesTyped
    <3>2. DOMAIN sts = DOMAIN stack /\ Len(sts) = Len(stack)
      BY <3>1 DEF LoopTyped, Stacks, StatesOf
    <3>3. \A k \in DOMAIN sigs : sigs[k].ins \in Ins /\ sigs[k].dir \in -100..100
                                 /\ sigs[k].conf \in 0..100
      <4>1. \A k \in DOMAIN sigs : sigs[k] \in SignalSet
        BY <3>1 DEF LoopTyped
      <4> QED BY <4>1 DEF SignalSet, Directions, Confidences
    <3>4. paused \in BOOLEAN
      BY <1>1 DEF FlagsTyped
    <3> QED BY <3>1, <3>2, <3>3, <3>4 DEF LoopTyped, SignalsTypeOK
  <2>2. traded \in BOOLEAN /\ canceled \in BOOLEAN
    BY <1>1 DEF FlagsTyped
  <2> QED BY <1>1, <2>1, <2>2 DEF BacktestTypeOK, RunTyped, BacktestIInv, WalkTyped
<1>2. BotSpec => [](RunTyped /\ FlagsTyped)
  <2>1. RunTyped /\ FlagsTyped /\ BacktestIInv /\ [BotNext]_botVars => (RunTyped /\ FlagsTyped)'
    BY NextTyped, NextFlags
  <2> QED BY <2>1, InitTyped, BacktestInvariant, PTL DEF BotSpec
<1> QED BY <1>1, <1>2, LoopInvariant, BacktestInvariant, PTL
===============================================================================
