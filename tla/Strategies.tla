------------------------------ MODULE Strategies ------------------------------
(***************************************************************************)
(* The strategies of src/internal/strategy: what each makes of one bar,    *)
(* the stack that runs them in turn, and how both are built.               *)
(*                                                                         *)
(* An OnBar is the set of its outcomes: signals and next state.  Averages, *)
(* deviations and ranks of earlier prices are not computed: wherever one   *)
(* is compared with a threshold both results are outcomes.  What is kept   *)
(* of a series is what rules results out: its length, until it is long     *)
(* enough; which average was higher; whether all ranges were equal.        *)
(*                                                                         *)
(* Directions, confidences are in percent; prices of a bar are counted in  *)
(* two-thousandths, which the middle of a quote and 0.1% of it come to.    *)
(* A day has DayHours hours of HourLen minutes.                            *)
(***************************************************************************)
EXTENDS Integers, Sequences, Functions

CONSTANTS
  Ins,           \* instruments: records of a venue and a symbol
  DayHours, HourLen,
  StopDistances  \* stop_atr_mult * ATR; a price may be lower

ASSUME StrategiesAssumption ==
  /\ Ins \subseteq [venue : {i.venue : i \in Ins}, sym : {i.sym : i \in Ins}]
  /\ DayHours \in Nat \ {0} /\ HourLen \in Nat \ {0} /\ StopDistances \subseteq Nat \ {0}

Day(t) == t \div (HourLen * DayHours)
Hour(t) == (t \div HourLen) % DayHours
Minute(t) == t % HourLen

(* inSessionUTC: the end is exclusive, a start after it is overnight.      *)
InSession(t, s, e) ==
  IF s < e THEN Hour(t) \in s..(e - 1) ELSE Hour(t) >= s \/ Hour(t) < e

(* The members of s that are in T, in their order. *)
Select(s, T) ==
  LET kept[n \in 0..Len(s)] == IF n = 0 THEN <<>>
                               ELSE IF s[n] \in T THEN Append(kept[n - 1], s[n]) ELSE kept[n - 1]
  IN kept[Len(s)]

ClampHour(h) == IF h < 0 THEN 0 ELSE IF h > DayHours - 1 THEN DayHours - 1 ELSE h

----------------------------------------------------------------------------
(* A configured strategy c has a type, an enabled flag, its universe and   *)
(* parameters: session, start, end, minutes (before the end), and fast,    *)
(* slow, atr, or in slow the lookback, window or feature length.  What the *)
(* constructors make of them:                                              *)
StrategyCfg == [type : STRING, enabled : BOOLEAN, universe : Seq(Ins), session : BOOLEAN,
                start : Int, end : Int, minutes : Int, fast : Int, slow : Int, atr : Int]
Larger(m, n) == IF m < n THEN n ELSE m
MinTrend == 3              \* stands for the 15 bars volatility always waits

NewFlattenSessionEnd(c) ==
  [c EXCEPT !.start = ClampHour(@), !.end = ClampHour(@),
            !.minutes = IF @ > HourLen - 1 THEN HourLen - 1 ELSE IF @ > 0 THEN @ ELSE 1]
NewEMACrossATR(c) ==
  [c EXCEPT !.start = ClampHour(@), !.end = ClampHour(@),
            !.slow = Larger(Larger(c.fast, @), c.atr)]
NewVolatility(c) == [c EXCEPT !.slow = Larger(Larger(c.fast, @), MinTrend)]

Known == {"momentum", "mean_reversion", "breakout", "volatility", "stat_arb", "options_gamma",
          "delta_neutral", "ml_meta", "ema_cross_atr", "flatten_session_end"}
New(c) == CASE c.type = "flatten_session_end" -> NewFlattenSessionEnd(c)
            [] c.type = "ema_cross_atr" -> NewEMACrossATR(c)
            [] c.type = "volatility" -> NewVolatility(c)
            [] OTHER -> c

(* BuildFromConfig: one enabled strategy of an unknown type is an error.   *)
Builds(cfgs) == \A k \in DOMAIN cfgs : cfgs[k].enabled => cfgs[k].type \in Known
BuildFromConfig(cfgs) ==
  LET on == Select(cfgs, {c \in Range(cfgs) : c.enabled})
  IN [k \in DOMAIN on |-> New(on[k])]

----------------------------------------------------------------------------
(* State: per instrument the bars seen (up to what is needed), the sign of *)
(* fast minus slow average, the range of all its bars (in thousandths of   *)
(* the close; NoRange none, Mixed differing), the day of the last emission;*)
(* for pairs the observations of both prices and of the residual.          *)
NoDay == -1
NoRange == -1
Mixed == -2
Fresh == [seen |-> [i \in Ins |-> 0], sign |-> [i \in Ins |-> 0],
          range |-> [i \in Ins |-> NoRange], emitted |-> [i \in Ins |-> NoDay],
          both |-> 0, residual |-> 0]

More(n, need) == IF n > need THEN n ELSE n + 1

Outcome(sigs, st) == [sigs |-> sigs, st |-> st]
Signal(c, i, dir, conf) == [by |-> c.type, ins |-> i, dir |-> dir, conf |-> conf,
                            stop |-> 0, target |-> 0, flatten |-> FALSE]
FlattenSignal(c, i) == [Signal(c, i, 0, 0) EXCEPT !.flatten = TRUE]
Directed(c, i, dir, conf) == IF dir = 0 THEN <<>> ELSE <<Signal(c, i, dir, conf)>>

(* The instrument is looked up by venue and symbol, except by the first    *)
(* three strategies, which signal all instruments of that symbol.          *)
Trades(c, i) == i \in Range(c.universe)
OfSymbol(c, i) == Select(c.universe, {j \in Ins : j.sym = i.sym})
ForSymbol(c, st, i, dirs, conf) ==
  {Outcome([k \in DOMAIN OfSymbol(c, i) |-> Signal(c, OfSymbol(c, i)[k], dir, conf)], st) :
     dir \in dirs}

Momentum(c, st, b) ==
  ForSymbol(c, st, b.ins, {CASE b.close > b.open -> 30 [] b.close < b.open -> -30 [] OTHER -> 0},
            40)

(* A close in the very middle is on either side of it, by rounding.        *)
MeanReversion(c, st, b) ==
  ForSymbol(c, st, b.ins,
            {d \in {25, -25} : \/ b.low > 0 /\ 2 * b.close = b.high + b.low
                               \/ d = 25 <=> b.low > 0 /\ 2 * b.close < b.high + b.low}, 35)

Breakout(c, st, b) ==
  ForSymbol(c, st, b.ins, {IF 1000 * b.close >= 999 * b.high THEN 50
                             ELSE IF 1000 * b.close <= 1001 * b.low THEN -50 ELSE 0}, 45)

(* A bullish or bearish cross of the averages after the warm-up, ATR/close *)
(* within its limits, inside the session.  The averages start out equal.   *)
Averaged(c, st, i, s) == [st EXCEPT !.seen[i] = More(@, c.slow), !.sign[i] = s]
CrossSignal(c, b, s, dist) ==
  [Signal(c, b.ins, 100 * s, 72) EXCEPT !.stop = b.close - s * dist,
                                        !.target = b.close + 2 * s * dist]
EMACrossATR(c, st, b, t) ==
  LET i == b.ins
      crossed(s) == s # 0 /\ s # st.sign[i]
      ready == More(st.seen[i], c.slow) > c.slow /\ (c.session => InSession(t, c.start, c.end))
      signs == IF st.seen[i] = 0 THEN {0} ELSE {-1, 0, 1}
  IN IF ~Trades(c, i) \/ b.close <= 0 THEN {Outcome(<<>>, st)}
     ELSE {Outcome(<<>>, Averaged(c, st, i, s)) : s \in signs}
          \cup {Outcome(<<CrossSignal(c, b, s, dist)>>, Averaged(c, st, i, s)) :
                  s \in {x \in signs : ready /\ crossed(x)}, dist \in StopDistances}

(* Fast volatility above a multiple of slow, both averages of the squared  *)
(* ranges: equal as long as all ranges are.  The multiple, expansion_ratio *)
(* (1.15 if not set), is taken to be at least one.                         *)
Volatility(c, st, b) ==
  LET i == b.ins
      n == More(st.seen[i], c.slow)
      width == ((IF b.high < b.low THEN b.low - b.high ELSE b.high - b.low) * 1000) \div b.close
      range == IF st.range[i] \in {NoRange, width} THEN width ELSE Mixed
      next == [st EXCEPT !.seen[i] = n, !.range[i] = range]
  IN IF ~Trades(c, i) \/ b.close <= 0 THEN {Outcome(<<>>, st)}
     ELSE {Outcome(Directed(c, i, dir, conf), next) : conf \in {45, 70},
             dir \in IF n > c.slow /\ range = Mixed THEN {-100, 0, 100} ELSE {0}}

(* With the bar at a high rank of its range, against it at a low one.      *)
OptionsGamma(c, st, b) ==
  LET i == b.ins
      n == More(st.seen[i], c.slow)
  IN IF ~Trades(c, i) \/ b.close <= 0 THEN {Outcome(<<>>, st)}
     ELSE {Outcome(Directed(c, i, dir, conf), [st EXCEPT !.seen[i] = n]) : conf \in {64, 80},
             dir \in IF n >= c.slow /\ b.close # b.open THEN {-100, 0, 100} ELSE {0}}

(* A score from the model, unless the features have drifted or it is small.*)
MLMeta(c, st, b) ==
  LET i == b.ins
      n == More(st.seen[i], c.slow)
  IN IF ~Trades(c, i) \/ b.close <= 0 THEN {Outcome(<<>>, st)}
     ELSE {Outcome(Directed(c, i, dir, conf), [st EXCEPT !.seen[i] = n]) : conf \in {5, 100},
             dir \in IF n >= c.slow THEN {-100, 0, 100} ELSE {0}}

(* Both legs, whichever of them the bar is of, once both have a price.     *)
Legs(c, dir, sign, conf) ==
  IF dir = 0 THEN <<>>
  ELSE <<Signal(c, c.universe[1], dir, conf), Signal(c, c.universe[2], -sign * dir, conf)>>
Pair(c, b) == Len(c.universe) >= 2 /\ b.close > 0
Priced(c, st, b) ==
  /\ b.ins \in {c.universe[1], c.universe[2]}
  /\ \A k \in 1..2 : c.universe[k] # b.ins => st.seen[c.universe[k]] > 0

StatArb(c, st, b) ==
  LET priced == [st EXCEPT !.seen[b.ins] = 1]
      n == More(st.both, c.slow)
  IN IF ~Pair(c, b) THEN {Outcome(<<>>, st)}
     ELSE IF ~Priced(c, st, b) THEN {Outcome(<<>>, priced)}
     ELSE {Outcome(Legs(c, dir, 1, conf), [priced EXCEPT !.both = n]) : conf \in {42, 60},
             dir \in IF n >= c.slow THEN {-100, 0, 100} ELSE {0}}

(* The second leg by the sign of the regression's slope (none if 0), which *)
(* takes fast observations, and the deviation slow residuals.              *)
DeltaNeutral(c, st, b) ==
  LET priced == [st EXCEPT !.seen[b.ins] = 1]
      n == More(st.both, c.fast)
      r == More(st.residual, c.slow)
      fit == [priced EXCEPT !.both = n, !.residual = r]
  IN IF ~Pair(c, b) THEN {Outcome(<<>>, st)}
     ELSE IF ~Priced(c, st, b) THEN {Outcome(<<>>, priced)}
     ELSE {Outcome(<<>>, [priced EXCEPT !.both = n])}
          \cup (IF n < c.fast THEN {}
                ELSE {Outcome(Legs(c, dir, beta, conf), fit) : beta \in {-1, 1}, conf \in {40, 60},
                        dir \in IF r >= c.slow THEN {-100, 0, 100} ELSE {0}})

(* Once a day and instrument, in the last minutes of the session's last    *)
(* hour; never in an overnight session.                                    *)
InFlattenWindow(c, t) == Hour(t) = c.end - 1 /\ Minute(t) >= HourLen - c.minutes
Flattens(c, i, t) ==
  /\ c.session /\ c.start < c.end /\ Trades(c, i)
  /\ InSession(t, c.start, c.end) /\ InFlattenWindow(c, t)

(* Plausible bug: the day is kept for all instruments together. *)
FlattenOnceForAll(c, st, b, t) ==
  IF ~Flattens(c, b.ins, t) \/ \E i \in Ins : st.emitted[i] = Day(t) THEN {Outcome(<<>>, st)}
  ELSE {Outcome(<<FlattenSignal(c, b.ins)>>, [st EXCEPT !.emitted[b.ins] = Day(t)])}
FlattenSessionEnd(c, st, b, t) ==
  IF ~Flattens(c, b.ins, t) \/ st.emitted[b.ins] = Day(t) THEN {Outcome(<<>>, st)}
  ELSE {Outcome(<<FlattenSignal(c, b.ins)>>, [st EXCEPT !.emitted[b.ins] = Day(t)])}

OnBar(c, st, b, t) ==
  CASE c.type = "momentum" -> Momentum(c, st, b)
    [] c.type = "mean_reversion" -> MeanReversion(c, st, b)
    [] c.type = "breakout" -> Breakout(c, st, b)
    [] c.type = "volatility" -> Volatility(c, st, b)
    [] c.type = "stat_arb" -> StatArb(c, st, b)
    [] c.type = "options_gamma" -> OptionsGamma(c, st, b)
    [] c.type = "delta_neutral" -> DeltaNeutral(c, st, b)
    [] c.type = "ml_meta" -> MLMeta(c, st, b)
    [] c.type = "ema_cross_atr" -> EMACrossATR(c, st, b, t)
    [] c.type = "flatten_session_end" -> FlattenSessionEnd(c, st, b, t)

(* RunBar: the signals of all strategies, in their order.                  *)
RunBar(stack, sts, b, t) ==
  LET run[k \in 0..Len(stack)] ==
        IF k = 0 THEN {Outcome(<<>>, sts)}
        ELSE UNION {{Outcome(r.sigs \o o.sigs, [r.st EXCEPT ![k] = o.st]) :
                       o \in OnBar(stack[k], r.st[k], b, t)} : r \in run[k - 1]}
  IN run[Len(stack)]
=============================================================================
