------------------------------- MODULE MCSignals -------------------------------
EXTENDS Backtest

EUR == [venue |-> "OANDA", sym |-> "EUR"]
BTC == [venue |-> "BINANCE", sym |-> "BTC"]
MCIns == {EUR, BTC}
MCInstruments == <<EUR, BTC>>

Strategy(type, need) ==
  [type |-> type, enabled |-> TRUE, universe |-> <<EUR, BTC>>, session |-> TRUE,
   start |-> 0, end |-> 2, minutes |-> 1, fast |-> 1, slow |-> need, atr |-> 1]
Disabled(c) == [c EXCEPT !.enabled = FALSE]

MCConfigs ==
  { <<Strategy("ema_cross_atr", 1), Strategy("ml_meta", 1), Strategy("flatten_session_end", 0)>>,
    <<Strategy("breakout", 0), Strategy("mean_reversion", 0)>>,
    <<Strategy("momentum", 0), Strategy("volatility", 1), Strategy("options_gamma", 1)>>,
    <<Disabled(Strategy("momentum", 0)), Strategy("stat_arb", 1)>>,
    <<Strategy("delta_neutral", 1)>>,
    <<Strategy("carry", 1)>> }

MCQuotes == {[bid |-> 99, ask |-> 101], [bid |-> 0, ask |-> 100]}

MCBar(o, h, l, c) == [open |-> o, high |-> h, low |-> l, close |-> c]
MCSeries ==
  <<MCBar(10, 12, 9, 12), MCBar(12, 12, 8, 9), MCBar(9, 12, 9, 11), MCBar(11, 11, 11, 11)>>
MCWindow(tr, te, st) == [train |-> tr, test |-> te, step |-> st]
MCWindowConfigs ==
  {MCWindow(1, 1, 1), MCWindow(1, 2, 1), MCWindow(1, 1, 2), MCWindow(4, 1, 1), MCWindow(0, 1, 1)}
================================================================================
