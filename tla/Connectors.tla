------------------------------ MODULE Connectors ------------------------------
(***************************************************************************)
(* exchange.Connector as the adapters of src/internal/exchange implement   *)
(* it: what each adapter makes of the answer a venue gives to one request. *)
(*                                                                         *)
(* An answer is abstracted to what an adapter can tell apart:              *)
(*   "lost"      no answer                                                 *)
(*   "refused"   a status outside 200..299 (JSON-RPC: an error object)     *)
(*   "garbled"   status 2xx and a body that is cut off or does not decode  *)
(*   "error"     status 2xx and a body that names an error and no result   *)
(*   "ok"        what was asked for                                        *)
(* and, to an order, "accepted", "partial" or "filled" instead of "ok".    *)
(* Signing and request building are left out; which requests an adapter    *)
(* does not send at all is kept.                                           *)
(***************************************************************************)
EXTENDS Integers

Faults == {"lost", "refused", "garbled", "error"}
FetchAnswers == Faults \cup {"ok"}
OrderAnswers == Faults \cup {"accepted", "partial", "filled"}

Brokers == {"BINANCE", "BYBIT", "OKX", "DERIBIT", "KRAKEN", "COINBASE", "ALPACA",
            "OANDA", "CCXT"}
Feeds == {"YAHOO", "FINNHUB", "TWELVEDATA", "POLYGON"}
Unregistered == "NONE"           \* a name nobody registered, or a StubConnector
ConnectorNames == Brokers \cup Feeds \cup {Unregistered}

----------------------------------------------------------------------------
(* Does the adapter's own request function hand a result to its caller?    *)
Arrived(a) == a \notin {"lost", "refused"}
Decoded(a) == a # "garbled"

JsonGet(a) == Arrived(a) /\ Decoded(a)
BinanceSigned(a) == Arrived(a)
BybitSignGet(a) == Arrived(a)
BybitSignPost(a) == Arrived(a)
OkxSign(a) == Arrived(a)
CoinbaseSign(a) == Arrived(a)
CcxtPost(a) == Arrived(a) /\ Decoded(a)
CcxtGet(a) == Arrived(a) /\ Decoded(a)
KrakenPrivate(a) == Arrived(a) /\ Decoded(a) /\ a # "error"

(* Deribit looks at the body only, and asks for a token first.             *)
DeribitPrivate(a) == a \notin Faults

(* ensureToken reuses a token until half a minute before its expiry; any   *)
(* other time it authenticates, once, and fails with the answer.           *)
Reused(token) == token = "good"
EnsureToken(token, a) == IF Reused(token) THEN "good"
                         ELSE IF a = "ok" THEN "good" ELSE token
Authorised(token, a) == Reused(token) \/ a = "ok"

(* Requests an adapter refuses itself when it has no credentials; the      *)
(* others go out unsigned and the venue refuses them.                      *)
NeedsKeys(c) == c \notin {"CCXT", "YAHOO", Unregistered}
(* A quote is public at the other venues. *)
QuoteNeedsKeys(c) == c \in {"OANDA", "ALPACA", "FINNHUB", "TWELVEDATA", "POLYGON"}
Unsigned(c, keyed, a) == IF NeedsKeys(c) /\ ~keyed THEN "refused" ELSE a

----------------------------------------------------------------------------
(* PlaceOrder. n is what was executed when the venue answered.             *)
Failed == [err |-> TRUE, id |-> FALSE, state |-> "none", filled |-> 0]
Answered(id, state, n) == [err |-> FALSE, id |-> id, state |-> state, filled |-> n]

(* A body without an order id decodes to order 0. *)
BinanceOrder(a, n) ==
  IF BinanceSigned(a) /\ Decoded(a)
  THEN Answered(TRUE, IF a = "filled" THEN "filled" ELSE "open", n) ELSE Failed

(* The error code in the body is not looked at: a rejection is an order    *)
(* without an id.                                                          *)
BybitOrder(a, n) ==
  IF BybitSignPost(a) /\ Decoded(a) THEN Answered(a # "error", "open", 0) ELSE Failed
OkxOrder(a, n) ==
  IF OkxSign(a) /\ Decoded(a) THEN Answered(a # "error", "open", 0) ELSE Failed

(* Reports what was filled, in an order that it calls open. *)
DeribitOrder(a, n) == IF DeribitPrivate(a) THEN Answered(TRUE, "open", n) ELSE Failed

KrakenOrder(a, n) == IF KrakenPrivate(a) THEN Answered(TRUE, "open", 0) ELSE Failed

(* The body is decoded and the outcome ignored. *)
CoinbaseOrder(a, n) ==
  IF CoinbaseSign(a) THEN Answered(a \notin {"garbled", "error"}, "open", 0) ELSE Failed
AlpacaOrder(a, n) ==
  IF Arrived(a) THEN Answered(a \notin {"garbled", "error"}, "open", 0) ELSE Failed

CcxtOrder(a, n) == IF CcxtPost(a) THEN Answered(a # "error", "open", 0) ELSE Failed

(* A reject or cancel transaction without a fill is an error, a fill below *)
(* the requested units a partial.                                          *)
ParseOANDAOrderCreateResponse(a, n) ==
  CASE a \in {"garbled", "error"} -> Failed
    [] a = "accepted" -> Answered(TRUE, "open", 0)
    [] OTHER -> Answered(TRUE, a, n)
OandaOrder(a, n) == IF Arrived(a) THEN ParseOANDAOrderCreateResponse(a, n) ELSE Failed

PlaceOrder(c, a, n) ==
  CASE c = "BINANCE" -> BinanceOrder(a, n)
    [] c = "BYBIT" -> BybitOrder(a, n)
    [] c = "OKX" -> OkxOrder(a, n)
    [] c = "DERIBIT" -> DeribitOrder(a, n)
    [] c = "KRAKEN" -> KrakenOrder(a, n)
    [] c = "COINBASE" -> CoinbaseOrder(a, n)
    [] c = "ALPACA" -> AlpacaOrder(a, n)
    [] c = "OANDA" -> OandaOrder(a, n)
    [] c = "CCXT" -> CcxtOrder(a, n)
    [] OTHER -> Failed                       \* ErrReadOnly, ErrNotImplemented

(* oandaUnits: whole units, half away from zero; none is an error. A unit  *)
(* has Parts parts.                                                        *)
OandaUnits(qty, Parts) == ((2 * qty + Parts) \div (2 * Parts)) * Parts
Requested(c, qty, Parts) == IF c = "OANDA" THEN OandaUnits(qty, Parts) ELSE qty

----------------------------------------------------------------------------
(* FetchPositions, of an account that holds `held' from this bot's orders. *)
NoPositions == [err |-> FALSE, qty |-> 0]
PositionsFailed == [err |-> TRUE, qty |-> 0]
Listed(qty) == [err |-> FALSE, qty |-> qty]

BinancePositions == NoPositions
KrakenPositions == NoPositions
CoinbasePositions == NoPositions

(* Errors are swallowed, and what is listed is derivatives while           *)
(* PlaceOrder trades cash.                                                 *)
BybitPositions(a) == NoPositions
OkxPositions(a) == NoPositions

DeribitPositions(a, held) == IF DeribitPrivate(a) THEN Listed(held) ELSE PositionsFailed
AlpacaPositions(a, held) ==
  IF JsonGet(a) /\ a # "error" THEN Listed(held) ELSE PositionsFailed
CcxtPositions(a, held) ==
  IF CcxtGet(a) /\ a # "error" THEN Listed(held) ELSE PositionsFailed
(* OANDA tells the units of the long side and of the short side, those of  *)
(* a short negative; the adapter subtracts them, so a short is listed as a *)
(* long. An object without positions is an empty list of them.             *)
OandaUnitsHeld(held) ==
  LET lu == IF held > 0 THEN held ELSE 0
      su == IF held < 0 THEN held ELSE 0
  IN lu - su
OandaPositions(a, held) ==
  IF JsonGet(a) THEN Listed(IF a = "ok" THEN OandaUnitsHeld(held) ELSE 0)
  ELSE PositionsFailed

FetchPositions(c, a, held) ==
  CASE c = "BINANCE" -> BinancePositions
    [] c = "KRAKEN" -> KrakenPositions
    [] c = "COINBASE" -> CoinbasePositions
    [] c = "BYBIT" -> BybitPositions(a)
    [] c = "OKX" -> OkxPositions(a)
    [] c = "DERIBIT" -> DeribitPositions(a, held)
    [] c = "ALPACA" -> AlpacaPositions(a, held)
    [] c = "CCXT" -> CcxtPositions(a, held)
    [] c = "OANDA" -> OandaPositions(a, held)
    [] OTHER -> PositionsFailed

----------------------------------------------------------------------------
(* FetchBalances: the dollars reconcilePortfolio finds in it, of an        *)
(* account with `cash' of which working orders hold `hold'.                *)
Counted(a, usd) == [err |-> FALSE, usd |-> IF a = "ok" THEN usd ELSE 0]
BalancesFailed == [err |-> TRUE, usd |-> 0]

(* Free and locked are added up again. *)
(* Plausible bug: locked dollars are dropped. *)
BinanceBalancesFree(a, cash, hold) ==
  IF BinanceSigned(a) /\ Decoded(a) THEN Counted(a, cash - hold) ELSE BalancesFailed
BinanceBalances(a, cash, hold) ==
  IF BinanceSigned(a) /\ Decoded(a) THEN Counted(a, (cash - hold) + hold) ELSE BalancesFailed
BybitBalances(a, cash, hold) ==
  IF BybitSignGet(a) /\ Decoded(a) THEN Counted(a, (cash - hold) + hold) ELSE BalancesFailed
OkxBalances(a, cash) ==
  IF OkxSign(a) /\ Decoded(a) THEN Counted(a, cash) ELSE BalancesFailed
KrakenBalances(a, cash) == IF KrakenPrivate(a) THEN Counted(a, cash) ELSE BalancesFailed
(* What is available, or the whole balance when nothing is. *)
CoinbaseBalances(a, cash, hold) ==
  IF CoinbaseSign(a) /\ Decoded(a) /\ a # "error"
  THEN Counted(a, IF cash = hold THEN cash ELSE cash - hold) ELSE BalancesFailed
AlpacaBalances(a, cash) == IF JsonGet(a) THEN Counted(a, cash) ELSE BalancesFailed
OandaBalances(a, cash) == IF JsonGet(a) THEN Counted(a, cash) ELSE BalancesFailed
CcxtBalances(a, cash) ==
  IF CcxtGet(a) /\ a # "error" THEN Counted(a, cash) ELSE BalancesFailed
(* The account's bitcoin, which is not counted. *)
DeribitBalances(a) == IF DeribitPrivate(a) THEN Counted(a, 0) ELSE BalancesFailed

FetchBalances(c, a, cash, hold) ==
  CASE c = "BINANCE" -> BinanceBalances(a, cash, hold)
    [] c = "BYBIT" -> BybitBalances(a, cash, hold)
    [] c = "OKX" -> OkxBalances(a, cash)
    [] c = "KRAKEN" -> KrakenBalances(a, cash)
    [] c = "COINBASE" -> CoinbaseBalances(a, cash, hold)
    [] c = "ALPACA" -> AlpacaBalances(a, cash)
    [] c = "OANDA" -> OandaBalances(a, cash)
    [] c = "CCXT" -> CcxtBalances(a, cash)
    [] c = "DERIBIT" -> DeribitBalances(a)
    [] OTHER -> BalancesFailed

----------------------------------------------------------------------------
(* FetchBookTop: which sides have a price. "ok" is refined by the sides    *)
(* that are quoted.                                                        *)
BookAnswers == Faults \cup {"both", "bid", "ask", "empty"}
Quote(a) == [ok |-> TRUE, bid |-> a \in {"both", "bid"}, ask |-> a \in {"both", "ask"}]
NoQuote == [ok |-> FALSE, bid |-> FALSE, ask |-> FALSE]
Traded(a) == IF JsonGet(a) /\ a = "both" THEN Quote(a) ELSE NoQuote

BinanceBook(a) == IF JsonGet(a) THEN Quote(a) ELSE NoQuote
BybitBook(a) == IF JsonGet(a) /\ a # "error" THEN Quote(a) ELSE NoQuote
OkxBook(a) == IF JsonGet(a) /\ a # "error" THEN Quote(a) ELSE NoQuote
OandaBook(a) == IF JsonGet(a) /\ a # "error" THEN Quote(a) ELSE NoQuote
CoinbaseBook(a) == IF JsonGet(a) THEN Quote(a) ELSE NoQuote
CcxtBook(a) == IF CcxtPost(a) THEN Quote(a) ELSE NoQuote
(* Neither the status nor the error object is looked at. *)
DeribitBook(a) == IF a \notin {"lost", "garbled"} THEN Quote(a) ELSE NoQuote
(* The ticker is decoded without the envelope that privatePost unwraps,    *)
(* whose list of errors is not a map: every answer fails to decode.        *)
KrakenBook(a) == NoQuote
(* A last trade, of stocks or else of coins, stands for both sides. *)
AlpacaBook(a, coin) ==
  IF JsonGet(a) THEN Quote(IF a = "both" THEN a ELSE "empty") ELSE Traded(coin)
YahooBook(a, close) ==
  IF JsonGet(a) /\ a # "error" THEN Traded(IF a = "both" THEN a ELSE close) ELSE NoQuote
FinnhubBook(a) == Traded(a)
PolygonBook(a) == Traded(a)
TwelveDataBook(a) == Traded(a)

(* `second' is the answer of the further source Alpaca and Yahoo have.     *)
FetchBookTop(c, a, second) ==
  CASE c = "BINANCE" -> BinanceBook(a)
    [] c = "BYBIT" -> BybitBook(a)
    [] c = "OKX" -> OkxBook(a)
    [] c = "OANDA" -> OandaBook(a)
    [] c = "COINBASE" -> CoinbaseBook(a)
    [] c = "CCXT" -> CcxtBook(a)
    [] c = "DERIBIT" -> DeribitBook(a)
    [] c = "KRAKEN" -> KrakenBook(a)
    [] c = "ALPACA" -> AlpacaBook(a, second)
    [] c = "YAHOO" -> YahooBook(a, second)
    [] c = "FINNHUB" -> FinnhubBook(a)
    [] c = "POLYGON" -> PolygonBook(a)
    [] c = "TWELVEDATA" -> TwelveDataBook(a)
    [] OTHER -> NoQuote

----------------------------------------------------------------------------
(* CancelOrder is sent by every broker's adapter. CancelAll is sent by     *)
(* three of them, and is a no-op without an error for the other brokers.   *)
SendsCancel(c) == c \in Brokers
SendsCancelAll(c) == c \in {"DERIBIT", "ALPACA", "CCXT"}
=============================================================================
