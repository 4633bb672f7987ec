SPECIFICATION VenuesSpec
CONSTANTS
  Venues = {"main", "spare"}
  Chain <- MCChain
  Conns = {"BINANCE", "BYBIT", "OKX", "DERIBIT", "KRAKEN", "COINBASE", "ALPACA", "OANDA", "CCXT", "YAHOO", "NONE"}
  Fallbacks = {"BINANCE", "OANDA"}
  Keyless = {"main"}
  Parts = 2
  Sizes = {3}
  Cash = 6
  MinDepth = FALSE
  MaxOrders = 2
CHECK_DEADLOCK FALSE
INVARIANTS
  VenuesTypeOK
  LedgerGapExplained
  LossIsSpent
PROPERTY
  ExitReducesHere
