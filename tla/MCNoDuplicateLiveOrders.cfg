SPECIFICATION RouterSafety
CONSTANTS
  binance = binance
  alpaca = alpaca
  kraken = kraken
  Venues = {binance, alpaca, kraken}
  Primary = binance
  Fallbacks <- MCFallbacks
  MaxPar = 2
  HardCancel = TRUE
  Reporting = {binance}
  Canceling = {alpaca}
  Lenient = {alpaca}
INVARIANTS NoDuplicateLiveOrders
