\* One intent over three venues: binance's answer reports fills, alpaca's CancelAll
\* cancels and its rejections may pass for orders, kraken does neither.
SPECIFICATION RouterSpec
CONSTANTS
  binance = binance
  alpaca = alpaca
  kraken = kraken
  Venues = {binance, alpaca, kraken}
  Primary = binance
  Fallbacks <- MCFallbacks
  MaxPar = 2
  HardCancel = TRUE
  Reporting = {binance}
  Canceling = {alpaca}
  Lenient = {alpaca}
INVARIANTS RouterTypeOK OneKnownOrder LedgerIsReal SweepReachesAll
PROPERTIES CallReturns
