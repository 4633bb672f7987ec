SPECIFICATION VenuesSpec
CONSTANTS
  Venues = {"main", "spare"}
  Chain <- MCChain
  Conns = {"OANDA"}
  Fallbacks = {"BINANCE"}
  Keyless = {}
  Parts = 2
  Sizes = {3}
  Cash = 6
  MinDepth = FALSE
  MaxOrders = 2
CHECK_DEADLOCK FALSE
PROPERTY
  ExitFlattens
