\* A day of three hours of two minutes; a session of the first two hours.
CONSTANTS
  Ins <- MCIns
  Instruments <- MCInstruments
  Configs <- MCConfigs
  Quotes <- MCQuotes
  DayHours = 3
  HourLen = 2
  StopDistances = {4000}
  RiskPct = 2
  NotionalPct = 50
  SpreadPct = 3
  RequireBrokerStops = TRUE
  ExitOnOppositeSignal = TRUE
  MaxPos = 1
  MaxTime = 6
  Series <- MCSeries
  WindowConfigs <- MCWindowConfigs
  InitialEquity = 20
  MaxQty = 1
  Slips = {0, 1}
  Fees = {0, 1}
SPECIFICATION BotSpec
INVARIANTS BacktestTypeOK OneBudgetPerVisit HeldOvernightHasCause
PROPERTIES LiveBarsAreBlind BarsInOrder WinsAreEarlier
CHECK_DEADLOCK FALSE
