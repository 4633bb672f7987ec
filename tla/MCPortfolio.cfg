CONSTANTS
  a = a
  b = b
  v1 = v1
  v2 = v2
  Keys = {a, b}
  Venues = {v1, v2}
  VenueOf <- MCVenueOf
  Instruments <- MCInstruments
  Elsewhere <- MCElsewhere
  Cash <- MCCash
  Results <- MCResults
  StartEquity = 200
  HardPct = 20
  MaxHold = 1
  DayLength = 2
  MaxTime = 2
SPECIFICATION PortfolioSpec
INVARIANTS
  PortfolioTypeOK
  HeldIsTimed
  OverdueIsExited
  CircuitNeedsLoss
  RolledUnlessAhead
