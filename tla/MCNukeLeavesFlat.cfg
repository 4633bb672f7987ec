SPECIFICATION TradingSafety
CONSTANTS
  Loops = {l1}
  NoLoop = none
  NukeWindow = 1
  MaxTime = 0
  btc = btc
  Instruments <- MCInstruments
  EntrySizes = {1}
  MaxSignals = 1
  MaxFills = 1
  ExitOnOppositeSignal = TRUE
  Nuker = nuke
PROPERTIES NukeLeavesFlat
