\* Two loops, one still inside its tick when the other is armed, and a nuke at
\* any step: an entry by each, or an entry and an exit by one that is alone.
SPECIFICATION TradingSafety
CONSTANTS
  Loops = {l1, l2}
  NoLoop = none
  NukeWindow = 1
  MaxTime = 0
  btc = btc
  Instruments <- MCInstruments
  EntrySizes = {1}
  MaxSignals = 1
  MaxFills = 2
  ExitOnOppositeSignal = TRUE
  Nuker = nuke
SYMMETRY LoopSymmetry
CONSTRAINTS NoTermination OneNuke
ACTION_CONSTRAINT AgainOnlyAlone
INVARIANTS TradingTypeOK LedgerFollowsFills SnapshotExactUnlessMoved PauseLetsInFlightOnly
PROPERTIES ExitClosesUnmoved QuietAfterHalt
