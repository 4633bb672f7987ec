SPECIFICATION PaperSpec
CONSTANTS
  Symbols = {btc, eth}
  Callers = {c1}
  Flattener = nuke
  Qtys <- MCQtys
  MaxFills = 2
INVARIANTS PaperTypeOK PositionsAreNetFills FlattenAccounts
PROPERTIES FlattenLeavesOnlyLaterFills FlattenEnds
