CONSTANTS
  Symbols = {s1, s2}
  Tickers = {s1, s2}
  LastDay = 3
  DaysBack = 2
  Backfill = 3
  MaxBacklog = 1
  MaxIncidents = 2
SPECIFICATION Spec
INVARIANTS NoGaps OneBasisAfterBackfill
SYMMETRY SymbolSymmetry
CHECK_DEADLOCK FALSE
