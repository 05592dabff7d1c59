CONSTANTS
  Symbols = {1, 2}
  Tickers = {1, 2, 3}
  Offset <- MCOffset
  Days = {0, 1, 2, 3}
  Subclasses = {"A", "B"}
  NoClass = "None"
  Programs <- MCPrograms
  Builtin <- MCBuiltin
  Parameters <- MCParameters
  RunRows <- MCRunRows
  Statistics <- MCStatistics
  MaxExecutions = 2
  MaxChanges = 1
SPECIFICATION Spec
INVARIANTS OneVersion LoadedClassIsMeant EngineResultsAreKept
PROPERTIES TradesOfTheirBars WindowExact
CHECK_DEADLOCK FALSE
