CONSTANTS
  Grids <- MCGrids
  Base <- MCBase
  Grain = 10
  Errors <- MCErrors
  MaxValues = 4
SPECIFICATION Spec
INVARIANTS AxesExact ErrorStaysOnce RefusedJustly RangesEnd ChildrenCounted
CHECK_DEADLOCK FALSE
