CONSTANTS
  Runs = {r1}
  Workers = {w1, w2}
  NoRun = NoRun
  MaxPublished = 2
  MaxKills = 0
  MaxEdits = 0
SPECIFICATION Spec
INVARIANT FreshRunsKeepCurve
SYMMETRY WorkerSymmetry
CHECK_DEADLOCK FALSE
