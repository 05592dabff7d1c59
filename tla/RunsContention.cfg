CONSTANTS
  Runs = {r1}
  Workers = {w1, w2}
  NoRun = NoRun
  MaxPublished = 3
  MaxKills = 1
  MaxEdits = 1
SPECIFICATION Spec
INVARIANTS TypeOK NoSilentLoss ResultsConsistent MetricsBelong
PROPERTIES OutcomeStands PruneOnlyOld ImplementsContract
SYMMETRY WorkerSymmetry
CHECK_DEADLOCK FALSE
