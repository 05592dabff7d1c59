CONSTANTS
  d1 = d1
  d2 = d2
  Slots = {w1, w2}
  Days = {d1, d2}
  Fetches <- MCFetches
  Durations = {0, 20, 50}
  MaxAttempts = 4
  FirstDelay = 2
  MaxDelay = 60
  SoftLimit = 50
  HardLimit = 60
  MaxRetries = 1
  MaxPublished = 2
  MaxRevisions = 2
  MaxKills = 1
SPECIFICATION Spec
INVARIANTS TypeOK GivesUpLate UpsertComplete
PROPERTY BarsMoveForward
SYMMETRY SlotSymmetry
CHECK_DEADLOCK FALSE
