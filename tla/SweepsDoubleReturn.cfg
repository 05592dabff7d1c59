CONSTANTS
  Combos = {k1, k2}
  Orchestrators = {o1}
  Slots = {s1, s2}
  Durations = {d1, d2}
  MaxPublished = 1
  MaxKills = 1
  MaxOverruns = 0
  MaxDeletes = 0
  MaxRefused = 0
  MaxEdits = 0
  MaxFaults = 4
SPECIFICATION Spec
INVARIANT SucceededMeansAll
SYMMETRY Symmetry
CHECK_DEADLOCK FALSE
