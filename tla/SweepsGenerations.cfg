CONSTANTS
  Combos = {k1, k2}
  Orchestrators = {o1}
  Slots = {s1, s2}
  Durations = {d1, d2}
  MaxPublished = 2
  MaxKills = 0
  MaxOverruns = 1
  MaxDeletes = 1
  MaxRefused = 1
  MaxEdits = 1
  MaxFaults = 1
SPECIFICATION Spec
INVARIANT TallyMatches
PROPERTY ChildrenUnderContract
SYMMETRY Symmetry
CHECK_DEADLOCK FALSE
