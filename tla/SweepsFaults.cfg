CONSTANTS
  Combos = {k1, k2}
  Orchestrators = {o1}
  Slots = {s1, s2}
  Durations = {d1}
  MaxPublished = 1
  MaxKills = 1
  MaxOverruns = 1
  MaxDeletes = 0
  MaxRefused = 1
  MaxEdits = 0
  MaxFaults = 3
SPECIFICATION FairSpec
INVARIANTS TypeOK TallyMatches SweepUnderWay
PROPERTIES CallbacksIdempotent SweepSettles
CHECK_DEADLOCK FALSE
