CONSTANTS
  Combos = {k1, k2}
  Orchestrators = {o1}
  Slots = {s1, s2}
  Durations = {d1}
  MaxPublished = 1
  MaxKills = 0
  MaxOverruns = 0
  MaxDeletes = 0
  MaxRefused = 0
  MaxEdits = 0
  MaxFaults = 4
SPECIFICATION FairSpec
PROPERTY SweepFansOut
CHECK_DEADLOCK FALSE
