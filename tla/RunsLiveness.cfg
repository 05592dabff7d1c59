CONSTANTS
  Runs = {r1}
  Workers = {w1, w2}
  NoRun = NoRun
  MaxPublished = 2
  MaxKills = 1
  MaxEdits = 1
SPECIFICATION FairSpec
PROPERTIES RunsSettle PruneCompletes
CHECK_DEADLOCK FALSE
