SPECIFICATION FairSpec
CONSTANTS
  Tabs = {t1, t2}
  Scenarios = {c1, c2}
  Slots = {r1, r2}
  MaxAttempts = 1
  MaxEvents = 1
PROPERTY EveryRunEnds
CHECK_DEADLOCK FALSE
