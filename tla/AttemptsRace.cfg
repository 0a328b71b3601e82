SPECIFICATION Spec
CONSTANTS
  Tabs = {t1, t2}
  Scenarios = {c1, c2}
  Slots = {r1, r2}
  MaxAttempts = 1
  MaxEvents = 0
INVARIANT InterruptedWasLost
CHECK_DEADLOCK FALSE
