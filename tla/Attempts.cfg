SPECIFICATION Spec
CONSTANTS
  Tabs = {t1, t2}
  Scenarios = {c1, c2}
  Slots = {r1, r2}
  MaxAttempts = 2
  MaxEvents = 1
SYMMETRY Alike
INVARIANTS ReservedFirst OneEnding EndingsAgree OneAtATime CompletedIsStored
CHECK_DEADLOCK FALSE
