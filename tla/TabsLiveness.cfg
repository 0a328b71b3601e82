SPECIFICATION FairSpec
CONSTANTS
  t1 = t1
  t2 = t2
  x1 = x1
  x2 = x2
  x3 = x3
  None = None
  Tabs = {t1, t2}
  Changes = {x1, x2}
  Evidence = {}
  MaxCalls = 1
  Commands <- Busy
PROPERTIES EditsSettle
CHECK_DEADLOCK FALSE
