SPECIFICATION FairSpec
CONSTANTS
  Items <- Two
  Workers = {w1, w2}
  MaxForeign = 2
  MaxFaults = 1
INVARIANTS CompletedIsStored FailsForACause
PROPERTIES StopsAtCommitFailure BatchEnds
CHECK_DEADLOCK FALSE
