SPECIFICATION Spec
CONSTANTS
  j1 = j1
  j2 = j2
  ana = ana
  long = long
  None = None
  Jobs = {j1, j2}
  Owners = {ana}
  Owner <- OneOwner
  Payloads = {long}
  Repetitions <- MCRepetitions
  RequestBytes <- MCRequestBytes
  EnvelopeBytes <- MCEnvelopeBytes
  MaxWorkers = 2
  MaxJobsPerOwner = 2
  MaxJobsGlobal = 2
  Retention = 1
  MaxTerminalJobs = 1
  MaxRetainedBytes = 4
  MaxTime = 1
  MaxPools = 2
SYMMETRY Symmetric
INVARIANTS BindingExact NoMissedExpiry SnapshotValid QueueExact NoLostWakeup
PROPERTIES OnlyTheBrokenPoolIsReplaced
CHECK_DEADLOCK FALSE
