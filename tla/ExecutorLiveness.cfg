SPECIFICATION FairSpec
CONSTANTS
  j1 = j1
  j2 = j2
  ana = ana
  long = long
  None = None
  Jobs = {j1, j2}
  Owners = {ana}
  Owner <- OneOwner
  Payloads = {long}
  Repetitions <- MCRepetitions
  RequestBytes <- MCRequestBytes
  EnvelopeBytes <- MCEnvelopeBytes
  MaxWorkers = 1
  MaxJobsPerOwner = 2
  MaxJobsGlobal = 3
  Retention = 1
  MaxTerminalJobs = 1
  MaxRetainedBytes = 4
  MaxTime = 0
  MaxPools = 2
PROPERTIES ImplementsLifecycle EveryJobEnds CloseDrains
CHECK_DEADLOCK FALSE
