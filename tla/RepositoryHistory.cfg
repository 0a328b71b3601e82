SPECIFICATION Spec
CONSTANTS
  s1 = s1
  s2 = s2
  s3 = s3
  base = base
  alt = alt
  run = run
  ended = ended
  queued = queued
  success = success
  again = again
  first = first
  second = second
  o1 = o1
  o2 = o2
  o3 = o3
  o4 = o4
  i1 = i1
  i2 = i2
  None = None
  Scenarios = {base, alt}
  Base = base
  Attempts = {first, second}
  About <- MCAbout
  Studies = {s1}
  Executions = {run, ended, queued, again, success}
  MaxExecutions = 3
  Operations = {o1, o2, o3, o4}
  Installations = {}
  DemoStudy <- NoDemo
  DemoPackage <- NoPackage
SYMMETRY Symmetric
INVARIANTS SequencesDense SummaryExact StoredIsValid
PROPERTIES EvidenceKept
CHECK_DEADLOCK FALSE
