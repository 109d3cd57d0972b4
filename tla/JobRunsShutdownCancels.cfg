\* A single run against the shutdown sequence.
SPECIFICATION Spec
CONSTANTS
  cfg = cfg
  eph = eph
  Job <- Jobs
  Configured <- OnlyCfg
  UsesTree <- Jobs
  KeepTree <- None
  Run = {r1}
  Client = {}
  MaxEpoch = 1
  NoRun = NoRun
  NoJob = NoJob
INVARIANTS
  ShutdownCancelsAll
CHECK_DEADLOCK FALSE
