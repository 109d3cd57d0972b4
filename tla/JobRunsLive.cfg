\* Liveness: one submitted job, two runs, a connection and a shutdown.
SPECIFICATION FairSpec
CONSTANTS
  cfg = cfg
  eph = eph
  Job <- OnlyEph
  Configured <- None
  UsesTree <- OnlyEph
  KeepTree <- None
  Run = {r1, r2}
  Client = {c1}
  MaxEpoch = 1
  NoRun = NoRun
  NoJob = NoJob
PROPERTIES
  EveryRunEnds
  ShutdownCompletes
CHECK_DEADLOCK FALSE
