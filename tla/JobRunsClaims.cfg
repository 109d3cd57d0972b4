\* Two runs and a client. Claims the code does not keep: leave one at a time.
SPECIFICATION Spec
CONSTANTS
  cfg = cfg
  eph = eph
  Job <- Jobs
  Configured <- OnlyCfg
  UsesTree <- Jobs
  KeepTree <- None
  Run = {r1, r2}
  Client = {c1}
  MaxEpoch = 1
  NoRun = NoRun
  NoJob = NoJob
INVARIANTS
  InFlightRowKept
  EveryWorktreeOwned
  StopReachesRunning
  AcceptedSubmitRuns
CHECK_DEADLOCK FALSE
