\* Two runs of either job, a crash and a restart, one IPC connection.
SPECIFICATION Spec
CONSTANTS
  cfg = cfg
  eph = eph
  Job <- Jobs
  Configured <- OnlyCfg
  UsesTree <- Jobs
  KeepTree <- OnlyEph
  Run = {r1, r2}
  Client = {c1}
  MaxEpoch = 2
  NoRun = NoRun
  NoJob = NoJob
SYMMETRY Symmetry
INVARIANTS
  TypeOK
  RunsExclusive
  RecordsTruthful
PROPERTIES
  RefinesSlots
  KeptTreeSurvives
CHECK_DEADLOCK FALSE
