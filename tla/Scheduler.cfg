\* One job, two edits of its config, a restart.
SPECIFICATION FairSpec
CONSTANTS
  j1 = j1
  Job <- Jobs
  Expr <- Exprs
  Body <- Bodies
  Contents <- Edited
  Timer = {t1}
  Watcher = w
  MaxEdits = 2
  MaxSession = 2
INVARIANTS
  TypeOK
  ScheduleMatches
  OneOffRunsOnce
PROPERTIES
  RenamesAreTracked
  EditsArrive
CHECK_DEADLOCK FALSE
