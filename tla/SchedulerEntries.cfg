\* The prompt of a scheduled job is edited.
SPECIFICATION Spec
CONSTANTS
  j1 = j1
  Job <- Jobs
  Expr <- Exprs
  Body <- Bodies
  Contents <- Prompts
  Timer = {t1}
  Watcher = w
  MaxEdits = 1
  MaxSession = 1
INVARIANTS
  EntriesCurrent
CHECK_DEADLOCK FALSE
