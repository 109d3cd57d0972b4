\* The provider that reads the stream, and a schedule that claude cancels.
SPECIFICATION Spec
CONSTANTS
  t1 = t1
  t2 = t2
  none = none
  Task = {t1}
  Kind <- Monitor
  NoTask = none
  MaxRecords = 6
  MaxTurns = 2
  ReadErrors = FALSE
INVARIANT
  WakeupContract
CHECK_DEADLOCK FALSE
