\* Two background tasks, so that the turn that answers the first may dispatch another:
\* the safety properties without the liveness, in six lines and two turns.
SPECIFICATION Spec
CONSTANTS
  t1 = t1
  t2 = t2
  none = none
  Task = {t1, t2}
  Kind <- Two
  NoTask = none
  MaxRecords = 6
  MaxTurns = 2
  ReadErrors = FALSE
INVARIANTS
  TailSound
  WorkAccounted
  CancelledWakeupDropped
CHECK_DEADLOCK FALSE
