\* One background task that is tracked from its acknowledgement, at most two
\* turns, and six lines: a dispatch, its result, two ends of turns, and two more.
SPECIFICATION FairSpec
CONSTANTS
  t1 = t1
  t2 = t2
  none = none
  Task = {t1}
  Kind <- Monitor
  NoTask = none
  MaxRecords = 6
  MaxTurns = 2
  ReadErrors = FALSE
INVARIANTS
  TailSound
  WorkAccounted
  CancelledWakeupDropped
PROPERTIES
  CallReturns
CHECK_DEADLOCK FALSE
