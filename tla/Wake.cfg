\* Two jobs that are due at different times, of which one wake may be owned.
SPECIFICATION FairSpec
CONSTANTS
  j1 = j1
  j2 = j2
  Job = {j1, j2}
  At <- Apart
  MaxTime = 3
  MaxEvents = 1
  MaxCancelFailures = 2
  MaxChanges = 3
  MaxFaults = 2
INVARIANTS
  LedgerSound
PROPERTIES
  WakesScheduled
  AssertionEnds
CHECK_DEADLOCK FALSE
