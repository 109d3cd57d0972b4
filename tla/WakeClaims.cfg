\* Claims the code does not keep: leave one at a time.
SPECIFICATION FairSpec
CONSTANTS
  j1 = j1
  j2 = j2
  Job = {j1, j2}
  At <- Apart
  MaxTime = 3
  MaxEvents = 1
  MaxCancelFailures = 2
  MaxChanges = 3
  MaxFaults = 2
INVARIANT
  OwnsAtMostMax
PROPERTIES
  HeldLongEnough
  EnabledWithoutRestart
  EverySaveLoaded
  NothingLeaks
  SelfHeals
CHECK_DEADLOCK FALSE
