\* A consumer that reconnects, with a channel that holds every event.
SPECIFICATION Spec
CONSTANTS
  e1 = e1
  e2 = e2
  e3 = e3
  Unwanted <- None
  Event <- Events
  Sub = {s1}
  Wanted <- Filters
  Buffer = 3
  MaxTime = 2
  MaxConn = 2
INVARIANT
  NothingMissed
CHECK_DEADLOCK FALSE
