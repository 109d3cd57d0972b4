\* Three events, one subscriber, a channel of two, two connections.
SPECIFICATION FairSpec
CONSTANTS
  e1 = e1
  e2 = e2
  e3 = e3
  Unwanted <- None
  Event <- Events
  Sub = {s1}
  Wanted <- Filters
  Buffer = 2
  MaxTime = 2
  MaxConn = 2
INVARIANTS
  StreamFaithful
PROPERTIES
  OwedIsHandled
  CatchesUp
CHECK_DEADLOCK FALSE
