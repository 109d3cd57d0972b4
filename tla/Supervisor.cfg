\* Calls come one at a time.
SPECIFICATION FairSpec
CONSTANTS
  e1 = e1
  e2 = e2
  l1 = l1
  l2 = l2
  l3 = l3
  l4 = l4
  None = None
  Ext = {x1}
  Entry = {e1, e2}
  Loop = {l1, l2, l3}
  Caller = {c1}
  Manifest <- Mixed
  Ops <- EveryOp
  MaxOps = 3
  MaxNotes = 1
INVARIANTS
  TypeOK
  OneLoop
  NothingLeftBehind
PROPERTIES
  SpecFollows
  BreakerWorks
  CallsReturn
  StaysSupervised
CHECK_DEADLOCK FALSE
