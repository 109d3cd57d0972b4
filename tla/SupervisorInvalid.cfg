\* Start, Remove and Shutdown of an entry that has never had a manifest: leave
\* one claim at a time.
SPECIFICATION FairSpec
CONSTANTS
  e1 = e1
  e2 = e2
  l1 = l1
  l2 = l2
  l3 = l3
  l4 = l4
  None = None
  Ext = {x1}
  Entry = {e1}
  Loop = {l1, l2, l3}
  Caller = {c1}
  Manifest <- Single
  Ops = {"invalid", "start", "remove", "shutdown"}
  MaxOps = 3
  MaxNotes = 1
INVARIANTS
  NoLoopForInvalid
  GraceIsForLoops
PROPERTY
  EveryCallReturns
CHECK_DEADLOCK FALSE
