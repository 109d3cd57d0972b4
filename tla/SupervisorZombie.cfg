\* Restart and Remove at the same time.
SPECIFICATION Spec
CONSTANTS
  e1 = e1
  e2 = e2
  l1 = l1
  l2 = l2
  l3 = l3
  l4 = l4
  None = None
  Ext = {x1}
  Entry = {e1}
  Loop = {l1, l2, l3}
  Caller = {c1, c2}
  Manifest <- Single
  Ops = {"apply", "restart", "remove"}
  MaxOps = 3
  MaxNotes = 1
INVARIANT
  RemovedIsGone
CHECK_DEADLOCK FALSE
