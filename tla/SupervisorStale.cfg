\* The notifier of a spawn runs after the exit.
SPECIFICATION Spec
CONSTANTS
  e1 = e1
  e2 = e2
  l1 = l1
  l2 = l2
  l3 = l3
  l4 = l4
  None = None
  Ext = {x1}
  Entry = {e1}
  Loop = {l1, l2, l3}
  Caller = {c1}
  Manifest <- Mixed
  Ops = {"apply"}
  MaxOps = 1
  MaxNotes = 1
INVARIANT
  AliveHasLoop
CHECK_DEADLOCK FALSE
