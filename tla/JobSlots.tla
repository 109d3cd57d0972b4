------------------------------ MODULE JobSlots ------------------------------
(***************************************************************************)
(* What the run pipeline promises about the executions of a job: a job has *)
(* one slot, a run takes a free slot or passes it by, and once it left the *)
(* slot, of itself or because its process died, it never comes back.       *)
(* JobRuns implements this with a file lock, phases and crashes.           *)
(***************************************************************************)
CONSTANTS Job, Run, NoRun

VARIABLES
  slot,       \* the run executing for each job
  finished    \* the runs that will not execute any more

vars == << slot, finished >>

InSlot(r) == \E j \in Job : slot[j] = r

Init == slot = [j \in Job |-> NoRun] /\ finished = {}

Begin(r, j) ==
  /\ slot[j] = NoRun
  /\ r \notin finished /\ ~InSlot(r)
  /\ slot' = [slot EXCEPT ![j] = r]
  /\ UNCHANGED finished

End(j) ==
  /\ slot[j] # NoRun
  /\ finished' = finished \cup {slot[j]}
  /\ slot' = [slot EXCEPT ![j] = NoRun]

\* A run gives up without executing.
Skip(r) ==
  /\ r \notin finished /\ ~InSlot(r)
  /\ finished' = finished \cup {r}
  /\ UNCHANGED slot

\* A process is gone, with its executions and its runs that were still waiting.
Abort ==
  \E Lost \in SUBSET Run :
    /\ slot' = [j \in Job |-> IF slot[j] \in Lost THEN NoRun ELSE slot[j]]
    /\ finished' = finished \cup Lost

Next ==
  \/ \E r \in Run, j \in Job : Begin(r, j)
  \/ \E j \in Job : End(j)
  \/ \E r \in Run : Skip(r)
  \/ Abort

Spec == Init /\ [][Next]_vars

=============================================================================
