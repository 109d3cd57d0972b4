----------------------------- MODULE MCAgentTurn -----------------------------
(* A small instance of AgentTurn for TLC: background tasks that are tracked    *)
(* from the call, from the acknowledgement, and without an id.                 *)
EXTENDS AgentTurn

CONSTANTS t1, t2, none

One(k)    == [t \in {t1} |-> k]
Bash      == One("bash")
Monitor   == One("monitor")
Message   == One("message")
Two       == [t \in {t1, t2} |-> IF t = t1 THEN "bash" ELSE "monitor"]

=============================================================================
