---------------------------- MODULE MCEventBus ----------------------------
(* Small instances of EventBus: three events, one of which may be unwanted. *)
EXTENDS EventBus, TLC

CONSTANTS e1, e2, e3, Unwanted

Events == { e1, e2, e3 }
Filters == [s \in Sub |-> Event \ Unwanted]
None == {}
OnlyE3 == { e3 }

=============================================================================
