--------------------------- MODULE MCSupervisor ---------------------------
(* Small instances of Supervisor: the manifests that are saved. *)
EXTENDS Supervisor

CONSTANTS e1, e2, l1, l2, l3, l4

M(spec, enabled, policy, max) ==
  [spec |-> spec, enabled |-> enabled, policy |-> policy, max |-> max]

\* Two specs, one of which is also saved as disabled.
Mixed   == { M(1, TRUE, "always", 2), M(1, FALSE, "always", 2),
             M(2, TRUE, "on_failure", 2) }
Enabled == { M(1, TRUE, "always", 2), M(2, TRUE, "always", 2) }
Flips   == { M(1, TRUE, "always", 2), M(1, FALSE, "always", 2) }
Single  == { M(1, TRUE, "always", 2) }
NoLimit == { M(1, TRUE, "always", 0) }

Two     == { M(1, TRUE, "on_failure", 2), M(2, FALSE, "on_failure", 2) }

EveryOp == AllOps
Valid   == AllOps \ { "invalid" }

===========================================================================
