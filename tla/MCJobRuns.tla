----------------------------- MODULE MCJobRuns -----------------------------
(* Small instances of JobRuns for TLC: a configured job and a submitted one, *)
(* which can be given any combination of worktree settings in the .cfg.      *)
EXTENDS JobRuns, TLC

CONSTANTS cfg, eph      \* a configured job and an ephemeral one

Jobs == { cfg, eph }
OnlyCfg == { cfg }
OnlyEph == { eph }
None == {}

\* The runs are interchangeable (safety runs only).
Symmetry == Permutations(Run)

=============================================================================
