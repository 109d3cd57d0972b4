----------------------------- MODULE MCScheduler -----------------------------
(* A small instance of Scheduler for TLC: one job that is scheduled in two     *)
(* ways, fired once, disabled or dropped.                                      *)
EXTENDS Scheduler

CONSTANT j1

Jobs  == {j1}
Exprs == {"daily", "hourly"}
Bodies == {"old", "new"}

Conf(s, b) == [j \in Jobs |-> [sched |-> s, body |-> b]]
Edited == { Conf("daily", "old"), Conf("daily", "new"), Conf("hourly", "old"),
            Conf("once", "old"), Conf("off", "old") }
Prompts == { Conf("daily", "old"), Conf("daily", "new") }

=============================================================================
