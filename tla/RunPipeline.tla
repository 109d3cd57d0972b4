---- MODULE RunPipeline ----
(***************************************************************************)
(* The pipeline of one job's runs (src/internal/runner/runner.go) with     *)
(* what it leaves behind for the next run: the git worktree of the job     *)
(* (src/internal/worktree/worktree.go), its row in memory and in           *)
(* state.json (src/internal/state/state.go), its logs, and the commands of *)
(* the user that change the same worktree and the same file from a process *)
(* of their own (src/internal/cli/worktree.go, prune.go, tasks.go).        *)
(*                                                                         *)
(* JobRuns has the launcher around the pipeline: slots, locks, stops and   *)
(* the interleaving of many jobs.  Here one job runs again and again, so   *)
(* the lock is always free, and the steps inside a run are the subject.    *)
(* Git's rules for worktrees and branches are external.                    *)
(***************************************************************************)
EXTENDS Naturals, FiniteSets

CONSTANTS
    None,          \* no path: the empty string
    Default,       \* the path worktree.DefaultPath gives, <repo>-bb-<job>
    Elsewhere,     \* a destination of `bigband worktree move`
    Modes,         \* the worktree modes the job is run with
    Timeout,       \* the job's timeout, in ticks
    MaxRuns,       \* bound: runs of the job
    RetainLogs,    \* defaults.retain_logs
    Commands,      \* the commands the user gives: move, rm, close, prune
    MaxMishaps,    \* bound: commands, deletions by hand, crashes, failures of git
    Faults         \* the failures that may happen: env, pre, agent, turn, git,
                   \* and subdir: the job's subdirectory is not in the worktree

ASSUME ConstantsAssumption ==
    /\ None \notin {Default, Elsewhere} /\ Default # Elsewhere
    /\ "loose" \notin {None, Default, Elsewhere}
    /\ Faults \subseteq {"env", "pre", "agent", "turn", "git", "subdir"}
    /\ Modes \subseteq {"none", "ephemeral", "fresh", "reused"}
    /\ Timeout \in Nat \ {0} /\ RetainLogs \in Nat \ {0}
    /\ {MaxRuns, MaxMishaps} \subseteq Nat
    /\ Commands \subseteq {"move", "rm", "close", "prune"}

VARIABLES
    daemon,   \* the daemon process is up
    row,      \* the job's row in the daemon's memory
    file,     \* the job's row in state.json
    logs,     \* the log files on disk, named by the second their run started
    trees,    \* for every path, the run that created the worktree there, or 0
    branch,   \* the path whose worktree holds bigband/<job>, "loose", or None
    run,      \* the run the daemon is executing
    told,     \* the last job_run.completed event
    cmd,      \* the command a user is executing
    done      \* history: commands given, deletions, crashes, trouble with git,
              \* with the file and with the subdirectory

vars == <<daemon, row, file, logs, trees, branch, run, told, cmd, done>>

Paths == {Default, Elsewhere}
Statuses == {"none", "running", "ok", "failed", "timeout", "pre_failed",
             "stopped", "unknown"}

(***************************************************************************)
(* A row: NoRow is the row of a job state.json does not know.  A session   *)
(* is named by the run that opened it, a log by its timestamp.             *)
(***************************************************************************)
NoRow == [status |-> "none", pid |-> FALSE, tree |-> None, keep |-> FALSE,
          session |-> 0, log |-> 0]

Row == [status : Statuses, pid : BOOLEAN, tree : Paths \cup {None},
        keep : BOOLEAN, session : 0..MaxRuns, log : 0..MaxRuns]

NoRun == [n |-> 0, pc |-> "idle", mode |-> "none", ts |-> 0, status |-> "ok",
          tree |-> None, resume |-> 0, session |-> 0, elapsed |-> 0,
          deadline |-> 0, delay |-> 0, cancelled |-> FALSE, faults |-> {}]

NoCommand == [pc |-> "idle", kind |-> "none", copy |-> NoRow, up |-> FALSE]

NothingTold == [n |-> 0, status |-> "none", tree |-> None, session |-> 0,
                log |-> 0]

Positions == {"idle", "pre", "dir", "add", "record", "turn", "asleep", "post",
              "clean", "clear", "done", "tell", "trim"}

RunRecord ==
    [n : 0..MaxRuns, pc : Positions, mode : Modes \cup {"none"}, ts : 0..MaxRuns,
     status : Statuses, tree : {None, Default}, resume : 0..MaxRuns,
     session : 0..MaxRuns, elapsed : Nat, deadline : Nat, delay : Nat,
     cancelled : BOOLEAN, faults : SUBSET {"env", "pre", "agent", "turn", "subdir"}]

ToldRecord == [n : 0..MaxRuns, status : Statuses, tree : {None, Default},
               session : 0..MaxRuns, log : 0..MaxRuns]

CmdRecord == [pc : {"idle", "tree", "save", "forget", "after"},
              kind : Commands \cup {"none"}, copy : Row, up : BOOLEAN]

\* over: a command saved a copy of state.json older than what the daemon had
\* saved, and no run has been recorded since. subdir: the last worktree made had
\* not the job's subdirectory, and was removed.
DoneRecord == [cmds : Nat, deletes : Nat, crashes : Nat, git : BOOLEAN,
               over : BOOLEAN, subdir : BOOLEAN]

TypeOK ==
    /\ daemon \in BOOLEAN /\ row \in Row /\ file \in Row
    /\ logs \subseteq 1..MaxRuns
    /\ trees \in [Paths -> 0..MaxRuns] /\ branch \in Paths \cup {None, "loose"}
    /\ run \in RunRecord /\ told \in ToldRecord
    /\ cmd \in CmdRecord /\ done \in DoneRecord

Init ==
    /\ daemon = TRUE /\ row = NoRow /\ file = NoRow /\ logs = {}
    /\ trees = [p \in Paths |-> 0] /\ branch = None
    /\ run = NoRun
    /\ told = NothingTold
    /\ cmd = NoCommand
    /\ done = [cmds |-> 0, deletes |-> 0, crashes |-> 0, git |-> FALSE,
               over |-> FALSE, subdir |-> FALSE]

(***************************************************************************)
(* A row is changed in memory under the lock and the whole map is written  *)
(* over state.json: the daemon never reads the file again.                 *)
(***************************************************************************)
Save(r) == row' = r /\ file' = r

Mishaps == done.cmds + done.deletes + done.crashes + IF done.git THEN 1 ELSE 0

\* A git command that could succeed fails; it may go on failing.
GitFails == "git" \in Faults /\ (done.git \/ Mishaps < MaxMishaps)

RunSteps(from, to) == daemon /\ run.pc = from /\ run' = [run EXCEPT !.pc = to]

(***************************************************************************)
(* ShouldUseWorktree, ShouldReuseWorktree, ShouldKeepWorktree: reuse       *)
(* implies keep.                                                           *)
(***************************************************************************)
UsesTree == run.mode # "none"

\* Mutation: a worktree that was kept is reused.
ReusesKept == run.mode # "none" /\ row.keep

ReusesTree == run.mode = "reused"

\* Mutation: reuse does not imply keep.
KeepsFresh == run.mode = "fresh"

KeepsTree == run.mode # "ephemeral"

(***************************************************************************)
(* External: git. `branch -D` refuses a branch a registered worktree       *)
(* holds, also when that worktree's directory is gone; `worktree add -b`   *)
(* refuses a branch that exists and a path that is taken; `worktree        *)
(* remove --force` takes any registered path.                              *)
(***************************************************************************)
DeleteBranch(b) == IF b = "loose" THEN None ELSE b

\* worktree.Remove on the worktree at p.  The branch's name is read in the
\* worktree first, so the branch of a missing worktree is not deleted.
Removed(p) ==
    [trees  |-> [trees EXCEPT ![p] = 0],
     branch |-> IF trees[p] # 0 /\ branch = p THEN None
                ELSE IF branch \in Paths /\ trees[branch] = 0 THEN "loose"
                ELSE branch]

\* git worktree remove fails on a path that is not registered, and the
\* fallback refuses a path that is not a sibling of the repository.
CanRemove(p) == branch = p \/ p = Default

RemoveTree(p) ==
    /\ CanRemove(p)
    /\ trees' = Removed(p).trees /\ branch' = Removed(p).branch

\* The command fails on a worktree it cannot remove, or fails by itself.
RemoveFails(p) ==
    /\ ~CanRemove(p) \/ GitFails
    /\ UNCHANGED <<trees, branch>>

\* The directory `bigband resume` opens the session in.
ResumeDir == IF file.tree # None THEN file.tree ELSE "folder"

\* The job's folder is a subdirectory that may not be in the worktree.
SubDirLost == "subdir" \in Faults

------------------------------------------------------------------------------
(***************************************************************************)
(* runner.Run, from the lock to the trimmed logs.                          *)
(***************************************************************************)

\* SetRunning, SetJobParams and job_run.started. The timestamp has a
\* resolution of one second: a run that follows at once has the name, and
\* truncates the log, of the run before.  A follow-up resumes the session of
\* the row; the params of the run are left out.
StartRun(mode, resume, ts) ==
    /\ daemon /\ run.pc = "idle" /\ run.n < MaxRuns
    /\ ts \in {run.ts, run.ts + 1} /\ ts > 0
    /\ resume \in {0, row.session}
    /\ run' = [NoRun EXCEPT !.n = run.n + 1, !.pc = "pre", !.mode = mode,
                            !.ts = ts, !.resume = resume]
    /\ Save([row EXCEPT !.pid = TRUE, !.status = "running"])
    /\ logs' = logs \cup {ts}
    /\ told' = NothingTold
    /\ UNCHANGED <<daemon, trees, branch, cmd, done>>

\* ResolveEnv fails: the status is set, and the run goes on without the env.
EnvUnreadable ==
    /\ daemon /\ run.pc = "pre" /\ "env" \in Faults \ run.faults
    /\ run' = [run EXCEPT !.status = "pre_failed", !.faults = @ \cup {"env"}]
    /\ UNCHANGED <<daemon, row, file, logs, trees, branch, told, cmd, done>>

\* Mutation: the run returns on a failed pre_exec, as on a log it cannot open.
PreExecReturns ==
    /\ daemon /\ run.pc = "pre" /\ ("pre" \in Faults \/ run.cancelled)
    /\ run' = [NoRun EXCEPT !.n = run.n, !.ts = run.ts]
    /\ UNCHANGED <<daemon, row, file, logs, trees, branch, told, cmd, done>>

\* A pre_exec command fails, or is killed by a stop: the agent is skipped.
PreExecFails ==
    /\ daemon /\ run.pc = "pre" /\ ("pre" \in Faults \/ run.cancelled)
    /\ run' = [run EXCEPT !.pc = "post", !.status = "pre_failed",
                          !.faults = @ \cup {"pre"}]
    /\ UNCHANGED <<daemon, row, file, logs, trees, branch, told, cmd, done>>

PreExecDone ==
    /\ RunSteps("pre", "dir")
    /\ UNCHANGED <<daemon, row, file, logs, trees, branch, told, cmd, done>>

\* The deadline of the agent's turns, all of them, is set before the first.
ToAgent(tree) ==
    run' = [run EXCEPT !.pc = "turn", !.tree = tree,
                       !.deadline = run.elapsed + Timeout]

\* resolveRunDir without a worktree. The row keeps the path of an earlier run.
RunInFolder ==
    /\ daemon /\ run.pc = "dir" /\ ~UsesTree
    /\ ToAgent(None)
    /\ UNCHANGED <<daemon, row, file, logs, trees, branch, told, cmd, done>>

\* resolveRunDir takes the worktree the run before left behind.
ReuseTree ==
    /\ daemon /\ run.pc = "dir" /\ ReusesTree /\ trees[Default] # 0
    /\ ToAgent(Default)
    /\ Save([row EXCEPT !.tree = Default, !.keep = KeepsTree])
    /\ UNCHANGED <<daemon, logs, trees, branch, told, cmd, done>>

\* CreateOrReplace removes a worktree that is in its way, ignoring errors,
\* and the branch.  A reused worktree without the job's subdirectory is
\* replaced too.
DiscardTree ==
    /\ daemon /\ run.pc = "dir" /\ UsesTree
    /\ ReusesTree /\ trees[Default] # 0 => SubDirLost
    /\ run' = [run EXCEPT !.pc = "add",
                          !.faults = IF ReusesTree /\ trees[Default] # 0
                                     THEN @ \cup {"subdir"} ELSE @]
    /\ \/ /\ trees[Default] # 0
          /\ trees' = Removed(Default).trees
          /\ branch' = DeleteBranch(Removed(Default).branch)
          /\ UNCHANGED done
       \/ /\ trees[Default] # 0 /\ GitFails
          /\ branch' = DeleteBranch(branch)
          /\ done' = [done EXCEPT !.git = TRUE]
          /\ UNCHANGED trees
       \/ /\ trees[Default] = 0
          /\ branch' = DeleteBranch(branch)
          /\ UNCHANGED <<trees, done>>
    /\ UNCHANGED <<daemon, row, file, logs, told, cmd>>

CanAdd == branch = None /\ trees[Default] = 0

\* git worktree add -b bigband/<job> <path> HEAD
AddTree ==
    /\ RunSteps("add", "record") /\ CanAdd
    /\ trees' = [trees EXCEPT ![Default] = run.n] /\ branch' = Default
    /\ done' = [done EXCEPT !.subdir = FALSE]
    /\ UNCHANGED <<daemon, row, file, logs, told, cmd>>

\* ... fails: the run falls back to the job's folder, and the row keeps the
\* path of the worktree that was discarded.
AddTreeFails ==
    /\ daemon /\ run.pc = "add" /\ (~CanAdd \/ GitFails)
    /\ ToAgent(None)
    /\ done' = [done EXCEPT !.git = @ \/ CanAdd]
    /\ UNCHANGED <<daemon, row, file, logs, trees, branch, told, cmd>>

\* The job's subdirectory is not in HEAD: the new worktree is removed, errors
\* ignored, and the run falls back to the job's folder.  The row is left alone:
\* it goes on naming the worktree if an earlier run had recorded it.
SubDirMissing ==
    /\ daemon /\ run.pc = "record" /\ SubDirLost
    /\ run' = [run EXCEPT !.pc = "turn", !.deadline = run.elapsed + Timeout,
                          !.faults = @ \cup {"subdir"}]
    /\ \/ RemoveTree(Default) /\ done' = [done EXCEPT !.subdir = TRUE]
       \/ RemoveFails(Default) /\ done' = [done EXCEPT !.subdir = TRUE, !.git = TRUE]
    /\ UNCHANGED <<daemon, row, file, logs, told, cmd>>

\* SetWorktreeKept, and job_run.worktree_ready.
RecordTree ==
    /\ daemon /\ run.pc = "record"
    /\ ToAgent(Default)
    /\ Save([row EXCEPT !.tree = Default, !.keep = KeepsTree])
    /\ UNCHANGED <<daemon, logs, trees, branch, told, cmd, done>>

------------------------------------------------------------------------------
(***************************************************************************)
(* The agent's turns. A turn takes at least a tick, and its provider is    *)
(* killed at the deadline.                                                 *)
(***************************************************************************)

\* agent.Get does not know the agent.
AgentMissing ==
    /\ daemon /\ run.pc = "turn" /\ run.elapsed = 0 /\ "agent" \in Faults
    /\ run' = [run EXCEPT !.pc = "post", !.status = "failed",
                          !.faults = @ \cup {"agent"}]
    /\ UNCHANGED <<daemon, row, file, logs, trees, branch, told, cmd, done>>

\* The session a turn leaves: its own, or the one it resumed.
SessionAfter(reported) ==
    IF reported THEN run.n
    ELSE IF run.session # 0 THEN run.session ELSE run.resume

AfterTurn(took, reported) ==
    [run EXCEPT !.elapsed = @ + took, !.session = SessionAfter(reported),
                !.resume = 0]

\* Mutation: only the first session of a job is saved.
SaveFirstSession(s) ==
    IF s # 0 /\ row.session = 0
    THEN Save([row EXCEPT !.session = s]) ELSE UNCHANGED <<row, file>>

\* SetSessionID after a turn, only for a session there is.
SaveSession(s) ==
    IF s # 0 THEN Save([row EXCEPT !.session = s]) ELSE UNCHANGED <<row, file>>

\* The status of a run whose last turn failed.
FailedStatus(atDeadline) ==
    IF run.cancelled THEN "stopped" ELSE IF atDeadline THEN "timeout" ELSE "failed"

\* The last turn ends without asking for another.
TurnEnds(took, reported) ==
    LET r == AfterTurn(took, reported)
    IN  /\ daemon /\ run.pc = "turn" /\ run.elapsed + took <= run.deadline
        /\ run' = [r EXCEPT !.pc = "post"]
        /\ SaveSession(r.session)
        /\ UNCHANGED <<daemon, logs, trees, branch, told, cmd, done>>

\* A turn fails: by itself, by a stop, or at the deadline.
TurnFails(took, reported) ==
    LET r == AfterTurn(took, reported)
    IN  /\ daemon /\ run.pc = "turn" /\ run.elapsed + took <= run.deadline
        /\ \/ run.cancelled \/ r.elapsed = run.deadline \/ "turn" \in Faults
        /\ run' = [r EXCEPT !.pc = "post", !.faults = @ \cup {"turn"},
                            !.status = FailedStatus(r.elapsed = run.deadline)]
        /\ SaveSession(r.session)
        /\ UNCHANGED <<daemon, logs, trees, branch, told, cmd, done>>

\* A turn asks to be woken after a delay: a delay that reaches the deadline
\* ends the run, with the status it has.
TurnWakes(took, reported, delay) ==
    LET r == AfterTurn(took, reported)
    IN  /\ daemon /\ run.pc = "turn" /\ run.elapsed + took <= run.deadline
        /\ SaveSession(r.session)
        /\ run' = IF delay >= run.deadline - r.elapsed
                  THEN [r EXCEPT !.pc = "post"]
                  ELSE [r EXCEPT !.pc = "asleep", !.delay = delay]
        /\ UNCHANGED <<daemon, logs, trees, branch, told, cmd, done>>

SleepEnds ==
    /\ daemon /\ run.pc = "asleep"
    /\ run' = [run EXCEPT !.pc = "turn", !.elapsed = @ + run.delay, !.delay = 0]
    /\ UNCHANGED <<daemon, row, file, logs, trees, branch, told, cmd, done>>

\* A stop ends the sleep, and the run with it.
SleepCancelled ==
    /\ daemon /\ run.pc = "asleep" /\ run.cancelled
    /\ run' = [run EXCEPT !.pc = "post", !.delay = 0, !.status = FailedStatus(FALSE),
                          !.faults = @ \cup {"turn"}]
    /\ SaveSession(run.session)
    /\ UNCHANGED <<daemon, logs, trees, branch, told, cmd, done>>

------------------------------------------------------------------------------
(***************************************************************************)
(* After the agent.                                                        *)
(***************************************************************************)

\* The reply file and post_exec, whose errors change nothing. What the rest of
\* the run does not read is reset.
PostExec ==
    /\ daemon /\ run.pc = "post"
    /\ run' = [run EXCEPT !.pc = "clean", !.elapsed = 0, !.deadline = 0,
                          !.resume = 0, !.cancelled = FALSE, !.faults = {}]
    /\ UNCHANGED <<daemon, row, file, logs, trees, branch, told, cmd, done>>

KeepTree ==
    /\ RunSteps("clean", "done") /\ (run.tree = None \/ KeepsTree)
    /\ UNCHANGED <<daemon, row, file, logs, trees, branch, told, cmd, done>>

RemoveOwnTree ==
    /\ RunSteps("clean", "clear") /\ run.tree # None /\ ~KeepsTree
    /\ RemoveTree(run.tree)
    /\ UNCHANGED <<daemon, row, file, logs, told, cmd, done>>

RemoveOwnTreeFails ==
    /\ RunSteps("clean", "done") /\ run.tree # None /\ ~KeepsTree
    /\ RemoveFails(run.tree)
    /\ UNCHANGED <<daemon, row, file, logs, told, cmd, done>>

\* Mutation: the path of a worktree that was removed stays in the row.
LeaveTreePath ==
    /\ RunSteps("clear", "done")
    /\ UNCHANGED <<daemon, row, file, logs, trees, branch, told, cmd, done>>

\* SetWorktreePath("") after the removal.
ClearTreePath ==
    /\ RunSteps("clear", "done")
    /\ Save([row EXCEPT !.tree = None])
    /\ UNCHANGED <<daemon, logs, trees, branch, told, cmd, done>>

\* The whole row, and so the file, is that of the run.
SetDone ==
    /\ RunSteps("done", "tell")
    /\ Save([row EXCEPT !.pid = FALSE, !.status = run.status, !.log = run.ts])
    /\ done' = [done EXCEPT !.over = FALSE]
    /\ UNCHANGED <<daemon, logs, trees, branch, told, cmd>>

\* job_run.completed has the path of the run's worktree also when the run
\* has just removed it.
PublishCompleted ==
    /\ RunSteps("tell", "trim")
    /\ told' = [n |-> run.n, status |-> run.status, tree |-> run.tree,
                session |-> run.session, log |-> run.ts]
    /\ UNCHANGED <<daemon, row, file, logs, trees, branch, cmd, done>>

\* trimLogs keeps the newest RetainLogs logs by name; the runner returns.
Kept(names) == {l \in names : Cardinality({m \in names : m > l}) < RetainLogs}

TrimLogs ==
    /\ daemon /\ run.pc = "trim"
    /\ run' = [NoRun EXCEPT !.n = run.n, !.ts = run.ts]
    /\ logs' = Kept(logs)
    /\ UNCHANGED <<daemon, row, file, trees, branch, told, cmd, done>>

\* stop, or the daemon's shutdown, cancels the context of the run. Git's
\* commands do not look at it, and from post_exec on it changes nothing.
Cancel ==
    /\ daemon /\ run.pc \in {"pre", "turn", "asleep"}
    /\ ~run.cancelled
    /\ run' = [run EXCEPT !.cancelled = TRUE]
    /\ UNCHANGED <<daemon, row, file, logs, trees, branch, told, cmd, done>>

------------------------------------------------------------------------------
(***************************************************************************)
(* The daemon dies with the run in it, and comes back: Load reads the      *)
(* file, reconcileOrphan clears a row whose process is gone.               *)
(***************************************************************************)
Crash ==
    /\ daemon /\ Mishaps < MaxMishaps
    /\ daemon' = FALSE
    /\ run' = [NoRun EXCEPT !.n = run.n, !.ts = run.ts]
    /\ done' = [done EXCEPT !.crashes = @ + 1]
    /\ UNCHANGED <<row, file, logs, trees, branch, told, cmd>>

Reconciled(r) ==
    IF r.pid
    THEN [r EXCEPT !.pid = FALSE, !.status = "unknown", !.log = 0]
    ELSE r

StartDaemon ==
    /\ ~daemon /\ daemon' = TRUE
    /\ Save(Reconciled(file))
    /\ UNCHANGED <<logs, trees, branch, run, told, cmd, done>>

------------------------------------------------------------------------------
(***************************************************************************)
(* The user: a command loads its own copy of state.json, acts on what the  *)
(* copy says, and saves the copy or asks the daemon.                       *)
(***************************************************************************)

\* rm -rf of the worktree, behind git's back.
DeleteTree(p) ==
    /\ trees[p] # 0 /\ Mishaps < MaxMishaps
    /\ trees' = [trees EXCEPT ![p] = 0]
    /\ done' = [done EXCEPT !.deletes = @ + 1]
    /\ UNCHANGED <<daemon, row, file, logs, branch, run, told, cmd>>

\* What a command's copy must say for the command to go on: `worktree move`
\* and `worktree rm` want a tracked worktree; `rm` (closeJob) a job it knows
\* that is not running in a live process; `prune` one that is not running
\* and keeps no worktree.
Accepts(kind, copy) ==
    CASE kind \in {"move", "rm"} -> copy.tree # None
      [] kind = "close" -> copy # NoRow /\ ~(copy.pid /\ daemon)
      [] kind = "prune" -> copy # NoRow /\ ~copy.pid /\ ~(copy.keep /\ copy.tree # None)

\* prune asks with a ping whether the daemon is up, and forgets first. Of the
\* copy, rm and prune go on with the path of the worktree alone.
LoadState(kind) ==
    /\ cmd.pc = "idle" /\ Mishaps < MaxMishaps
    /\ kind \in Commands /\ Accepts(kind, file)
    /\ cmd' = [pc |-> IF kind = "prune" THEN "forget" ELSE "tree",
               kind |-> kind, up |-> daemon,
               copy |-> IF kind \in {"move", "rm"} THEN file
                        ELSE [NoRow EXCEPT !.tree = file.tree]]
    /\ done' = [done EXCEPT !.cmds = @ + 1]
    /\ UNCHANGED <<daemon, row, file, logs, trees, branch, run, told>>

CmdSteps(kind, from, to) ==
    cmd.pc = from /\ cmd.kind = kind /\ cmd' = [cmd EXCEPT !.pc = to]

CmdReturns == cmd' = NoCommand

CmdEnds(kind, from) == cmd.pc = from /\ cmd.kind = kind /\ CmdReturns

\* git worktree move: a registered worktree that exists, to a free path.
MoveTree(dest) ==
    LET from == cmd.copy.tree
    IN  /\ CmdSteps("move", "tree", "save") /\ dest # from
        /\ trees[from] # 0 /\ branch = from /\ trees[dest] = 0
        /\ trees' = [trees EXCEPT ![dest] = trees[from], ![from] = 0]
        /\ branch' = dest
        /\ UNCHANGED <<daemon, row, file, logs, run, told, done>>

\* worktree move and worktree rm write the copy, with the path changed, over
\* state.json, whatever the daemon has saved since the copy was read.
SaveCopy(tree) ==
    /\ file' = [cmd.copy EXCEPT !.tree = tree]
    /\ done' = [done EXCEPT !.over = @ \/ cmd.copy # file]
    /\ UNCHANGED <<daemon, row, logs, trees, branch, run, told>>

SaveMove ==
    /\ CmdEnds("move", "save")
    /\ SaveCopy(CHOOSE p \in Paths : p # cmd.copy.tree)

RmTree ==
    /\ CmdSteps("rm", "tree", "save") /\ RemoveTree(cmd.copy.tree)
    /\ UNCHANGED <<daemon, row, file, logs, run, told, done>>

SaveRm ==
    /\ CmdEnds("rm", "save") /\ SaveCopy(None)

\* A command whose git command fails stops there.
CmdFails ==
    /\ cmd.pc = "tree" /\ cmd.kind \in {"move", "rm"}
    /\ \/ cmd.kind = "rm" /\ RemoveFails(cmd.copy.tree)
       \/ /\ cmd.kind = "move"
          /\ trees[cmd.copy.tree] = 0 \/ branch # cmd.copy.tree \/ GitFails
          /\ UNCHANGED <<trees, branch>>
    /\ CmdReturns
    /\ UNCHANGED <<daemon, row, file, logs, run, told, done>>

\* closeJob removes the copy's worktree, a failure is a warning, ...
CloseTree ==
    /\ CmdSteps("close", "tree", "forget")
    /\ IF cmd.copy.tree = None
       THEN UNCHANGED <<trees, branch>>
       ELSE RemoveTree(cmd.copy.tree) \/ RemoveFails(cmd.copy.tree)
    /\ UNCHANGED <<daemon, row, file, logs, run, told, done>>

\* ... and the row: the daemon forgets it unless the job runs; without a
\* daemon the command saves its copy without the row. prune believes the ping.
AsksDaemon == IF cmd.kind = "prune" THEN cmd.up ELSE daemon

Forget ==
    /\ cmd.pc = "forget" /\ cmd.kind \in {"close", "prune"}
    /\ IF ~AsksDaemon
       THEN file' = NoRow /\ UNCHANGED row
       ELSE daemon /\ ~row.pid /\ Save(NoRow)
    /\ IF cmd.kind = "prune" THEN cmd' = [cmd EXCEPT !.pc = "after"] ELSE CmdReturns
    /\ UNCHANGED <<daemon, logs, trees, branch, run, told, done>>

ForgetRefused ==
    /\ cmd.pc = "forget" /\ AsksDaemon /\ (~daemon \/ row.pid)
    /\ CmdReturns
    /\ UNCHANGED <<daemon, row, file, logs, trees, branch, run, told, done>>

\* prune removes the logs and the worktree of the row it had loaded.
PruneLeftovers ==
    /\ CmdEnds("prune", "after")
    /\ logs' = {}
    /\ IF cmd.copy.tree = None \/ trees[cmd.copy.tree] = 0
       THEN UNCHANGED <<trees, branch>>
       ELSE RemoveTree(cmd.copy.tree) \/ RemoveFails(cmd.copy.tree)
    /\ UNCHANGED <<daemon, row, file, run, told, done>>

------------------------------------------------------------------------------
Turn ==
    \E took \in 1..Timeout, reported \in BOOLEAN :
        \/ TurnEnds(took, reported) \/ TurnFails(took, reported)
        \/ \E delay \in 0..Timeout : TurnWakes(took, reported, delay)

RunStep ==
    \/ EnvUnreadable \/ PreExecFails \/ PreExecDone
    \/ RunInFolder \/ ReuseTree \/ DiscardTree \/ AddTree \/ AddTreeFails
    \/ SubDirMissing \/ RecordTree
    \/ AgentMissing \/ Turn \/ SleepEnds \/ SleepCancelled
    \/ PostExec \/ KeepTree \/ RemoveOwnTree \/ RemoveOwnTreeFails \/ ClearTreePath
    \/ SetDone \/ PublishCompleted \/ TrimLogs

Command ==
    \/ \E kind \in Commands : LoadState(kind)
    \/ \E dest \in Paths : MoveTree(dest)
    \/ SaveMove \/ RmTree \/ SaveRm \/ CmdFails
    \/ CloseTree \/ Forget \/ ForgetRefused \/ PruneLeftovers

Next ==
    \/ \E mode \in Modes, resume \in 0..MaxRuns, ts \in 1..MaxRuns :
          StartRun(mode, resume, ts)
    \/ RunStep \/ Cancel \/ Crash \/ StartDaemon
    \/ Command \/ \E p \in Paths : DeleteTree(p)

\* The steps of a run follow one another without waiting for anybody: pre_exec
\* and post_exec have a timeout (runner.go:510-511) and the turns a deadline.
\* The git commands of worktree.go have neither: they are assumed to return.
Spec == Init /\ [][Next]_vars /\ WF_vars(RunStep)

------------------------------------------------------------------------------
(***************************************************************************)
(* Safety.                                                                 *)
(***************************************************************************)

\* A row that says what the last event said.
Tells(r) ==
    /\ ~r.pid /\ r.status = told.status /\ r.log = told.log
    /\ told.session # 0 => r.session = told.session

\* What job_run.completed tells stays what is recorded until the next run, or
\* until the row is forgotten (runner.go:383-402): the row in the daemon's
\* memory, which `rerun` and the follow-ups go by, and the row in state.json,
\* which `get` and `resume` load (get.go:33, resume.go:28), also over a crash
\* and a restart.  The exception is a `worktree move` or `worktree rm` that has
\* saved a copy it had loaded before: state.json then is that copy, and a daemon
\* that restarts takes it over, until a run is recorded again.
ToldIsRecorded ==
    told.n = run.n /\ told.n # 0 =>
        /\ row # NoRow /\ (done.crashes = 0 \/ ~done.over) => Tells(row)
        /\ file # NoRow /\ ~done.over => Tells(file)

\* A run that ends ok had its environment, its pre_exec and its agent, and no
\* turn of it failed (a missing subdirectory is not a failure of the run); a run
\* that was never stopped does not end stopped (runner.go:145-166, 187-193,
\* 316-327).
StatusTrue ==
    run.pc = "post" =>
        /\ run.status = "ok" => run.faults \subseteq {"subdir"}
        /\ run.status = "stopped" => run.cancelled
        /\ run.status = "timeout" => run.elapsed = Timeout

\* One deadline bounds all turns of a run with the sleeps between them: an
\* agent that goes on waking itself does not get another timeout for each
\* turn (runner.go:196-202, 267-272).
OneDeadline == run.elapsed <= Timeout

\* What a run tells of itself, records of itself and takes of the machine's
\* time agree with what it did.
ToldIsTrue == TypeOK /\ ToldIsRecorded /\ StatusTrue /\ OneDeadline

\* A run of a fresh or ephemeral mode never works in what an earlier run left:
\* whatever was moved, deleted, left by a crash or could not be removed, the
\* worktree it is in was made for it (worktree.go:103-126, README.md:141).
FreshTree ==
    run.mode \in {"ephemeral", "fresh"} /\ run.tree # None =>
        \A p \in Paths : trees[p] \in {0, run.n}

\* Nobody meddled and git did not fail.
Undisturbed == done.cmds = 0 /\ done.deletes = 0 /\ done.crashes = 0 /\ ~done.git

\* Between runs that nobody disturbed, the row has the path of the job's
\* worktree exactly when there is one: `resume` and `rm` go where the work is,
\* and no worktree is left that nothing will remove (runner.go:430-465,
\* 367-378).  The exception is a new worktree that was removed because the job's
\* subdirectory is not in it: the row goes on naming the one of an earlier run,
\* which is gone, until a worktree is made again (runner.go:452-457).
TreeTracked ==
    run.pc = "idle" /\ Undisturbed =>
        /\ trees[Default] # 0 => row.tree = Default
        /\ row.tree = Default /\ ~done.subdir => trees[Default] # 0

\* The log the last run told about is there when the run is over, also when
\* logs are trimmed and two runs have one second (runner.go:525-546), unless
\* prune removed the directory or the daemon died before it trimmed.
ToldLogKept ==
    run.pc = "idle" /\ told.n = run.n /\ told.n # 0
        /\ done.cmds = 0 /\ done.crashes = 0 =>
        told.log \in logs /\ Cardinality(logs) <= RetainLogs

\* What undisturbed runs leave behind is known and bounded.
LeftoversKnown == TreeTracked /\ ToldLogKept

\* The worktree a reused mode finds is not touched by the runs that use it:
\* what the agent left is there for the next one (README.md:142), as long as the
\* job's subdirectory is in it: a worktree without it is removed with the rest.
ReuseKeepsWork ==
    [][run'.n = run.n /\ run' # run /\ run.mode = "reused" /\ trees[Default] # 0
       /\ daemon' /\ "subdir" \notin run'.faults => trees'[Default] = trees[Default]]_vars

(***************************************************************************)
(* Liveness.                                                               *)
(***************************************************************************)

\* A run that has started is told completed, unless the daemon dies first:
\* every failure goes through post_exec, cleanup, SetDone and the event.
EveryRunCompletes ==
    run.pc = "pre" ~> (told.n = run.n \/ done.crashes > 0)

(***************************************************************************)
(* What docs and comments say and the code does not keep.                  *)
(***************************************************************************)

\* "worktree_path is the live worktree if one was created and kept"
\* (docs/EVENTS.md:102).
CompletedTreeIsLive ==
    run.pc = "trim" /\ told.tree # None /\ done.deletes = 0 /\ done.cmds = 0 =>
        trees[told.tree] # 0

\* "Worktree missing (first run, or was manually removed) -- fall through to
\* CreateOrReplace to build it fresh" (runner.go:443): a run that wants a
\* worktree has one, unless git itself fails or the job's subdirectory is not
\* in it.
MissingTreeRebuilt ==
    run.pc = "turn" /\ run.mode # "none" /\ ~done.git /\ ~done.subdir => run.tree # None

\* "use 'bigband worktree rm' to clear the stale reference" (resume.go:49):
\* after the only command, no later save brings the path back.
StaleReferenceCleared ==
    [][ResumeDir = "folder" /\ done.cmds > 0 /\ run.mode = "none"
       => ResumeDir' = "folder"]_vars

\* "A read failure fails the run rather than silently dropping the key"
\* (runner.go:141-144): no turn runs without the environment.
EnvFailureStopsRun == run.pc = "turn" => "env" \notin run.faults

\* "Stable per run, used to correlate every event for this run"
\* (runner.go:103-104): two runs do not share a run id.
RunIdsDistinct == [][run'.n = run.n + 1 => run'.ts # run.ts]_vars

\* "Refuse to remove a job with a live in-flight run" (tasks.go:526).
RunningTreeStays ==
    [][run.pc \in {"turn", "asleep"} /\ run.tree # None /\ daemon'
       /\ cmd.kind \in {"close", "prune"} /\ done'.deletes = done.deletes
       => trees'[run.tree] = trees[run.tree]]_vars
====
