------------------------------ MODULE JobRuns ------------------------------
(***************************************************************************)
(* The life of a job run inside the bigband daemon, and everything that    *)
(* shares state with it: the launcher and its table of cancel functions    *)
(* (internal/daemon), the per-job file lock and the job rows of state.json *)
(* (internal/state), the pipeline of a run (internal/runner), the git      *)
(* worktree it runs in, the IPC commands run, stop, forget and submit, the *)
(* retention prune, the shutdown sequence, a crash of the daemon, the      *)
(* reconciliation of leftover rows by the next one, and `bigband run`      *)
(* without a daemon, which runs the same pipeline in a process of its own. *)
(*                                                                         *)
(* One step is one critical section of the code, or one access to the file *)
(* system, so every interleaving of goroutines is a behaviour.  A row that *)
(* is absent from state.json is the empty row: State.Get returns the zero  *)
(* JobState for it.  The outcome of a run is abstracted (RunPipeline has   *)
(* it), and so are the row's fields nobody synchronises on.  Writes of     *)
(* state.json and opens of lock files succeed.                             *)
(***************************************************************************)
EXTENDS Naturals, FiniteSets

CONSTANTS
  Job,          \* job names
  Configured,   \* the jobs of config.yaml; the others are submitted over IPC
  UsesTree,     \* the jobs that run in a git worktree
  KeepTree,     \* the jobs with keep_worktree
  Run,          \* one element per call of launchJob
  Client,       \* concurrent IPC connections
  MaxEpoch,     \* bound on the number of daemon processes
  NoRun, NoJob

ASSUME ConstantsAssumption ==
  /\ Configured \subseteq Job /\ UsesTree \subseteq Job /\ KeepTree \subseteq Job
  /\ NoRun \notin Run /\ NoJob \notin Job
  /\ MaxEpoch \in Nat \ {0}

VARIABLES
  daemon,     \* phase of the daemon process
  epoch,      \* how many daemon processes there were: stands for os.Getpid()
  pc,         \* where the goroutine of each run is
  job,        \* the job each run was launched for
  origin,     \* what launched it: cron, manual (IPC run) or submit
  cancels,    \* the daemon's map from job name to cancel function
  cancelled,  \* the runs whose context is cancelled
  lock,       \* the run that holds the flock of each job
  waiter,     \* the goroutine that holds the flock for an orphan, per job
  row,        \* the job rows in the daemon's memory
  file,       \* state.json: what was saved last, by the daemon or by an inline run
  copy,       \* the job rows in the memory of each inline run
  refused,    \* the jobs whose lock was taken when the daemon tried to hold it for an orphan
  tree,       \* the run the worktree on disk was made for, per job
  inTree,     \* the runs whose wtPath is set
  emitted,    \* the last lifecycle event published for each run
  checked,    \* IPC handlers between the check and the act of a command
  pruning,    \* rows dropped by the prune whose worktree is still to be removed
  orphans     \* runs whose agent process outlived the daemon

vars == << daemon, epoch, pc, job, origin, cancels, cancelled, lock, waiter,
           row, file, copy, refused, tree, inTree, emitted, checked, pruning, orphans >>

\* The variables a goroutine reaches only through the daemon.
daemonVars  == << daemon, epoch, waiter, checked, pruning, orphans >>
launchVars  == << job, origin >>
rows        == << row, file, copy, refused >>

Idle     == [op |-> "none", job |-> NoJob]
EmptyRow == [pid |-> 0, ran |-> FALSE, tree |-> FALSE, keep |-> FALSE]
RowType  == [pid : Nat, ran : BOOLEAN, tree : BOOLEAN, keep : BOOLEAN]

\* What the setters of internal/state do to a row.
RunningRow(rw, p) == [rw EXCEPT !.pid = p, !.ran = TRUE]
DoneRow(rw)       == [rw EXCEPT !.pid = 0]
KeptRow(rw, keep) == [rw EXCEPT !.tree = TRUE, !.keep = keep]

\* A run of the daemon, not of an inline command; the pid of the process it is in.
Mine(r)   == origin[r] # "inline"
InlinePid == MaxEpoch + 1
Pid(r)    == IF Mine(r) THEN epoch ELSE InlinePid

\* Phases between state.Lock and the release that Run defers.
Holding  == { "start", "announce", "prepare", "record", "agent", "post",
              "remove", "clear", "finish", "publish", "release" }
\* Phases between SetRunning and SetDone.
Recorded == Holding \ { "start", "publish", "release" }
\* Phases in which the run's directory is in use.
Working  == { "record", "agent", "post", "remove" }
Phase    == Holding \cup { "idle", "spawned", "jitter", "lock", "unregister",
                           "done", "lost" }

Alive   == daemon # "down"
Active(r) == pc[r] \notin { "idle", "done", "lost" }
Waited(r) == Active(r) /\ Mine(r)                       \* counted by wg

Init ==
  /\ daemon = "up" /\ epoch = 1
  /\ pc = [r \in Run |-> "idle"]
  /\ job = [r \in Run |-> NoJob]
  /\ origin = [r \in Run |-> "none"]
  /\ cancels = [j \in Job |-> NoRun] /\ cancelled = {}
  /\ lock = [j \in Job |-> NoRun] /\ waiter = [j \in Job |-> "none"]
  /\ row = [j \in Job |-> EmptyRow] /\ file = [j \in Job |-> EmptyRow]
  /\ copy = [r \in Run |-> [j \in Job |-> EmptyRow]] /\ refused = {}
  /\ tree = [j \in Job |-> NoRun] /\ inTree = {}
  /\ emitted = [r \in Run |-> "none"]
  /\ checked = [c \in Client |-> Idle]
  /\ pruning = {} /\ orphans = {}

-----------------------------------------------------------------------------
(* Launching.  launchJob adds to the wait group and starts the goroutine.   *)

Launch(r, j, o) ==
  /\ pc[r] = "idle"
  /\ pc' = [pc EXCEPT ![r] = "spawned"]
  /\ job' = [job EXCEPT ![r] = j]
  /\ origin' = [origin EXCEPT ![r] = o]
  /\ UNCHANGED << daemon, epoch, cancels, cancelled, lock, waiter, rows, tree,
                  inTree, emitted, pruning, orphans >>

\* A cron tick, or a one-off fired by Reload.  Neither is waited for by the
\* shutdown: cron's own goroutines and the config watcher still launch after Stop.
CronFire(r, j) ==
  /\ Alive /\ j \in Configured
  /\ Launch(r, j, "cron") /\ UNCHANGED checked

\* IPC run: JobByName, ClearJitter, launchJob.  The handler of a connection that
\* was accepted goes on until the process ends.
ManualRun(r, j) ==
  /\ Alive /\ j \in Configured
  /\ Launch(r, j, "manual") /\ UNCHANGED checked

\* IPC submit: buildSubmittedJob looks at RunningPID, the launch comes later.
SubmitCheck(c, j) ==
  /\ Alive /\ checked[c] = Idle
  /\ j \notin Configured /\ row[j].pid = 0
  /\ checked' = [checked EXCEPT ![c] = [op |-> "submit", job |-> j]]
  /\ UNCHANGED << daemon, epoch, pc, job, origin, cancels, cancelled, lock,
                  waiter, rows, tree, inTree, emitted, pruning, orphans >>

SubmitLaunch(c, r) ==
  /\ Alive /\ checked[c].op = "submit"
  /\ Launch(r, checked[c].job, "submit")
  /\ checked' = [checked EXCEPT ![c] = Idle]

\* bigband run when no daemon answers: the command loads the config and the state
\* and calls runner.Run itself, without jitter or an entry in any table.
InlineRun(r, j) ==
  /\ daemon \in { "closing", "down" } /\ j \in Configured /\ pc[r] = "idle"
  /\ pc' = [pc EXCEPT ![r] = "lock"]
  /\ job' = [job EXCEPT ![r] = j] /\ origin' = [origin EXCEPT ![r] = "inline"]
  /\ copy' = [copy EXCEPT ![r] = file]
  /\ UNCHANGED << daemonVars, cancels, cancelled, lock, row, file, refused, tree, inTree,
                  emitted >>

-----------------------------------------------------------------------------
(* The goroutine of a run: runJob around runner.Run, or an inline command.  *)

\* Move run r on; cancelled, tables and files are left to the caller.
Step(r, from, to) ==
  /\ Mine(r) => Alive
  /\ pc[r] = from
  /\ pc' = [pc EXCEPT ![r] = to]
  /\ UNCHANGED << daemonVars, launchVars >>

\* Where a run goes when runner.Run returns.
Returned(r) == IF Mine(r) THEN "unregister" ELSE "done"

\* The row of the run's job in the memory of its process, and a change of it, which
\* saves all of that memory.
Here(r) == IF Mine(r) THEN row[job[r]] ELSE copy[r][job[r]]
SetRow(r, rw) ==
  IF Mine(r)
    THEN /\ row' = [row EXCEPT ![job[r]] = rw]
         /\ file' = row' /\ refused' = refused \ {job[r]}
         /\ UNCHANGED copy
    ELSE /\ copy' = [copy EXCEPT ![r][job[r]] = rw]
         /\ file' = copy'[r]
         /\ UNCHANGED << row, refused >>

\* runJob stores its cancel function under the job's name.  Only a run fired
\* by cron sleeps for jitter.
Register(r) ==
  /\ Step(r, "spawned", IF origin[r] = "cron" THEN "jitter" ELSE "lock")
  /\ cancels' = [cancels EXCEPT ![job[r]] = r]
  /\ UNCHANGED << cancelled, lock, rows, tree, inTree, emitted >>

JitterElapses(r) ==
  /\ Step(r, "jitter", "lock")
  /\ UNCHANGED << cancels, cancelled, lock, rows, tree, inTree, emitted >>

JitterCancelled(r) ==
  /\ r \in cancelled
  /\ Step(r, "jitter", "unregister")
  /\ UNCHANGED << cancels, cancelled, lock, rows, tree, inTree, emitted >>

LockFree(j) == lock[j] = NoRun /\ waiter[j] = "none"

\* Mutation: a lock that cannot be taken is ignored.
TakeLockAnyway(r) ==
  /\ Step(r, "lock", "start")
  /\ lock' = [lock EXCEPT ![job[r]] = r]
  /\ UNCHANGED << cancels, cancelled, rows, tree, inTree, emitted >>

TakeLock(r) ==
  /\ Step(r, "lock", "start") /\ LockFree(job[r])
  /\ lock' = [lock EXCEPT ![job[r]] = r]
  /\ UNCHANGED << cancels, cancelled, rows, tree, inTree, emitted >>

\* Mutations: a skipped run says so; its deferred release runs although it
\* acquired nothing.
SkipRunTells(r) ==
  /\ Step(r, "lock", Returned(r)) /\ ~LockFree(job[r])
  /\ emitted' = [emitted EXCEPT ![r] = "skipped"]
  /\ UNCHANGED << cancels, cancelled, lock, rows, tree, inTree >>
SkipRunReleases(r) ==
  /\ Step(r, "lock", Returned(r)) /\ ~LockFree(job[r])
  /\ lock' = [lock EXCEPT ![job[r]] = NoRun]
  /\ UNCHANGED << cancels, cancelled, rows, tree, inTree, emitted >>

\* flock is tried once: a run that finds it taken returns without a trace.
SkipRun(r) ==
  /\ Step(r, "lock", Returned(r)) /\ ~LockFree(job[r])
  /\ UNCHANGED << cancels, cancelled, lock, rows, tree, inTree, emitted >>

OpenLogFails(r) ==
  /\ Step(r, "start", "release")
  /\ UNCHANGED << cancels, cancelled, lock, rows, tree, inTree, emitted >>

\* SetRunning, then SetJobParams, which only writes fields left out here.
SetRunning(r) ==
  /\ Step(r, "start", "announce")
  /\ SetRow(r, RunningRow(Here(r), Pid(r)))
  /\ UNCHANGED << cancels, cancelled, lock, tree, inTree, emitted >>

PublishStarted(r) ==
  /\ Step(r, "announce", "prepare")
  /\ emitted' = [emitted EXCEPT ![r] = IF Mine(r) THEN "started" ELSE @]
  /\ UNCHANGED << cancels, cancelled, lock, rows, tree, inTree >>

\* Mutation: it returns from Run instead of going to postExec.
PreExecReturns(r) ==
  /\ Step(r, "prepare", "release")
  /\ UNCHANGED << cancels, cancelled, lock, rows, tree, inTree, emitted >>

\* A pre_exec command fails, of itself or because the context is cancelled.
PreExecFails(r) ==
  /\ Step(r, "prepare", "post")
  /\ UNCHANGED << cancels, cancelled, lock, rows, tree, inTree, emitted >>

\* CreateOrReplace, or the reuse of the worktree that is there.
MakeTree(r) ==
  /\ job[r] \in UsesTree
  /\ Step(r, "prepare", "record")
  /\ tree' = [tree EXCEPT ![job[r]] = r]
  /\ inTree' = inTree \cup {r}
  /\ UNCHANGED << cancels, cancelled, lock, rows, emitted >>

\* No worktree: disabled, not a repository, or its creation fails, after the
\* stale one was removed or before.  The agent runs in the job's folder.
RunInFolder(r) ==
  /\ Step(r, "prepare", "agent")
  /\ \/ UNCHANGED tree
     \/ job[r] \in UsesTree /\ tree' = [tree EXCEPT ![job[r]] = NoRun]
  /\ UNCHANGED << cancels, cancelled, lock, rows, inTree, emitted >>

\* Mutation: only the path is recorded.
SetWorktreePathOnly(r) ==
  /\ Step(r, "record", "agent")
  /\ SetRow(r, [Here(r) EXCEPT !.tree = TRUE])
  /\ UNCHANGED << cancels, cancelled, lock, tree, inTree, emitted >>

SetWorktreeKept(r) ==
  /\ Step(r, "record", "agent")
  /\ SetRow(r, KeptRow(Here(r), job[r] \in KeepTree))
  /\ UNCHANGED << cancels, cancelled, lock, tree, inTree, emitted >>

\* Mutation: there is no deadline for an agent that hangs.
AgentHangs(r) ==
  /\ r \in cancelled /\ Step(r, "agent", "post")
  /\ UNCHANGED << cancels, cancelled, lock, rows, tree, inTree, emitted >>

\* The agent's turns end: of themselves, by the deadline or by a cancellation.
AgentReturns(r) ==
  /\ Step(r, "agent", "post")
  /\ UNCHANGED << cancels, cancelled, lock, rows, tree, inTree, emitted >>

\* post_exec ends; the worktree is removed unless it is kept.
PostExec(r) ==
  /\ Step(r, "post", IF r \in inTree /\ job[r] \notin KeepTree
                       THEN "remove" ELSE "finish")
  /\ UNCHANGED << cancels, cancelled, lock, rows, tree, inTree, emitted >>

RemoveTree(r) ==
  /\ Step(r, "remove", "clear")
  /\ tree' = [tree EXCEPT ![job[r]] = NoRun]
  /\ UNCHANGED << cancels, cancelled, lock, rows, inTree, emitted >>

RemoveTreeFails(r) ==
  /\ Step(r, "remove", "finish")
  /\ UNCHANGED << cancels, cancelled, lock, rows, tree, inTree, emitted >>

ClearWorktreePath(r) ==
  /\ Step(r, "clear", "finish")
  /\ SetRow(r, [Here(r) EXCEPT !.tree = FALSE])
  /\ UNCHANGED << cancels, cancelled, lock, tree, inTree, emitted >>

\* Mutation: the pid stays in the row.
SetDoneKeepsPid(r) ==
  /\ Step(r, "finish", "publish")
  /\ UNCHANGED << cancels, cancelled, lock, rows, tree, inTree, emitted >>

SetDone(r) ==
  /\ Step(r, "finish", "publish")
  /\ SetRow(r, DoneRow(Here(r)))
  /\ UNCHANGED << cancels, cancelled, lock, tree, inTree, emitted >>

PublishCompleted(r) ==
  /\ Step(r, "publish", "release")
  /\ emitted' = [emitted EXCEPT ![r] = IF Mine(r) THEN "completed" ELSE @]
  /\ UNCHANGED << cancels, cancelled, lock, rows, tree, inTree >>

\* The deferred release of runner.Run.
ReleaseLock(r) ==
  /\ Step(r, "release", Returned(r))
  /\ lock' = [lock EXCEPT ![job[r]] = NoRun]
  /\ UNCHANGED << cancels, cancelled, rows, tree, inTree, emitted >>

\* Mutation: the entry is left in the table.
UnregisterNothing(r) ==
  /\ Step(r, "unregister", "done")
  /\ cancelled' = cancelled \cup {r}
  /\ UNCHANGED << cancels, lock, rows, tree, inTree, emitted >>

\* The deferred delete of runJob: by job name, whoever's entry it is.
Unregister(r) ==
  /\ Step(r, "unregister", "done")
  /\ cancels' = [cancels EXCEPT ![job[r]] = NoRun]
  /\ cancelled' = cancelled \cup {r}
  /\ UNCHANGED << lock, rows, tree, inTree, emitted >>

-----------------------------------------------------------------------------
(* The other IPC commands, and the retention prune.                         *)

\* IPC stop, when the table has an entry; without one it replies "not running".
StopJob(j) ==
  /\ Alive /\ cancels[j] # NoRun
  /\ cancelled' = cancelled \cup {cancels[j]}
  /\ UNCHANGED << daemon, epoch, pc, job, origin, cancels, lock, waiter, rows,
                  tree, inTree, emitted, checked, pruning, orphans >>

\* IPC forget reads the row and removes it in two critical sections.
ForgetCheck(c, j) ==
  /\ Alive /\ checked[c] = Idle /\ row[j].pid = 0
  /\ checked' = [checked EXCEPT ![c] = [op |-> "forget", job |-> j]]
  /\ UNCHANGED << daemon, epoch, pc, job, origin, cancels, cancelled, lock,
                  waiter, rows, tree, inTree, emitted, pruning, orphans >>

ForgetRemove(c) ==
  /\ Alive /\ checked[c].op = "forget"
  /\ row' = [row EXCEPT ![checked[c].job] = EmptyRow] /\ file' = row'
  /\ checked' = [checked EXCEPT ![c] = Idle]
  /\ UNCHANGED << daemon, epoch, pc, job, origin, cancels, cancelled, lock,
                  waiter, copy, refused, tree, inTree, emitted, pruning, orphans >>

\* Mutation: a kept worktree does not protect its row.
PrunableKept(j) == j \notin Configured /\ row[j].pid = 0

Prunable(j) ==
  /\ j \notin Configured /\ row[j].pid = 0
  /\ ~(row[j].keep /\ row[j].tree)

\* RemoveStaleEphemerals: which of the rows that ran are older than the cutoff
\* is a choice, a row that never ran always is.
PruneRows ==
  /\ Alive /\ pruning = {}
  /\ \E S \in SUBSET { j \in Job : Prunable(j) } :
       /\ { j \in Job : Prunable(j) /\ ~row[j].ran } \subseteq S
       /\ row' = [j \in Job |-> IF j \in S THEN EmptyRow ELSE row[j]]
       /\ file' = (IF S = {} THEN file ELSE row')
       /\ pruning' = { j \in S : row[j].tree }
  /\ UNCHANGED << daemon, epoch, pc, job, origin, cancels, cancelled, lock,
                  waiter, copy, refused, tree, inTree, emitted, checked, orphans >>

\* pruneEphemeralWorktree, for a path recorded before the row was dropped.  It
\* gives up when the repository cannot be found or the removal is refused.
PruneTree(j) ==
  /\ Alive /\ j \in pruning
  /\ UNCHANGED tree \/ tree' = [tree EXCEPT ![j] = NoRun]
  /\ pruning' = pruning \ {j}
  /\ UNCHANGED << daemon, epoch, pc, job, origin, cancels, cancelled, lock,
                  waiter, rows, inTree, emitted, checked, orphans >>

-----------------------------------------------------------------------------
(* The daemon process.                                                      *)

runState == << pc, job, origin, lock, rows, tree, inTree, emitted >>

\* SIGTERM or SIGINT.
Terminate ==
  /\ daemon = "up" /\ daemon' = "stopping"
  /\ UNCHANGED << runState, epoch, cancels, cancelled, waiter, checked,
                  pruning, orphans >>

CancelInFlight ==
  /\ daemon = "stopping" /\ daemon' = "waiting"
  /\ cancelled' = cancelled \cup { r \in Run : \E j \in Job : cancels[j] = r }
  /\ UNCHANGED << runState, epoch, cancels, waiter, checked, pruning, orphans >>

\* wg.Wait returns, or the grace period is over; then stopIPC.
AllDone ==
  /\ daemon = "waiting" /\ \A r \in Run : ~Waited(r)
  /\ daemon' = "closing"
  /\ UNCHANGED << runState, epoch, cancels, cancelled, waiter, checked,
                  pruning, orphans >>

\* Mutation: the daemon waits for its jobs for ever.
GraceForever ==
  /\ daemon = "waiting" /\ daemon' = "closing" /\ \A r \in Run : Waited(r) => r \in cancelled
  /\ UNCHANGED << runState, epoch, cancels, cancelled, waiter, checked,
                  pruning, orphans >>

GraceExceeded ==
  /\ daemon = "waiting" /\ \E r \in Run : Waited(r)
  /\ daemon' = "closing"
  /\ UNCHANGED << runState, epoch, cancels, cancelled, waiter, checked,
                  pruning, orphans >>

\* The process is gone: memory and file locks with it.  Agents run in process
\* groups of their own and live on.  Inline runs are other processes.
ProcessDies ==
  /\ daemon' = "down"
  /\ pc' = [r \in Run |-> IF Waited(r) THEN "lost" ELSE pc[r]]
  /\ orphans' = orphans \cup { r \in Run : Mine(r) /\ pc[r] = "agent" }
  /\ cancels' = [j \in Job |-> NoRun]
  /\ lock' = [j \in Job |-> IF \E r \in Run : lock[j] = r /\ Waited(r) THEN NoRun ELSE lock[j]]
  /\ waiter' = [j \in Job |-> "none"]
  /\ checked' = [c \in Client |-> Idle]
  /\ pruning' = {} /\ cancelled' = {}
  /\ UNCHANGED << epoch, job, origin, rows, tree, inTree, emitted >>

\* An inline run dies or is interrupted: its lock goes with it, the agent stays.
InlineDies(r) ==
  /\ Active(r) /\ ~Mine(r)
  /\ pc' = [pc EXCEPT ![r] = "lost"]
  /\ lock' = [j \in Job |-> IF lock[j] = r THEN NoRun ELSE lock[j]]
  /\ orphans' = (IF pc[r] = "agent" THEN orphans \cup {r} ELSE orphans)
  /\ UNCHANGED << daemon, epoch, waiter, checked, pruning, launchVars, cancels, cancelled,
                  rows, tree, inTree, emitted >>

Exit  == daemon = "closing" /\ ProcessDies
Crash == Alive /\ epoch < MaxEpoch /\ ProcessDies

OrphanExits(r) ==
  /\ r \in orphans /\ orphans' = orphans \ {r}
  /\ UNCHANGED << runState, daemon, epoch, cancels, cancelled, waiter, checked,
                  pruning >>

\* The inline run that a row in the file is of is still there.
InlineAlive(j) ==
  \E r \in Run : ~Mine(r) /\ job[r] = j /\ pc[r] \in Recorded /\ file[j].pid = InlinePid

\* A new process loads the file and runs reconcileOrphans before it serves anything.
\* The pid in a row is that of an inline run, or of an earlier daemon, which is gone
\* unless the system reused the number.  Where it is found alive the lock is held for
\* it; when an inline run has the lock, nobody waits and the row stays as it is.
Restart ==
  /\ daemon = "down" /\ epoch < MaxEpoch
  /\ daemon' = "up" /\ epoch' = epoch + 1
  /\ \E Found \in SUBSET { j \in Job : file[j].pid # 0 } :
       /\ \A j \in Job : InlineAlive(j) => j \in Found
       /\ waiter' = [j \in Job |-> IF j \in Found /\ lock[j] = NoRun THEN "waiting" ELSE "none"]
       /\ refused' = { j \in Found : lock[j] # NoRun }
       /\ row' = [j \in Job |-> IF j \in Found THEN file[j] ELSE DoneRow(file[j])]
       /\ file' = row'
  /\ UNCHANGED << pc, job, origin, lock, copy, tree, inTree, emitted, cancels,
                  cancelled, checked, pruning, orphans >>

\* The goroutine of reconcileOrphan: the pid is gone and the row is closed ...
WaiterDone(j) ==
  /\ Alive /\ waiter[j] = "waiting" /\ waiter' = [waiter EXCEPT ![j] = "exited"]
  /\ row' = [row EXCEPT ![j] = DoneRow(@)] /\ file' = row'
  /\ UNCHANGED << daemon, epoch, pc, job, origin, cancels, cancelled, lock, copy, refused, tree,
                  inTree, emitted, checked, pruning, orphans >>

\* ... or the daemon stops first; either way the lock is released.
WaiterReleases(j) ==
  /\ Alive
  /\ \/ waiter[j] = "exited"
     \/ waiter[j] = "waiting" /\ daemon # "up"
  /\ waiter' = [waiter EXCEPT ![j] = "none"]
  /\ UNCHANGED << runState, daemon, epoch, cancels, cancelled, checked, pruning,
                  orphans >>

-----------------------------------------------------------------------------

Launching ==
  \/ \E r \in Run, j \in Job : CronFire(r, j) \/ ManualRun(r, j) \/ InlineRun(r, j)
  \/ \E c \in Client, j \in Job : SubmitCheck(c, j)
  \/ \E c \in Client, r \in Run : SubmitLaunch(c, r)

RunStep(r) ==
  \/ Register(r) \/ JitterElapses(r) \/ JitterCancelled(r)
  \/ TakeLock(r) \/ SkipRun(r) \/ OpenLogFails(r)
  \/ SetRunning(r) \/ PublishStarted(r) \/ PreExecFails(r)
  \/ MakeTree(r) \/ RunInFolder(r) \/ SetWorktreeKept(r)
  \/ AgentReturns(r) \/ PostExec(r)
  \/ RemoveTree(r) \/ RemoveTreeFails(r) \/ ClearWorktreePath(r)
  \/ SetDone(r) \/ PublishCompleted(r) \/ ReleaseLock(r) \/ Unregister(r)

Commands ==
  \/ \E j \in Job : StopJob(j)
  \/ \E c \in Client, j \in Job : ForgetCheck(c, j)
  \/ \E c \in Client : ForgetRemove(c)
  \/ PruneRows \/ \E j \in Job : PruneTree(j)

DaemonStep ==
  \/ Terminate \/ CancelInFlight \/ AllDone \/ GraceExceeded
  \/ Exit \/ Crash \/ Restart
  \/ \E r \in Run : OrphanExits(r) \/ InlineDies(r)
  \/ \E j \in Job : WaiterDone(j) \/ WaiterReleases(j)

Next == Launching \/ (\E r \in Run : RunStep(r)) \/ Commands \/ DaemonStep

Spec == Init /\ [][Next]_vars

\* Shutdown relies on nothing but the main goroutine and its timer.
FairSpec ==
  /\ Spec
  /\ WF_vars(CancelInFlight) /\ WF_vars(AllDone \/ GraceExceeded) /\ WF_vars(Exit)

\* Goroutines are scheduled, and an agent is bounded by its deadline, so every
\* run keeps moving while its daemon lives.
RunsAreScheduled == \A r \in Run : WF_vars(RunStep(r))

-----------------------------------------------------------------------------
(* Properties.                                                              *)

TypeOK ==
  /\ daemon \in { "up", "stopping", "waiting", "closing", "down" }
  /\ epoch \in Nat
  /\ pc \in [Run -> Phase]
  /\ job \in [Run -> Job \cup {NoJob}]
  /\ origin \in [Run -> { "none", "cron", "manual", "submit", "inline" }]
  /\ cancels \in [Job -> Run \cup {NoRun}]
  /\ cancelled \in SUBSET Run
  /\ lock \in [Job -> Run \cup {NoRun}]
  /\ waiter \in [Job -> { "none", "waiting", "exited" }]
  /\ row \in [Job -> RowType] /\ file \in [Job -> RowType]
  /\ copy \in [Run -> [Job -> RowType]] /\ refused \in SUBSET Job
  /\ tree \in [Job -> Run \cup {NoRun}]
  /\ inTree \in SUBSET Run
  /\ emitted \in [Run -> { "none", "started", "completed" }]
  /\ checked \in [Client -> [op : { "none", "submit", "forget" },
                             job : Job \cup {NoJob}]]
  /\ pruning \in SUBSET Job
  /\ orphans \in SUBSET Run

\* Two runs of one job never execute at the same time, and none executes while
\* the lock is held for an orphan (runner.Run under state.Lock).
MutualExclusion ==
  \A r \in Run : pc[r] \in Holding =>
    /\ waiter[job[r]] = "none"
    /\ \A s \in Run : pc[s] \in Holding /\ job[s] = job[r] => s = r

\* The cancel table only names runs that are still going, whatever other runs
\* of the job did to its entry: stop and shutdown never cancel a dead context
\* and report success (runJob).
CancelsAreLive ==
  \A j \in Job : cancels[j] # NoRun =>
    /\ Active(cancels[j]) /\ pc[cancels[j]] # "spawned"
    /\ job[cancels[j]] = j

\* Stop reaches the run that is going, unless another run of its job took or deleted
\* its entry (runJob, stopJob).
StopReachesAlone ==
  \A r \in Run : Waited(r) /\ pc[r] # "spawned" =>
    \/ cancels[job[r]] = r
    \/ \E s \in Run : s # r /\ job[s] = job[r] /\ pc[s] \notin { "idle", "spawned" }

\* While the daemon is up, a row with a pid is that of its run between SetRunning and
\* SetDone, or of an orphan that is waited for; but when an inline run had the lock as
\* the daemon started, nobody finishes the row until the next run of the job does.
\* Otherwise forget and submit would refuse the job for ever (reconcileOrphan, SetDone).
NoStuckRow ==
  daemon = "up" => \A j \in Job : row[j].pid # 0 =>
    \/ waiter[j] = "waiting"
    \/ \E r \in Run : lock[j] = r /\ pc[r] \in Recorded /\ Mine(r)
    \/ j \in refused

\* When the completion of a run is published its row is closed already, and no
\* later run of the job has reopened it: a subscriber that reads the row on the
\* event finds this run's result (SetDone before Publish, both under the lock).
RowClosedAtCompletion ==
  \A r \in Run : pc[r] = "release" /\ emitted[r] = "completed" => row[job[r]].pid = 0

\* The directory of a run of a configured job, or of one that keeps its
\* worktree, is that run's own as long as it is in use: neither another run nor
\* the retention prune replaces or removes it (resolveRunDir, pruneOnce).
WorktreeOwned ==
  \A r \in inTree :
    pc[r] \in Working /\ job[r] \in Configured \cup KeepTree => tree[job[r]] = r

\* The lock and the worktree of a job are one run's at a time (Lock, resolveRunDir).
RunsExclusive == MutualExclusion /\ WorktreeOwned

\* The tables of the daemon, its rows and its cancel functions, are those of runs
\* that are there, whoever died or returned in between (launch, SetDone).
RecordsTruthful == CancelsAreLive /\ StopReachesAlone /\ NoStuckRow /\ RowClosedAtCompletion

\* A worktree that is to be kept goes away only to make room for the next run's
\* (KeepWorktree is recorded so that the prune skips it).
KeptTreeSurvives ==
  [][\A j \in KeepTree : tree[j] # NoRun /\ tree'[j] = NoRun =>
       \E r \in Run : job[r] = j /\ pc[r] = "prepare"]_vars

\* A run that was launched comes to an end: it never waits for a lock, and its
\* agent has a deadline (runner.Run).
EveryRunEnds ==
  RunsAreScheduled => \A r \in Run : Active(r) ~> ~Active(r)

\* A run that announced itself announces its completion, on every path through
\* the pipeline, unless the daemon dies under it.
StartedIsCompleted ==
  RunsAreScheduled => \A r \in Run :
    emitted[r] = "started" ~> emitted[r] = "completed" \/ pc[r] = "lost"

\* The daemon stops within its grace period even if no job ever moves again.
ShutdownCompletes == daemon = "stopping" ~> daemon = "down"

\* At most one run of a job has an agent at work: what the lock is for.
AgentsOf(j) == { r \in Run : job[r] = j /\ (pc[r] = "agent" \/ r \in orphans) }
OneAgentPerJob == \A j \in Job : Cardinality(AgentsOf(j)) <= 1

\* README: "Stop a currently running job".  A run shown as running is the one
\* that stop would cancel.
StopReachesRunning ==
  Alive => \A r \in Run : pc[r] \in Recorded /\ Mine(r) => cancels[job[r]] = r

\* reconcileOrphans: without it a row "keeps RunningPID set forever, making it appear
\* running".  After a restart every row with a pid is somebody's.
EveryRowFinished ==
  daemon = "up" => \A j \in Job : row[j].pid # 0 =>
    waiter[j] = "waiting" \/ \E r \in Run : lock[j] = r /\ pc[r] \in Recorded

\* Daemon: "Cancel all in-flight jobs".  After that an agent at work knows it
\* was cancelled.
ShutdownCancelsAll ==
  daemon = "waiting" => \A r \in Run : pc[r] = "agent" /\ Mine(r) => r \in cancelled

\* handleCmd: "Don't drop state for an in-flight run".  While a run is between
\* SetRunning and SetDone its row keeps the pid.
InFlightRowKept ==
  \A r \in Run : pc[r] \in Recorded => Here(r).pid = Pid(r)

\* pruneEphemeralWorktree: "the only worktrees touched here" are those of the
\* run that is being pruned.  A run's directory is its own while it is in use.
EveryWorktreeOwned ==
  \A r \in inTree : pc[r] \in Working => tree[job[r]] = r

\* buildSubmittedJob rejects a name that is running, so that a submit that was
\* accepted does not find the lock of its job taken.
AcceptedSubmitRuns ==
  \A r \in Run : pc[r] = "lock" /\ origin[r] = "submit" => LockFree(job[r])

\* A job is executing for the run that holds its lock.
Slots == INSTANCE JobSlots WITH
  slot <- lock,
  finished <- { r \in Run : pc[r] \in { "unregister", "done", "lost" } }
RefinesSlots == Slots!Spec

=============================================================================
