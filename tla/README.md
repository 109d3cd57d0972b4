# Formal model of bigband

bigband runs coding agents on a schedule. Its daemon loads `config.yaml`, starts
jobs from cron, from one-off entries and from IPC commands, runs each job under
a per-job lock and usually in a git worktree, records it in `state.json`,
publishes its life cycle on an event bus, and supervises extensions that listen
to that bus. This directory holds TLA+ modules of that system, TLC
configurations that check them on small instances, and proofs for every value of
the constants. Source paths are relative to `src/`.

## 1. Inventory

| Part | State | Operations | Interacts through |
|---|---|---|---|
| daemon `internal/daemon` | cancel table, wait group, phase of the process | launch, stop, forget, submit, prune, shutdown, reconcile orphans | scheduler, runner, state, bus, supervisor, IPC |
| runner `internal/runner` | the stage and outcome of one run | jitter, lock, log, pre_exec, worktree, agent turns and wakeups, post_exec, clean-up | state, worktree, agent, bus |
| state `internal/state` | one row per job in memory and in `state.json`; an flock per job | SetRunning, SetDone, SetWorktreeKept, RemoveJob, RemoveStaleEphemerals, Lock | every process that opens the file |
| worktree `internal/worktree` | directory and branch per job | CreateOrReplace, Remove, guard | runner, prune, command line |
| scheduler `internal/scheduler`, watcher `internal/config` | cron entries with a hash, one-offs fired this session | Reload, tick, Stop | daemon, `config.yaml` |
| event bus `internal/events` | subscriber channels, drop counters, `events.jsonl` | Publish, Subscribe, cancel, Close, replay | daemon, IPC subscribe, extensions |
| supervisor `internal/extensions` | one entry per extension with a loop goroutine | Apply, Remove, MarkInvalid, Start, Stop, Restart, Shutdown | directory watcher, IPC ext commands, child processes |
| directory watcher `internal/extensions/discover.go` | watches, tracked set, debounce timers | Discover, Watch, event, timer | fsnotify, supervisor |
| instance lock `internal/proc` (not modelled) | a lock file | acquire, release | two daemons, two extensions |
| agents `internal/agent` | a session, a pty, a tail of the transcript | run, drain background tasks, synthesise | runner |
| command line `internal/cli` | a private copy of the state file | run inline, rm, prune, worktree mv/rm | `state.json`, IPC |
| bigband-slack `cmd/bigband-slack` | threads, routes, a seen set | message, event, link run | submit, subscribe, its own state file |
| bigband-wake `cmd/bigband-wake` | scheduled wakes, an assertion timer | reconcile, cancel, extend | pmset, subscribe, its own state file |

What makes it hard: every trigger starts a goroutine of its own and they meet
only in the per-job lock; checks and acts of an IPC command are separate
critical sections; the daemon may crash while the processes it started live on;
files are read before a lock and acted on after it; delivery of events is
lossy for slow subscribers; supervised processes exit while they are being
stopped.

## 2. Core: the life of a job run (`JobRuns`, `JobSlots`, `JobRunsProofs`)

`JobRuns` models `runJob` around `runner.Run` as one phase variable `pc` per
call of `launchJob`, with the tables the goroutines share, and `bigband run` without a
daemon, which calls `runner.Run` in a process of its own (`origin` is `inline`):

| Variable | Code |
|---|---|
| `daemon`, `epoch` | phase of `daemon.Run`; which daemon process it is, which also stands for its pid |
| `pc`, `job`, `origin` | position of each run's goroutine, its job, and what triggered it |
| `cancels`, `cancelled` | the `cancels` map of `daemon.Run`; contexts that are cancelled |
| `lock`, `waiter` | holder of each job's flock: a run, or the goroutine of `reconcileOrphan` |
| `row`, `file`, `copy` | the rows in the daemon's memory, in `state.json`, and in the memory of each inline run, reduced to pid, "has run", worktree recorded, keep flag |
| `refused` | the jobs whose lock was taken when `reconcileOrphan` wanted it |
| `tree`, `inTree` | which run the worktree on disk was made for; which runs have a `wtPath` |
| `emitted` | the last life-cycle event of each run |
| `checked` | IPC handlers between the check and the act of forget and submit |
| `pruning` | worktree paths the prune has read and not removed yet |
| `orphans` | runs whose agent outlived the daemon |

One action is one critical section or one file operation. Guards are the code's
conditions, in the code's order: a run registers its cancel function before its
jitter and before it tries the lock, so a skipped run also touches the table.

`JobSlots` is what the machinery promises: a slot per job, taken by one run at a
time, given back by the end of the run or by the death of its process.
`JobRuns` implements it with `slot <- lock`.

Left out here: the outcome of a run and the commands that edit the state file,
which are in `RunPipeline`; an inline run beside a daemon that is up and does not answer; the fields of a row nobody synchronises on; failures to
write `state.json` and to open a lock file.

### Runs

| Run | Shows | Bounds |
|---|---|---|
| `job_runs` | `RunsExclusive`: one run of a job at a time, and the worktree it uses is its own; `RecordsTruthful`: cancel entries are live and stop reaches a run that is alone, rows are closed at completion, no row is stuck but for one refused at the start; kept worktrees survive; `JobRuns` implements `JobSlots` | one configured and one submitted job, two runs, of the daemon or inline, one connection, one crash or exit with a restart |
| `job_runs_live` | the daemon stops whatever its jobs do; where they are scheduled, every run ends | one submitted job without `keep_worktree`, two runs, one connection, one process |

Two runs are enough for every race between runs of one job, since all of them
are between the holder of a lock or entry and one other; two jobs let a run of
the wrong kind be touched; `MaxEpoch` is the number of daemon processes. The
prune removes worktrees only in `job_runs_live`, where the submitted job does not
keep its own; in `job_runs` it must not touch the one that is kept. Deadlock is
not checked in these runs: a daemon that is down at the last epoch stops for good.

Fairness. `FairSpec` assumes only the main goroutine and its timer, so
`ShutdownCompletes` does not rest on jobs that cooperate. `EveryRunEnds` has the
premise `RunsAreScheduled`: the goroutine of a run is scheduled, and its agent
ends, since it has a deadline and its process group is killed after it.

### Proofs

`JobRunsProofs` proves the type invariant, the safety invariants of `job_runs`
and `Spec => RefinesSlots` for any sets of jobs, runs and clients. The chain:
`WellTyped`, the types with `LaunchedInv` (a run that was launched has a job); `CancelsInv`,
the table of cancel functions has only runs of the daemon that are under way, and every
one that is alone; `LockInv` (a
run in a phase between `Lock` and the deferred release holds the lock of its
job, and only then), from which mutual exclusion follows; on top of it
`ClosedInv` for the order SetDone, event, release and `TreeInv` for the
worktrees, whose key part is that a recorded worktree of a job that keeps it is
recorded as kept, so that the prune never selects it. `RunsExclusiveHolds` and
`RecordsTruthfulHolds` put these together as the runs state them. `KeptTreeSurvivesHolds`
needs one more invariant, `RemovingInv`: a run that is about to remove its worktree has a
job that does not keep it. With `TreeInv`, which says the same of what the prune has
read, only a run that makes room for its own worktree is left. The only assumptions are on the constants. Liveness is model-checked only.

## 3. The event bus (`EventBus`, `EventBusProofs`)

| Variable | Code |
|---|---|
| `pub`, `stamp` | where each call of `Publish` is, and the `OccurredAt` it took before it locked the bus |
| `file`, `open` | `events.jsonl` in the order of its lines; whether the bus is open |
| `subscribers`, `chan`, `buf`, `lagged` | the subscriptions of the bus: on the list, state and content of the channel, the lagged flag |
| `conn` | the handler of a subscriber's connection (`handleSubscribe`): accepted, replaying, live; what it replayed; `dropped` is what the full channel lost |
| `sent`, `client` | what was written on the connection; the consumer of bigband-slack and bigband-wake with its cursor `lastSeen` |

`Publish` is one action: it writes the line and offers the event to every channel
under one lock. `ReplayLine` reads the file line by line while `Publish` appends
to it; `Drain` is the live loop with its `replayed` set; `Dial`, `Subscribe` and
`Leave` connect and disconnect; `Close` and `Restart` are those of the daemon.

Left out: lines longer than a megabyte, which end a replay, half-written lines, and
connections the client has left without the handler noticing.

| Run | Shows | Bounds |
|---|---|---|
| `event_bus` | `StreamFaithful`: no use of a closed channel, replay and live join without gap, repeat or disorder, and a subscriber that lost an event is told; what is owed is handled; a reconnecting consumer catches up if nothing overflowed and the file is in the order of its times | three events, one subscriber, a channel of two, a clock of two seconds, two connections |

Three events fill a channel of two; two seconds separate an event that is older
than the cursor from one that is not; two connections are one reconnect. Subscribers
do not interact, so one is enough. `FairSpec` assumes that handlers and consumers
are scheduled, and nothing of publishers, the clock or the network.

`EventBusProofs` proves `StreamFaithful` for any events, subscribers, filters,
buffer and number of connections. That nothing is skipped and nothing is written
twice says too little of where an event is while it is on its way. The invariant
`IInv` adds, for each subscriber: what the replay has passed was written if it was
asked for (`ReplayInv`); what was published after the subscription is in the
channel, written or dropped, and what is in the channel and written already was
replayed, which is what the `replayed` set is for (`ChannelInv`); the channel and
the live part of the connection are both in the order of the file, and the second
before the first (`BufInOrder`, `TakenFirst`); an event that was lost has a marker
in the channel, on the connection, or still to come (`MarkInv`). `CatchesUp` and
`OwedIsHandled` are liveness and stay with TLC.

## 4. The supervisor (`Supervisor`, `SupervisorProofs`)

| Variable | Code |
|---|---|
| `states` | the map from name to entry |
| `entry` | the `procState` objects, which outlive their place in the map: manifest, status, consecutive failures, manual stop, the loop whose channels they hold (`cur`) and the one whose context they would cancel |
| `loop` | the supervise goroutines: position, stop request, context, the manifest they read, notifiers that have not run yet |
| `caller` | the goroutines that call the supervisor, each with the calls it has still to make |
| `told` | names an `extension.failed` event was published for |

An operation (`Apply`, `Remove`, `MarkInvalid`, `Start`, `Stop`, `Restart`,
`Shutdown`) is its first critical section, and then `requestStop`, `startLoop` and
waits for `doneCh`, one action each, so that everything a loop or another caller
may do in between is a behaviour. A new entry or loop is any fixed unused element
of its set: which one makes no difference. `wish` is a history variable, what the
operator asked for last.

Left out: event payloads, restart counters, the length of the backoff (it elapses
at any time), the separate critical sections in which a loop records the exit of its
child and decides what is next (supervisor.go:423-480; one action, `ReapStopped` and its
like), and what makes the manifest watcher call (`Discovery`, section 4.1): its calls
are calls like any other.

| Run | Shows | Bounds |
|---|---|---|
| `supervisor` | one loop per entry; `NothingLeftBehind`: nothing runs after `Remove` or after a shutdown within its grace; a changed spec replaces it, the breaker stops rapid failures only, calls return, no extension is lost | one caller, every operation, three calls, three manifests, two entries, three loops |
| `supervisor_race` | a loop that was asked to stop ends, with concurrent callers | two callers, three calls |

Three calls are the shortest histories that install an extension, change it and
undo or overlap that; one extension, since entries share only the map's mutex.
Two properties have a premise: `CallsReturn` that no extension was marked invalid,
`StaysSupervised` that nobody disables, stops or invalidates it. `FairSpec` assumes
that callers and loops are scheduled and that a child whose context was cancelled
ends, because it is killed after `WaitDelay`; no other child has to end.

`SupervisorProofs` proves `TypeOK` for any number of extensions, callers and
loops, and `OneLoop` under `Sequential` (there is one caller), which is needed:
with two, `startLoop` can replace the channels of a loop that is still running
(section 7). `OneLoop` is not inductive by itself. `SequentialInv` adds who owns a
loop (`LoopsOwned`), that a call only names entries that exist (`EntriesKnown`), that
a live loop is the one its entry names (`LoopsCurrent`), and that `Restart` or
`Apply` waits for that very loop before it starts the next (`JoinIsCurrent`).

`NothingLeftBehind` is proved under the same premise. What it says of the end of a call
is carried by `DownInv` while the call is under way: an entry whose loop runs is
installed, or the removal that took it out of the map still waits for that loop; and a
shutdown under way will still wait for every loop that runs. It holds when `Shutdown`
begins because its list names each installed extension once.

### 4.1 The manifest watcher (`Discovery`)

| Variable | Code |
|---|---|
| `dir`, `manifest`, `edits` | the directory of one extension, what its manifest file holds, the changes the user made |
| `phase` | Discover's scan and load, then the steps of Watch, then the loop |
| `dirWatch`, `fileWatch`, `events` | the fsnotify watches of the directory and of the file, and what they reported; external |
| `tracked` | the file is in the tracked set |
| `timers`, `pending` | the armed timers in the order they expire; whether the `pending` map has an entry, which is that of the newest timer |
| `callback` | timer functions that have started, with what they read |
| `sup` | what the supervisor was last told: a manifest, an invalid one, or nothing |
| `missed` | not in the code: the gap a change fell into |

`HandleFile` and `HandleDir` are the branches of `handleEvent`. A callback is one
action per step (`Begin`, `Stat`, `Track`, `Load`, `Apply`, `RemoveCalled`), so
that events are handled, and timers armed, in between; `Begin` deletes the entry
of `pending` even when it is that of a newer timer, which then can no longer be
stopped. Extensions do not share a path, so one is enough.

| Run | Shows | Bounds |
|---|---|---|
| `discovery` | `ManifestsFollowed`: in the end the supervisor has what is on the disk, the file is tracked and the directory watched, or the change fell into a gap | two manifests and an invalid one, four changes at any moment, one callback at a time |

Four changes are enough to install an extension, take it away, and put something
else in its place while it is handled; five change nothing (1.4 million states). An
editor writes in two steps or renames a new file over the old one, which is reported
as a creation, or as a removal and a creation. The gaps: `unwatched`, a change
between the scan and the watch, or while the file is watched and its directory is
not yet; `replaced`, a probe that took the place of a removal finds nothing;
`ignored`, a removal arrives while the file is not tracked, or not yet. Without any
one of the last two TLC finds an extension that stays (section 7). A later save
closes a gap, and the model forgets it then. That callbacks do not overlap is an
assumption: they take microseconds and start 300 ms apart. With two slots the
property fails, a removal being carried out after the load that followed it.
`FairSpec` assumes that the daemon gets through its start, that the loop runs and
that timers expire; nothing of the user.

## 5. From an edit of config.yaml to a run (`Scheduler`, `SchedulerProofs`)

| Variable | Code |
|---|---|
| `file`, `saving`, `edits` | `config.yaml`, and the second half of an `os.WriteFile`: between truncation and write the file is a valid config without jobs |
| `watched`, `queue`, `timer` | the fsnotify watch on the inode, its events, the debounce timer |
| `reload` | the reload on each goroutine: asleep before the watch is added again, about to load, to store, to apply |
| `cfgPtr`, `applied` | the live config of the daemon; the config of the last `Reload` |
| `entries`, `oneOffFired` | the scheduler: what each cron entry captured, one-offs fired this session |
| `pending`, `hasRun` | launched runs that have not recorded their start; rows with a `last_run` |
| `onceRuns` | history: one-off runs recorded since the last forget |
| `daemon`, `session` | load, schedule, watch; which process |

The editors are the environment: they truncate and write as the command line does,
rename a new file over the old one, delete, and write configs that do not load.
A job's conf is its schedule and a body, everything else the config says of it,
which is what `jobHash` does and does not cover. Time is left out: the timer fires
at any moment. `AddFunc` does not fail, since `Load` parsed the expression with
the same parser. Left out too: `NextRuns`, jitter, and the editors that rename the
old file away, after which fsnotify delivers a Rename that `Watch` ignores.

| Run | Shows | Bounds |
|---|---|---|
| `scheduler` | every job the config applied last schedules has an entry on its schedule, and those it disables or does not have have none; a one-off runs once between two forgets; the watch survives renames; an edit that was noticed arrives where reloads do not overlap | one job, five configs, two edits of any kind, a restart, a timer goroutine and the watcher's |

Jobs of a config do not interact in `Reload`, so one is enough; a config and two
edits make every transition between kinds of job and back; two goroutines that
reload are enough to overlap. `FairSpec` assumes that the watcher's goroutines are
scheduled, that the timer elapses and that a reload ends; a folder of the form
`fws:name` runs a command without a deadline, and a config with one is outside
this assumption.

`ScheduleMatches` says nothing of a job that is a one-off in the config applied last:
one that was scheduled before keeps its cron entry (section 7, `NotViaCron`).

`SchedulerProofs` proves `TypeOK`, `ScheduleMatches` and `OneOffRunsOnce` for any
jobs, configs, timer goroutines, edits and restarts. `ScheduleMatches` is inductive
(`EntryAfterMatches` holds of any entry and any new config). `OneOffRunsOnce` needs
`OnceInv`, which says where the knowledge that a one-off fired is kept: a run that
is on its way is known to the session, one that was recorded is known to
`state.json`, and there is never both. It is also what bounds `pending` in `TypeOK`.
`RenamesAreTracked`, an action property, follows from the types step by step (`WatchStep`):
a step that drops the watch leaves its removal in the queue, and the step that takes the
removal from the queue leaves the watcher about to add the watch again, so that only that
addition can fail, and it fails only when there is no file.

## 6. What runs inside, and beside, a run

### 6.1 The pipeline of a run (`RunPipeline`, `RunPipelineProofs`)

`JobRuns` says which run goes when; `RunPipeline` follows one run after another
through `runner.Run`, with what it tells, records and leaves on disk.

| Variable | Code |
|---|---|
| `run` | the run's position in `Run`, its mode, its local variables (status, session, worktree, elapsed time, deadline, delay) and, as history, the failures it met |
| `row`, `file` | the row of the job in the daemon's memory, and in `state.json`: `Save` writes the one over the other, a command writes the file alone |
| `trees`, `branch` | which run made the worktree at each path, and what holds the branch `bigband/<job>`: a registered worktree, nothing but the repository, or nobody |
| `logs`, `told` | the log files; the last `job_run.completed` |
| `cmd` | a command of the user with its private copy: `worktree move`, `worktree rm`, `rm`, `prune` |
| `daemon`, `done` | whether the daemon is up; history: mishaps |

One action is one step of the code that changes state or can fail. Git is external
and modelled by what its commands refuse: `branch -D` a branch that a registered
worktree holds, even one whose directory is gone, and `worktree add -b` an existing
branch. Left out: what the agent writes, the reply file, and the order of the log's
lines.

| Run | Shows | Bounds |
|---|---|---|
| `run_pipeline` | `ToldIsTrue`: what was told is what the daemon's row and `state.json` say until the next run, statuses say what happened and one deadline bounds all turns; `FreshTree`: a fresh worktree is fresh; `LeftoversKnown`: undisturbed runs leave one worktree, which the row names, and bounded logs; a reused worktree keeps its work; every run completes | two runs in any of the four worktree modes, a timeout of three ticks, every failure of the code, and one mishap at any step: a command, a deletion by hand, a crash, or a failure of git |

Two runs are one that leaves something and one that finds it. A timeout of three is
the least at which a run can take a turn, sleep and take another. One mishap means
that a command never meets a daemon that is down; that branch of `Forget` is in the
module and not in this run. Fairness is of the run's own steps: pre_exec and post_exec
have a timeout (runner.go:510-511) and the turns a deadline. The git commands of
worktree.go have neither; that they return is an assumption.

Two properties have an exception, which the code has too. `ToldIsTrue` says of
`state.json`, which `get` and `resume` load, that it agrees with what was told, unless
a `worktree move` or `worktree rm` has saved a copy it had loaded before (`done.over`):
the file then says what the copy says until a run is recorded again, and a daemon that
restarts believes it. `LeftoversKnown` says that a row which names a worktree has one,
unless the last worktree made did not have the job's subdirectory (`done.subdir`): it is
removed, and the row goes on naming the one of an earlier run, which was discarded to
make room for it (runner.go:452-457).

`RunPipelineProofs` proves the safety properties of `run_pipeline` for any number of
runs and mishaps, any timeout and any number of logs, so also for the commands that
meet a daemon that is down. On top of the types:

- `FreshTree` rests on `BranchInv`, a worktree that exists holds the branch, so that
  there is one at most; `worktree add` refuses while the branch is held, hence the
  worktree a run adds is the only one there is (`OwnInv`), and no other step makes one.
- `ToldIsTrue` rests on `ClockInv` (the clock starts at zero and a sleep is shorter
  than what is left of the one deadline), `StatusInv` (until a turn has failed the
  status is `ok` or that of the environment) and `RowInv` (from `SetRunning` to
  `SetDone` the row has a process, so no command makes the daemon forget it, and nothing
  is told; from `SetDone` on the row, and the file unless a copy was saved over it, say
  what will be told).
- `LeftoversKnown` rests on `TrackInv` (what is at the default path is what the row
  says, but between a removal or a creation and its record, and for a worktree removed
  for lack of the subdirectory), `LogInv` (no log is newer
  than the run's) and `KeptBound`, a fact about `trimLogs` alone.
- `ReuseKeepsWork` follows step by step from the types.

### 6.2 A call of an agent (`AgentTurn`, `AgentTurnProofs`)

| Variable | Code |
|---|---|
| `provider` | claude or claude-pty, and whether it resumes a session |
| `file`, `half`, `claude`, `task`, `stopping`, `turn` | external: the lines claude has written, the last one perhaps in part; the process, its background tasks and its turn |
| `pc`, `gaveUp`, `result` | where the provider is between start and return (`Run`, the two phases, the outer loop), why it stopped waiting, what it returned |
| `tail`, `path` | the offsets of `tailFrom`: resumable and read; whether the file is found |
| `st`, `seen` | `runState` (pending, known and mapped tasks, final text, wakeup, flags), or the parsed fields of `streamWriter`; history of the lines visited |

claude says, dispatches, acknowledges, stops, reports, schedules and ends turns in
any order its protocol allows; the file is read in bursts that end anywhere; every
window, the grace for the file and the deadline elapse at any time. A text is named
by its turn. Left out: the text itself, the terminal's output, settings and prompt.

| Run | Shows | Bounds |
|---|---|---|
| `agent_turn` | `TailSound`: each line is visited once, whatever part of it a read ended in; `WorkAccounted`: background work is not killed by the success of the call, and the final message follows the work; a cancelled wakeup is dropped; the call returns once a turn is over or the run is cancelled | one background task, two turns, six lines: a dispatch, its acknowledgement, two ends of turns, and two more |

The run has a task that is tracked from its acknowledgement; the other two kinds
(`Bash`, `Message` in `MCAgentTurn`) are instances to choose. `AgentTurnTwo.cfg` has two
tasks of different kinds and checks the three invariants without the liveness (4 million
states in a minute). `FairSpec` assumes the provider's steps, the windows, the end of
a line that was begun and the death of a killed process; nothing that claude does of itself.

Two tasks matter for `NoWorkAbandoned`. While the drain of the first is followed by the
turn that composes the answer, claude may dispatch a second in that very turn. If the
window of that turn passes without its end, the provider gives up ("no synthesis") and
returns what it has, and the second task is killed with claude. The property allows
this one case, and only for a task whose acknowledgement was not read.

`AgentTurnProofs` proves the four safety properties for any tasks of any kind, any number of
lines and turns. `BaseInv` has the types, that what was read is a prefix of the file
(`ReadInv`) and which provider is where (`CallInv`).

- `CancelledWakeupDropped` rests on `WakeupInv`: the flag is set if the last line read
  about the wakeup scheduled one. What is returned is the flag, since nothing is read
  between the last burst and the return.
- `TailSound` rests on `OnceInv`, the resumable offset is behind the last line that was
  visited and the history has no gap. It has the premise that no read fails
  (`~ReadErrors`), which is needed: a read that fails within a line moves the resumable
  offset into it (section 7).
- `FinalFollowsWork` rests on `TurnsOrdered` and `TextRead` (texts are in the order of
  their turns and the last one read is kept) and `EndInv` (the outer loop is left only
  behind an end of a turn with nothing pending, or by giving up).
- `WorkAccounted`, under the same premise, adds `FileInv`, what claude's protocol promises
  (`TaskLines`: an acknowledgement follows its dispatch, a task that runs has not
  reported; `EndsQuiet`: after the end of a turn nothing is written unless a task ran
  then), and `PendInv`, what the provider makes of it: a task that was dispatched is known
  until its acknowledgement, and one that was acknowledged is pending until it is over.

### 6.3 bigband-slack (`SlackThreads`, `SlackThreadsProofs`)

| Variable | Code |
|---|---|
| `runs`, `log` | external: the daemon's runs with the stage they are in, and its event log |
| `inbox`, `written`, `posts` | external: what Slack will deliver again, what users wrote; history of the completions posted |
| `store`, `old` | `Store`: runs, jobs and threads; which entries retention lets go |
| `sub` | `subscribeState` (cursor, seen set) and the connection |
| `ev`, `sm` | where the subscribe loop is in `HandleEvent`, and the socket loop in `HandleSlackMessage` |

Each method of the store is a critical section and an action; between two of them
the other loop, the daemon, a disconnect or a restart may come. A run is linked to
its thread after it was submitted, so its worktree, session and completion events
arrive before or after the link.

A text without a command submits a job with a name of its own; a `submit` command may
name a job that ran before, with its own folder and worktree setting
(router.go:292-339). Such runs share one row of `jobs`. The daemon refuses the name of
a job that is recorded as running (`Refused`), and a run that was accepted and finds
the lock taken is skipped and publishes nothing (`SkipRun`), so that its message is
never answered. Replies have a generated name and no worktree. Left out: texts, permissions, and mirror
rules but one, which matches the scheduled job; a rule that matched a submitted job
would post the completion of a run that is not linked yet outside its thread. Run ids
are distinct, which they are as long as two runs of a name do not start in one second
(section 7).

| Run | Shows | Bounds |
|---|---|---|
| `slack_threads` | `AnswersSound`: a completion is posted once, and in the thread of the message; a reply resumes a session where it ran, in the thread of a message that started one run of a job of its own; retention keeps the threads of linked runs; the stream resumes without a gap | two runs, of messages or of the schedule, two messages of which one is a mention, one event waiting, one fault |

Two runs are a message with a reply, two runs of the schedule, or a job that is
submitted twice by name. With three runs `ResumedInPlace` needs its premise `Alone`: the
second run of a named job takes the session of the first into its own thread, and its
link the folder of the second into the row, and a reply that comes before the second run has told
its session resumes that of the first, in the wrong place. The part of the claim that
the code states itself is `ReplyResumesItsThread` (section 7). The fault is a
disconnect, a restart or a failed call, at any step. Fairness is of the subscribe
loop, which reconnects with a bounded backoff.

A completion is posted once up to `sub.again`: after a restart the seen set is
empty, so when the stream of that process breaks too, the events of the second of
its cursor are sent again, among them one the process before it has answered
(start.go:44, 249). `AnsweredOnce` and `AnswersInThread` end there.

`SlackThreadsProofs` proves the three invariants for any number of runs, messages,
waiting events and faults, in layers. `CoreInv` is about types, the order of a run's
events in the log, the prefix that was seen, and who owns what: a thread of a message
belongs to the job of the run that message started, one of a post to the job of the
schedule, whatever the two loops do in between. `RouteInv` says that retention takes a
snapshot only with the mappings that lead to it. `PostInv` says that what was posted
will not be received again, and that a mapping which leaves the thread of its message
comes after the post; without it a link from a reply could redirect an answer.
`PlaceInv` is for `ResumedInPlace`. It cannot say that the snapshot of a thread has the
place of its run: between a link and the worktree event it has not, and another run of
the job may overwrite the row of the job. What it says is that once a session is known the
place is known with it (`Known`), that between the worktree and the end of the run the
job has it (`Located`), that a snapshot with an old place will be set right by an event
that is still to come (`Latest`), and that retention does not come in between (`Guarded`).
Where a link finds the run, before, between or after its events, is `LinkSafe`.

### 6.4 bigband-wake (`Wake`, `WakeProofs`)

| Variable | Code |
|---|---|
| `now`, `next` | the clock; the jobs' next fires in the daemon's status |
| `conf`, `cfg`, `watch`, `reload`, `unseen` | `config.yaml`; `r.cfg`; the fsnotify watch of the path, which goes with the file; the debounce timer; history: an edit of which no event came |
| `pmset`, `disk`, `mem`, `fails` | the wakes that are scheduled; the ledger in `state.json` and in memory; failed cancels |
| `proc`, `due`, `rc`, `main` | the process; a kick; the reconcile goroutine; `cancelAll` at shutdown with its deadline, then `releaseNow` |
| `clear` | the command `clear`, a process of its own; `alone` as long as no bigband-wake has started since |
| `hold` | `assertionMgr`: held, timer armed; timers that were forgotten while armed; callbacks that wait for the lock; assertions whose release failed |
| `loose`, `stuck` | history, wake by wake: the wakes that were torn from their record; those a cancel of which failed |

A reconcile is one action per call of pmset, and so are `cancelAll` and `clear`, so
that a stop, a crash, a failed call, a deadline or an edit come between any two. A call
that is killed, at the stop or at a deadline, may have taken effect. A ledger that
cannot be read is taken for empty (daemon.go:83). Of the config only `enabled` is
modelled; a reload takes less than its debounce, and there is one `clear` at a time.
Left out: lead time, battery, the log.

A wake is torn from its record (`loose`) when it was in the hands of a process that ended,
or of a reconcile at the moment of a stop; when `clear` cancelled it while a process ran;
when a call took effect and was killed; when it was given up after repeated failures; when
the ledger that named it could not be read, or was overwritten by `clear`. Nothing in the
code compares the ledger with pmset, so that such a wake stays in doubt until it is
scheduled or cancelled anew. `LedgerTrue`, `NeverAboveMax` and `Scheduled` except these
wakes and no others; that the code leaves them is `SelfHeals` and `OwnsAtMostMax` in
section 7.

| Run | Shows | Bounds |
|---|---|---|
| `wake` | `LedgerSound`: but for the wakes in `loose`, what is recorded is what is scheduled, and at most `max_events` but for those whose cancel failed; every wanted wake that is not in `loose` is scheduled in the end, and a config edit that was seen is followed; every assertion is released, or its release tried | two jobs due at three times, of which one wake may be owned; three changes, two faults |
| `wake_stop` | a stop during a reconcile leaves a wake nobody owns | the same |

One wake of two jobs makes every change of plan a cancel and an add; two faults are
one failure and one while it is retried; three changes are an edit, a `clear` and a stop
around one of them. Fairness is of the goroutines, the ticker, the timers, the watcher's
events and the supervisor, which starts a process again also when its config cannot be
loaded; the daemon's events are not relied on, and `clear` may be slow.

`WakeProofs` proves `LedgerSound` for any jobs, cap and number of faults. During a
reconcile neither the memory nor the file says what is scheduled; `Accounted` is what
does at each point: what is owned less what was cancelled, then what was kept and what
is added. `OwnerInv` (a wake is accounted for, or in `loose`), `WakeInv` (an event that is
accounted for and not in `loose` has its wake until it is due), `CapInv` and `RcInv` (what
is left of the work) are inductive over it; every step either keeps the account, drops a
wake with its event, adds one with its event, or puts the event in `loose`
(`AccountStep`). `MainInv` says that all that a reconcile holds beside `cancelAll` is in
doubt, `ClearInv` that a `clear` that is alone works on the file. The cap and the
ownership hold of all jobs. `WakeInv`, that what is recorded is scheduled, has the premise
`TimesApart`: no two jobs are due at the same time. pmset knows a wake by its time, so that
the cancel for one job takes the wake of the other with it (section 7, `WakeShared.cfg`).

## 7. Claims the code does not keep

`wake_stop` has a run of its own and a finding in
`PROJECT.json`. The others are definitions too; `tlc -config <cfg> <module>`
shows the behaviour. A configuration that lists several claims is to be run with
one of them at a time.

| Claim | Code | Property, configuration |
|---|---|---|
| README.md:312 "Stop a currently running job" | daemon.go:158: a second run of the job takes over the entry of the first, or deletes it, and stop replies "not running" | `StopReachesRunning`, `JobRunsClaims.cfg` |
| daemon.go:447 "Don't drop state for an in-flight run" | daemon.go:445: check and removal are two critical sections, a run can start between them | `InFlightRowKept`, `JobRunsClaims.cfg` |
| daemon.go:689 "the only worktrees touched here are" those of the pruned rows | daemon.go:681: the worktree is removed after the row was dropped, when a new run of the name may use it | `EveryWorktreeOwned`, `JobRunsClaims.cfg` |
| daemon.go:894 "Also reject if an ephemeral with this name is already running" | daemon.go:896: the check precedes the launch, two submits pass it and the second is skipped after it was accepted | `AcceptedSubmitRuns`, `JobRunsClaims.cfg` |
| supervisor.go:35 "One goroutine per extension" | supervisor.go:336: two callers that both find no live loop both start one | `OneLoop`, `SupervisorTwoLoops.cfg` |
| supervisor.go:99 "enabled flips are honoured" | supervisor.go:117: an enable that follows while the disabled loop is still ending finds it alive and starts nothing | `EnabledRuns`, `SupervisorFlip.cfg` |
| docs/MANIFESTS.md:85 stopped "until `bigband ext start` is called" | supervisor.go:169: a start while the stopped loop is still leaving returns without one | `EnabledRuns`, `SupervisorStops.cfg` |
| supervisor.go:192 Restart is "equivalent to Stop followed by Start" | supervisor.go:201: it does not clear the manual stop, so that the loop it starts ends at once | `EnabledRuns`, `SupervisorStops.cfg` |
| supervisor.go:113 "currently running" means "the supervise loop is alive" | supervisor.go:405: a late notifier of a loop that ended sets the status to running | `AliveHasLoop`, `SupervisorStale.cfg` |
| supervisor.go:268 "No supervise loop is started for an invalid entry" | supervisor.go:162: Start and Restart start one with a manifest that has no command | `NoLoopForInvalid`, `SupervisorInvalid.cfg` |
| supervisor.go:242 Shutdown "waits up to grace for" the loops | supervisor.go:260: it also waits for entries that never had a loop, whose `doneCh` nobody closes | `GraceIsForLoops`, `SupervisorInvalid.cfg` |
| supervisor.go:137 Remove "returns once the supervise loop has exited" | supervisor.go:149: for such an entry it never returns | `EveryCallReturns`, `SupervisorInvalid.cfg` |
| docs/EVENTS.md:133 extension.failed is "emitted on supervisor circuit-break" | supervisor.go:463: the breaker only sets the status | `BreakIsTold`, `SupervisorBreaker.cfg` |
| docs/MANIFESTS.md:36 "0 = unlimited" | manifest.go:154: zero becomes the default of five | `UnlimitedNeverBreaks`, `SupervisorUnlimited.cfg` |
| daemon.go:290 "Cancel all in-flight jobs" | a run that registers after the loop over `cancels` is never cancelled, and one whose entry another run replaced neither | `ShutdownCancelsAll`, `JobRunsShutdownCancels.cfg` |
| daemon.go:939 without reconciliation a job "keeps RunningPID set forever" | daemon.go:958: where an inline run has the lock, nobody waits for it and nobody closes the daemon's row: the job appears to run, and forget and submit are refused, until its next run | `EveryRowFinished`, `JobRunsOrphan.cfg` |
| daemon.go:957 "orphaned process … holding lock until it exits" | the recorded pid is that of the daemon, which is gone after a crash: the row is cleared, the lock is free, and the agent in its own process group works on beside the next run | `OneAgentPerJob`, `JobRunsOrphan.cfg` |
| bigband-slack/start.go:208 "replay events from lastSeen so nothing is missed across restarts" | events.go:153: `lastSeen` is a time, and lines are not in the order of their times | `NothingMissed`, `EventBusMissed.cfg` |
| scheduler.go:20 "live-reloads jobs on config change" | scheduler.go:122: the hash covers name, schedule and enabled alone; the edit of a prompt or a timeout is applied and has no effect on scheduled runs | `EntriesCurrent`, `SchedulerEntries.cfg` |
| scheduler.go:61 one-offs are fired "on first Reload, not via cron" | scheduler.go:70: a job that was scheduled and turns into a one-off keeps its cron entry, and fires on the old schedule too | `NotViaCron`, instance of `Scheduler.cfg` |
| supervisor.go:137 Remove "returns once the supervise loop has exited" | supervisor.go:147: a Restart that holds the entry starts a loop for it afterwards | `RemovedIsGone`, `SupervisorZombie.cfg` |
| runner.go:141 "A read failure fails the run rather than silently dropping the key" | runner.go:147: the status is set and the run goes on to pre_exec and the agent, without the environment | `EnvFailureStopsRun`, `RunPipelineClaims.cfg` |
| docs/EVENTS.md:102 "`worktree_path` is the live worktree if one was created and kept" | runner.go:387: the path of a worktree that was just removed is told too | `CompletedTreeIsLive`, `RunPipelineClaims.cfg` |
| runner.go:103 the run id is "stable per run, used to correlate every event for this run" | it has a resolution of one second; a run that follows at once has the same id, and truncates the log | `RunIdsDistinct`, `RunPipelineClaims.cfg` |
| resume.go:49 "use 'bigband worktree rm' to clear the stale reference" | cli/worktree.go:105 writes the file; the daemon's next save writes its own copy over it, with the path | `StaleReferenceCleared`, `RunPipelineClaims.cfg` |
| tasks.go:526 "Refuse to remove a job with a live in-flight run" | tasks.go:530 and prune.go:58 check a copy: the worktree of a run that started since is removed under it | `RunningTreeStays`, `RunPipelineClaims.cfg` |
| runner.go:443 "Worktree missing (first run, or was manually removed)" is built fresh | worktree.go:112: git refuses to delete a branch that a moved or deleted worktree still holds, the error is ignored, and this run and every later one work in the user's folder (runner.go:447) | `MissingTreeRebuilt`, `RunPipelineMissing.cfg` |
| discover.go:70 "watches the directory itself for create/remove of subdirectories" | discover.go:122: a directory that is replaced by an empty one, or a manifest that is deleted, saved and deleted again, within 300 ms: the probe takes the place of the pending removal and finds nothing, and the extension runs on | `AlwaysFollowed`, instance of `Discovery.cfg` |
| provider.go:30 "same contract as the stream-json claude provider" | stream.go:381: the stream parser does not look at a cancelled schedule, and the runner is woken | `WakeupContract`, `AgentTurnWakeup.cfg` |
| tail.go:59 "one last read attempt above already captured any final bytes" | the size is taken before the child is looked at; what it wrote in between is not read, and a turn that ended well fails | `LastBytesCaptured`, instance of `AgentTurn.cfg` |
| provider.go:544 the text of a turn that did not end is the final message "only when no turn ever terminated" | a turn that ends without text leaves `finalText` empty | `FallbackOnlyWithoutTurn`, instance of `AgentTurn.cfg` |
| store.go:35 "a later run of the same job does not overwrite the session of an earlier thread" | store.go:158: a session goes to the thread that the row of the job names at that moment | `ThreadKeepsSession`, `SlackThreadsCron.cfg` |
| store.go:97 "replies to this thread always resume the correct session even after the same job has run again" | store.go:127: the thread of the second run of a named job begins with the session its row has from the first, and a reply that comes before the second run has told its own resumes that | `ReplyResumesItsThread`, instance of `SlackThreads.cfg` with three runs, three messages and no fault |
| router.go:119 runs that Slack asked for "always post into that thread" | router.go:356: a completion that comes before the link finds no thread | `SlackRunsAnswered`, instance of `SlackThreads.cfg` |
| a message starts one run | slack.go:146: a mention in a channel is delivered as a message too, and both are handled | `OneRunPerMessage`, instance of `SlackThreads.cfg` |
| daemon.go:466 of bigband-wake "so we never push above max_events transiently" | a wake whose cancel failed stays, or one in no ledger after a crash or a ledger that could not be read, and the wanted ones are added on top | `OwnsAtMostMax`, `WakeClaims.cfg` |
| assertion.go:39 an assertion is held "for at least d into the future" | assertion.go:58: a timer that had fired and waited for the lock releases the extended one | `HeldLongEnough`, `WakeClaims.cfg` |
| assertion.go:20 "the timer releases the assertion when it fires" | assertion.go:90: where the release fails the id is forgotten, and the assertion is held until the process exits, which assertion_darwin.go:39 warns of | `NothingLeaks`, `WakeClaims.cfg` |
| bigband-wake/README.md:86 "Auto-reloaded on every save via `fsnotify`" | daemon.go:386: a file that is removed before it is written again takes the watch with it, and it cannot be added again; no later save is noticed | `EverySaveLoaded`, `WakeClaims.cfg` |
| daemon.go:267 bigband-wake "eventually self-heals" | daemon.go:456: the diff is against the memory alone; a wake that `clear` cancelled, or that a killed call removed, is taken for scheduled | `SelfHeals`, `WakeClaims.cfg` |
| state.go:40 a corrupt ledger is reported "so a corrupt file doesn't get silently overwritten" | daemon.go:83: it is logged, taken for empty, and overwritten by the next save; its wakes are nobody's | `OwnsAtMostMax`, `WakeClaims.cfg` |
| bigband-wake/README.md:86 "no restart needed for `enabled`" | a process that started disabled is parked and does not watch its config | `EnabledWithoutRestart`, `WakeClaims.cfg` |
| pmset has the wakes of the ledger | pmset_darwin.go:37: pmset knows a wake by its time; cancelling that of one job cancels that of another due at the same time | `LedgerTrue`, `WakeShared.cfg` |

Of the scheduler, without a run: an edit
between the first load and the start of the watch is not noticed. Two reloads that
overlap can leave the daemon on the older config, or its IPC handlers on one
config and the scheduler on another; `EditsArrive` has the premise that they do
not. When the file is missing at the moment the watch is added again, no later
edit is noticed. A one-off that was forgotten fires again in the next session. IPC
run clears the jitter of the job in the live config, which is the object that the
cron entry captured, so that scheduled runs lose their jitter as well.

Of the others, without a property: a failed read while a line is partial makes the
tail resume in the middle of it (tail.go:56, 73; `EachLineOnce` with `ReadErrors =
TRUE`). A reused worktree without the job's subdirectory is removed with what is in
it, although README.md:142 says that it is kept (`ReuseKeepsWork` has the premise
that it is there). After a new worktree without the job's subdirectory was removed, the row names a
worktree that is gone, and `resume` refuses (runner.go:455, resume.go:46; `TreeTracked`
excepts it). A `worktree rm` given while a run ends can leave `state.json` running for
`get` and `resume` (`ToldIsRecorded` excepts it). A stop during pre_exec is told as
`pre_failed`. The log files
are trimmed, the reply files beside them are not (runner.go:537). After a `worktree
move` every later run works in the user's folder (`MissingTreeRebuilt`).

## 8. What is proved and what is checked

Proved for every value of the constants, from the named assumptions on constants
alone: the theorems listed in `PROJECT.json`, among them every invariant of a passing
run. Some have a premise, stated in the theorem:

| Theorem | Premise | Why |
|---|---|---|
| `OneLoopSequential`, `NothingLeftSequential` | `Sequential`, one caller | false with two (section 7) |
| the theorem of `LedgerSound` | `TimesApart`, no two jobs due at one time | false without it (`WakeShared.cfg`) |
| `ResumedInPlaceHolds` | `Alone`, the job of the thread has one run | the runs of a name share a row (section 7) |
| `TailReadsAll`, `WorkIsAccounted` | `~ReadErrors`, no read of the session file fails | a failed read makes the tail resume within a line, which is then lost (section 7) |

Model-checked only: every liveness property, since fairness and `ENABLED` are out of
the prover's reach (`EveryRunEnds`, `ShutdownCompletes`, `EveryRunCompletes`,
`OwedIsHandled`, `CatchesUp`, `EventsHandled`, `WakesScheduled`, `AssertionEnds`,
`CallReturns`, `ManifestsFollowed`, `EditsArrive`, and `StopIsFinal`, `SpecFollows`,
`BreakerWorks`, `CallsReturn` and `StaysSupervised` of `Supervisor`). No module has a
recursive operator.

## 9. Not modelled

Parsing and validation of `config.yaml`, of manifests and of schedules; folders that
run a command; the ipc transport, which delivers each command atomically; launchd
and paths; agents other than the two claude providers, which
run one process without state; templates, listing and display commands. They have no
state that two actors share, or nothing but I/O. The instance lock is a question of
what the operating system does with a lock on an unlinked file
(instance_lock.go:57): a process that took the lock between unlock and unlink holds
a file without a name, a third one locks a new file, and two daemons run. Commands
that edit `config.yaml` write the whole file, as the editors of `Scheduler` do.

## 10. Plan

The modules of the plan are written and their safety properties proved. What is worth
adding next: an abstract log that each subscriber reads in order, refined by `EventBus`; what
`OneLoop` leaves of itself with several callers (each loop has one entry, and a loop that
lost its entry is asked to stop or runs on alone); an instance of `RunPipeline` with two
mishaps, beyond what TLC finishes in minutes.
