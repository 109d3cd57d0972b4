------------------------------ MODULE Scheduler ------------------------------
(***************************************************************************)
(* How an edit of config.yaml reaches the schedule: the file and its        *)
(* editors, the fsnotify watcher and the reloads it starts                  *)
(* (internal/config/watcher.go), the live config of the daemon, the cron    *)
(* entries and the one-offs of internal/scheduler, and the runs they start. *)
(*                                                                          *)
(* A job of a config is absent, off (disabled), once (no schedule), or has  *)
(* a cron expression; its body is everything else the config says of it.    *)
(* A reload reads the file in one step, stores the config and applies it in *)
(* two more; the mutex of the scheduler makes Reload one step.  Time is     *)
(* left out: the debounce timer fires at any moment after it was armed.     *)
(* A run is followed up to the record of its start in state.json.           *)
(***************************************************************************)
EXTENDS Naturals, Sequences

CONSTANTS
  Job,          \* job names
  Expr,         \* cron expressions
  Body,         \* what a config says of a job besides its schedule
  Contents,     \* the configs that editors write
  Timer,        \* goroutines of time.AfterFunc, as many as reloads overlap
  MaxEdits,     \* bound on the edits of the file
  MaxSession,   \* bound on the daemon processes
  Watcher       \* the watcher's own goroutine

Absent == [sched |-> "absent", body |-> "none"]
JobConf == [sched : {"absent", "off", "once"} \cup Expr, body : Body \cup {"none"}]
Config  == [Job -> JobConf]

ASSUME SchedulerAssumption ==
  /\ Expr \cap {"absent", "off", "once"} = {}
  /\ Contents \subseteq Config
  /\ Watcher \notin Timer
  /\ MaxEdits \in Nat /\ MaxSession \in Nat \ {0}

VARIABLES
  file,       \* config.yaml: whether it can be loaded, and what it says
  saving,     \* what os.WriteFile has yet to write, between truncation and write
  edits,      \* how many edits there were
  watched,    \* fsnotify watches the file that has the name config.yaml
  queue,      \* events the watcher's goroutine has not received
  timer,      \* the debounce timer is armed
  reload,     \* the reload on each goroutine: where it is and what it loaded
  daemon,     \* phase of daemon.Run
  session,    \* how many daemon processes there were
  cfgPtr,     \* the live config
  applied,    \* the config the last Reload was called with
  entries,    \* the job conf each cron entry captured; Absent: no entry
  oneOffFired,\* one-off jobs fired this session
  pending,    \* runs that were launched and have not recorded their start
  hasRun,     \* the jobs with a last_run in state.json
  onceRuns    \* one-off runs recorded since the row was last forgotten

fileVars  == << file, saving, edits >>
watchVars == << watched, queue, timer, reload >>
liveVars  == << daemon, session, cfgPtr >>
schedVars == << applied, entries, oneOffFired >>
runVars   == << pending, hasRun, onceRuns >>
vars == << fileVars, watchVars, liveVars, schedVars, runVars >>

NoJobs  == [j \in Job |-> Absent]
Loader  == Timer \cup {Watcher}
AtRest  == [at |-> "rest", cfg |-> NoJobs]
Valid(c) == [state |-> "valid", cfg |-> c]
Broken   == [state |-> "broken", cfg |-> NoJobs]
Missing  == [state |-> "missing", cfg |-> NoJobs]

IsCron(c) == c.sched \in Expr
Up == daemon = "up"

Init ==
  /\ file \in { Valid(c) : c \in Contents } /\ saving = Missing /\ edits = 0
  /\ watched = FALSE /\ queue = << >> /\ timer = FALSE
  /\ reload = [l \in Loader |-> AtRest]
  /\ daemon = "down" /\ session = 0 /\ cfgPtr = NoJobs
  /\ applied = NoJobs /\ entries = NoJobs /\ oneOffFired = {}
  /\ pending = [j \in Job |-> [once |-> 0, cron |-> 0]]
  /\ hasRun = {} /\ onceRuns = [j \in Job |-> 0]

-----------------------------------------------------------------------------
(* Editors of the file.                                                     *)

\* What fsnotify delivers of an event of the watched file.
Notice(ev) == IF watched THEN Append(queue, ev) ELSE queue

Edit ==
  /\ edits < MaxEdits /\ saving = Missing /\ edits' = edits + 1
  /\ UNCHANGED << timer, reload, liveVars, schedVars, runVars >>

\* os.WriteFile, the way the command line saves: the file is truncated, which is
\* a valid config without jobs, and then written.
Truncate(f) ==
  /\ file # Missing
  /\ Edit /\ file' = Valid(NoJobs) /\ saving' = f
  /\ queue' = Notice("write") /\ UNCHANGED watched

WriteRest ==
  /\ saving # Missing /\ file' = saving /\ saving' = Missing
  /\ queue' = Notice("write")
  /\ UNCHANGED << edits, watched, timer, reload, liveVars, schedVars, runVars >>

\* An editor renames a new file over the old one, or creates the file anew: the
\* inode that was watched is gone.
SaveByRename(f) ==
  /\ Edit /\ file' = f
  /\ queue' = Notice("remove") /\ watched' = FALSE
  /\ UNCHANGED saving

Delete ==
  /\ file # Missing
  /\ Edit /\ file' = Missing
  /\ queue' = Notice("remove") /\ watched' = FALSE
  /\ UNCHANGED saving

-----------------------------------------------------------------------------
(* config.Watch: the goroutine that receives events.                        *)

Receiving == Up /\ reload[Watcher].at = "rest" /\ queue # << >>

ReceiveWrite ==
  /\ Receiving /\ Head(queue) = "write"
  /\ queue' = Tail(queue) /\ timer' = TRUE
  /\ UNCHANGED << fileVars, watched, reload, liveVars, schedVars, runVars >>

\* Mutation: the event is dropped like any other.
IgnoreRemove ==
  /\ Receiving /\ Head(queue) = "remove"
  /\ queue' = Tail(queue)
  /\ UNCHANGED << fileVars, watched, reload, timer, liveVars, schedVars, runVars >>

\* Then it sleeps.
ReceiveRemove ==
  /\ Receiving /\ Head(queue) = "remove"
  /\ queue' = Tail(queue)
  /\ reload' = [reload EXCEPT ![Watcher].at = "sleep"]
  /\ UNCHANGED << fileVars, watched, timer, liveVars, schedVars, runVars >>

\* Mutation: the watch is added again, but the new file is not read.
ReAddOnly ==
  /\ Up /\ reload[Watcher].at = "sleep"
  /\ watched' = (file # Missing)
  /\ reload' = [reload EXCEPT ![Watcher].at = "rest"]
  /\ UNCHANGED << fileVars, queue, timer, liveVars, schedVars, runVars >>

\* The watch is added again and the file is loaded; without a file neither.
ReAdd ==
  /\ Up /\ reload[Watcher].at = "sleep"
  /\ watched' = (file # Missing)
  /\ reload' = [reload EXCEPT ![Watcher].at = IF file = Missing THEN "rest" ELSE "load"]
  /\ UNCHANGED << fileVars, queue, timer, liveVars, schedVars, runVars >>

-----------------------------------------------------------------------------
(* A reload, on the goroutine of the timer or of the watcher.               *)

TimerFires(l) ==
  /\ Up /\ timer /\ l \in Timer /\ reload[l].at = "rest"
  /\ timer' = FALSE
  /\ reload' = [reload EXCEPT ![l].at = "load"]
  /\ UNCHANGED << fileVars, watched, queue, liveVars, schedVars, runVars >>

Load(l) ==
  /\ Up /\ reload[l].at = "load"
  /\ reload' = [reload EXCEPT ![l] =
                  IF file.state = "valid" THEN [at |-> "store", cfg |-> file.cfg]
                  ELSE AtRest]
  /\ UNCHANGED << fileVars, watched, queue, timer, liveVars, schedVars, runVars >>

Store(l) ==
  /\ Up /\ reload[l].at = "store"
  /\ reload' = [reload EXCEPT ![l].at = "apply"]
  /\ cfgPtr' = reload[l].cfg
  /\ UNCHANGED << fileVars, watched, queue, timer, daemon, session, schedVars, runVars >>

\* Mutations: a one-off fires whenever it has no record; it fires in every session.
FiresUnrecorded(j, c) == c[j].sched = "once" /\ j \notin hasRun
FiresInSession(j, c)  == c[j].sched = "once" /\ j \notin oneOffFired

Fires(j, c) == c[j].sched = "once" /\ j \notin oneOffFired /\ j \notin hasRun

\* Mutation: an entry survives the end of its job.
EntryLeft(j, c) ==
  IF IsCron(c[j]) /\ entries[j].sched # c[j].sched THEN c[j] ELSE entries[j]

\* The entry of a job after Reload.  jobHash covers its name, its schedule and
\* whether it is enabled: an entry with the same schedule stays, and so does one
\* whose job is a one-off now.
EntryAfter(j, c) ==
  CASE IsCron(c[j]) /\ entries[j].sched # c[j].sched -> c[j]
    [] c[j].sched \in {"absent", "off"} -> Absent
    [] OTHER -> entries[j]

\* Scheduler.Reload; the handler launches each one-off that fires.
Reload(c) ==
  /\ applied' = c
  /\ entries' = [j \in Job |-> EntryAfter(j, c)]
  /\ oneOffFired' = oneOffFired \cup { j \in Job : Fires(j, c) }
  /\ pending' = [j \in Job |->
       IF Fires(j, c) THEN [pending[j] EXCEPT !.once = @ + 1] ELSE pending[j]]
  /\ UNCHANGED << hasRun, onceRuns >>

Apply(l) ==
  /\ Up /\ reload[l].at = "apply"
  /\ Reload(reload[l].cfg)
  /\ reload' = [reload EXCEPT ![l] = AtRest]
  /\ UNCHANGED << fileVars, watched, queue, timer, liveVars >>

-----------------------------------------------------------------------------
(* The daemon process: load, schedule, then watch.                          *)

BootLoad ==
  /\ daemon = "down" /\ session < MaxSession /\ file.state = "valid"
  /\ daemon' = "loaded" /\ session' = session + 1 /\ cfgPtr' = file.cfg
  /\ UNCHANGED << fileVars, watchVars, schedVars, runVars >>

BootSchedule ==
  /\ daemon = "loaded" /\ daemon' = "scheduled"
  /\ Reload(cfgPtr)
  /\ UNCHANGED << fileVars, watchVars, session, cfgPtr >>

\* Without a file to watch, the daemon goes on without a watcher.
BootWatch ==
  /\ daemon = "scheduled" /\ daemon' = "up" /\ watched' = (file # Missing)
  /\ UNCHANGED << fileVars, queue, timer, reload, session, cfgPtr, schedVars, runVars >>

\* The process ends; what it had in memory is lost, state.json stays.
Exit ==
  /\ daemon # "down" /\ daemon' = "down"
  /\ watched' = FALSE /\ queue' = << >> /\ timer' = FALSE
  /\ reload' = [l \in Loader |-> AtRest]
  /\ cfgPtr' = NoJobs /\ applied' = NoJobs /\ entries' = NoJobs /\ oneOffFired' = {}
  /\ pending' = [j \in Job |-> [once |-> 0, cron |-> 0]]
  /\ UNCHANGED << fileVars, session, hasRun, onceRuns >>

-----------------------------------------------------------------------------
(* Runs.                                                                    *)

CronFires(j) ==
  /\ daemon # "down" /\ entries[j] # Absent /\ pending[j].cron = 0
  /\ pending' = [pending EXCEPT ![j].cron = 1]
  /\ UNCHANGED << fileVars, watchVars, liveVars, schedVars, hasRun, onceRuns >>

\* SetRunning records the start of the run.
RunStarts(j, k) ==
  /\ daemon # "down" /\ pending[j][k] > 0
  /\ pending' = [pending EXCEPT ![j][k] = @ - 1]
  /\ hasRun' = hasRun \cup {j}
  /\ onceRuns' = [onceRuns EXCEPT ![j] = IF k = "once" THEN @ + 1 ELSE @]
  /\ UNCHANGED << fileVars, watchVars, liveVars, schedVars >>

\* The job's lock is taken, or its log cannot be opened.
RunGivesUp(j, k) ==
  /\ daemon # "down" /\ pending[j][k] > 0
  /\ pending' = [pending EXCEPT ![j][k] = @ - 1]
  /\ UNCHANGED << fileVars, watchVars, liveVars, schedVars, hasRun, onceRuns >>

\* IPC forget.
Forget(j) ==
  /\ Up /\ j \in hasRun
  /\ hasRun' = hasRun \ {j} /\ onceRuns' = [onceRuns EXCEPT ![j] = 0]
  /\ UNCHANGED << fileVars, watchVars, liveVars, schedVars, pending >>

-----------------------------------------------------------------------------

Saved == { Valid(c) : c \in Contents } \cup {Broken}

Editing == (\E f \in Saved : Truncate(f) \/ SaveByRename(f)) \/ WriteRest \/ Delete
Watching == ReceiveWrite \/ ReceiveRemove \/ ReAdd
Reloading(l) == TimerFires(l) \/ Load(l) \/ Store(l) \/ Apply(l)
Process == BootLoad \/ BootSchedule \/ BootWatch \/ Exit
Running == \E j \in Job :
  \/ CronFires(j) \/ Forget(j)
  \/ \E k \in {"once", "cron"} : RunStarts(j, k) \/ RunGivesUp(j, k)

Next == Editing \/ Watching \/ (\E l \in Loader : Reloading(l)) \/ Process \/ Running

Spec == Init /\ [][Next]_vars

\* The goroutines of the watcher are scheduled and the timer elapses.
FairSpec ==
  /\ Spec
  /\ WF_vars(Watching) /\ WF_vars(\E l \in Timer : TimerFires(l))
  /\ \A l \in Loader : WF_vars(Load(l) \/ Store(l) \/ Apply(l))

-----------------------------------------------------------------------------
(* Properties.                                                              *)

FileType    == [state : {"valid", "broken", "missing"}, cfg : Config]
ReloadType  == [at : {"rest", "sleep", "load", "store", "apply"}, cfg : Config]
PendingType == [once : {0, 1}, cron : {0, 1}]

TypeOK ==
  /\ file \in FileType /\ saving \in FileType
  /\ edits \in Nat /\ watched \in BOOLEAN
  /\ queue \in Seq({"write", "remove"}) /\ timer \in BOOLEAN
  /\ reload \in [Loader -> ReloadType]
  /\ daemon \in {"down", "loaded", "scheduled", "up"} /\ session \in Nat
  /\ cfgPtr \in Config /\ applied \in Config /\ entries \in Config
  /\ oneOffFired \in SUBSET Job /\ hasRun \in SUBSET Job
  /\ pending \in [Job -> PendingType]
  /\ onceRuns \in [Job -> Nat]

\* Whatever sequence of edits led here, broken files, truncated files and
\* overlapping reloads included: every scheduled job of the config applied last
\* fires on its schedule there, and no job that this config disables or does not
\* have can fire (Scheduler.Reload).  It says nothing of a job that is a one-off in
\* this config: one that was scheduled before keeps its cron entry, and fires on
\* the old schedule (scheduler.go:61-71 leaves it, 96-100 too; NotViaCron below).
ScheduleMatches ==
  \A j \in Job :
    /\ IsCron(applied[j]) => entries[j].sched = applied[j].sched
    /\ applied[j].sched \in {"absent", "off"} => entries[j] = Absent

\* "Fires once": between two forgets a one-off runs at most once, whatever
\* reloads and restarts come between its launch and the record of its start.
OneOffRunsOnce == \A j \in Job : onceRuns[j] <= 1

\* The watch is lost for good when the goroutine that would add it again has
\* nothing to do and no event is under way.
WatchLost ==
  /\ Up /\ ~watched /\ reload[Watcher].at # "sleep"
  /\ \A i \in 1..Len(queue) : queue[i] # "remove"

\* The watch survives renames: it gets lost only when there was no file to watch
\* (the comment of Watch).
RenamesAreTracked == [][Up /\ ~WatchLost /\ WatchLost' => file = Missing]_vars

\* Reloads overlap: the timer's goroutine and the watcher's, or two timers.
Overlap ==
  \E l, m \in Loader : l # m /\ reload[l].at \in {"load", "store", "apply"}
                             /\ reload[m].at \in {"load", "store", "apply"}

\* An edit that was noticed arrives: if reloads never overlap, the live config and
\* the schedule come to be what the file says, unless the file is changed again,
\* the daemon ends or the watch is lost (Watch and its callback).
EditsArrive ==
  [](~Overlap) => \A c \in Contents :
    (Up /\ queue # << >> /\ file = Valid(c))
      ~> (cfgPtr = c /\ applied = c) \/ file # Valid(c) \/ ~Up \/ WatchLost

\* Scheduler: "live-reloads jobs on config change".  The entry of a job is the
\* job of the config that was applied last, and a one-off has none.
EntriesCurrent ==
  \A j \in Job : entries[j] = IF IsCron(applied[j]) THEN applied[j] ELSE Absent

\* "One-off jobs are fired immediately on first Reload, not via cron"
\* (scheduler.go:61).
NotViaCron == \A j \in Job : applied[j].sched = "once" => entries[j] = Absent

=============================================================================
