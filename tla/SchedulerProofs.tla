--------------------------- MODULE SchedulerProofs ---------------------------
(***************************************************************************)
(* What holds of Scheduler for any jobs, any configs, any number of edits,  *)
(* of overlapping reloads and of restarts.                                  *)
(***************************************************************************)
EXTENDS Scheduler, TLAPS

-----------------------------------------------------------------------------
(* The operators Reload is built from.                                      *)

LEMMA AbsentIsConf == Absent \in JobConf /\ NoJobs \in Config /\ ~IsCron(Absent)
  BY SchedulerAssumption DEF Absent, JobConf, NoJobs, Config, IsCron

\* The entry a reload leaves is the job of the new config or the one there was.
LEMMA EntryAfterIsConf ==
  ASSUME NEW c \in Config, entries \in Config, NEW j \in Job
  PROVE  EntryAfter(j, c) \in JobConf
<1>1. c[j] \in JobConf /\ entries[j] \in JobConf
  BY DEF Config
<1>2. QED BY <1>1, AbsentIsConf DEF EntryAfter

\* Whatever entry a job had, after a reload it has the schedule of the config,
\* and none if the config disables the job or does not have it.
LEMMA EntryAfterMatches ==
  ASSUME NEW c \in Config, entries \in Config, NEW j \in Job
  PROVE  /\ IsCron(c[j]) => EntryAfter(j, c).sched = c[j].sched
         /\ c[j].sched \in {"absent", "off"} => EntryAfter(j, c) = Absent
<1>1. ASSUME IsCron(c[j]) PROVE EntryAfter(j, c).sched = c[j].sched
  <2>1. c[j].sched \notin {"absent", "off"}
    BY <1>1, SchedulerAssumption DEF IsCron
  <2>2. CASE entries[j].sched # c[j].sched
    BY <1>1, <2>1, <2>2 DEF EntryAfter
  <2>3. CASE entries[j].sched = c[j].sched
    BY <1>1, <2>1, <2>3 DEF EntryAfter
  <2>4. QED BY <2>2, <2>3
<1>2. ASSUME c[j].sched \in {"absent", "off"} PROVE EntryAfter(j, c) = Absent
  <2>1. ~IsCron(c[j])
    BY <1>2, SchedulerAssumption DEF IsCron
  <2>2. QED BY <1>2, <2>1 DEF EntryAfter
<1>3. QED BY <1>1, <1>2

-----------------------------------------------------------------------------
(* One-offs.                                                                *)

\* Between two forgets a one-off is recorded or on its way, not both and not
\* twice; state.json knows of the first, the session of the second.
OnceInv ==
  \A j \in Job :
    /\ onceRuns[j] + pending[j].once <= 1
    /\ onceRuns[j] = 1 => j \in hasRun
    /\ pending[j].once = 1 => j \in oneOffFired

\* What types the runs, apart from the rest of the state.
RunsOK ==
  /\ oneOffFired \in SUBSET Job /\ hasRun \in SUBSET Job
  /\ pending \in [Job -> PendingType]
  /\ onceRuns \in [Job -> Nat]

LEMMA ReloadRuns ==
  ASSUME RunsOK, OnceInv, NEW c \in Config, Reload(c)
  PROVE  RunsOK' /\ OnceInv'
<1>1. ASSUME NEW j \in Job, Fires(j, c)
      PROVE  onceRuns[j] = 0 /\ pending[j].once = 0
  BY <1>1 DEF Fires, OnceInv, RunsOK, PendingType
<1>2. pending' \in [Job -> PendingType]
  BY <1>1 DEF Reload, RunsOK, PendingType
<1>3. ASSUME NEW j \in Job
      PROVE  pending'[j].once = IF Fires(j, c) THEN 1 ELSE pending[j].once
  BY <1>1 DEF Reload, RunsOK, PendingType
<1>4. RunsOK'
  BY <1>2 DEF Reload, RunsOK, PendingType
<1>5. OnceInv'
  <2> SUFFICES ASSUME NEW j \in Job
      PROVE  /\ onceRuns'[j] + pending'[j].once <= 1
             /\ onceRuns'[j] = 1 => j \in hasRun'
             /\ pending'[j].once = 1 => j \in oneOffFired'
    BY DEF OnceInv
  <2>1. onceRuns'[j] = onceRuns[j] /\ hasRun' = hasRun
    BY DEF Reload
  <2>2. oneOffFired' = oneOffFired \cup { i \in Job : Fires(i, c) }
    BY DEF Reload
  <2>3. CASE Fires(j, c)
    BY <1>1, <1>3, <2>1, <2>2, <2>3 DEF OnceInv, RunsOK, PendingType
  <2>4. CASE ~Fires(j, c)
    BY <1>3, <2>1, <2>2, <2>4 DEF OnceInv, RunsOK, PendingType
  <2>5. QED BY <2>3, <2>4
<1>6. QED BY <1>4, <1>5

LEMMA RunEndsWait ==
  ASSUME RunsOK, OnceInv, NEW j \in Job, NEW k \in {"once", "cron"},
         RunStarts(j, k) \/ RunGivesUp(j, k)
  PROVE  RunsOK' /\ OnceInv'
<1> USE DEF RunsOK, PendingType, schedVars
<1>1. pending[j][k] = 1
  <2>1. pending[j].once \in {0, 1} /\ pending[j].cron \in {0, 1}
    OBVIOUS
  <2>2. CASE k = "once" BY <2>1, <2>2 DEF RunStarts, RunGivesUp
  <2>3. CASE k = "cron" BY <2>1, <2>3 DEF RunStarts, RunGivesUp
  <2>4. QED BY <2>2, <2>3
<1>2. /\ pending' = [pending EXCEPT ![j][k] = 0]
      /\ oneOffFired' = oneOffFired
  BY <1>1 DEF RunStarts, RunGivesUp
<1>3. CASE k = "once"
  <2>1. pending' = [pending EXCEPT ![j] = [pending[j] EXCEPT !.once = 0]]
    BY <1>2, <1>3
  <2>2. onceRuns[j] = 0
    BY <1>1, <1>3 DEF OnceInv
  <2>3. \/ hasRun' = hasRun \cup {j} /\ onceRuns' = [onceRuns EXCEPT ![j] = 1]
        \/ hasRun' = hasRun /\ onceRuns' = onceRuns
    BY <1>3, <2>2 DEF RunStarts, RunGivesUp
  <2>4. RunsOK'
    BY <1>2, <2>1, <2>3
  <2>5. OnceInv'
    BY <1>2, <2>1, <2>2, <2>3 DEF OnceInv
  <2>6. QED BY <2>4, <2>5
<1>4. CASE k = "cron"
  <2>1. pending' = [pending EXCEPT ![j] = [pending[j] EXCEPT !.cron = 0]]
    BY <1>2, <1>4
  <2>2. onceRuns' = onceRuns /\ hasRun' \in {hasRun, hasRun \cup {j}}
    BY <1>4 DEF RunStarts, RunGivesUp
  <2>3. RunsOK'
    BY <1>2, <2>1, <2>2
  <2>4. \A i \in Job : pending'[i].once = pending[i].once
    BY <2>1
  <2>5. OnceInv'
    BY <1>2, <2>2, <2>4 DEF OnceInv
  <2>6. QED BY <2>3, <2>5
<1>5. QED BY <1>3, <1>4

-----------------------------------------------------------------------------

SchedulerInv == TypeOK /\ OnceInv /\ ScheduleMatches

LEMMA NothingPendingOK ==
  [j \in Job |-> [once |-> 0, cron |-> 0]] \in [Job -> PendingType]
<1>1. [once |-> 0, cron |-> 0] \in PendingType
  BY DEF PendingType
<1>2. QED BY <1>1

LEMMA InitInv == Init => SchedulerInv
<1> SUFFICES ASSUME Init PROVE SchedulerInv
  OBVIOUS
<1>1. TypeOK
  <2>1. AtRest \in ReloadType
    BY AbsentIsConf DEF AtRest, ReloadType
  <2>2. reload \in [Loader -> ReloadType]
    BY <2>1 DEF Init
  <2>3. \A c \in Contents : Valid(c) \in FileType
    BY SchedulerAssumption DEF Valid, FileType
  <2>4. file \in FileType /\ saving \in FileType
    BY <2>3, AbsentIsConf DEF Init, Missing, FileType
  <2>5. pending \in [Job -> PendingType]
    BY NothingPendingOK DEF Init
  <2>6. edits \in Nat /\ session \in Nat /\ queue \in Seq({"write", "remove"})
    BY DEF Init
  <2>7. cfgPtr \in Config /\ applied \in Config /\ entries \in Config
    BY AbsentIsConf DEF Init
  <2>8. onceRuns \in [Job -> Nat] /\ oneOffFired = {} /\ hasRun = {}
    BY DEF Init
  <2>9. watched = FALSE /\ timer = FALSE /\ daemon = "down"
    BY DEF Init
  <2>10. QED BY <2>2, <2>4, <2>5, <2>6, <2>7, <2>8, <2>9 DEF TypeOK
<1>2. OnceInv
  <2>1. ASSUME NEW j \in Job PROVE pending[j].once = 0 /\ onceRuns[j] = 0
    <3>1. pending[j] = [once |-> 0, cron |-> 0]
      BY DEF Init
    <3>2. QED BY <3>1 DEF Init
  <2>2. ASSUME NEW j \in Job PROVE onceRuns[j] + pending[j].once <= 1
    <3>1. onceRuns[j] = 0 /\ pending[j].once = 0
      BY <2>1
    <3>2. QED BY <3>1
  <2>3. ASSUME NEW j \in Job PROVE onceRuns[j] # 1 /\ pending[j].once # 1
    <3>1. onceRuns[j] = 0 /\ pending[j].once = 0
      BY <2>1
    <3>2. 0 # 1
      OBVIOUS
    <3>3. QED BY <3>1, <3>2
  <2>4. QED BY <2>2, <2>3 DEF OnceInv
<1>3. ScheduleMatches
  <2>1. \A j \in Job : applied[j] = Absent /\ entries[j] = Absent
    BY DEF Init, NoJobs
  <2>2. QED BY <2>1, AbsentIsConf DEF ScheduleMatches
<1>4. QED BY <1>1, <1>2, <1>3 DEF SchedulerInv

\* A reload keeps the invariant, whichever config it is called with.
LEMMA ReloadKeeps ==
  ASSUME TypeOK, OnceInv, ScheduleMatches, NEW c \in Config, Reload(c)
  PROVE  /\ RunsOK' /\ OnceInv' /\ ScheduleMatches'
         /\ applied' \in Config /\ entries' \in Config
<1>1. RunsOK' /\ OnceInv'
  BY ReloadRuns DEF TypeOK, RunsOK
<1>2. applied' = c /\ entries' = [j \in Job |-> EntryAfter(j, c)]
  BY DEF Reload
<1>3. entries \in Config
  BY DEF TypeOK
<1>4. entries' \in Config
  BY <1>2, <1>3, EntryAfterIsConf DEF Config
<1>5. ScheduleMatches'
  BY <1>2, <1>3, EntryAfterMatches DEF ScheduleMatches
<1>6. QED BY <1>1, <1>2, <1>4, <1>5

LEMMA NextInv == SchedulerInv /\ [Next]_vars => SchedulerInv'
<1> SUFFICES ASSUME TypeOK, OnceInv, ScheduleMatches, [Next]_vars
    PROVE  TypeOK' /\ OnceInv' /\ ScheduleMatches'
  BY DEF SchedulerInv
<1> USE DEF fileVars, watchVars, liveVars, schedVars, runVars
\* Editing and watching do not touch the schedule or the runs.
<1>1. ASSUME UNCHANGED << schedVars, runVars >> PROVE OnceInv' /\ ScheduleMatches'
  BY <1>1 DEF OnceInv, ScheduleMatches
<1>2. CASE Editing
  <2>1. UNCHANGED << timer, reload, liveVars, schedVars, runVars >> /\ edits' \in Nat
    BY <1>2 DEF Editing, Truncate, SaveByRename, Delete, WriteRest, Edit, TypeOK
  <2>2. \A f \in Saved : f \in FileType
    BY SchedulerAssumption, AbsentIsConf DEF Saved, Valid, Broken, FileType
  <2>3. /\ Valid(NoJobs) \in FileType
        /\ Missing \in FileType
    BY AbsentIsConf DEF Valid, Missing, FileType
  <2>4. /\ file' \in FileType
        /\ saving' \in FileType
    BY <1>2, <2>2, <2>3 DEF Editing, Truncate, SaveByRename, Delete, WriteRest, TypeOK
  <2>5. /\ queue' \in {queue, Append(queue, "write"), Append(queue, "remove")}
        /\ watched' \in BOOLEAN
    BY <1>2 DEF Editing, Truncate, SaveByRename, Delete, WriteRest, Notice, TypeOK
  <2>6. queue' \in Seq({"write", "remove"})
    <3>1. queue \in Seq({"write", "remove"}) BY DEF TypeOK
    <3>2. QED BY <2>5, <3>1
  <2>7. QED BY <1>1, <2>1, <2>4, <2>5, <2>6 DEF TypeOK
<1>3. CASE Watching
  <2>1. UNCHANGED << fileVars, liveVars, schedVars, runVars >>
    BY <1>3 DEF Watching, ReceiveWrite, ReceiveRemove, ReAdd
  <2>2. queue' \in Seq({"write", "remove"})
    <3>1. queue \in Seq({"write", "remove"}) BY DEF TypeOK
    <3>2. queue' = queue \/ (queue # << >> /\ queue' = Tail(queue))
      BY <1>3 DEF Watching, ReceiveWrite, ReceiveRemove, ReAdd, Receiving
    <3>3. QED BY <3>1, <3>2
  <2>3. reload' \in [Loader -> ReloadType]
    BY <1>3 DEF Watching, ReceiveWrite, ReceiveRemove, ReAdd, Loader, ReloadType, TypeOK
  <2>4. watched' \in BOOLEAN /\ timer' \in BOOLEAN
    BY <1>3 DEF Watching, ReceiveWrite, ReceiveRemove, ReAdd, TypeOK
  <2>5. QED BY <1>1, <2>1, <2>2, <2>3, <2>4 DEF TypeOK
<1>4. ASSUME NEW l \in Loader, Reloading(l)
      PROVE  TypeOK' /\ OnceInv' /\ ScheduleMatches'
  <2>1. CASE TimerFires(l)
    BY <1>1, <2>1 DEF TimerFires, ReloadType, TypeOK
  <2>2. CASE Load(l)
    BY <1>1, <2>2, AbsentIsConf DEF Load, AtRest, ReloadType, FileType, TypeOK
  <2>3. CASE Store(l)
    BY <1>1, <2>3 DEF Store, ReloadType, TypeOK
  <2>4. CASE Apply(l)
    <3>1. reload[l].cfg \in Config
      BY DEF TypeOK, ReloadType
    <3>2. Reload(reload[l].cfg)
      BY <2>4 DEF Apply
    <3>3. /\ RunsOK' /\ OnceInv' /\ ScheduleMatches'
          /\ applied' \in Config /\ entries' \in Config
      BY <3>1, <3>2, ReloadKeeps
    <3>4. reload' \in [Loader -> ReloadType]
      BY <2>4, AbsentIsConf DEF Apply, AtRest, ReloadType, TypeOK
    <3>5. QED BY <2>4, <3>3, <3>4 DEF Apply, TypeOK, RunsOK
  <2>5. QED BY <1>4, <2>1, <2>2, <2>3, <2>4 DEF Reloading
<1>5. CASE Process
  <2>1. CASE BootLoad
    <3>1. cfgPtr' \in Config /\ session' \in Nat
      BY <2>1 DEF BootLoad, TypeOK, FileType
    <3>2. QED BY <1>1, <2>1, <3>1 DEF BootLoad, TypeOK
  <2>2. CASE BootSchedule
    <3>1. cfgPtr \in Config /\ Reload(cfgPtr)
      BY <2>2 DEF BootSchedule, TypeOK
    <3>2. /\ RunsOK' /\ OnceInv' /\ ScheduleMatches'
          /\ applied' \in Config /\ entries' \in Config
      BY <3>1, ReloadKeeps
    <3>3. QED BY <2>2, <3>2 DEF BootSchedule, TypeOK, RunsOK
  <2>3. CASE BootWatch
    BY <1>1, <2>3 DEF BootWatch, TypeOK
  <2>4. CASE Exit
    <3>1. TypeOK'
      <4>1. AtRest \in ReloadType
        BY AbsentIsConf DEF AtRest, ReloadType
      <4>2. reload' \in [Loader -> ReloadType]
        BY <2>4, <4>1 DEF Exit
      <4>3. pending' \in [Job -> PendingType]
        BY <2>4, NothingPendingOK DEF Exit
      <4>4. queue' \in Seq({"write", "remove"})
        BY <2>4 DEF Exit
      <4>5. cfgPtr' \in Config /\ applied' \in Config /\ entries' \in Config
        BY <2>4, AbsentIsConf DEF Exit
      <4>6. /\ oneOffFired' = {} /\ daemon' = "down" /\ watched' = FALSE /\ timer' = FALSE
            /\ UNCHANGED << fileVars, session, hasRun, onceRuns >>
        BY <2>4 DEF Exit
      <4>7. QED BY <4>2, <4>3, <4>4, <4>5, <4>6 DEF TypeOK
    <3>2. OnceInv'
      <4>1. \A j \in Job : pending'[j].once = 0
        BY <2>4 DEF Exit
      <4>2. \A j \in Job : onceRuns[j] \in Nat /\ pending[j].once \in Nat
        BY DEF TypeOK, PendingType
      <4>3. QED BY <2>4, <4>1, <4>2 DEF Exit, OnceInv
    <3>3. \A j \in Job : applied'[j] = Absent /\ entries'[j] = Absent
      BY <2>4 DEF Exit, NoJobs
    <3>4. ScheduleMatches'
      BY <3>3, AbsentIsConf DEF ScheduleMatches
    <3>5. QED BY <3>1, <3>2, <3>4
  <2>5. QED BY <1>5, <2>1, <2>2, <2>3, <2>4 DEF Process
<1>6. ASSUME NEW j \in Job, CronFires(j)
      PROVE  TypeOK' /\ OnceInv' /\ ScheduleMatches'
  <2>1. pending' = [pending EXCEPT ![j] = [pending[j] EXCEPT !.cron = 1]]
    BY <1>6 DEF CronFires, TypeOK
  <2>2. TypeOK'
    <3>1. pending' \in [Job -> PendingType]
      BY <2>1 DEF TypeOK, PendingType
    <3>2. QED BY <1>6, <3>1 DEF CronFires, TypeOK
  <2>3. \A i \in Job : pending'[i].once = pending[i].once
    BY <2>1 DEF TypeOK, PendingType
  <2>4. QED BY <1>6, <2>2, <2>3 DEF CronFires, OnceInv, ScheduleMatches
<1>7. ASSUME NEW j \in Job, Forget(j)
      PROVE  TypeOK' /\ OnceInv' /\ ScheduleMatches'
  <2>0. onceRuns \in [Job -> Nat] /\ hasRun \in SUBSET Job
        /\ pending \in [Job -> PendingType]
    BY DEF TypeOK
  <2>1. TypeOK'
    <3>1. onceRuns' \in [Job -> Nat] /\ hasRun' \in SUBSET Job
      BY <1>7, <2>0 DEF Forget
    <3>2. QED BY <1>7, <3>1 DEF Forget, TypeOK
  <2>2. OnceInv'
    BY <1>7, <2>0 DEF Forget, OnceInv, PendingType
  <2>3. QED BY <1>7, <2>1, <2>2 DEF Forget, ScheduleMatches
<1>8. ASSUME NEW j \in Job, NEW k \in {"once", "cron"}, RunStarts(j, k) \/ RunGivesUp(j, k)
      PROVE  TypeOK' /\ OnceInv' /\ ScheduleMatches'
  <2>1. RunsOK' /\ OnceInv'
    BY <1>8, RunEndsWait DEF RunsOK, TypeOK
  <2>2. UNCHANGED << fileVars, watchVars, liveVars, schedVars >>
    BY <1>8 DEF RunStarts, RunGivesUp
  <2>3. QED BY <2>1, <2>2 DEF RunsOK, TypeOK, ScheduleMatches
<1>9. CASE UNCHANGED vars
  BY <1>1, <1>9 DEF vars, TypeOK
<1>10. QED BY <1>2, <1>3, <1>4, <1>5, <1>6, <1>7, <1>8, <1>9 DEF Next, Running

-----------------------------------------------------------------------------

LEMMA Invariant == Spec => []SchedulerInv
<1>1. QED BY InitInv, NextInv, PTL DEF Spec

\* The variables of Scheduler have the type stated there: in particular at most
\* one one-off run of a job is ever on its way (Scheduler.Reload).
THEOREM TypeCorrect == Spec => []TypeOK
<1>1. SchedulerInv => TypeOK
  BY DEF SchedulerInv
<1>2. QED BY <1>1, Invariant, PTL

\* The scheduled jobs of the config applied last fire on its schedules, and the jobs
\* it disables or does not have cannot fire, after any sequence of edits, reloads and
\* restarts; jobs that are one-offs in it are excepted (Scheduler.Reload).
THEOREM ScheduleFollows == Spec => []ScheduleMatches
<1>1. SchedulerInv => ScheduleMatches
  BY DEF SchedulerInv
<1>2. QED BY <1>1, Invariant, PTL

\* Between two forgets a one-off runs at most once (Scheduler.Reload, hasFired).
THEOREM OneOffOnce == Spec => []OneOffRunsOnce
<1>1. SchedulerInv => OneOffRunsOnce
  <2> SUFFICES ASSUME SchedulerInv, NEW j \in Job PROVE onceRuns[j] <= 1
    BY DEF OneOffRunsOnce
  <2>1. onceRuns[j] \in Nat /\ pending[j].once \in {0, 1}
    BY DEF SchedulerInv, TypeOK, PendingType
  <2>2. onceRuns[j] + pending[j].once <= 1
    BY DEF SchedulerInv, OnceInv
  <2>3. QED BY <2>1, <2>2
<1>2. QED BY <1>1, Invariant, PTL

-----------------------------------------------------------------------------
(* The watch.                                                               *)

\* An event that is to be received will have the watch added again.
Noticed(q) == \E i \in 1..Len(q) : q[i] = "remove"

LEMMA NoticedGrows ==
  ASSUME NEW q \in Seq({"write", "remove"}), NEW ev \in {"write", "remove"}
  PROVE  /\ Noticed(q) => Noticed(Append(q, ev))
         /\ Noticed(Append(q, "remove"))
<1>1. /\ Len(Append(q, ev)) = Len(q) + 1
      /\ \A i \in 1..Len(q) : Append(q, ev)[i] = q[i]
  OBVIOUS
<1>2. /\ Len(Append(q, "remove")) = Len(q) + 1
      /\ Append(q, "remove")[Len(q) + 1] = "remove" /\ Len(q) + 1 \in 1..(Len(q) + 1)
  OBVIOUS
<1>3. QED BY <1>1, <1>2 DEF Noticed

LEMMA NoticedShrinks ==
  ASSUME NEW q \in Seq({"write", "remove"}), q # << >>, Head(q) = "write", Noticed(q)
  PROVE  Noticed(Tail(q))
<1>1. PICK i \in 1..Len(q) : q[i] = "remove"
  BY DEF Noticed
<1>2. i # 1
  BY <1>1
<1>3. i - 1 \in 1..Len(Tail(q)) /\ Tail(q)[i - 1] = q[i]
  BY <1>2
<1>4. QED BY <1>1, <1>3 DEF Noticed

\* A step that loses the watch for good finds no file (Watch: the goroutine that
\* got a rename or a removal adds the watch again, unless the file is missing then).
LEMMA WatchStep ==
  TypeOK /\ [Next]_vars => (Up /\ ~WatchLost /\ WatchLost' => file = Missing)
<1> SUFFICES ASSUME TypeOK, [Next]_vars, Up, ~WatchLost, WatchLost', file # Missing
             PROVE  FALSE
  OBVIOUS
<1> USE DEF fileVars, watchVars, liveVars, schedVars, runVars
<1>1. /\ queue \in Seq({"write", "remove"}) /\ daemon = "up" /\ reload \in [Loader -> ReloadType]
      /\ Watcher \in Loader
  BY DEF TypeOK, Up, Loader
<1>2. watched \/ reload[Watcher].at = "sleep" \/ Noticed(queue)
  BY DEF WatchLost, Noticed
<1>3. ~watched' /\ reload'[Watcher].at # "sleep" /\ ~Noticed(queue') /\ daemon' = "up"
  BY DEF WatchLost, Noticed, Up
<1>4. ASSUME UNCHANGED << watched, queue >>,
             reload[Watcher].at = "sleep" => reload'[Watcher].at = "sleep"
      PROVE  FALSE
  BY <1>2, <1>3, <1>4
<1>5. CASE Editing
  <2>1. reload' = reload
    BY <1>5 DEF Editing, Truncate, SaveByRename, Delete, WriteRest, Edit
  <2>2. \/ watched' = watched /\ queue' = Notice("write")
        \/ watched' = FALSE /\ queue' = Notice("remove")
    BY <1>5 DEF Editing, Truncate, SaveByRename, Delete, WriteRest
  <2>3. QED BY <1>1, <1>2, <1>3, <2>1, <2>2, NoticedGrows DEF Notice
<1>6. CASE Watching
  <2>1. CASE ReceiveWrite
    <3>1. queue # << >> /\ Head(queue) = "write" /\ queue' = Tail(queue)
          /\ UNCHANGED << watched, reload >>
      BY <2>1 DEF ReceiveWrite, Receiving
    <3>2. QED BY <1>1, <1>2, <1>3, <3>1, NoticedShrinks
  <2>2. CASE ReceiveRemove
    BY <1>1, <1>3, <2>2 DEF ReceiveRemove, ReloadType
  <2>3. CASE ReAdd
    BY <1>3, <2>3 DEF ReAdd
  <2>4. QED BY <1>6, <2>1, <2>2, <2>3 DEF Watching
<1>7. ASSUME NEW l \in Loader, Reloading(l) PROVE FALSE
  <2>1. UNCHANGED << watched, queue >>
    BY <1>7 DEF Reloading, TimerFires, Load, Store, Apply
  <2>2. reload[l].at # "sleep" /\ \A k \in Loader : k # l => reload'[k] = reload[k]
    BY <1>1, <1>7 DEF Reloading, TimerFires, Load, Store, Apply
  <2>3. QED BY <1>1, <1>4, <2>1, <2>2
<1>8. CASE Process
  BY <1>1, <1>3, <1>8 DEF Process, BootLoad, BootSchedule, BootWatch, Exit
<1>9. CASE Running
  BY <1>4, <1>9 DEF Running, CronFires, Forget, RunStarts, RunGivesUp
<1>10. CASE UNCHANGED vars
  BY <1>4, <1>10 DEF vars
<1>11. QED BY <1>5, <1>6, <1>7, <1>8, <1>9, <1>10 DEF Next

\* The watch survives renames: it is lost only when there was no file to watch
\* (Watch).
THEOREM RenamesTracked == Spec => RenamesAreTracked
<1>1. TypeOK /\ [Next]_vars => [Up /\ ~WatchLost /\ WatchLost' => file = Missing]_vars
  BY WatchStep
<1>2. QED BY <1>1, TypeCorrect, PTL DEF Spec, RenamesAreTracked

=============================================================================
