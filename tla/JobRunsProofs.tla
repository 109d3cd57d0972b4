--------------------------- MODULE JobRunsProofs ---------------------------
(***************************************************************************)
(* What holds of JobRuns for any number of jobs, runs, connections and     *)
(* daemon restarts.                                                        *)
(***************************************************************************)
EXTENDS JobRuns, TLAPS

USE DEF rows

\* A goroutine, and a command that was checked, is about a job.
LaunchedInv ==
  /\ \A r \in Run : pc[r] # "idle" => job[r] \in Job
  /\ \A c \in Client : checked[c].op # "none" => checked[c].job \in Job

\* A setter changes one row: the daemon's, or the one in the memory of an inline run.
LEMMA RowWrite ==
  ASSUME TypeOK, NEW r \in Run, job[r] \in Job, NEW rw \in RowType, SetRow(r, rw)
  PROVE  /\ row' \in [Job -> RowType] /\ file' \in [Job -> RowType]
         /\ copy' \in [Run -> [Job -> RowType]] /\ refused' \in SUBSET Job
         /\ \A j \in Job : j # job[r] => row'[j] = row[j] /\ (j \in refused <=> j \in refused')
         /\ Mine(r) => row'[job[r]] = rw /\ file' = row' /\ copy' = copy
         /\ ~Mine(r) => /\ row' = row /\ refused' = refused
                        /\ copy'[r][job[r]] = rw /\ file' = copy'[r]
                        /\ \A q \in Run, j \in Job :
                             q # r \/ j # job[r] => copy'[q][j] = copy[q][j]
<1> USE DEF TypeOK, SetRow
<1>1. CASE Mine(r)
  <2>1. row' = [row EXCEPT ![job[r]] = rw] /\ file' = row' /\ copy' = copy
        /\ refused' = refused \ {job[r]}
    BY <1>1
  <2>2. QED BY <1>1, <2>1
<1>2. CASE ~Mine(r)
  <2>1. copy' = [copy EXCEPT ![r][job[r]] = rw] /\ file' = copy'[r] /\ row' = row
        /\ refused' = refused
    BY <1>2
  <2>2. copy' = [copy EXCEPT ![r] = [copy[r] EXCEPT ![job[r]] = rw]]
    BY <2>1
  <2>3. [copy[r] EXCEPT ![job[r]] = rw] \in [Job -> RowType]
    OBVIOUS
  <2>4. QED BY <1>2, <2>1, <2>2, <2>3
<1>3. QED BY <1>1, <1>2

\* What the setters write.
LEMMA RowsWritten ==
  ASSUME TypeOK, NEW r \in Run, job[r] \in Job
  PROVE  /\ Here(r) \in RowType /\ Pid(r) \in Nat
         /\ RunningRow(Here(r), Pid(r)) \in RowType
         /\ KeptRow(Here(r), job[r] \in KeepTree) \in RowType
         /\ KeptRow(Here(r), job[r] \in KeepTree).pid = Here(r).pid
         /\ KeptRow(Here(r), job[r] \in KeepTree).keep <=> job[r] \in KeepTree
         /\ [Here(r) EXCEPT !.tree = FALSE] \in RowType
         /\ DoneRow(Here(r)) \in RowType /\ DoneRow(Here(r)).pid = 0
         /\ \A rw \in { RunningRow(Here(r), Pid(r)), DoneRow(Here(r)) } :
              rw.tree = Here(r).tree /\ rw.keep = Here(r).keep
<1>1. Here(r) \in RowType
  BY DEF Here, TypeOK
<1>2. Pid(r) \in Nat
  BY ConstantsAssumption DEF Pid, InlinePid, TypeOK
<1>3. PICK keep \in BOOLEAN : keep <=> job[r] \in KeepTree
  OBVIOUS
<1>4. KeptRow(Here(r), job[r] \in KeepTree) = KeptRow(Here(r), keep)
  BY <1>3, Zenon
<1>5. PICK h \in RowType : h = Here(r)
  BY <1>1
<1>6. /\ KeptRow(h, keep) \in RowType /\ KeptRow(h, keep).pid = h.pid
      /\ KeptRow(h, keep).keep = keep
  BY DEF KeptRow, RowType
<1>7. /\ RunningRow(h, Pid(r)) \in RowType /\ DoneRow(h) \in RowType /\ DoneRow(h).pid = 0
      /\ [h EXCEPT !.tree = FALSE] \in RowType
      /\ RunningRow(h, Pid(r)).tree = h.tree /\ RunningRow(h, Pid(r)).keep = h.keep
      /\ DoneRow(h).tree = h.tree /\ DoneRow(h).keep = h.keep
  BY <1>2 DEF RunningRow, DoneRow, RowType
<1>8. /\ RunningRow(Here(r), Pid(r)) \in RowType /\ DoneRow(Here(r)) \in RowType
      /\ DoneRow(Here(r)).pid = 0 /\ [Here(r) EXCEPT !.tree = FALSE] \in RowType
      /\ \A rw \in { RunningRow(Here(r), Pid(r)), DoneRow(Here(r)) } :
           rw.tree = Here(r).tree /\ rw.keep = Here(r).keep
  BY <1>5, <1>7
<1>9. KeptRow(Here(r), keep) \in RowType /\ KeptRow(Here(r), keep).pid = Here(r).pid
      /\ (KeptRow(Here(r), keep).keep <=> keep)
  BY <1>5, <1>6
<1>10. QED BY <1>1, <1>2, <1>3, <1>4, <1>8, <1>9

\* Closing a row, or dropping it, gives a row.
LEMMA ClosedRow ==
  /\ EmptyRow \in RowType
  /\ \A rw \in RowType : /\ DoneRow(rw) \in RowType /\ DoneRow(rw).pid = 0
                         /\ DoneRow(rw).tree = rw.tree /\ DoneRow(rw).keep = rw.keep
BY DEF DoneRow, RowType, EmptyRow

LEMMA TypeStep == TypeOK /\ LaunchedInv /\ Next => TypeOK'
<1>1. ASSUME TypeOK, LaunchedInv, Next PROVE TypeOK'
  <2> USE <1>1 DEF TypeOK, Phase, Holding
  <2>1. CASE Launching
    <3>1. ASSUME NEW r \in Run, NEW j \in Job, CronFire(r, j) \/ ManualRun(r, j)
          PROVE  TypeOK'
      BY <3>1 DEF CronFire, ManualRun, Launch
    <3>2. ASSUME NEW c \in Client, NEW j \in Job, SubmitCheck(c, j)
          PROVE  TypeOK'
      BY <3>2 DEF SubmitCheck
    <3>3. ASSUME NEW c \in Client, NEW r \in Run, SubmitLaunch(c, r)
          PROVE  TypeOK'
      BY <3>3 DEF SubmitLaunch, Launch, Idle
    <3>4. ASSUME NEW r \in Run, NEW j \in Job, InlineRun(r, j) PROVE TypeOK'
      BY <3>4 DEF InlineRun, daemonVars
    <3>5. QED BY <2>1, <3>1, <3>2, <3>3, <3>4 DEF Launching
  <2>2. ASSUME NEW r \in Run, RunStep(r) PROVE TypeOK'
    <3> USE DEF Step, daemonVars, launchVars, rows, Returned
    <3>1. CASE Register(r) \/ JitterElapses(r) \/ JitterCancelled(r)
      BY <3>1 DEF Register, JitterElapses, JitterCancelled
    <3>2. CASE TakeLock(r) \/ SkipRun(r) \/ OpenLogFails(r)
      BY <3>2 DEF TakeLock, SkipRun, OpenLogFails
    <3>3. ASSUME NEW rw \in RowType, SetRow(r, rw), pc[r] # "idle" PROVE
              /\ row' \in [Job -> RowType] /\ file' \in [Job -> RowType]
              /\ copy' \in [Run -> [Job -> RowType]] /\ refused' \in SUBSET Job
      BY <3>3, RowWrite DEF LaunchedInv
    <3>4. CASE PublishStarted(r) \/ PreExecFails(r) \/ AgentReturns(r) \/ PostExec(r)
      BY <3>4 DEF PublishStarted, PreExecFails, AgentReturns, PostExec
    <3>5. CASE MakeTree(r) \/ RunInFolder(r)
      BY <3>5 DEF MakeTree, RunInFolder
    <3>6. CASE SetRunning(r) \/ SetWorktreeKept(r)
      BY <3>3, <3>6, RowsWritten DEF SetRunning, SetWorktreeKept, LaunchedInv
    <3>7. CASE RemoveTree(r) \/ RemoveTreeFails(r)
      BY <3>7 DEF RemoveTree, RemoveTreeFails
    <3>8. CASE ClearWorktreePath(r)
      BY <3>3, <3>8, RowsWritten DEF ClearWorktreePath, LaunchedInv
    <3>9. CASE SetDone(r)
      BY <3>3, <3>9, RowsWritten DEF SetDone, LaunchedInv
    <3>10. CASE PublishCompleted(r) \/ ReleaseLock(r) \/ Unregister(r)
      BY <3>10 DEF PublishCompleted, ReleaseLock, Unregister
    <3>11. QED
      BY <2>2, <3>1, <3>2, <3>4, <3>5, <3>6, <3>7, <3>8, <3>9, <3>10
         DEF RunStep
  <2>3. CASE Commands
    <3> USE DEF rows
    <3>1. ASSUME NEW j \in Job, StopJob(j) PROVE TypeOK'
      BY <3>1 DEF StopJob
    <3>2. ASSUME NEW c \in Client, NEW j \in Job, ForgetCheck(c, j) PROVE TypeOK'
      BY <3>2 DEF ForgetCheck
    <3>3. ASSUME NEW c \in Client, ForgetRemove(c) PROVE TypeOK'
      BY <3>3 DEF ForgetRemove, Idle, EmptyRow, RowType
    <3>4. ASSUME PruneRows PROVE TypeOK'
      BY <3>4 DEF PruneRows, Prunable, EmptyRow, RowType
    <3>5. ASSUME NEW j \in Job, PruneTree(j) PROVE TypeOK'
      BY <3>5 DEF PruneTree
    <3>6. QED BY <2>3, <3>1, <3>2, <3>3, <3>4, <3>5 DEF Commands
  <2>4. CASE DaemonStep
    <3> USE DEF runState, rows
    <3>1. ASSUME Terminate \/ CancelInFlight \/ AllDone \/ GraceExceeded PROVE TypeOK'
      BY <3>1 DEF Terminate, CancelInFlight, AllDone, GraceExceeded
    <3>2. ASSUME ProcessDies PROVE TypeOK'
      BY <3>2 DEF ProcessDies, Idle
    <3>3. ASSUME Restart PROVE TypeOK'
      <4>1. PICK Found \in SUBSET Job :
              /\ waiter' = [j \in Job |->
                              IF j \in Found /\ lock[j] = NoRun THEN "waiting" ELSE "none"]
              /\ refused' = { j \in Found : lock[j] # NoRun }
              /\ row' = [j \in Job |-> IF j \in Found THEN file[j] ELSE DoneRow(file[j])]
              /\ file' = row'
        BY <3>3 DEF Restart
      <4>2. \A j \in Job : DoneRow(file[j]) \in RowType
        BY ClosedRow
      <4>3. row' \in [Job -> RowType] /\ refused' \in SUBSET Job
        BY <4>1, <4>2
      <4>4. waiter' \in [Job -> { "none", "waiting", "exited" }]
        BY <4>1
      <4>5. QED BY <3>3, <4>1, <4>3, <4>4 DEF Restart
    <3>4. ASSUME NEW r \in Run, OrphanExits(r) PROVE TypeOK'
      BY <3>4 DEF OrphanExits
    <3>5. ASSUME NEW j \in Job, WaiterDone(j) PROVE TypeOK'
      <4>1. row' = [row EXCEPT ![j] = DoneRow(row[j])] /\ row[j] \in RowType /\ file' = row'
            /\ waiter' = [waiter EXCEPT ![j] = "exited"]
        BY <3>5 DEF WaiterDone
      <4>2. row' \in [Job -> RowType]
        BY <4>1, ClosedRow
      <4>3. QED BY <3>5, <4>1, <4>2 DEF WaiterDone
    <3>6. ASSUME NEW j \in Job, WaiterReleases(j) PROVE TypeOK'
      BY <3>6 DEF WaiterReleases
    <3>7. ASSUME NEW r \in Run, InlineDies(r) PROVE TypeOK'
      BY <3>7 DEF InlineDies, launchVars
    <3>8. QED
      BY <2>4, <3>1, <3>2, <3>3, <3>4, <3>5, <3>6, <3>7 DEF DaemonStep, Exit, Crash
  <2>5. QED BY <2>1, <2>2, <2>3, <2>4 DEF Next
<1>2. QED BY <1>1

LEMMA LaunchedInit == Init => LaunchedInv
BY DEF Init, LaunchedInv, Idle

LEMMA LaunchedStep == TypeOK /\ LaunchedInv /\ [Next]_vars => LaunchedInv'
<1> SUFFICES ASSUME TypeOK, LaunchedInv, [Next]_vars PROVE LaunchedInv'
  OBVIOUS
<1>0. /\ pc \in [Run -> Phase] /\ job \in [Run -> Job \cup {NoJob}]
      /\ checked \in [Client -> [op : { "none", "submit", "forget" }, job : Job \cup {NoJob}]]
  BY DEF TypeOK
<1> USE <1>0 DEF LaunchedInv, Phase, Holding
<1>1. CASE Launching
  BY <1>1 DEF Launching, CronFire, ManualRun, InlineRun, SubmitCheck, SubmitLaunch, Launch, Idle, daemonVars
<1>2. ASSUME NEW r \in Run, RunStep(r) PROVE LaunchedInv'
  BY <1>2 DEF RunStep, Step, daemonVars, launchVars, Register, JitterElapses,
    JitterCancelled, TakeLock, SkipRun, OpenLogFails, SetRunning, PublishStarted,
    PreExecFails, MakeTree, RunInFolder, SetWorktreeKept, AgentReturns, PostExec,
    RemoveTree, RemoveTreeFails, ClearWorktreePath, SetDone, PublishCompleted,
    ReleaseLock, Unregister
<1>3. CASE Commands
  BY <1>3 DEF Commands, StopJob, ForgetCheck, ForgetRemove, PruneRows, PruneTree, Idle
<1>4. CASE DaemonStep
  <2>1. CASE ProcessDies
    BY <2>1 DEF ProcessDies, Waited, Active, Idle
  <2>2. ASSUME NEW r \in Run, InlineDies(r) PROVE LaunchedInv'
    BY <2>2 DEF InlineDies, launchVars, Active
  <2>3. CASE UNCHANGED << pc, job, checked >>
    BY <2>3
  <2>4. QED
    BY <1>4, <2>1, <2>2, <2>3 DEF DaemonStep, Terminate, CancelInFlight, AllDone,
      GraceExceeded, Exit, Crash, Restart, OrphanExits, WaiterDone, WaiterReleases, runState
<1>5. CASE UNCHANGED vars
  BY <1>5 DEF vars
<1>6. QED BY <1>1, <1>2, <1>3, <1>4, <1>5 DEF Next

LEMMA WellTyped == Spec => [](TypeOK /\ LaunchedInv)
<1>1. Init => TypeOK
  BY ConstantsAssumption DEF Init, TypeOK, Phase, Holding, EmptyRow, RowType, Idle
<1>2. TypeOK /\ UNCHANGED vars => TypeOK'
  BY DEF TypeOK, vars
<1>3. QED BY <1>1, <1>2, TypeStep, LaunchedInit, LaunchedStep, PTL DEF Spec

\* The variables of JobRuns always have the type stated there: in particular a
\* row is always a whole row and a lock names a run (state.go, lock.go).
THEOREM TypeCorrect == Spec => []TypeOK
BY WellTyped, PTL

-----------------------------------------------------------------------------
(* The inductive invariant.                                                 *)

\* The flock of a job is held by exactly the run between Lock and release, and
\* a daemon that is gone left no goroutine of its own behind.
LockInv ==
  /\ \A r \in Run : pc[r] \in Holding => lock[job[r]] = r
  /\ \A j \in Job : lock[j] # NoRun =>
       pc[lock[j]] \in Holding /\ job[lock[j]] = j /\ waiter[j] = "none"
  /\ daemon = "down" => \A r \in Run : ~Waited(r)

LEMMA LockInit == Init => LockInv
BY ConstantsAssumption DEF Init, LockInv, Holding, Active

LEMMA LockStep ==
  TypeOK /\ LaunchedInv /\ LockInv /\ [Next]_vars => LockInv'
<1> SUFFICES ASSUME TypeOK, LaunchedInv, LockInv, [Next]_vars PROVE LockInv'
  OBVIOUS
<1>0. /\ pc \in [Run -> Phase] /\ job \in [Run -> Job \cup {NoJob}]
      /\ origin \in [Run -> { "none", "cron", "manual", "submit", "inline" }]
      /\ lock \in [Job -> Run \cup {NoRun}]
  BY DEF TypeOK
<1> USE <1>0, ConstantsAssumption
    DEF LaunchedInv, LockInv, Phase, Holding, Active, Waited, Mine
<1>1. CASE Launching
  <2>1. ASSUME NEW r \in Run, NEW j, NEW o, Launch(r, j, o), Alive PROVE LockInv'
    BY <2>1 DEF Launch, Alive
  <2>2. ASSUME NEW r \in Run, NEW j \in Job, InlineRun(r, j) PROVE LockInv'
    BY <2>2 DEF InlineRun, daemonVars
  <2>3. CASE \E c \in Client, j \in Job : SubmitCheck(c, j)
    BY <2>3 DEF SubmitCheck
  <2>4. QED
    BY <1>1, <2>1, <2>2, <2>3 DEF Launching, CronFire, ManualRun, SubmitLaunch
<1>2. ASSUME NEW r \in Run, RunStep(r) PROVE LockInv'
  <2> USE DEF Step, daemonVars, launchVars, Alive, Returned
  <2>1. CASE Register(r) \/ JitterElapses(r) \/ JitterCancelled(r) \/ SkipRun(r)
    BY <2>1 DEF Register, JitterElapses, JitterCancelled, SkipRun
  <2>2. CASE TakeLock(r)
    BY <2>2 DEF TakeLock, LockFree
  <2>3. CASE OpenLogFails(r) \/ SetRunning(r) \/ PublishStarted(r) \/ PreExecFails(r)
    BY <2>3 DEF OpenLogFails, SetRunning, PublishStarted, PreExecFails
  <2>4. CASE MakeTree(r) \/ RunInFolder(r) \/ SetWorktreeKept(r) \/ AgentReturns(r)
    BY <2>4 DEF MakeTree, RunInFolder, SetWorktreeKept, AgentReturns
  <2>5. CASE PostExec(r) \/ RemoveTree(r) \/ RemoveTreeFails(r)
    BY <2>5 DEF PostExec, RemoveTree, RemoveTreeFails
  <2>6. CASE ClearWorktreePath(r) \/ SetDone(r) \/ PublishCompleted(r)
    BY <2>6 DEF ClearWorktreePath, SetDone, PublishCompleted
  <2>7. CASE ReleaseLock(r)
    BY <2>7 DEF ReleaseLock
  <2>8. CASE Unregister(r)
    BY <2>8 DEF Unregister
  <2>9. QED
    BY <1>2, <2>1, <2>2, <2>3, <2>4, <2>5, <2>6, <2>7, <2>8 DEF RunStep
<1>3. CASE Commands
  BY <1>3 DEF Commands, StopJob, ForgetCheck, ForgetRemove, PruneRows, PruneTree
<1>4. CASE DaemonStep
  <2>1. CASE Terminate \/ CancelInFlight \/ AllDone \/ GraceExceeded
    BY <2>1 DEF Terminate, CancelInFlight, AllDone, GraceExceeded, runState
  <2>2. CASE ProcessDies
    BY <2>2 DEF ProcessDies
  <2>3. CASE Restart
    BY <2>3 DEF Restart
  <2>4. ASSUME NEW r \in Run, OrphanExits(r) PROVE LockInv'
    BY <2>4 DEF OrphanExits, runState
  <2>5. ASSUME NEW j \in Job, WaiterDone(j) PROVE LockInv'
    BY <2>5 DEF WaiterDone
  <2>6. ASSUME NEW j \in Job, WaiterReleases(j) PROVE LockInv'
    BY <2>6 DEF WaiterReleases, runState
  <2>7. ASSUME NEW r \in Run, InlineDies(r) PROVE LockInv'
    BY <2>7 DEF InlineDies, launchVars
  <2>8. QED
    BY <1>4, <2>1, <2>2, <2>3, <2>4, <2>5, <2>6, <2>7 DEF DaemonStep, Exit, Crash
<1>5. CASE UNCHANGED vars
  BY <1>5 DEF vars
<1>6. QED BY <1>1, <1>2, <1>3, <1>4, <1>5 DEF Next

\* Whatever is launched, stopped, forgotten, pruned, crashed or restarted, no two
\* runs of a job execute at once, nor one while its lock is held for an orphan.
THEOREM MutualExclusionHolds == Spec => []MutualExclusion
<1>1. TypeOK /\ LaunchedInv /\ LockInv => MutualExclusion
  BY ConstantsAssumption DEF TypeOK, LaunchedInv, LockInv, MutualExclusion, Holding
<1>2. QED
  BY <1>1, WellTyped, LockInit, LockStep, PTL DEF Spec

-----------------------------------------------------------------------------

\* Only runs of the daemon are in its table, or wait to leave it.
CancelsInv ==
  /\ CancelsAreLive /\ StopReachesAlone
  /\ \A j \in Job : cancels[j] # NoRun => Mine(cancels[j])
  /\ \A r \in Run : pc[r] \in { "spawned", "jitter", "unregister" } => Mine(r)

LEMMA CancelsStep ==
  TypeOK /\ LaunchedInv /\ CancelsInv /\ [Next]_vars => CancelsInv'
<1> SUFFICES ASSUME TypeOK, LaunchedInv, CancelsInv, [Next]_vars
             PROVE  CancelsInv'
  OBVIOUS
<1>0. /\ pc \in [Run -> Phase] /\ job \in [Run -> Job \cup {NoJob}]
      /\ origin \in [Run -> { "none", "cron", "manual", "submit", "inline" }]
      /\ cancels \in [Job -> Run \cup {NoRun}]
  BY DEF TypeOK
<1> USE <1>0, ConstantsAssumption
    DEF LaunchedInv, CancelsInv, CancelsAreLive, StopReachesAlone, Phase, Holding,
        Active, Waited, Mine
<1>1. CASE Launching
  BY <1>1 DEF Launching, CronFire, ManualRun, InlineRun, SubmitCheck, SubmitLaunch, Launch,
    daemonVars
<1>2. ASSUME NEW r \in Run, RunStep(r) PROVE CancelsInv'
  <2> USE DEF Step, daemonVars, launchVars, Returned
  <2>1. CASE Register(r)
    BY <2>1 DEF Register
  <2>2. CASE Unregister(r)
    BY <2>2 DEF Unregister
  <2>3. CASE JitterElapses(r) \/ JitterCancelled(r) \/ TakeLock(r) \/ SkipRun(r)
    BY <2>3 DEF JitterElapses, JitterCancelled, TakeLock, SkipRun
  <2>4. CASE OpenLogFails(r) \/ SetRunning(r) \/ PublishStarted(r) \/ PreExecFails(r)
    BY <2>4 DEF OpenLogFails, SetRunning, PublishStarted, PreExecFails
  <2>5. CASE MakeTree(r) \/ RunInFolder(r) \/ SetWorktreeKept(r) \/ AgentReturns(r)
    BY <2>5 DEF MakeTree, RunInFolder, SetWorktreeKept, AgentReturns
  <2>6. CASE PostExec(r) \/ RemoveTree(r) \/ RemoveTreeFails(r)
    BY <2>6 DEF PostExec, RemoveTree, RemoveTreeFails
  <2>7. CASE ClearWorktreePath(r) \/ SetDone(r) \/ PublishCompleted(r) \/ ReleaseLock(r)
    BY <2>7 DEF ClearWorktreePath, SetDone, PublishCompleted, ReleaseLock
  <2>8. QED
    BY <1>2, <2>1, <2>2, <2>3, <2>4, <2>5, <2>6, <2>7 DEF RunStep
<1>3. CASE Commands
  BY <1>3 DEF Commands, StopJob, ForgetCheck, ForgetRemove, PruneRows, PruneTree
<1>4. CASE DaemonStep
  <2>1. CASE Terminate \/ CancelInFlight \/ AllDone \/ GraceExceeded \/ ProcessDies \/ Restart
    BY <2>1 DEF Terminate, CancelInFlight, AllDone, GraceExceeded, ProcessDies, Restart,
      runState
  <2>2. ASSUME NEW r \in Run, InlineDies(r) PROVE CancelsInv'
    BY <2>2 DEF InlineDies, launchVars
  <2>3. CASE UNCHANGED << pc, job, origin, cancels >>
    BY <2>3
  <2>4. QED
    BY <1>4, <2>1, <2>2, <2>3 DEF DaemonStep, Exit, Crash, OrphanExits, WaiterDone,
      WaiterReleases, runState
<1>5. CASE UNCHANGED vars
  BY <1>5 DEF vars
<1>6. QED BY <1>1, <1>2, <1>3, <1>4, <1>5 DEF Next

LEMMA CancelsAlways == Spec => []CancelsInv
<1>1. Init => CancelsInv
  BY DEF Init, CancelsInv, CancelsAreLive, StopReachesAlone, Waited, Active
<1>2. QED BY <1>1, WellTyped, CancelsStep, PTL DEF Spec

\* However many runs of a job overwrite and delete its entry in the cancel table,
\* an entry is never that of a run that is over (runJob, stopJob).
THEOREM CancelsAreLiveHolds == Spec => []CancelsAreLive
<1>1. CancelsInv => CancelsAreLive
  BY DEF CancelsInv
<1>2. QED BY <1>1, CancelsAlways, PTL

\* A run that is alone for its job is the one that stop and shutdown reach, from its
\* registration to its end (runJob, stopJob).
THEOREM StopReachesAloneHolds == Spec => []StopReachesAlone
<1>1. CancelsInv => StopReachesAlone
  BY DEF CancelsInv
<1>2. QED BY <1>1, CancelsAlways, PTL

-----------------------------------------------------------------------------

\* Somebody finishes the row, or the reconciliation could not get the lock.
Finished(j) ==
  \/ waiter[j] = "waiting"
  \/ \E r \in Run : lock[j] = r /\ pc[r] \in Recorded /\ Mine(r)
  \/ j \in refused

LEMMA StuckStep ==
  TypeOK /\ LaunchedInv /\ LockInv /\ NoStuckRow /\ [Next]_vars => NoStuckRow'
<1> SUFFICES ASSUME TypeOK, LaunchedInv, LockInv, NoStuckRow, [Next]_vars,
                    daemon' = "up", NEW j \in Job, row'[j].pid # 0
             PROVE  Finished(j)'
  BY DEF NoStuckRow, Finished, Mine
<1>0. /\ pc \in [Run -> Phase] /\ job \in [Run -> Job \cup {NoJob}]
      /\ origin \in [Run -> { "none", "cron", "manual", "submit", "inline" }]
      /\ lock \in [Job -> Run \cup {NoRun}]
      /\ waiter \in [Job -> { "none", "waiting", "exited" }]
  BY DEF TypeOK
<1> USE <1>0, ConstantsAssumption DEF NoStuckRow, Phase, Holding, Recorded, Finished, Mine
<1>1. CASE Launching
  BY <1>1 DEF Launching, CronFire, ManualRun, InlineRun, SubmitCheck, SubmitLaunch, Launch,
    daemonVars
<1>2. ASSUME NEW r \in Run, RunStep(r) PROVE Finished(j)'
  <2> USE DEF Step, daemonVars, launchVars, Returned, LaunchedInv, LockInv
  <2>1. CASE Register(r) \/ JitterElapses(r) \/ JitterCancelled(r) \/ SkipRun(r)
    BY <2>1 DEF Register, JitterElapses, JitterCancelled, SkipRun
  <2>2. CASE TakeLock(r)
    BY <2>2 DEF TakeLock, LockFree
  <2>3. CASE OpenLogFails(r)
    BY <2>3 DEF OpenLogFails
  <2>4. ASSUME NEW rw \in RowType, SetRow(r, rw), pc[r] \in Holding, pc'[r] \in Recorded,
               UNCHANGED << daemon, waiter, lock, job, origin >>,
               \A q \in Run : q # r => pc'[q] = pc[q]
        PROVE  Finished(j)'
    <3>1. job[r] \in Job /\ lock[job[r]] = r
      BY <2>4
    <3>2. /\ j # job[r] => row'[j] = row[j] /\ (j \in refused <=> j \in refused')
          /\ ~Mine(r) => row' = row /\ refused' = refused
      BY <2>4, <3>1, RowWrite
    <3>3. CASE j = job[r] /\ Mine(r)
      BY <2>4, <3>1, <3>3
    <3>4. CASE j # job[r] \/ ~Mine(r)
      BY <2>4, <3>1, <3>2, <3>4
    <3>5. QED BY <3>3, <3>4
  <2>5. CASE SetRunning(r) \/ SetWorktreeKept(r) \/ ClearWorktreePath(r)
    BY <2>4, <2>5, RowsWritten DEF SetRunning, SetWorktreeKept, ClearWorktreePath
  <2>6. CASE PublishStarted(r) \/ PreExecFails(r) \/ AgentReturns(r) \/ PostExec(r)
    BY <2>6 DEF PublishStarted, PreExecFails, AgentReturns, PostExec
  <2>7. CASE MakeTree(r) \/ RunInFolder(r) \/ RemoveTree(r) \/ RemoveTreeFails(r)
    BY <2>7 DEF MakeTree, RunInFolder, RemoveTree, RemoveTreeFails
  <2>8. CASE SetDone(r)
    <3>1. job[r] \in Job /\ SetRow(r, DoneRow(Here(r))) /\ DoneRow(Here(r)) \in RowType
          /\ DoneRow(Here(r)).pid = 0
      BY <2>8, RowsWritten DEF SetDone
    <3>2. /\ j # job[r] => row'[j] = row[j] /\ (j \in refused <=> j \in refused')
          /\ Mine(r) => row'[job[r]].pid = 0
          /\ ~Mine(r) => row' = row /\ refused' = refused
      BY <3>1, RowWrite
    <3>3. QED BY <2>8, <3>1, <3>2 DEF SetDone
  <2>9. CASE PublishCompleted(r) \/ ReleaseLock(r) \/ Unregister(r)
    BY <2>9 DEF PublishCompleted, ReleaseLock, Unregister
  <2>10. QED
    BY <1>2, <2>1, <2>2, <2>3, <2>5, <2>6, <2>7, <2>8, <2>9 DEF RunStep
<1>3. CASE Commands
  <2>1. UNCHANGED << daemon, waiter, lock, pc, origin, refused >>
    BY <1>3 DEF Commands, StopJob, ForgetCheck, ForgetRemove, PruneRows, PruneTree
  <2>2. row'[j].pid = row[j].pid \/ row'[j].pid = 0
    <3>1. row \in [Job -> RowType]
      BY DEF TypeOK
    <3>2. ASSUME NEW c \in Client, ForgetRemove(c)
          PROVE  row'[j].pid = row[j].pid \/ row'[j].pid = 0
      BY <3>1, <3>2 DEF ForgetRemove, EmptyRow
    <3>3. CASE PruneRows
      BY <3>1, <3>3 DEF PruneRows, EmptyRow
    <3>4. QED
      BY <1>3, <3>2, <3>3 DEF Commands, StopJob, ForgetCheck, PruneTree
  <2>3. QED BY <2>1, <2>2
<1>4. CASE DaemonStep
  <2>1. CASE Terminate \/ CancelInFlight \/ AllDone \/ GraceExceeded \/ ProcessDies
    BY <2>1 DEF Terminate, CancelInFlight, AllDone, GraceExceeded, ProcessDies
  <2>2. CASE Restart
    <3>1. PICK Found \in SUBSET Job :
            /\ waiter' = [i \in Job |->
                            IF i \in Found /\ lock[i] = NoRun THEN "waiting" ELSE "none"]
            /\ refused' = { i \in Found : lock[i] # NoRun }
            /\ row' = [i \in Job |-> IF i \in Found THEN file[i] ELSE DoneRow(file[i])]
      BY <2>2 DEF Restart
    <3>2. DoneRow(file[j]).pid = 0
      BY DEF DoneRow, TypeOK, RowType
    <3>3. QED BY <3>1, <3>2
  <2>3. ASSUME NEW q \in Run, OrphanExits(q) PROVE waiter' = waiter /\ UNCHANGED runState
    BY <2>3 DEF OrphanExits
  <2>4. ASSUME NEW i \in Job, WaiterDone(i) \/ WaiterReleases(i)
        PROVE  Finished(j)'
    <3>1. CASE WaiterReleases(i)
      BY <2>4, <3>1 DEF WaiterReleases, runState
    <3>2. CASE WaiterDone(i)
      <4>1. row' = [row EXCEPT ![i] = DoneRow(row[i])] /\ row \in [Job -> RowType]
        BY <3>2 DEF WaiterDone, TypeOK
      <4>2. j # i => row'[j] = row[j]
        BY <4>1
      <4>3. row'[i].pid = 0
        BY <4>1 DEF DoneRow, RowType
      <4>4. QED BY <3>2, <4>2, <4>3 DEF WaiterDone
    <3>3. QED BY <2>4, <3>1, <3>2
  <2>5. ASSUME NEW q \in Run, InlineDies(q) PROVE Finished(j)'
    BY <2>5 DEF InlineDies, launchVars
  <2>6. QED
    BY <1>4, <2>1, <2>2, <2>3, <2>4, <2>5
       DEF DaemonStep, Exit, Crash, OrphanExits, runState
<1>5. CASE UNCHANGED vars
  BY <1>5 DEF vars
<1>6. QED BY <1>1, <1>2, <1>3, <1>4, <1>5 DEF Next

\* A daemon that is up shows a job as running with nobody to finish it only where an
\* inline run had the lock when it started; else forget and submit are never refused for
\* good (reconcileOrphans, SetDone).
THEOREM NoStuckRowHolds == Spec => []NoStuckRow
<1>1. Init => NoStuckRow
  BY DEF Init, NoStuckRow, EmptyRow
<1>2. QED
  BY <1>1, WellTyped, LockInit, LockStep, StuckStep,
     PTL DEF Spec

-----------------------------------------------------------------------------

\* A run says nothing before it is started, nor an inline run ever, and its row is
\* closed from SetDone on.
ClosedInv ==
  /\ \A r \in Run :
       pc[r] \in { "idle", "spawned", "jitter", "lock", "start", "announce" } =>
         emitted[r] = "none"
  /\ \A r \in Run : ~Mine(r) => emitted[r] = "none"
  /\ \A r \in Run : pc[r] = "publish" /\ Mine(r) => row[job[r]].pid = 0
  /\ RowClosedAtCompletion

\* Recording a worktree or its removal leaves the pids alone.
LEMMA PidKept ==
  ASSUME TypeOK, LaunchedInv, NEW r \in Run, SetWorktreeKept(r) \/ ClearWorktreePath(r)
  PROVE  \A j \in Job : row'[j].pid = row[j].pid
<1>1. job[r] \in Job
  BY DEF SetWorktreeKept, ClearWorktreePath, Step, LaunchedInv
<1>2. PICK rw \in RowType : SetRow(r, rw) /\ rw.pid = Here(r).pid
  <2>1. [Here(r) EXCEPT !.tree = FALSE].pid = Here(r).pid
    BY <1>1, RowsWritten DEF RowType
  <2>2. QED BY <1>1, <2>1, RowsWritten DEF SetWorktreeKept, ClearWorktreePath
<1>3. /\ \A j \in Job : j # job[r] => row'[j] = row[j]
      /\ Mine(r) => row'[job[r]] = rw
      /\ ~Mine(r) => row' = row
  BY <1>1, <1>2, RowWrite
<1>4. Mine(r) => Here(r) = row[job[r]]
  BY DEF Here
<1>5. QED BY <1>1, <1>2, <1>3, <1>4

LEMMA ClosedStep ==
  TypeOK /\ LaunchedInv /\ LockInv /\ ClosedInv /\ [Next]_vars => ClosedInv'
<1> SUFFICES ASSUME TypeOK, LaunchedInv, LockInv, ClosedInv, [Next]_vars
             PROVE  ClosedInv'
  OBVIOUS
<1>0. /\ pc \in [Run -> Phase] /\ job \in [Run -> Job \cup {NoJob}]
      /\ origin \in [Run -> { "none", "cron", "manual", "submit", "inline" }]
      /\ emitted \in [Run -> { "none", "started", "completed" }]
  BY DEF TypeOK
<1> USE <1>0, ConstantsAssumption
    DEF Phase, ClosedInv, RowClosedAtCompletion, Holding, Mine
<1>1. CASE Launching
  <2>1. UNCHANGED << row, emitted >>
    BY <1>1 DEF Launching, CronFire, ManualRun, InlineRun, SubmitCheck, SubmitLaunch, Launch
  <2>2. CASE \E c \in Client, j \in Job : SubmitCheck(c, j)
    BY <2>1, <2>2 DEF SubmitCheck
  <2>3. ASSUME NEW r \in Run, NEW j, NEW o, Launch(r, j, o), o # "inline"
        PROVE  ClosedInv'
    <3>1. \A q \in Run : q # r => /\ pc'[q] = pc[q] /\ job'[q] = job[q]
                                 /\ origin'[q] = origin[q]
      BY <2>3 DEF Launch
    <3>2. pc'[r] = "spawned" /\ emitted'[r] = "none"
      BY <2>1, <2>3 DEF Launch
    <3>3. QED BY <2>1, <3>1, <3>2
  <2>4. ASSUME NEW r \in Run, NEW j \in Job, InlineRun(r, j) PROVE ClosedInv'
    <3>1. \A q \in Run : q # r => /\ pc'[q] = pc[q] /\ job'[q] = job[q]
                                 /\ origin'[q] = origin[q]
      BY <2>4 DEF InlineRun
    <3>2. pc'[r] = "lock" /\ emitted'[r] = "none"
      BY <2>1, <2>4 DEF InlineRun
    <3>3. QED BY <2>1, <3>1, <3>2
  <2>5. QED
    BY <1>1, <2>2, <2>3, <2>4 DEF Launching, CronFire, ManualRun, SubmitLaunch
<1>2. ASSUME NEW r \in Run, RunStep(r) PROVE ClosedInv'
  <2> USE DEF Step, daemonVars, launchVars, Returned, LaunchedInv, LockInv
  <2>0. \A q \in Run : pc[q] \in Holding /\ pc[r] \in Holding /\ job[q] = job[r] => q = r
    OBVIOUS
  <2>1. CASE Register(r) \/ JitterElapses(r) \/ JitterCancelled(r) \/ SkipRun(r)
    BY <2>1 DEF Register, JitterElapses, JitterCancelled, SkipRun
  <2>2. CASE TakeLock(r) \/ OpenLogFails(r)
    BY <2>2 DEF TakeLock, OpenLogFails
  <2>3. CASE SetRunning(r)
    <3>1. job[r] \in Job /\ SetRow(r, RunningRow(Here(r), Pid(r)))
          /\ RunningRow(Here(r), Pid(r)) \in RowType
      BY <2>3, RowsWritten DEF SetRunning
    <3>2. \A q \in Run : pc[q] \in Holding /\ q # r => row'[job[q]] = row[job[q]]
      BY <2>0, <2>3, <3>1, RowWrite DEF SetRunning
    <3>3. QED BY <2>3, <3>2 DEF SetRunning
  <2>4. CASE PublishStarted(r) \/ PreExecFails(r) \/ AgentReturns(r) \/ PostExec(r)
    BY <2>4 DEF PublishStarted, PreExecFails, AgentReturns, PostExec
  <2>5. CASE MakeTree(r) \/ RunInFolder(r) \/ RemoveTree(r) \/ RemoveTreeFails(r)
    BY <2>5 DEF MakeTree, RunInFolder, RemoveTree, RemoveTreeFails
  <2>6. CASE SetWorktreeKept(r) \/ ClearWorktreePath(r)
    <3>1. \A j \in Job : row'[j].pid = row[j].pid
      BY <2>6, PidKept DEF SetWorktreeKept, ClearWorktreePath
    <3>2. /\ UNCHANGED << job, origin, emitted >>
          /\ \E p \in { "agent", "finish" } : pc' = [pc EXCEPT ![r] = p]
      BY <2>6 DEF SetWorktreeKept, ClearWorktreePath
    <3>3. QED BY <3>1, <3>2
  <2>7. CASE SetDone(r)
    <3>1. job[r] \in Job /\ SetRow(r, DoneRow(Here(r))) /\ DoneRow(Here(r)) \in RowType
          /\ DoneRow(Here(r)).pid = 0
      BY <2>7, RowsWritten DEF SetDone
    <3>2. /\ \A j \in Job : row'[j] = row[j] \/ row'[j].pid = 0
          /\ Mine(r) => row'[job[r]].pid = 0
      BY <3>1, RowWrite
    <3>3. QED BY <2>7, <3>2 DEF SetDone
  <2>8. CASE PublishCompleted(r) \/ ReleaseLock(r) \/ Unregister(r)
    BY <2>8 DEF PublishCompleted, ReleaseLock, Unregister
  <2>9. QED
    BY <1>2, <2>1, <2>2, <2>3, <2>4, <2>5, <2>6, <2>7, <2>8 DEF RunStep
<1>3. CASE Commands
  <2>1. \A j \in Job : row[j].pid = 0 => row'[j].pid = 0
    <3>1. row \in [Job -> RowType]
      BY DEF TypeOK
    <3>2. ASSUME NEW c \in Client, ForgetRemove(c)
          PROVE  \A j \in Job : row[j].pid = 0 => row'[j].pid = 0
      BY <3>1, <3>2 DEF ForgetRemove, EmptyRow
    <3>3. CASE PruneRows
      BY <3>1, <3>3 DEF PruneRows, EmptyRow
    <3>4. QED
      BY <1>3, <3>2, <3>3 DEF Commands, StopJob, ForgetCheck, PruneTree
  <2>2. UNCHANGED << pc, job, origin, emitted >>
    BY <1>3 DEF Commands, StopJob, ForgetCheck, ForgetRemove, PruneRows, PruneTree
  <2>3. QED BY <2>1, <2>2 DEF LaunchedInv
<1>4. CASE DaemonStep
  <2>1. CASE Restart
    <3>1. \A r \in Run : Mine(r) => pc[r] \in { "idle", "done", "lost" }
      BY <2>1 DEF Restart, LockInv, Waited, Active
    <3>2. UNCHANGED << pc, job, origin, emitted >>
      BY <2>1 DEF Restart
    <3>3. QED BY <3>1, <3>2
  <2>2. CASE ~Restart
    <3>1. \A j \in Job : row[j].pid = 0 => row'[j].pid = 0
      <4>1. ASSUME NEW i \in Job, WaiterDone(i)
            PROVE  \A j \in Job : row[j].pid = 0 => row'[j].pid = 0
        BY <4>1 DEF WaiterDone, DoneRow
      <4>2. QED
        BY <1>4, <2>2, <4>1 DEF DaemonStep, Terminate, CancelInFlight, AllDone,
          GraceExceeded, Exit, Crash, ProcessDies, OrphanExits, WaiterReleases, InlineDies,
          runState
    <3>2. UNCHANGED << job, origin, emitted >>
      BY <1>4, <2>2 DEF DaemonStep, Terminate, CancelInFlight, AllDone, GraceExceeded, Exit,
        Crash, ProcessDies, OrphanExits, WaiterDone, WaiterReleases, InlineDies, runState,
        launchVars
    <3>3. \A r \in Run : pc'[r] # "lost" => pc'[r] = pc[r]
      BY <1>4, <2>2 DEF DaemonStep, Terminate, CancelInFlight, AllDone, GraceExceeded, Exit,
        Crash, ProcessDies, OrphanExits, WaiterDone, WaiterReleases, InlineDies, runState
    <3>4. QED BY <3>1, <3>2, <3>3 DEF LaunchedInv
  <2>3. QED BY <2>1, <2>2
<1>5. CASE UNCHANGED vars
  BY <1>5 DEF vars
<1>6. QED BY <1>1, <1>2, <1>3, <1>4, <1>5 DEF Next

\* A subscriber that sees a completion finds the row of the job closed, whatever
\* else the daemon does: SetDone comes before the event and both under the lock.
THEOREM RowClosedAtCompletionHolds == Spec => []RowClosedAtCompletion
<1>1. Init => ClosedInv
  BY DEF Init, ClosedInv, RowClosedAtCompletion
<1>2. ClosedInv => RowClosedAtCompletion
  BY DEF ClosedInv
<1>3. QED
  BY <1>1, <1>2, WellTyped, LockInit, LockStep,
     ClosedStep, PTL DEF Spec

-----------------------------------------------------------------------------

\* The prune only goes after worktrees of submitted jobs that do not keep theirs:
\* a recorded worktree of a job that keeps it is recorded as kept.
KeepMarked(rw) == \A j \in KeepTree : rw[j].tree => rw[j].keep

TreeInv ==
  /\ \A r \in inTree :
       pc[r] \notin { "idle", "spawned", "jitter", "lock", "start", "announce", "prepare" }
  /\ KeepMarked(row) /\ KeepMarked(file) /\ \A r \in Run : KeepMarked(copy[r])
  /\ pruning \cap (Configured \cup KeepTree) = {}
  /\ WorktreeOwned

\* A setter that marks what it keeps leaves every copy of the rows marked.
LEMMA MarkedWrite ==
  ASSUME TypeOK, KeepMarked(row), KeepMarked(file), \A r \in Run : KeepMarked(copy[r]),
         NEW r \in Run, job[r] \in Job, NEW rw \in RowType, SetRow(r, rw),
         job[r] \in KeepTree => (rw.tree => rw.keep)
  PROVE  KeepMarked(row') /\ KeepMarked(file') /\ \A q \in Run : KeepMarked(copy'[q])
<1> USE ConstantsAssumption DEF KeepMarked
<1>1. CASE Mine(r)
  <2>1. \A j \in Job : row'[j] = row[j] \/ (j = job[r] /\ row'[j] = rw)
    BY <1>1, RowWrite
  <2>2. file' = row' /\ copy' = copy
    BY <1>1, RowWrite
  <2>3. QED BY <2>1, <2>2
<1>2. CASE ~Mine(r)
  <2>1. \A q \in Run, j \in Job :
          copy'[q][j] = copy[q][j] \/ (j = job[r] /\ copy'[q][j] = rw)
    BY <1>2, RowWrite
  <2>2. row' = row /\ file' = copy'[r]
    BY <1>2, RowWrite
  <2>3. QED BY <2>1, <2>2
<1>3. QED BY <1>1, <1>2

\* The rows a run writes are marked when those it read are.
LEMMA RowsMarked ==
  ASSUME TypeOK, LaunchedInv, KeepMarked(row), KeepMarked(file),
         \A r \in Run : KeepMarked(copy[r]), NEW r \in Run,
         SetRunning(r) \/ SetWorktreeKept(r) \/ ClearWorktreePath(r) \/ SetDone(r)
  PROVE  KeepMarked(row') /\ KeepMarked(file') /\ \A q \in Run : KeepMarked(copy'[q])
<1>1. job[r] \in Job
  BY DEF SetRunning, SetWorktreeKept, ClearWorktreePath, SetDone, Step, LaunchedInv
<1>2. job[r] \in KeepTree => (Here(r).tree => Here(r).keep)
  BY <1>1 DEF Here, KeepMarked
<1>3. CASE SetRunning(r) \/ SetDone(r)
  <2>1. PICK rw \in RowType : SetRow(r, rw) /\ rw.tree = Here(r).tree /\ rw.keep = Here(r).keep
    BY <1>1, <1>3, RowsWritten DEF SetRunning, SetDone
  <2>2. QED BY <1>1, <1>2, <2>1, MarkedWrite
<1>4. CASE SetWorktreeKept(r)
  <2>1. PICK rw \in RowType : SetRow(r, rw) /\ (rw.keep <=> job[r] \in KeepTree)
    BY <1>1, <1>4, RowsWritten DEF SetWorktreeKept
  <2>2. QED BY <1>1, <2>1, MarkedWrite
<1>5. CASE ClearWorktreePath(r)
  <2>1. PICK h \in RowType : h = Here(r)
    BY <1>1, RowsWritten
  <2>2. [h EXCEPT !.tree = FALSE] \in RowType /\ ~[h EXCEPT !.tree = FALSE].tree
    BY DEF RowType
  <2>3. SetRow(r, [h EXCEPT !.tree = FALSE])
    BY <1>5, <2>1 DEF ClearWorktreePath
  <2>4. QED BY <1>1, <2>2, <2>3, MarkedWrite
<1>6. QED BY <1>3, <1>4, <1>5

LEMMA TreeStep ==
  TypeOK /\ LaunchedInv /\ LockInv /\ TreeInv /\ [Next]_vars => TreeInv'
<1> SUFFICES ASSUME TypeOK, LaunchedInv, LockInv, TreeInv, [Next]_vars
             PROVE  TreeInv'
  OBVIOUS
<1> USE ConstantsAssumption
    DEF TypeOK, Phase, TreeInv, WorktreeOwned, Holding, Working
<1>1. CASE Launching
  <2>1. ASSUME NEW r \in Run, NEW j \in Job, InlineRun(r, j) PROVE TreeInv'
    <3>1. \A q \in Run : KeepMarked(copy'[q])
      BY <2>1 DEF InlineRun
    <3>2. UNCHANGED << row, file, tree, inTree, pruning >> /\ r \notin inTree
      BY <2>1 DEF InlineRun, daemonVars
    <3>3. \A q \in inTree : pc'[q] = pc[q] /\ job'[q] = job[q]
      BY <2>1, <3>2 DEF InlineRun
    <3>4. QED BY <3>1, <3>2, <3>3
  <2>2. ASSUME NEW r \in Run, NEW j, NEW o, Launch(r, j, o) PROVE TreeInv'
    <3>1. UNCHANGED << row, file, copy, tree, inTree, pruning >> /\ r \notin inTree
      BY <2>2 DEF Launch, rows
    <3>2. \A q \in inTree : pc'[q] = pc[q] /\ job'[q] = job[q]
      BY <2>2, <3>1 DEF Launch
    <3>3. QED BY <3>1, <3>2
  <2>3. CASE \E c \in Client, j \in Job : SubmitCheck(c, j)
    BY <2>3 DEF SubmitCheck, rows
  <2>4. QED BY <1>1, <2>1, <2>2, <2>3 DEF Launching, CronFire, ManualRun, SubmitLaunch
<1>2. ASSUME NEW r \in Run, RunStep(r) PROVE TreeInv'
  <2> USE DEF Step, daemonVars, launchVars, rows, Returned, LaunchedInv, LockInv
  <2>0. \A q \in Run : pc[q] \in Holding /\ pc[r] \in Holding /\ job[q] = job[r] => q = r
    OBVIOUS
  <2>1. CASE Register(r) \/ JitterElapses(r) \/ JitterCancelled(r) \/ SkipRun(r)
    BY <2>1 DEF Register, JitterElapses, JitterCancelled, SkipRun
  <2>2. CASE TakeLock(r) \/ OpenLogFails(r)
    BY <2>2 DEF TakeLock, OpenLogFails
  <2>3. CASE SetRunning(r) \/ SetWorktreeKept(r) \/ ClearWorktreePath(r) \/ SetDone(r)
    <3>1. KeepMarked(row') /\ KeepMarked(file') /\ \A q \in Run : KeepMarked(copy'[q])
      BY <2>3, RowsMarked
    <3>2. /\ UNCHANGED << job, tree, inTree, pruning >>
          /\ \E p \in { "announce", "agent", "finish", "publish" } :
               /\ pc' = [pc EXCEPT ![r] = p]
               /\ p = "announce" => pc[r] = "start"
               /\ p = "agent" => pc[r] = "record"
      BY <2>3 DEF SetRunning, SetWorktreeKept, ClearWorktreePath, SetDone
    <3>3. QED BY <3>1, <3>2
  <2>4. CASE PublishStarted(r) \/ PreExecFails(r) \/ AgentReturns(r) \/ PostExec(r)
    <3>1. /\ UNCHANGED << job, row, file, copy, tree, inTree, pruning >>
          /\ pc[r] \in { "announce", "prepare" } => r \notin inTree
          /\ pc[r] \in { "announce", "prepare", "agent", "post" }
      BY <2>4 DEF PublishStarted, PreExecFails, AgentReturns, PostExec
    <3>2. PICK p \in { "prepare", "post", "remove", "finish" } :
            /\ pc' = [pc EXCEPT ![r] = p]
            /\ p = "prepare" => pc[r] = "announce"
      BY <2>4 DEF PublishStarted, PreExecFails, AgentReturns, PostExec
    <3>3. QED BY <3>1, <3>2
  <2>5. CASE MakeTree(r)
    BY <2>0, <2>5 DEF MakeTree
  <2>6. CASE RunInFolder(r)
    BY <2>0, <2>6 DEF RunInFolder
  <2>7. CASE RemoveTree(r)
    BY <2>0, <2>7 DEF RemoveTree
  <2>8. CASE RemoveTreeFails(r) \/ PublishCompleted(r) \/ ReleaseLock(r) \/ Unregister(r)
    BY <2>8 DEF RemoveTreeFails, PublishCompleted, ReleaseLock, Unregister
  <2>9. QED
    BY <1>2, <2>1, <2>2, <2>3, <2>4, <2>5, <2>6, <2>7, <2>8 DEF RunStep
<1>3. CASE Commands
  <2> USE DEF rows
  <2>1. ASSUME NEW j \in Job, StopJob(j) PROVE TreeInv'
    BY <2>1 DEF StopJob
  <2>2. ASSUME NEW c \in Client, NEW j \in Job, ForgetCheck(c, j) PROVE TreeInv'
    BY <2>2 DEF ForgetCheck
  <2>3. ASSUME NEW c \in Client, ForgetRemove(c) PROVE TreeInv'
    <3>1. KeepMarked(row')
      BY <2>3 DEF ForgetRemove, EmptyRow, KeepMarked
    <3>2. QED BY <2>3, <3>1 DEF ForgetRemove
  <2>4. ASSUME PruneRows PROVE TreeInv'
    <3>1. PICK S \in SUBSET { j \in Job : Prunable(j) } :
            /\ row' = [j \in Job |-> IF j \in S THEN EmptyRow ELSE row[j]]
            /\ file' = (IF S = {} THEN file ELSE row')
            /\ pruning' = { j \in S : row[j].tree }
      BY <2>4 DEF PruneRows
    <3>2. KeepMarked(row') /\ KeepMarked(file')
      BY <3>1 DEF EmptyRow, KeepMarked
    <3>3. pruning' \cap (Configured \cup KeepTree) = {}
      BY <3>1 DEF Prunable, KeepMarked
    <3>4. QED BY <2>4, <3>2, <3>3 DEF PruneRows
  <2>5. ASSUME NEW j \in Job, PruneTree(j) PROVE TreeInv'
    BY <2>5 DEF PruneTree
  <2>6. QED BY <1>3, <2>1, <2>2, <2>3, <2>4, <2>5 DEF Commands
<1>4. CASE DaemonStep
  <2> USE DEF rows
  <2>1. CASE Terminate \/ CancelInFlight \/ AllDone \/ GraceExceeded
    BY <2>1 DEF Terminate, CancelInFlight, AllDone, GraceExceeded, runState
  <2>2. CASE ProcessDies
    BY <2>2 DEF ProcessDies, Waited, Active
  <2>3. CASE Restart
    <3>1. PICK Found \in SUBSET Job :
            /\ row' = [j \in Job |-> IF j \in Found THEN file[j] ELSE DoneRow(file[j])]
            /\ file' = row'
      BY <2>3 DEF Restart
    <3>2. \A j \in Job : DoneRow(file[j]).tree = file[j].tree /\ DoneRow(file[j]).keep = file[j].keep
      BY DEF DoneRow, RowType
    <3>3. KeepMarked(row') /\ KeepMarked(file')
      BY <3>1, <3>2 DEF KeepMarked
    <3>4. QED BY <2>3, <3>3 DEF Restart
  <2>4. ASSUME NEW q \in Run, OrphanExits(q) PROVE TreeInv'
    BY <2>4 DEF OrphanExits, runState
  <2>5. ASSUME NEW i \in Job, WaiterDone(i) PROVE TreeInv'
    <3>1. DoneRow(row[i]).tree = row[i].tree /\ DoneRow(row[i]).keep = row[i].keep
      BY DEF DoneRow, RowType
    <3>2. KeepMarked(row') /\ file' = row'
      BY <2>5, <3>1 DEF WaiterDone, KeepMarked
    <3>3. QED BY <2>5, <3>2 DEF WaiterDone
  <2>6. ASSUME NEW i \in Job, WaiterReleases(i) PROVE TreeInv'
    BY <2>6 DEF WaiterReleases, runState
  <2>7. ASSUME NEW q \in Run, InlineDies(q) PROVE TreeInv'
    BY <2>7 DEF InlineDies, launchVars, Active
  <2>8. QED
    BY <1>4, <2>1, <2>2, <2>3, <2>4, <2>5, <2>6, <2>7 DEF DaemonStep, Exit, Crash
<1>5. CASE UNCHANGED vars
  BY <1>5 DEF vars
<1>6. QED BY <1>1, <1>2, <1>3, <1>4, <1>5 DEF Next

\* The worktree of a configured job, or of one that keeps it, is never replaced or
\* removed under the run that works in it (resolveRunDir, pruneOnce).
THEOREM WorktreeOwnedHolds == Spec => []WorktreeOwned
<1>1. Init => TreeInv
  BY ConstantsAssumption DEF Init, TreeInv, KeepMarked, WorktreeOwned, EmptyRow
<1>2. TreeInv => WorktreeOwned
  BY DEF TreeInv
<1>3. QED
  BY <1>1, <1>2, WellTyped, LockInit, LockStep,
     TreeStep, PTL DEF Spec

\* The lock of a job and the worktree of its run are held by one run at a time.
THEOREM RunsExclusiveHolds == Spec => []RunsExclusive
<1>1. MutualExclusion /\ WorktreeOwned => RunsExclusive
  BY DEF RunsExclusive
<1>2. QED BY <1>1, MutualExclusionHolds, WorktreeOwnedHolds, PTL

\* The cancel functions and the rows are those of runs that are there.
THEOREM RecordsTruthfulHolds == Spec => []RecordsTruthful
<1>1. CancelsAreLive /\ StopReachesAlone /\ NoStuckRow /\ RowClosedAtCompletion =>
        RecordsTruthful
  BY DEF RecordsTruthful
<1>2. QED
  BY <1>1, CancelsAreLiveHolds, StopReachesAloneHolds, NoStuckRowHolds,
     RowClosedAtCompletionHolds, PTL

-----------------------------------------------------------------------------

\* A run removes its worktree only if the job does not keep it.
RemovingInv == \A r \in Run : pc[r] = "remove" => job[r] \notin KeepTree

LEMMA RemovingStep ==
  TypeOK /\ RemovingInv /\ [Next]_vars => RemovingInv'
<1> SUFFICES ASSUME TypeOK, RemovingInv, [Next]_vars PROVE RemovingInv'
  OBVIOUS
<1>0. pc \in [Run -> Phase] /\ job \in [Run -> Job \cup {NoJob}]
  BY DEF TypeOK
<1> USE <1>0 DEF RemovingInv
<1>1. CASE Launching
  BY <1>1 DEF Launching, CronFire, ManualRun, InlineRun, SubmitCheck, SubmitLaunch, Launch
<1>2. ASSUME NEW r \in Run, RunStep(r) PROVE RemovingInv'
  <2> USE DEF Step, daemonVars, launchVars, Returned
  <2>1. job' = job /\ \A q \in Run : q # r => pc'[q] = pc[q]
    BY <1>2 DEF RunStep, Register, JitterElapses, JitterCancelled, TakeLock, SkipRun,
      OpenLogFails, SetRunning, PublishStarted, PreExecFails, MakeTree, RunInFolder,
      SetWorktreeKept, AgentReturns, PostExec, RemoveTree, RemoveTreeFails,
      ClearWorktreePath, SetDone, PublishCompleted, ReleaseLock, Unregister
  <2>2. pc'[r] = "remove" => job[r] \notin KeepTree
    BY <1>2 DEF RunStep, Register, JitterElapses, JitterCancelled, TakeLock, SkipRun,
      OpenLogFails, SetRunning, PublishStarted, PreExecFails, MakeTree, RunInFolder,
      SetWorktreeKept, AgentReturns, PostExec, RemoveTree, RemoveTreeFails,
      ClearWorktreePath, SetDone, PublishCompleted, ReleaseLock, Unregister
  <2>3. QED BY <2>1, <2>2
<1>3. CASE Commands
  BY <1>3 DEF Commands, StopJob, ForgetCheck, ForgetRemove, PruneRows, PruneTree
<1>4. CASE DaemonStep
  BY <1>4 DEF DaemonStep, Terminate, CancelInFlight, AllDone, GraceExceeded, Exit, Crash,
    ProcessDies, Restart, OrphanExits, WaiterDone, WaiterReleases, InlineDies, runState,
    launchVars, Active
<1>5. CASE UNCHANGED vars
  BY <1>5 DEF vars
<1>6. QED BY <1>1, <1>2, <1>3, <1>4, <1>5 DEF Next

\* A worktree goes away in three places: to make room, with the run of a job that
\* does not keep it, and by the prune, which passes over the kept ones.
LEMMA KeptStep ==
  ASSUME TypeOK, RemovingInv, TreeInv, [Next]_vars, NEW j \in KeepTree,
         tree[j] # NoRun, tree'[j] = NoRun
  PROVE  \E r \in Run : job[r] = j /\ pc[r] = "prepare"
<1> USE ConstantsAssumption DEF TypeOK
<1>0. j \in Job
  OBVIOUS
<1>1. CASE Launching
  BY <1>1 DEF Launching, CronFire, ManualRun, InlineRun, SubmitCheck, SubmitLaunch, Launch
<1>2. ASSUME NEW r \in Run, RunStep(r)
      PROVE  \E q \in Run : job[q] = j /\ pc[q] = "prepare"
  <2>1. CASE MakeTree(r)
    BY <1>0, <2>1 DEF MakeTree, Step
  <2>2. CASE RunInFolder(r)
    BY <1>0, <2>2 DEF RunInFolder, Step
  <2>3. CASE RemoveTree(r)
    BY <1>0, <2>3 DEF RemoveTree, Step, RemovingInv
  <2>4. CASE tree' = tree
    BY <2>4
  <2>5. QED
    BY <1>2, <2>1, <2>2, <2>3, <2>4 DEF RunStep, Register, JitterElapses, JitterCancelled,
      TakeLock, SkipRun, OpenLogFails, SetRunning, PublishStarted, PreExecFails,
      SetWorktreeKept, AgentReturns, PostExec, RemoveTreeFails, ClearWorktreePath, SetDone,
      PublishCompleted, ReleaseLock, Unregister
<1>3. CASE Commands
  BY <1>0, <1>3 DEF Commands, StopJob, ForgetCheck, ForgetRemove, PruneRows, PruneTree, TreeInv
<1>4. CASE DaemonStep
  BY <1>4 DEF DaemonStep, Terminate, CancelInFlight, AllDone, GraceExceeded, Exit, Crash,
    ProcessDies, Restart, OrphanExits, WaiterDone, WaiterReleases, InlineDies, runState
<1>5. CASE UNCHANGED vars
  BY <1>5 DEF vars
<1>6. QED BY <1>1, <1>2, <1>3, <1>4, <1>5 DEF Next

\* A worktree that is to be kept goes away only while a run of its job makes room for
\* its own (resolveRunDir, SetJobWorktreePath, pruneOnce).
THEOREM KeptTreeSurvivesHolds == Spec => KeptTreeSurvives
<1>1. Init => TreeInv /\ RemovingInv
  BY ConstantsAssumption DEF Init, TreeInv, KeepMarked, WorktreeOwned, EmptyRow, RemovingInv
<1>2. TypeOK /\ RemovingInv /\ TreeInv /\ [Next]_vars =>
        [\A j \in KeepTree : tree[j] # NoRun /\ tree'[j] = NoRun =>
           \E r \in Run : job[r] = j /\ pc[r] = "prepare"]_vars
  BY KeptStep
<1>3. QED
  BY <1>1, <1>2, WellTyped, LockInit, LockStep,
     TreeStep, RemovingStep, PTL DEF Spec, KeptTreeSurvives

-----------------------------------------------------------------------------

\* Every step of the daemon is, for the executions of a job, a step of the slots:
\* taking and releasing the lock are Begin and End, giving up before the lock is
\* Skip, the death of the process is Abort, and all the rest is invisible.
THEOREM ImplementsSlots == Spec => RefinesSlots
<1>1. Init => Slots!Init
  BY DEF Init, Slots!Init
<1>2. TypeOK /\ LaunchedInv /\ LockInv /\ [Next]_vars => [Slots!Next]_(Slots!vars)
  <2> SUFFICES ASSUME TypeOK, LaunchedInv, LockInv, [Next]_vars
               PROVE  Slots!Next \/ UNCHANGED Slots!vars
    OBVIOUS
  <2> DEFINE Over   == { "unregister", "done", "lost" }
             over   == { r \in Run : pc[r] \in Over }
  <2>1. ASSUME UNCHANGED lock, \A r \in Run : pc'[r] \in Over <=> pc[r] \in Over
        PROVE  UNCHANGED Slots!vars
    BY <2>1 DEF Slots!vars
  <2>2. \A r \in Run : pc[r] \notin Holding => ~Slots!InSlot(r)
    BY ConstantsAssumption DEF LockInv, Slots!InSlot
  <2>3. CASE Launching
    <3>1. UNCHANGED lock
      BY <2>3 DEF Launching, CronFire, ManualRun, InlineRun, SubmitCheck, SubmitLaunch, Launch
    <3>2. \A r \in Run : pc'[r] = pc[r] \/ (pc[r] = "idle" /\ pc'[r] \in { "spawned", "lock" })
      BY <2>3 DEF Launching, CronFire, ManualRun, InlineRun, SubmitCheck, SubmitLaunch,
        Launch, TypeOK
    <3>3. QED BY <2>1, <3>1, <3>2
  <2>4. ASSUME NEW r \in Run, RunStep(r)
        PROVE  Slots!Next \/ UNCHANGED Slots!vars
    <3> USE DEF Step
    <3>1. CASE TakeLock(r)
      <4>1. Slots!Begin(r, job[r])
        BY <3>1, <2>2 DEF TakeLock, LockFree, Slots!Begin, TypeOK, Holding
      <4>2. QED BY <3>1, <4>1 DEF TakeLock, LaunchedInv, Slots!Next
    <3>2. CASE JitterCancelled(r) \/ SkipRun(r)
      <4>1. Slots!Skip(r)
        BY <3>2, <2>2 DEF JitterCancelled, SkipRun, Returned, Slots!Skip, TypeOK, Holding
      <4>2. QED BY <4>1 DEF Slots!Next
    <3>3. CASE ReleaseLock(r)
      <4>1. lock[job[r]] = r /\ job[r] \in Job /\ r # NoRun
        BY <3>3, ConstantsAssumption DEF ReleaseLock, LockInv, LaunchedInv, Holding
      <4>2. Slots!End(job[r])
        BY <3>3, <4>1 DEF ReleaseLock, Returned, Slots!End, TypeOK
      <4>3. \E j \in Job : Slots!End(j)
        BY <4>1, <4>2 DEF Slots!End
      <4>4. QED BY <4>3, Zenon DEF Slots!Next
    <3>4. CASE Register(r) \/ JitterElapses(r) \/ OpenLogFails(r) \/ Unregister(r)
      BY <3>4, <2>1 DEF Register, JitterElapses, OpenLogFails, Unregister, TypeOK
    <3>5. CASE SetRunning(r) \/ PublishStarted(r) \/ PreExecFails(r) \/ MakeTree(r)
               \/ RunInFolder(r)
      BY <3>5, <2>1 DEF SetRunning, PublishStarted, PreExecFails, MakeTree,
        RunInFolder, TypeOK
    <3>6. CASE SetWorktreeKept(r) \/ AgentReturns(r) \/ PostExec(r) \/ RemoveTree(r)
               \/ RemoveTreeFails(r)
      <4>1. UNCHANGED lock /\ pc[r] \notin Over
        BY <3>6 DEF SetWorktreeKept, AgentReturns, PostExec, RemoveTree, RemoveTreeFails
      <4>2. PICK p \in { "agent", "post", "remove", "clear", "finish" } :
              pc' = [pc EXCEPT ![r] = p]
        BY <3>6 DEF SetWorktreeKept, AgentReturns, PostExec, RemoveTree, RemoveTreeFails
      <4>3. QED BY <4>1, <4>2, <2>1 DEF TypeOK
    <3>7. CASE ClearWorktreePath(r) \/ SetDone(r) \/ PublishCompleted(r)
      BY <3>7, <2>1 DEF ClearWorktreePath, SetDone, PublishCompleted, TypeOK
    <3>8. QED
      BY <2>4, <3>1, <3>2, <3>3, <3>4, <3>5, <3>6, <3>7 DEF RunStep
  <2>5. CASE Commands
    BY <2>5, <2>1 DEF Commands, StopJob, ForgetCheck, ForgetRemove, PruneRows, PruneTree
  <2>6. CASE DaemonStep
    <3>1. ASSUME NEW Lost \in SUBSET Run,
                 pc' = [q \in Run |-> IF q \in Lost THEN "lost" ELSE pc[q]],
                 lock' = [j \in Job |-> IF lock[j] \in Lost THEN NoRun ELSE lock[j]]
          PROVE  Slots!Next
      <4>1. { q \in Run : pc'[q] \in Over } = over \cup Lost
        BY <3>1 DEF TypeOK
      <4>2. Slots!Abort
        BY <3>1, <4>1 DEF Slots!Abort
      <4>3. QED BY <4>2 DEF Slots!Next
    <3>2. CASE ProcessDies
      <4>1. PICK Lost \in SUBSET Run : \A q \in Run : q \in Lost <=> Waited(q)
        <5>1. { q \in Run : Waited(q) } \in SUBSET Run
          OBVIOUS
        <5>2. QED BY <5>1
      <4>2. pc' = [q \in Run |-> IF q \in Lost THEN "lost" ELSE pc[q]]
        BY <3>2, <4>1 DEF ProcessDies, TypeOK
      <4>3. \A j \in Job : (\E q \in Run : lock[j] = q /\ Waited(q)) <=> lock[j] \in Lost
        BY <4>1
      <4>4. lock' = [j \in Job |-> IF lock[j] \in Lost THEN NoRun ELSE lock[j]]
        BY <3>2, <4>3 DEF ProcessDies
      <4>5. QED BY <3>1, <4>2, <4>4
    <3>3. ASSUME NEW r \in Run, InlineDies(r) PROVE Slots!Next
      <4>1. pc' = [q \in Run |-> IF q \in {r} THEN "lost" ELSE pc[q]]
        BY <3>3 DEF InlineDies, TypeOK
      <4>2. lock' = [j \in Job |-> IF lock[j] \in {r} THEN NoRun ELSE lock[j]]
        BY <3>3 DEF InlineDies
      <4>3. QED BY <3>1, <4>1, <4>2
    <3>4. CASE UNCHANGED << lock, pc >>
      BY <2>1, <3>4
    <3>5. QED
      BY <2>6, <3>2, <3>3, <3>4 DEF DaemonStep, Terminate, CancelInFlight, AllDone,
        GraceExceeded, Exit, Crash, Restart, OrphanExits, WaiterDone, WaiterReleases, runState
  <2>7. CASE UNCHANGED vars
    BY <2>7, <2>1 DEF vars
  <2>8. QED BY <2>3, <2>4, <2>5, <2>6, <2>7 DEF Next
<1>3. QED
  BY <1>1, <1>2, WellTyped, LockInit, LockStep, PTL
     DEF Spec, RefinesSlots, Slots!Spec

=============================================================================
