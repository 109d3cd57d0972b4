-------------------------- MODULE RunPipelineProofs --------------------------
(***************************************************************************)
(* What holds of RunPipeline for any modes, timeout, number of runs,       *)
(* commands, mishaps and faults.                                           *)
(***************************************************************************)
EXTENDS RunPipeline, FiniteSetTheorems, WellFoundedInduction, TLAPS

(***************************************************************************)
(* The inductive invariants.                                               *)
(***************************************************************************)

\* `worktree move` and `worktree rm` have gone on with a worktree to move.
CmdInv == cmd.pc \in {"tree", "save"} /\ cmd.kind \in {"move", "rm"} => cmd.copy.tree # None

\* A worktree that exists holds the branch: there is one at most.
BranchInv == \A p \in Paths : trees[p] # 0 => branch = p

\* A run that replaces what it finds has the only worktree, from the moment it
\* was added.
OwnInv ==
    run.mode \in {"ephemeral", "fresh"} /\ (run.pc = "record" \/ run.tree # None) =>
        \A p \in Paths : trees[p] \in {0, run.n}

\* The clock of the turns starts at zero and stays within the one deadline.
ClockInv ==
    /\ run.pc \in {"pre", "dir", "add", "record"} => run.elapsed = 0
    /\ run.pc \in {"turn", "asleep"} => run.deadline = Timeout
    /\ run.pc = "asleep" => run.elapsed + run.delay <= Timeout
    /\ run.elapsed <= Timeout

\* Until a turn has failed, the status is ok or that of a failed environment.
StatusInv ==
    /\ run.pc \in {"pre", "dir", "add", "record", "turn", "asleep"} =>
          /\ run.status \in {"ok", "pre_failed"}
          /\ run.status = "ok" => run.faults \subseteq {"subdir"}
    /\ StatusTrue

\* A row that says what the run will tell.
SaysRun(r) ==
    /\ ~r.pid /\ r.status = run.status /\ r.log = run.ts
    /\ run.session # 0 => r.session = run.session

\* From SetRunning to SetDone the row is that of the run, in a daemon that is up,
\* and nothing is told; from SetDone on the row and the file are what will be told,
\* or have been forgotten, or are a copy that was saved over the file.
RowInv ==
    /\ run.pc # "idle" => daemon
    /\ ~daemon => done.crashes # 0
    /\ run.pc \in Positions \ {"idle", "trim"} => told.n = 0
    /\ run.pc \in Positions \ {"idle", "tell", "trim"} =>
          /\ row.pid
          /\ run.session # 0 => row.session = run.session
    /\ run.pc = "tell" =>
          /\ row # NoRow => SaysRun(row)
          /\ file # NoRow /\ ~done.over => SaysRun(file)
    /\ ToldIsRecorded

\* As long as nobody disturbs the runs, the daemon is up, no command is given,
\* and what is at the default path is what the row says, but between the removal
\* or the creation of a worktree and its record.
TrackInv ==
    Undisturbed =>
        /\ daemon /\ cmd = NoCommand
        /\ trees[Elsewhere] = 0 /\ branch \in {None, Default}
        /\ branch = Default <=> trees[Default] # 0
        /\ run.pc = "add" => trees[Default] = 0
        /\ run.pc = "record" => trees[Default] # 0
        /\ run.pc = "clear" => trees[Default] = 0
        /\ run.pc \notin {"add", "record", "clear"} =>
              /\ trees[Default] # 0 => row.tree = Default
              /\ row.tree = Default /\ ~done.subdir => trees[Default] # 0

\* A run has a number and a second; its log is there, and none is newer.
LogInv ==
    /\ run.pc # "idle" => run.n # 0 /\ run.ts # 0
    /\ logs \subseteq 1..run.ts
    /\ run.pc # "idle" /\ done.cmds = 0 => run.ts \in logs
    /\ run.pc = "trim" => told.log = run.ts
    /\ done.cmds = 0 => cmd = NoCommand
    /\ ToldLogKept

-----------------------------------------------------------------------------
(***************************************************************************)
(* Types.                                                                  *)
(***************************************************************************)

\* Removing a worktree empties one path at most, and frees or loosens the branch.
LEMMA RemovedType ==
  ASSUME TypeOK, NEW p
  PROVE  /\ Removed(p).trees = [trees EXCEPT ![p] = 0]
         /\ Removed(p).trees \in [Paths -> 0..MaxRuns]
         /\ Removed(p).branch \in {None, "loose", branch}
<1>1. 0 \in 0..MaxRuns
  BY ConstantsAssumption
<1>2. [trees EXCEPT ![p] = 0] \in [Paths -> 0..MaxRuns]
  BY <1>1 DEF TypeOK
<1>3. QED BY <1>2 DEF Removed

LEMMA RemoveType ==
  ASSUME TypeOK, NEW p, RemoveTree(p) \/ RemoveFails(p)
  PROVE  /\ trees' \in [Paths -> 0..MaxRuns]
         /\ branch' \in Paths \cup {None, "loose"}
<1>1. CASE RemoveTree(p)
  <2>1. trees' = Removed(p).trees /\ branch' = Removed(p).branch
    BY <1>1 DEF RemoveTree
  <2>2. branch \in Paths \cup {None, "loose"}
    BY DEF TypeOK
  <2>3. QED BY <2>1, <2>2, RemovedType
<1>2. CASE RemoveFails(p)
  BY <1>2 DEF RemoveFails, TypeOK
<1>3. QED BY <1>1, <1>2

LEMMA InitType == Init => TypeOK /\ CmdInv
BY ConstantsAssumption
   DEF Init, TypeOK, CmdInv, NoRow, Row, NoRun, NothingTold, NoCommand, Positions, Statuses,
       RunRecord, ToldRecord, CmdRecord, DoneRecord

LEMMA NoRowType == NoRow \in Row
BY ConstantsAssumption DEF NoRow, Row, Statuses

LEMMA StartType ==
  ASSUME TypeOK, NEW mode \in Modes, NEW resume \in 0..MaxRuns, NEW ts \in 1..MaxRuns,
         StartRun(mode, resume, ts)
  PROVE  TypeOK'
<1> USE ConstantsAssumption DEF TypeOK
<1>1. run.n + 1 \in 0..MaxRuns
  BY DEF StartRun, RunRecord
<1>2. run' = [n |-> run.n + 1, pc |-> "pre", mode |-> mode, ts |-> ts, status |-> "ok",
              tree |-> None, resume |-> resume, session |-> 0, elapsed |-> 0,
              deadline |-> 0, delay |-> 0, cancelled |-> FALSE, faults |-> {}]
  BY DEF StartRun, NoRun
<1>3. run' \in RunRecord
  BY <1>1, <1>2 DEF RunRecord, Positions, Statuses
<1>4. row' \in Row /\ file' \in Row
  <2>1. row' = [row EXCEPT !.pid = TRUE, !.status = "running"] /\ file' = row'
    BY DEF StartRun, Save
  <2>2. row \in Row
    OBVIOUS
  <2>3. QED BY <2>1, <2>2 DEF Row, Statuses
<1>5. told' \in ToldRecord
  BY DEF StartRun, NothingTold, ToldRecord, Statuses
<1>6. logs' \subseteq 1..MaxRuns
  BY DEF StartRun
<1>7. QED BY <1>3, <1>4, <1>5, <1>6 DEF StartRun

\* The deadline of the turns is a time.
LEMMA ToAgentType ==
  ASSUME TypeOK, NEW tree \in {None, Default}, ToAgent(tree)
  PROVE  run' \in RunRecord
<1>1. run \in RunRecord
  BY DEF TypeOK
<1>2. run.elapsed + Timeout \in Nat
  BY <1>1, ConstantsAssumption DEF RunRecord
<1>3. QED BY <1>1, <1>2 DEF ToAgent, RunRecord, Positions

LEMMA BeforeTurnsType ==
  ASSUME TypeOK,
         EnvUnreadable \/ PreExecFails \/ PreExecDone \/ RunInFolder \/ ReuseTree
           \/ DiscardTree \/ AddTree \/ AddTreeFails \/ SubDirMissing \/ RecordTree
  PROVE  TypeOK'
<1> USE ConstantsAssumption DEF TypeOK
<1>1. CASE EnvUnreadable
  BY <1>1 DEF EnvUnreadable, RunRecord, Statuses
<1>2. CASE PreExecFails
  BY <1>2 DEF PreExecFails, RunRecord, Statuses, Positions
<1>3. CASE PreExecDone
  BY <1>3 DEF PreExecDone, RunSteps, RunRecord, Positions
<1>4. CASE RunInFolder
  BY <1>4, ToAgentType DEF RunInFolder
<1>5. CASE ReuseTree
  <2>1. run' \in RunRecord
    BY <1>5, ToAgentType DEF ReuseTree
  <2>2. row' = [row EXCEPT !.tree = Default, !.keep = KeepsTree] /\ file' = row'
    BY <1>5 DEF ReuseTree, Save
  <2>3. row' \in Row
    BY <2>2 DEF Row, Paths, KeepsTree
  <2>4. QED BY <1>5, <2>1, <2>2, <2>3 DEF ReuseTree
<1>6. CASE DiscardTree
  <2>1. run' \in RunRecord
    BY <1>6 DEF DiscardTree, RunRecord, Positions
  <2>2. trees' \in [Paths -> 0..MaxRuns]
    <3>1. Removed(Default).trees \in [Paths -> 0..MaxRuns]
      BY RemovedType
    <3>2. trees' = Removed(Default).trees \/ trees' = trees
      BY <1>6 DEF DiscardTree
    <3>3. QED BY <3>1, <3>2
  <2>3. branch' \in Paths \cup {None, "loose"}
    <3>1. branch' = DeleteBranch(Removed(Default).branch) \/ branch' = DeleteBranch(branch)
      BY <1>6 DEF DiscardTree
    <3>2. QED BY <3>1, RemovedType DEF DeleteBranch
  <2>4. done' \in DoneRecord
    BY <1>6 DEF DiscardTree, DoneRecord
  <2>5. QED BY <1>6, <2>1, <2>2, <2>3, <2>4 DEF DiscardTree
<1>7. CASE AddTree
  <2>1. run' \in RunRecord
    BY <1>7 DEF AddTree, RunSteps, RunRecord, Positions
  <2>2. trees' \in [Paths -> 0..MaxRuns]
    BY <1>7 DEF AddTree, RunRecord
  <2>3. done' \in DoneRecord
    BY <1>7 DEF AddTree, DoneRecord
  <2>4. QED BY <1>7, <2>1, <2>2, <2>3 DEF AddTree, Paths
<1>8. CASE AddTreeFails
  <2>1. run' \in RunRecord
    BY <1>8, ToAgentType DEF AddTreeFails
  <2>2. done' \in DoneRecord
    BY <1>8 DEF AddTreeFails, DoneRecord, CanAdd
  <2>3. QED BY <1>8, <2>1, <2>2 DEF AddTreeFails
<1>9. CASE SubDirMissing
  <2>1. run' \in RunRecord
    <3>1. run.elapsed + Timeout \in Nat /\ run.faults \cup {"subdir"}
                                   \in SUBSET {"env", "pre", "agent", "turn", "subdir"}
      BY DEF RunRecord
    <3>2. run' = [run EXCEPT !.pc = "turn", !.deadline = run.elapsed + Timeout,
                             !.faults = run.faults \cup {"subdir"}]
      BY <1>9 DEF SubDirMissing
    <3>3. run \in RunRecord
      OBVIOUS
    <3>4. QED BY ONLY <3>1, <3>2, <3>3 DEF RunRecord, Positions
  <2>2. done' \in DoneRecord
    BY <1>9 DEF SubDirMissing, DoneRecord
  <2>3. trees' \in [Paths -> 0..MaxRuns] /\ branch' \in Paths \cup {None, "loose"}
    BY <1>9, RemoveType DEF SubDirMissing
  <2>4. QED BY <1>9, <2>1, <2>2, <2>3 DEF SubDirMissing
<1>10. CASE RecordTree
  <2>1. run' \in RunRecord
    BY <1>10, ToAgentType DEF RecordTree
  <2>2. row' = [row EXCEPT !.tree = Default, !.keep = KeepsTree] /\ file' = row'
    BY <1>10 DEF RecordTree, Save
  <2>3. row' \in Row
    BY <2>2 DEF Row, Paths, KeepsTree
  <2>4. QED BY <1>10, <2>1, <2>2, <2>3 DEF RecordTree
<1>11. QED BY <1>1, <1>2, <1>3, <1>4, <1>5, <1>6, <1>7, <1>8, <1>9, <1>10

\* A turn leaves its own session, or the one it resumed.
LEMMA SessionType ==
  ASSUME TypeOK, NEW reported \in BOOLEAN
  PROVE  SessionAfter(reported) \in 0..MaxRuns
BY DEF TypeOK, RunRecord, SessionAfter

\* What a turn makes of the run's record, but for where the run goes next.
LEMMA TurnType ==
  ASSUME TypeOK, NEW took \in 1..Timeout, NEW reported \in BOOLEAN
  PROVE  AfterTurn(took, reported) \in RunRecord
<1>1. run \in RunRecord
  BY DEF TypeOK
<1>2. run.elapsed + took \in Nat /\ SessionAfter(reported) \in 0..MaxRuns /\ 0 \in 0..MaxRuns
  BY <1>1, SessionType, ConstantsAssumption DEF RunRecord
<1>3. QED BY <1>1, <1>2 DEF AfterTurn, RunRecord

LEMMA SaveSessionType ==
  ASSUME TypeOK, NEW i \in 0..MaxRuns, SaveSession(i)
  PROVE  row' \in Row /\ file' \in Row
<1>1. row \in Row /\ file \in Row
  BY DEF TypeOK
<1>2. [row EXCEPT !.session = i] \in Row
  BY <1>1 DEF Row
<1>3. QED BY <1>1, <1>2 DEF SaveSession, Save

LEMMA TurnsType ==
  ASSUME TypeOK, AgentMissing \/ Turn \/ SleepEnds \/ SleepCancelled
  PROVE  TypeOK'
<1> USE ConstantsAssumption DEF TypeOK
<1>1. CASE AgentMissing
  BY <1>1 DEF AgentMissing, RunRecord, Statuses, Positions
<1>2. CASE Turn
  <2>1. PICK took \in 1..Timeout, reported \in BOOLEAN :
          \/ TurnEnds(took, reported) \/ TurnFails(took, reported)
          \/ \E delay \in 0..Timeout : TurnWakes(took, reported, delay)
    BY <1>2 DEF Turn
  <2> DEFINE r == AfterTurn(took, reported)
  <2>2. r \in RunRecord /\ r.session \in 0..MaxRuns
    BY TurnType DEF RunRecord
  <2>3. /\ SaveSession(r.session)
        /\ UNCHANGED <<daemon, logs, trees, branch, told, cmd, done>>
    BY <2>1 DEF TurnEnds, TurnFails, TurnWakes
  <2>4. row' \in Row /\ file' \in Row
    BY <2>2, <2>3, SaveSessionType
  <2>5. run' \in RunRecord
    <3>1. CASE TurnEnds(took, reported)
      BY <2>2, <3>1 DEF TurnEnds, RunRecord, Positions
    <3>2. CASE TurnFails(took, reported)
      <4>1. FailedStatus(r.elapsed = run.deadline) \in Statuses
        BY DEF FailedStatus, Statuses
      <4>2. r.faults \cup {"turn"} \in SUBSET {"env", "pre", "agent", "turn", "subdir"}
        BY <2>2 DEF RunRecord
      <4>3. run' = [r EXCEPT !.pc = "post", !.faults = r.faults \cup {"turn"},
                             !.status = FailedStatus(r.elapsed = run.deadline)]
        BY <3>2 DEF TurnFails
      <4> HIDE DEF r
      <4>4. QED BY ONLY <2>2, <4>1, <4>2, <4>3 DEF RunRecord, Positions
    <3>3. ASSUME NEW delay \in 0..Timeout, TurnWakes(took, reported, delay)
          PROVE  run' \in RunRecord
      <4>1. \/ run' = [r EXCEPT !.pc = "post"]
            \/ run' = [r EXCEPT !.pc = "asleep", !.delay = delay]
        BY <3>3 DEF TurnWakes
      <4>2. delay \in Nat
        OBVIOUS
      <4> HIDE DEF r
      <4>3. [r EXCEPT !.pc = "post"] \in RunRecord
        BY ONLY <2>2 DEF RunRecord, Positions
      <4>4. [r EXCEPT !.pc = "asleep", !.delay = delay] \in RunRecord
        BY ONLY <2>2, <4>2 DEF RunRecord, Positions
      <4>5. QED BY ONLY <4>1, <4>3, <4>4
    <3>4. QED BY <2>1, <3>1, <3>2, <3>3
  <2>6. QED BY <2>3, <2>4, <2>5
<1>3. CASE SleepEnds
  <2>1. run.elapsed + run.delay \in Nat
    BY DEF RunRecord
  <2>2. run' = [run EXCEPT !.pc = "turn", !.elapsed = run.elapsed + run.delay, !.delay = 0]
    BY <1>3 DEF SleepEnds
  <2>3. run' \in RunRecord
    BY <2>1, <2>2 DEF RunRecord, Positions
  <2>4. QED BY <1>3, <2>3 DEF SleepEnds
<1>4. CASE SleepCancelled
  <2>1. row' \in Row /\ file' \in Row
    BY <1>4, SaveSessionType DEF SleepCancelled, RunRecord
  <2>2. FailedStatus(FALSE) \in Statuses
    BY DEF FailedStatus, Statuses
  <2>3. run' \in RunRecord
    BY <1>4, <2>2 DEF SleepCancelled, RunRecord, Positions
  <2>4. QED BY <1>4, <2>1, <2>3 DEF SleepCancelled
<1>5. QED BY <1>1, <1>2, <1>3, <1>4

\* The record of a run that has ended keeps its number and its timestamp.
LEMMA OverType ==
  ASSUME TypeOK
  PROVE  [NoRun EXCEPT !.n = run.n, !.ts = run.ts] \in RunRecord
<1>1. run.n \in 0..MaxRuns /\ run.ts \in 0..MaxRuns /\ 0 \in 0..MaxRuns
  BY ConstantsAssumption DEF TypeOK, RunRecord
<1>2. QED BY <1>1 DEF NoRun, RunRecord, Positions, Statuses

LEMMA AfterTurnsType ==
  ASSUME TypeOK,
         PostExec \/ KeepTree \/ RemoveOwnTree \/ RemoveOwnTreeFails \/ ClearTreePath
           \/ SetDone \/ PublishCompleted \/ TrimLogs
  PROVE  TypeOK'
<1> USE ConstantsAssumption DEF TypeOK
<1>1. CASE PostExec
  <2>1. 0 \in Nat /\ 0 \in 0..MaxRuns /\ run \in RunRecord
    OBVIOUS
  <2>2. run' = [run EXCEPT !.pc = "clean", !.elapsed = 0, !.deadline = 0, !.resume = 0,
                           !.cancelled = FALSE, !.faults = {}]
    BY <1>1 DEF PostExec
  <2>3. run' \in RunRecord
    BY ONLY <2>1, <2>2 DEF RunRecord, Positions
  <2>4. QED BY <1>1, <2>3 DEF PostExec
<1>2. CASE KeepTree
  BY <1>2 DEF KeepTree, RunSteps, RunRecord, Positions
<1>3. CASE RemoveOwnTree \/ RemoveOwnTreeFails
  <2>1. run' \in RunRecord
    BY <1>3 DEF RemoveOwnTree, RemoveOwnTreeFails, RunSteps, RunRecord, Positions
  <2>2. trees' \in [Paths -> 0..MaxRuns] /\ branch' \in Paths \cup {None, "loose"}
    BY <1>3, RemoveType DEF RemoveOwnTree, RemoveOwnTreeFails
  <2>3. QED BY <1>3, <2>1, <2>2 DEF RemoveOwnTree, RemoveOwnTreeFails
<1>4. CASE ClearTreePath
  <2>1. run' \in RunRecord
    BY <1>4 DEF ClearTreePath, RunSteps, RunRecord, Positions
  <2>2. row' = [row EXCEPT !.tree = None] /\ file' = row'
    BY <1>4 DEF ClearTreePath, Save
  <2>3. row' \in Row
    BY <2>2 DEF Row
  <2>4. QED BY <1>4, <2>1, <2>2, <2>3 DEF ClearTreePath
<1>5. CASE SetDone
  <2>1. run' \in RunRecord
    BY <1>5 DEF SetDone, RunSteps, RunRecord, Positions
  <2>2. row' = [row EXCEPT !.pid = FALSE, !.status = run.status, !.log = run.ts]
        /\ file' = row'
    BY <1>5 DEF SetDone, Save
  <2>3. row' \in Row
    BY <2>2 DEF Row, RunRecord
  <2>4. done' \in DoneRecord
    BY <1>5 DEF SetDone, DoneRecord
  <2>5. QED BY <1>5, <2>1, <2>2, <2>3, <2>4 DEF SetDone
<1>6. CASE PublishCompleted
  <2>1. run' \in RunRecord
    BY <1>6 DEF PublishCompleted, RunSteps, RunRecord, Positions
  <2>2. told' \in ToldRecord
    BY <1>6 DEF PublishCompleted, RunRecord, ToldRecord
  <2>3. QED BY <1>6, <2>1, <2>2 DEF PublishCompleted
<1>7. CASE TrimLogs
  <2>1. run' \in RunRecord
    BY <1>7, OverType DEF TrimLogs
  <2>2. logs' \subseteq 1..MaxRuns
    BY <1>7 DEF TrimLogs, Kept
  <2>3. QED BY <1>7, <2>1, <2>2 DEF TrimLogs
<1>8. QED BY <1>1, <1>2, <1>3, <1>4, <1>5, <1>6, <1>7

LEMMA DaemonType ==
  ASSUME TypeOK, Cancel \/ Crash \/ StartDaemon \/ \E p \in Paths : DeleteTree(p)
  PROVE  TypeOK'
<1> USE ConstantsAssumption DEF TypeOK
<1>1. CASE Cancel
  BY <1>1 DEF Cancel, RunRecord
<1>2. CASE Crash
  <2>1. run' \in RunRecord
    BY <1>2, OverType DEF Crash
  <2>2. done' \in DoneRecord
    BY <1>2 DEF Crash, DoneRecord
  <2>3. QED BY <1>2, <2>1, <2>2 DEF Crash
<1>3. CASE StartDaemon
  <2>1. 0 \in 0..MaxRuns /\ file \in Row
    OBVIOUS
  <2>2. Reconciled(file) \in Row
    BY <2>1 DEF Reconciled, Row, Statuses
  <2>3. QED BY <1>3, <2>2 DEF StartDaemon, Save
<1>4. CASE \E p \in Paths : DeleteTree(p)
  <2>1. PICK p \in Paths : DeleteTree(p)
    BY <1>4
  <2>2. trees' \in [Paths -> 0..MaxRuns]
    BY <2>1 DEF DeleteTree
  <2>3. done' \in DoneRecord
    BY <2>1 DEF DeleteTree, DoneRecord
  <2>4. QED BY <2>1, <2>2, <2>3 DEF DeleteTree
<1>5. QED BY <1>1, <1>2, <1>3, <1>4

\* The path of the worktree that is not the one at p.
LEMMA OtherPath ==
  ASSUME TypeOK, NEW p
  PROVE  (CHOOSE q \in Paths : q # p) \in Paths
<1>1. \E q \in Paths : q # p
  BY ConstantsAssumption DEF Paths
<1>2. QED BY <1>1

LEMMA LoadType ==
  ASSUME TypeOK, NEW kind \in Commands, LoadState(kind)
  PROVE  TypeOK' /\ CmdInv'
<1> DEFINE position == IF kind = "prune" THEN "forget" ELSE "tree"
           copy == IF kind \in {"move", "rm"} THEN file ELSE [NoRow EXCEPT !.tree = file.tree]
<1>1. cmd' = [pc |-> position, kind |-> kind, up |-> daemon, copy |-> copy]
  BY DEF LoadState
<1>2. copy \in Row
  BY NoRowType DEF TypeOK, Row
<1>3. cmd' \in CmdRecord
  BY <1>1, <1>2 DEF TypeOK, CmdRecord
<1>4. done' \in DoneRecord
  BY DEF LoadState, TypeOK, DoneRecord
<1>5. TypeOK'
  BY <1>3, <1>4 DEF LoadState, TypeOK
<1>6. kind \in {"move", "rm"} => file.tree # None
  BY DEF LoadState, Accepts
<1>7. QED BY <1>1, <1>5, <1>6 DEF CmdInv

\* A command that goes on, or returns, keeps its kind and its copy, or loses both.
LEMMA CmdStepType ==
  ASSUME TypeOK, NEW position \in {"idle", "tree", "save", "forget", "after"},
         \/ CmdReturns
         \/ cmd' = [cmd EXCEPT !.pc = position]
  PROVE  cmd' \in CmdRecord
<1>1. NoCommand \in CmdRecord
  BY NoRowType DEF NoCommand, CmdRecord
<1>2. [cmd EXCEPT !.pc = position] \in CmdRecord
  BY DEF TypeOK, CmdRecord
<1>3. QED BY <1>1, <1>2 DEF CmdReturns

LEMMA CommandType ==
  ASSUME TypeOK, CmdInv, Command
  PROVE  TypeOK' /\ CmdInv'
<1> USE ConstantsAssumption
<1>a. CASE \E kind \in Commands : LoadState(kind)
  BY <1>a, LoadType
<1>b. SUFFICES ASSUME \/ \E dest \in Paths : MoveTree(dest)
                      \/ SaveMove \/ RmTree \/ SaveRm \/ CmdFails
                      \/ CloseTree \/ Forget \/ ForgetRefused \/ PruneLeftovers
               PROVE  TypeOK' /\ CmdInv'
  BY <1>a DEF Command
<1>1. \/ CmdReturns
      \/ \E position \in {"save", "forget", "after"} :
            /\ cmd' = [cmd EXCEPT !.pc = position]
            /\ position = "save" => cmd.pc = "tree"
  BY <1>b DEF MoveTree, SaveMove, RmTree, SaveRm, CmdFails, CloseTree, Forget, ForgetRefused,
              PruneLeftovers, CmdSteps, CmdEnds
<1>2. cmd' \in CmdRecord
  BY <1>1, CmdStepType
<1>3. CmdInv'
  BY <1>1 DEF TypeOK, CmdRecord, CmdInv, CmdReturns, NoCommand
<1>4. UNCHANGED <<daemon, run, told>> /\ done' \in DoneRecord
  <2>1. UNCHANGED <<daemon, run, told>>
    BY <1>b DEF MoveTree, SaveMove, RmTree, SaveRm, CmdFails, CloseTree, Forget,
                ForgetRefused, PruneLeftovers, SaveCopy
  <2>2. done' = done \/ done' = [done EXCEPT !.over = @ \/ cmd.copy # file]
    BY <1>b DEF MoveTree, SaveMove, RmTree, SaveRm, CmdFails, CloseTree, Forget,
                ForgetRefused, PruneLeftovers, SaveCopy
  <2>3. done \in DoneRecord
    BY DEF TypeOK
  <2>4. QED BY <2>1, <2>2, <2>3 DEF DoneRecord
<1>5. row' \in Row
  BY <1>b, NoRowType DEF MoveTree, SaveMove, RmTree, SaveRm, CmdFails, CloseTree, Forget,
                         ForgetRefused, PruneLeftovers, SaveCopy, TypeOK, Save
<1>6. file' \in Row
  <2>1. CASE SaveMove
    <3>1. cmd.copy \in Row
      BY DEF TypeOK, CmdRecord
    <3> DEFINE other == CHOOSE p \in Paths : p # cmd.copy.tree
    <3>a. file' = [cmd.copy EXCEPT !.tree = other]
      BY <2>1 DEF SaveMove, SaveCopy
    <3>b. other \in Paths
      BY OtherPath
    <3>2. PICK tree \in Paths : file' = [cmd.copy EXCEPT !.tree = tree]
      BY <3>a, <3>b
    <3>3. QED BY <3>1, <3>2 DEF Row
  <2>2. CASE SaveRm
    <3>1. cmd.copy \in Row
      BY DEF TypeOK, CmdRecord
    <3>2. QED BY <2>2, <3>1 DEF SaveRm, SaveCopy, Row
  <2>3. CASE Forget
    BY <2>3, NoRowType DEF Forget, Save, TypeOK
  <2>4. QED BY <1>b, <2>1, <2>2, <2>3 DEF MoveTree, RmTree, CmdFails, CloseTree, ForgetRefused,
                                          PruneLeftovers, TypeOK
<1>7. logs' \subseteq 1..MaxRuns
  BY <1>b DEF MoveTree, SaveMove, RmTree, SaveRm, CmdFails, CloseTree, Forget, ForgetRefused,
              PruneLeftovers, SaveCopy, TypeOK
<1>8. trees' \in [Paths -> 0..MaxRuns] /\ branch' \in Paths \cup {None, "loose"}
  <2>1. CASE \E dest \in Paths : MoveTree(dest)
    <3>1. PICK dest \in Paths : MoveTree(dest)
      BY <2>1
    <3>2. cmd.copy.tree \in Paths
      BY <3>1 DEF MoveTree, CmdSteps, CmdInv, TypeOK, CmdRecord, Row
    <3>3. trees' = [trees EXCEPT ![dest] = trees[cmd.copy.tree], ![cmd.copy.tree] = 0]
          /\ branch' = dest
      BY <3>1 DEF MoveTree
    <3>4. 0 \in 0..MaxRuns /\ trees \in [Paths -> 0..MaxRuns]
      BY DEF TypeOK
    <3>5. QED BY <3>2, <3>3, <3>4
  <2>2. CASE \/ UNCHANGED <<trees, branch>>
             \/ RemoveTree(cmd.copy.tree) \/ RemoveFails(cmd.copy.tree)
    <3>1. CASE UNCHANGED <<trees, branch>>
      BY <3>1 DEF TypeOK
    <3>2. CASE RemoveTree(cmd.copy.tree) \/ RemoveFails(cmd.copy.tree)
      BY <3>2, RemoveType
    <3>3. QED BY <2>2, <3>1, <3>2
  <2>3. QED BY <1>b, <2>1, <2>2 DEF SaveMove, RmTree, SaveRm, CmdFails, CloseTree, Forget,
                                    ForgetRefused, PruneLeftovers, SaveCopy
<1>9. QED BY <1>2, <1>3, <1>4, <1>5, <1>6, <1>7, <1>8 DEF TypeOK

LEMMA StepType ==
  ASSUME TypeOK, CmdInv, [Next]_vars
  PROVE  TypeOK' /\ CmdInv'
<1>1. CASE \E mode \in Modes, resume \in 0..MaxRuns, ts \in 1..MaxRuns :
             StartRun(mode, resume, ts)
  <2>1. TypeOK'
    BY <1>1, StartType
  <2>2. cmd' = cmd
    BY <1>1 DEF StartRun
  <2>3. QED BY <2>1, <2>2 DEF CmdInv
<1>2. CASE RunStep
  <2>1. TypeOK'
    BY <1>2, BeforeTurnsType, TurnsType, AfterTurnsType DEF RunStep
  <2>2. cmd' = cmd
    BY <1>2 DEF RunStep, EnvUnreadable, PreExecFails, PreExecDone, RunInFolder, ReuseTree,
                DiscardTree, AddTree, AddTreeFails, SubDirMissing, RecordTree, AgentMissing,
                Turn, TurnEnds, TurnFails, TurnWakes, SleepEnds, SleepCancelled, PostExec,
                KeepTree, RemoveOwnTree, RemoveOwnTreeFails, ClearTreePath, SetDone,
                PublishCompleted, TrimLogs
  <2>3. QED BY <2>1, <2>2 DEF CmdInv
<1>3. CASE Cancel \/ Crash \/ StartDaemon \/ \E p \in Paths : DeleteTree(p)
  <2>1. TypeOK'
    BY <1>3, DaemonType
  <2>2. cmd' = cmd
    BY <1>3 DEF Cancel, Crash, StartDaemon, DeleteTree
  <2>3. QED BY <2>1, <2>2 DEF CmdInv
<1>4. CASE Command
  BY <1>4, CommandType
<1>5. CASE UNCHANGED vars
  BY <1>5 DEF vars, TypeOK, CmdInv
<1>6. QED BY <1>1, <1>2, <1>3, <1>4, <1>5 DEF Next

\* Every variable stays what it is, and `worktree move` and `worktree rm` always have a
\* worktree to act on: the type invariant of the runs, their row, the worktrees and the
\* commands (runner.go, state.go, worktree.go, cli/worktree.go).
THEOREM TypeCorrect == Spec => [](TypeOK /\ CmdInv)
<1>1. Init => TypeOK /\ CmdInv
  BY InitType
<1>2. TypeOK /\ CmdInv /\ [Next]_vars => (TypeOK /\ CmdInv)'
  BY StepType
<1>3. QED BY <1>1, <1>2, PTL DEF Spec

-----------------------------------------------------------------------------
(***************************************************************************)
(* The worktree a run works in.                                            *)
(***************************************************************************)

\* What a step does to the worktrees and the branch.
LEMMA TreeSteps ==
  ASSUME TypeOK, CmdInv, [Next]_vars
  PROVE  \/ UNCHANGED <<trees, branch>>
         \/ \E p \in Paths : /\ trees' = Removed(p).trees
                             /\ branch' \in {Removed(p).branch, DeleteBranch(Removed(p).branch)}
         \/ trees' = trees /\ branch' = DeleteBranch(branch)
         \/ AddTree
         \/ \E p \in Paths : DeleteTree(p)
         \/ \E dest \in Paths : MoveTree(dest)
<1>1. cmd.copy.tree \in Paths \cup {None} /\ run.tree \in {None, Default} /\ Default \in Paths
  BY DEF TypeOK, CmdRecord, RunRecord, Row, Paths
<1>2. CASE Command
  <2>1. CASE RmTree \/ CmdFails
    <3>1. RmTree => cmd.copy.tree \in Paths
      BY <1>1 DEF RmTree, CmdSteps, CmdInv
    <3>2. QED BY <2>1, <3>1 DEF RmTree, CmdFails, RemoveTree, RemoveFails
  <2>2. CASE CloseTree \/ PruneLeftovers
    BY <1>1, <2>2 DEF CloseTree, PruneLeftovers, RemoveTree, RemoveFails
  <2>3. QED BY <1>2, <2>1, <2>2 DEF Command, LoadState, SaveMove, SaveRm, SaveCopy, Forget,
           ForgetRefused
<1>3. CASE RunStep
  <2>1. CASE DiscardTree
    BY <1>1, <2>1 DEF DiscardTree
  <2>2. CASE SubDirMissing
    BY <1>1, <2>2 DEF SubDirMissing, RemoveTree, RemoveFails
  <2>3. CASE RemoveOwnTree \/ RemoveOwnTreeFails
    BY <1>1, <2>3 DEF RemoveOwnTree, RemoveOwnTreeFails, RemoveTree, RemoveFails
  <2>4. QED
    BY <1>3, <2>1, <2>2, <2>3
    DEF RunStep, EnvUnreadable, PreExecFails, PreExecDone, RunInFolder, ReuseTree, AddTreeFails,
        RecordTree, AgentMissing, Turn, TurnEnds, TurnFails, TurnWakes, SleepEnds,
        SleepCancelled, PostExec, KeepTree, ClearTreePath, SetDone, PublishCompleted, TrimLogs
<1>4. QED BY <1>2, <1>3 DEF Next, StartRun, Cancel, Crash, StartDaemon, vars

\* A worktree that is created, moved, removed or deleted leaves one that exists, at
\* most, and the branch with it.
LEMMA BranchStep ==
  ASSUME TypeOK, CmdInv, BranchInv, [Next]_vars
  PROVE  BranchInv'
<1> USE ConstantsAssumption
<1>0. trees \in [Paths -> 0..MaxRuns] /\ branch \in Paths \cup {None, "loose"}
  BY DEF TypeOK
<1>1. CASE UNCHANGED <<trees, branch>>
  BY <1>1 DEF BranchInv
<1>2. ASSUME NEW p \in Paths, trees' = Removed(p).trees,
             branch' \in {Removed(p).branch, DeleteBranch(Removed(p).branch)}
      PROVE  BranchInv'
  <2>1. trees' = [trees EXCEPT ![p] = 0]
    BY <1>2, RemovedType
  <2>2. \A q \in Paths : trees'[q] # 0 => q # p /\ trees[q] # 0 /\ branch = q
    BY <1>0, <2>1 DEF BranchInv
  <2>3. \A q \in Paths : trees'[q] # 0 => Removed(p).branch = q
    BY <1>0, <2>2 DEF Removed, BranchInv
  <2>4. \A q \in Paths : DeleteBranch(q) = q
    BY DEF DeleteBranch, Paths
  <2>5. QED BY <1>2, <2>3, <2>4 DEF BranchInv
<1>3. CASE trees' = trees /\ branch' = DeleteBranch(branch)
  BY <1>3 DEF BranchInv, DeleteBranch, Paths
<1>4. CASE AddTree
  BY <1>0, <1>4 DEF AddTree, CanAdd, BranchInv, Paths
<1>5. CASE \E p \in Paths : DeleteTree(p)
  BY <1>0, <1>5 DEF DeleteTree, BranchInv
<1>6. CASE \E dest \in Paths : MoveTree(dest)
  <2>1. PICK dest \in Paths : MoveTree(dest)
    BY <1>6
  <2> DEFINE from == cmd.copy.tree
  <2>2. from \in Paths /\ from # dest /\ branch' = dest
        /\ trees' = [trees EXCEPT ![dest] = trees[from], ![from] = 0]
    BY <2>1 DEF MoveTree, CmdSteps, CmdInv, TypeOK, CmdRecord, Row
  <2>3. \A q \in Paths : q = dest \/ q = from
    BY <2>2 DEF Paths
  <2>4. trees'[from] = 0
    BY <1>0, <2>2
  <2>5. QED BY <2>2, <2>3, <2>4 DEF BranchInv
<1>7. QED BY <1>1, <1>2, <1>3, <1>4, <1>5, <1>6, TreeSteps

\* What a step does to the run, as far as its worktree goes.
LEMMA TreeOfRunSteps ==
  ASSUME TypeOK, [Next]_vars
  PROVE  \/ run'.tree = None /\ run'.pc # "record"
         \/ AddTree
         \/ run'.mode = run.mode /\ run.mode = "reused"
         \/ /\ run'.n = run.n /\ run'.mode = run.mode
            /\ run'.pc = "record" \/ run'.tree # None => run.pc = "record" \/ run.tree # None
<1>0. run \in RunRecord
  BY DEF TypeOK
<1>1. CASE \E mode \in Modes, resume \in 0..MaxRuns, ts \in 1..MaxRuns :
             StartRun(mode, resume, ts)
  BY <1>1 DEF StartRun, NoRun
<1>2. CASE RunStep
  <2>1. CASE RunInFolder \/ AddTreeFails
    BY <1>0, <2>1 DEF RunInFolder, AddTreeFails, ToAgent, RunRecord
  <2>2. CASE ReuseTree
    BY <1>0, <2>2 DEF ReuseTree, ReusesTree, ToAgent, RunRecord
  <2>3. CASE RecordTree
    BY <1>0, <2>3 DEF RecordTree, ToAgent, RunRecord
  <2>4. CASE TrimLogs
    BY <1>0, <2>4 DEF TrimLogs, NoRun
  <2>5. CASE Turn
    <3>1. PICK took \in 1..Timeout, reported \in BOOLEAN :
            \/ TurnEnds(took, reported) \/ TurnFails(took, reported)
            \/ \E delay \in 0..Timeout : TurnWakes(took, reported, delay)
      BY <2>5 DEF Turn
    <3> DEFINE r == AfterTurn(took, reported)
    <3>2. r \in RunRecord /\ r.n = run.n /\ r.mode = run.mode /\ r.tree = run.tree
      BY <1>0, TurnType DEF AfterTurn, RunRecord
    <3>3. \/ run' = [r EXCEPT !.pc = "post"]
          \/ run' = [r EXCEPT !.pc = "post", !.faults = r.faults \cup {"turn"},
                              !.status = FailedStatus(r.elapsed = run.deadline)]
          \/ \E delay : run' = [r EXCEPT !.pc = "asleep", !.delay = delay]
      BY <3>1 DEF TurnEnds, TurnFails, TurnWakes
    <3> HIDE DEF r
    <3>4. run'.n = r.n /\ run'.mode = r.mode /\ run'.tree = r.tree /\ run'.pc # "record"
      BY ONLY <3>2, <3>3 DEF RunRecord
    <3>5. QED BY <3>2, <3>4
  <2>6. CASE DiscardTree \/ EnvUnreadable \/ PreExecFails \/ PreExecDone \/ SubDirMissing
             \/ AgentMissing \/ SleepEnds \/ SleepCancelled
    BY <1>0, <2>6 DEF DiscardTree, EnvUnreadable, PreExecFails, PreExecDone, SubDirMissing,
       AgentMissing, SleepEnds, SleepCancelled, RunSteps, RunRecord
  <2>7. CASE PostExec \/ KeepTree \/ RemoveOwnTree \/ RemoveOwnTreeFails \/ ClearTreePath
             \/ SetDone \/ PublishCompleted
    BY <1>0, <2>7 DEF PostExec, KeepTree, RemoveOwnTree, RemoveOwnTreeFails, ClearTreePath,
       SetDone, PublishCompleted, RunSteps, RunRecord
  <2>8. QED BY <1>2, <2>1, <2>2, <2>3, <2>4, <2>5, <2>6, <2>7 DEF RunStep
<1>3. CASE Cancel
  BY <1>0, <1>3 DEF Cancel, RunRecord
<1>4. CASE Crash
  BY <1>0, <1>4 DEF Crash, NoRun
<1>5. CASE StartDaemon \/ Command \/ (\E p \in Paths : DeleteTree(p)) \/ UNCHANGED vars
  BY <1>5 DEF StartDaemon, DeleteTree, vars, Command, LoadState, MoveTree, SaveMove, RmTree,
     SaveRm, CmdFails, CloseTree, Forget, ForgetRefused, PruneLeftovers, SaveCopy
<1>6. QED BY <1>1, <1>2, <1>3, <1>4, <1>5 DEF Next

\* No step but the one that adds a worktree makes a run's worktree.
LEMMA TreesShrink ==
  ASSUME TypeOK, CmdInv, [Next]_vars, ~AddTree
  PROVE  \A p \in Paths : trees'[p] = 0 \/ \E q \in Paths : trees'[p] = trees[q]
<1>0. trees \in [Paths -> 0..MaxRuns]
  BY DEF TypeOK
<1>1. CASE \E p \in Paths : trees' = Removed(p).trees
  <2>1. PICK p \in Paths : trees' = Removed(p).trees
    BY <1>1
  <2>2. trees' = [trees EXCEPT ![p] = 0]
    BY <2>1, RemovedType
  <2>3. QED BY <1>0, <2>2
<1>2. CASE \E p \in Paths : DeleteTree(p)
  BY <1>0, <1>2 DEF DeleteTree
<1>3. CASE \E dest \in Paths : MoveTree(dest)
  <2>1. PICK dest \in Paths : MoveTree(dest)
    BY <1>3
  <2>2. cmd.copy.tree \in Paths
        /\ trees' = [trees EXCEPT ![dest] = trees[cmd.copy.tree], ![cmd.copy.tree] = 0]
    BY <2>1 DEF MoveTree, CmdSteps, CmdInv, TypeOK, CmdRecord, Row
  <2>3. QED BY <1>0, <2>2
<1>4. QED BY <1>1, <1>2, <1>3, TreeSteps

LEMMA OwnStep ==
  ASSUME TypeOK, CmdInv, BranchInv, OwnInv, [Next]_vars
  PROVE  OwnInv'
<1>1. CASE AddTree
  <2>1. \A p \in Paths : trees[p] = 0
    BY <1>1, ConstantsAssumption DEF AddTree, CanAdd, BranchInv, Paths
  <2>2. run' = [run EXCEPT !.pc = "record"] /\ trees' = [trees EXCEPT ![Default] = run.n]
    BY <1>1 DEF AddTree, RunSteps
  <2>3. run'.n = run.n
    BY <2>2 DEF TypeOK, RunRecord
  <2>4. \A p \in Paths : trees'[p] \in {0, run'.n}
    BY <2>1, <2>2, <2>3 DEF TypeOK
  <2>5. QED BY <2>4 DEF OwnInv
<1>2. CASE ~AddTree
  <2>1. CASE /\ run'.n = run.n /\ run'.mode = run.mode
             /\ run'.pc = "record" \/ run'.tree # None => run.pc = "record" \/ run.tree # None
    BY <1>2, <2>1, TreesShrink DEF OwnInv
  <2>2. QED BY <1>2, <2>1, TreeOfRunSteps DEF OwnInv
<1>3. QED BY <1>1, <1>2

\* A fresh or ephemeral run works in the worktree made for it, whatever earlier
\* runs, commands, deletions and crashes left behind (worktree.go:103-126).
THEOREM FreshTreeHolds == Spec => []FreshTree
<1> DEFINE Inv == TypeOK /\ CmdInv /\ BranchInv /\ OwnInv
<1>1. Init => Inv
  <2>1. Init => BranchInv /\ OwnInv
    BY DEF Init, BranchInv, OwnInv, NoRun
  <2>2. QED BY <2>1, InitType
<1>2. Inv /\ [Next]_vars => Inv'
  BY StepType, BranchStep, OwnStep
<1>3. Inv => FreshTree
  BY DEF OwnInv, FreshTree
<1>4. QED BY <1>1, <1>2, <1>3, PTL DEF Spec

\* A step of a reused run leaves the worktree it has found alone, as long as the
\* job's subdirectory is in it (runner.go:430-465, README.md:142).
THEOREM ReuseKeepsWorkHolds == Spec => ReuseKeepsWork
<1> DEFINE Keeps == run'.n = run.n /\ run' # run /\ run.mode = "reused" /\ trees[Default] # 0
                    /\ daemon' /\ "subdir" \notin run'.faults
                    => trees'[Default] = trees[Default]
<1>1. TypeOK /\ CmdInv /\ [Next]_vars => [Keeps]_vars
  <2> SUFFICES ASSUME TypeOK, CmdInv, [Next]_vars, run'.n = run.n, run' # run,
                      run.mode = "reused", trees[Default] # 0, daemon',
                      "subdir" \notin run'.faults
               PROVE  trees'[Default] = trees[Default]
    OBVIOUS
  <2>0. run \in RunRecord /\ trees \in [Paths -> 0..MaxRuns] /\ Default \in Paths
    BY DEF TypeOK, Paths
  <2>1. CASE DiscardTree
    <3>1. "subdir" \in run'.faults
      BY <2>0, <2>1 DEF DiscardTree, ReusesTree, RunRecord
    <3>2. QED BY <3>1
  <2>2. CASE SubDirMissing
    BY <2>0, <2>2 DEF SubDirMissing, RunRecord
  <2>3. CASE AddTree
    BY <2>3 DEF AddTree, CanAdd
  <2>4. CASE RemoveOwnTree \/ RemoveOwnTreeFails
    BY <2>4 DEF RemoveOwnTree, RemoveOwnTreeFails, KeepsTree
  <2>5. CASE /\ RunStep
             /\ ~DiscardTree /\ ~SubDirMissing /\ ~AddTree
             /\ ~RemoveOwnTree /\ ~RemoveOwnTreeFails
    BY <2>5 DEF RunStep, EnvUnreadable, PreExecFails, PreExecDone, RunInFolder, ReuseTree,
       AddTreeFails, RecordTree, AgentMissing, Turn, TurnEnds, TurnFails, TurnWakes, SleepEnds,
       SleepCancelled, PostExec, KeepTree, ClearTreePath, SetDone, PublishCompleted, TrimLogs
  <2>6. CASE \/ \E mode \in Modes, resume \in 0..MaxRuns, ts \in 1..MaxRuns :
                   StartRun(mode, resume, ts)
             \/ Cancel \/ Crash
    BY <2>6 DEF StartRun, Cancel, Crash
  <2>7. CASE StartDaemon \/ Command \/ (\E p \in Paths : DeleteTree(p)) \/ UNCHANGED vars
    <3>1. run' = run
      BY <2>7 DEF StartDaemon, DeleteTree, vars, Command, LoadState, MoveTree, SaveMove, RmTree,
         SaveRm, CmdFails, CloseTree, Forget, ForgetRefused, PruneLeftovers, SaveCopy
    <3>2. QED BY <3>1
  <2>8. QED BY <2>1, <2>2, <2>3, <2>4, <2>5, <2>6, <2>7 DEF Next
<1>2. QED BY <1>1, TypeCorrect, PTL DEF Spec, ReuseKeepsWork

-----------------------------------------------------------------------------
(***************************************************************************)
(* What a run tells of itself.                                             *)
(***************************************************************************)

\* The steps that leave the run as it is.
LEMMA RunUnchanged ==
  ASSUME StartDaemon \/ Command \/ (\E p \in Paths : DeleteTree(p)) \/ UNCHANGED vars
  PROVE  run' = run
BY DEF StartDaemon, DeleteTree, vars, Command, LoadState, MoveTree, SaveMove, RmTree,
   SaveRm, CmdFails, CloseTree, Forget, ForgetRefused, PruneLeftovers, SaveCopy

\* What a turn makes of the run: it goes to post_exec, or to sleep within the deadline.
LEMMA TurnRun ==
  ASSUME TypeOK, Turn
  PROVE  \E took \in 1..Timeout, reported \in BOOLEAN, delay \in Nat :
            /\ run.pc = "turn" /\ daemon
            /\ run'.n = run.n /\ run'.ts = run.ts
            /\ run'.elapsed = run.elapsed + took /\ run'.elapsed <= run.deadline
            /\ run'.deadline = run.deadline /\ run'.cancelled = run.cancelled
            /\ run'.session = SessionAfter(reported) /\ SaveSession(run'.session)
            /\ UNCHANGED <<daemon, told>>
            /\ \/ run'.pc = "post" /\ run'.status = run.status /\ run'.faults = run.faults
               \/ /\ run'.pc = "post" /\ run'.faults = run.faults \cup {"turn"}
                  /\ run'.status = FailedStatus(run'.elapsed = run.deadline)
               \/ /\ run'.pc = "asleep" /\ run'.status = run.status
                  /\ run'.faults = run.faults
                  /\ run'.delay = delay /\ delay < run.deadline - run'.elapsed
<1>1. PICK took \in 1..Timeout, reported \in BOOLEAN :
        \/ TurnEnds(took, reported) \/ TurnFails(took, reported)
        \/ \E delay \in 0..Timeout : TurnWakes(took, reported, delay)
  BY DEF Turn
<1> DEFINE r == AfterTurn(took, reported)
<1>2. run \in RunRecord /\ r \in RunRecord
  BY TurnType DEF TypeOK
<1>3. /\ r.n = run.n /\ r.ts = run.ts
      /\ r.elapsed = run.elapsed + took /\ r.session = SessionAfter(reported)
      /\ r.deadline = run.deadline /\ r.cancelled = run.cancelled
      /\ r.status = run.status /\ r.faults = run.faults
  BY <1>2 DEF AfterTurn, RunRecord
<1>4. /\ run.pc = "turn" /\ daemon /\ run.elapsed + took <= run.deadline
      /\ SaveSession(r.session) /\ UNCHANGED <<daemon, told>>
  BY <1>1 DEF TurnEnds, TurnFails, TurnWakes
<1>5. PICK delay \in Nat :
        \/ run' = [r EXCEPT !.pc = "post"]
        \/ run' = [r EXCEPT !.pc = "post", !.faults = r.faults \cup {"turn"},
                            !.status = FailedStatus(r.elapsed = run.deadline)]
        \/ /\ run' = [r EXCEPT !.pc = "asleep", !.delay = delay]
           /\ ~(delay >= run.deadline - r.elapsed)
  <2>1. 0 \in Nat /\ \A delay \in 0..Timeout : delay \in Nat
    BY ConstantsAssumption
  <2>2. CASE TurnEnds(took, reported)
    BY <2>1, <2>2 DEF TurnEnds
  <2>3. CASE TurnFails(took, reported)
    BY <2>1, <2>3 DEF TurnFails
  <2>4. CASE \E delay \in 0..Timeout : TurnWakes(took, reported, delay)
    BY <2>1, <2>4 DEF TurnWakes
  <2>5. QED BY <1>1, <2>2, <2>3, <2>4
<1> HIDE DEF r
<1>6. /\ run'.n = r.n /\ run'.ts = r.ts
      /\ run'.elapsed = r.elapsed /\ run'.session = r.session
      /\ run'.deadline = r.deadline /\ run'.cancelled = r.cancelled
      /\ \/ run'.pc = "post" /\ run'.status = r.status /\ run'.faults = r.faults
         \/ /\ run'.pc = "post" /\ run'.faults = r.faults \cup {"turn"}
            /\ run'.status = FailedStatus(r.elapsed = run.deadline)
         \/ /\ run'.pc = "asleep" /\ run'.status = r.status /\ run'.faults = r.faults
            /\ run'.delay = delay /\ ~(delay >= run.deadline - r.elapsed)
  BY ONLY <1>2, <1>5 DEF RunRecord
<1>7. delay < run.deadline - r.elapsed <=> ~(delay >= run.deadline - r.elapsed)
  BY <1>2 DEF RunRecord
<1>8. QED BY <1>3, <1>4, <1>6, <1>7

\* The steps that only take the run to its next position, before or after the turns.
LEMMA PositionSteps ==
  ASSUME TypeOK,
         PreExecDone \/ DiscardTree \/ AddTree \/ KeepTree \/ RemoveOwnTree
           \/ RemoveOwnTreeFails \/ ClearTreePath \/ SetDone \/ PublishCompleted
  PROVE  /\ run'.n = run.n /\ run'.status = run.status /\ run'.ts = run.ts
         /\ run'.session = run.session
         /\ run'.elapsed = run.elapsed
         /\ run'.faults \in {run.faults, run.faults \cup {"subdir"}}
         /\ run'.pc \notin {"idle", "turn", "asleep", "post"}
         /\ run'.pc \in {"dir", "add", "record"} <=> run.pc \in {"pre", "dir", "add"}
         /\ run'.pc # "pre"
<1>1. run \in RunRecord
  BY DEF TypeOK
<1>2. CASE DiscardTree
  BY <1>1, <1>2 DEF DiscardTree, RunRecord
<1>3. CASE PreExecDone \/ AddTree \/ KeepTree \/ RemoveOwnTree \/ RemoveOwnTreeFails
           \/ ClearTreePath \/ SetDone \/ PublishCompleted
  <2>1. \/ run.pc = "pre" /\ run' = [run EXCEPT !.pc = "dir"]
        \/ run.pc = "add" /\ run' = [run EXCEPT !.pc = "record"]
        \/ /\ run.pc \in {"clean", "clear", "done", "tell"}
           /\ \E to \in {"clear", "done", "tell", "trim"} : run' = [run EXCEPT !.pc = to]
    BY <1>3 DEF PreExecDone, AddTree, KeepTree, RemoveOwnTree, RemoveOwnTreeFails,
       ClearTreePath, SetDone, PublishCompleted, RunSteps
  <2>2. QED BY <1>1, <2>1 DEF RunRecord
<1>4. QED BY <1>2, <1>3

LEMMA ClockStep ==
  ASSUME TypeOK, ClockInv, [Next]_vars
  PROVE  ClockInv'
<1> USE ConstantsAssumption
<1>0. run \in RunRecord /\ Timeout \in Nat
  BY DEF TypeOK
<1>1. CASE \E mode \in Modes, resume \in 0..MaxRuns, ts \in 1..MaxRuns :
             StartRun(mode, resume, ts)
  BY <1>1 DEF StartRun, NoRun, ClockInv
<1>2. CASE RunStep
  <2>1. CASE RunInFolder \/ ReuseTree \/ AddTreeFails \/ RecordTree
    <3>1. run'.pc = "turn" /\ run'.elapsed = run.elapsed
          /\ run'.deadline = run.elapsed + Timeout
          /\ run.pc \in {"dir", "add", "record"}
      BY <1>0, <2>1 DEF RunInFolder, ReuseTree, AddTreeFails, RecordTree, ToAgent, RunRecord
    <3>2. QED BY <1>0, <3>1 DEF ClockInv
  <2>2. CASE SubDirMissing
    <3>1. run'.pc = "turn" /\ run'.elapsed = run.elapsed
          /\ run'.deadline = run.elapsed + Timeout /\ run.pc = "record"
      BY <1>0, <2>2 DEF SubDirMissing, RunRecord
    <3>2. QED BY <1>0, <3>1 DEF ClockInv
  <2>3. CASE Turn
    <3>1. /\ run.pc = "turn" /\ run'.elapsed <= run.deadline /\ run'.deadline = run.deadline
          /\ run'.elapsed \in Nat
          /\ \/ run'.pc = "post"
             \/ run'.pc = "asleep" /\ run'.delay \in Nat
                /\ run'.delay < run.deadline - run'.elapsed
      BY <1>0, <2>3, TurnRun DEF RunRecord
    <3>2. run.deadline = Timeout
      BY <3>1 DEF ClockInv
    <3>3. QED BY <1>0, <3>1, <3>2 DEF ClockInv
  <2>4. CASE SleepEnds
    <3>1. run'.pc = "turn" /\ run'.elapsed = run.elapsed + run.delay
          /\ run'.deadline = run.deadline /\ run.pc = "asleep"
      BY <1>0, <2>4 DEF SleepEnds, RunRecord
    <3>2. QED BY <1>0, <3>1 DEF ClockInv
  <2>5. CASE SleepCancelled
    BY <1>0, <2>5 DEF SleepCancelled, RunRecord, ClockInv
  <2>6. CASE PostExec
    BY <1>0, <2>6 DEF PostExec, RunRecord, ClockInv
  <2>7. CASE TrimLogs
    BY <1>0, <2>7 DEF TrimLogs, NoRun, ClockInv
  <2>8. CASE EnvUnreadable \/ PreExecFails \/ AgentMissing
    BY <1>0, <2>8 DEF EnvUnreadable, PreExecFails, AgentMissing, RunRecord, ClockInv
  <2>9. CASE PreExecDone \/ DiscardTree \/ AddTree \/ KeepTree \/ RemoveOwnTree
             \/ RemoveOwnTreeFails \/ ClearTreePath \/ SetDone \/ PublishCompleted
    BY <2>9, PositionSteps DEF ClockInv
  <2>10. QED BY <1>2, <2>1, <2>2, <2>3, <2>4, <2>5, <2>6, <2>7, <2>8, <2>9 DEF RunStep
<1>3. CASE Cancel
  BY <1>0, <1>3 DEF Cancel, RunRecord, ClockInv
<1>4. CASE Crash
  BY <1>0, <1>4 DEF Crash, NoRun, ClockInv
<1>5. CASE StartDaemon \/ Command \/ (\E p \in Paths : DeleteTree(p)) \/ UNCHANGED vars
  BY <1>5, RunUnchanged DEF ClockInv
<1>6. QED BY <1>1, <1>2, <1>3, <1>4, <1>5 DEF Next

LEMMA StatusStep ==
  ASSUME TypeOK, ClockInv, StatusInv, [Next]_vars
  PROVE  StatusInv'
<1> USE ConstantsAssumption
<1>0. run \in RunRecord
  BY DEF TypeOK
<1>1. CASE \E mode \in Modes, resume \in 0..MaxRuns, ts \in 1..MaxRuns :
             StartRun(mode, resume, ts)
  BY <1>1 DEF StartRun, NoRun, StatusInv, StatusTrue
<1>2. CASE RunStep
  <2>1. CASE EnvUnreadable \/ PreExecFails
    BY <1>0, <2>1 DEF EnvUnreadable, PreExecFails, RunRecord, StatusInv, StatusTrue
  <2>2. CASE RunInFolder \/ ReuseTree \/ AddTreeFails \/ RecordTree
    <3>1. run'.pc = "turn" /\ run'.status = run.status /\ run'.faults = run.faults
          /\ run.pc \in {"dir", "add", "record"}
      BY <1>0, <2>2 DEF RunInFolder, ReuseTree, AddTreeFails, RecordTree, ToAgent, RunRecord
    <3>2. QED BY <3>1 DEF StatusInv, StatusTrue
  <2>3. CASE PreExecDone \/ DiscardTree \/ AddTree \/ KeepTree \/ RemoveOwnTree
             \/ RemoveOwnTreeFails \/ ClearTreePath \/ SetDone \/ PublishCompleted
    BY <2>3, PositionSteps DEF StatusInv, StatusTrue
  <2>4. CASE SubDirMissing
    BY <1>0, <2>4 DEF SubDirMissing, RunRecord, StatusInv, StatusTrue
  <2>5. CASE AgentMissing
    BY <1>0, <2>5 DEF AgentMissing, RunRecord, StatusInv, StatusTrue
  <2>6. CASE Turn
    <3>1. /\ run.pc = "turn" /\ run'.deadline = run.deadline
          /\ run'.cancelled = run.cancelled
          /\ \/ run'.pc = "post" /\ run'.status = run.status /\ run'.faults = run.faults
             \/ /\ run'.pc = "post" /\ run'.faults = run.faults \cup {"turn"}
                /\ run'.status = FailedStatus(run'.elapsed = run.deadline)
             \/ run'.pc = "asleep" /\ run'.status = run.status /\ run'.faults = run.faults
      BY <2>6, TurnRun
    <3>2. run.deadline = Timeout
      BY <3>1 DEF ClockInv
    <3>3. QED BY <3>1, <3>2 DEF StatusInv, StatusTrue, FailedStatus
  <2>7. CASE SleepEnds
    BY <1>0, <2>7 DEF SleepEnds, RunRecord, StatusInv, StatusTrue
  <2>8. CASE SleepCancelled
    BY <1>0, <2>8 DEF SleepCancelled, RunRecord, StatusInv, StatusTrue, FailedStatus
  <2>9. CASE PostExec
    BY <1>0, <2>9 DEF PostExec, RunRecord, StatusInv, StatusTrue
  <2>10. CASE TrimLogs
    BY <1>0, <2>10 DEF TrimLogs, NoRun, StatusInv, StatusTrue
  <2>11. QED
    BY <1>2, <2>1, <2>2, <2>3, <2>4, <2>5, <2>6, <2>7, <2>8, <2>9, <2>10 DEF RunStep
<1>3. CASE Cancel
  BY <1>0, <1>3 DEF Cancel, RunRecord, StatusInv, StatusTrue
<1>4. CASE Crash
  BY <1>0, <1>4 DEF Crash, NoRun, StatusInv, StatusTrue
<1>5. CASE StartDaemon \/ Command \/ (\E p \in Paths : DeleteTree(p)) \/ UNCHANGED vars
  BY <1>5, RunUnchanged DEF StatusInv, StatusTrue
<1>6. QED BY <1>1, <1>2, <1>3, <1>4, <1>5 DEF Next

\* What has happened is not forgotten, and a run step gives no command and no crash.
\* The file stays as it is known to be until a run is recorded or a copy is saved.
LEMMA HistoryGrows ==
  ASSUME TypeOK, [Next]_vars
  PROVE  /\ done'.cmds = 0 => done.cmds = 0
         /\ done'.deletes = 0 => done.deletes = 0
         /\ done'.crashes = 0 => done.crashes = 0
         /\ ~done'.git => ~done.git
         /\ RunStep => done'.cmds = done.cmds /\ done'.crashes = done.crashes
         /\ ~done'.over /\ ~SetDone => ~done.over
         /\ ~done'.subdir /\ ~AddTree => ~done.subdir
<1>0. done \in DoneRecord
  BY DEF TypeOK
<1>1. \/ done' = done
      \/ done' = [done EXCEPT !.git = TRUE]
      \/ done' = [done EXCEPT !.git = @ \/ CanAdd]
      \/ done' = [done EXCEPT !.subdir = TRUE]
      \/ done' = [done EXCEPT !.subdir = TRUE, !.git = TRUE]
      \/ AddTree /\ done' = [done EXCEPT !.subdir = FALSE]
      \/ SetDone /\ done' = [done EXCEPT !.over = FALSE]
      \/ ~RunStep /\ done' = [done EXCEPT !.crashes = @ + 1]
      \/ ~RunStep /\ done' = [done EXCEPT !.deletes = @ + 1]
      \/ ~RunStep /\ done' = [done EXCEPT !.cmds = @ + 1]
      \/ ~RunStep /\ done' = [done EXCEPT !.over = @ \/ cmd.copy # file]
  <2>1. CASE RunStep
    BY <2>1 DEF RunStep, EnvUnreadable, PreExecFails, PreExecDone, RunInFolder, ReuseTree,
       DiscardTree, AddTree, AddTreeFails, SubDirMissing, RecordTree, AgentMissing, Turn,
       TurnEnds, TurnFails, TurnWakes, SleepEnds, SleepCancelled, PostExec, KeepTree,
       RemoveOwnTree, RemoveOwnTreeFails, ClearTreePath, SetDone, PublishCompleted, TrimLogs
  <2>2. CASE ~RunStep
    BY <2>2 DEF Next, vars, StartRun, Cancel, Crash, StartDaemon, DeleteTree, Command,
       LoadState, MoveTree, SaveMove, RmTree, SaveRm, CmdFails, CloseTree, Forget,
       ForgetRefused, PruneLeftovers, SaveCopy
  <2>3. QED BY <2>1, <2>2
<1>2. /\ done'.cmds = 0 => done.cmds = 0
      /\ done'.deletes = 0 => done.deletes = 0
      /\ done'.crashes = 0 => done.crashes = 0
      /\ RunStep => done'.cmds = done.cmds /\ done'.crashes = done.crashes
  <2>1. RunStep => \/ done' \in {done, [done EXCEPT !.git = TRUE], [done EXCEPT !.git = @ \/ CanAdd],
                                [done EXCEPT !.subdir = TRUE],
                                [done EXCEPT !.subdir = TRUE, !.git = TRUE],
                                [done EXCEPT !.subdir = FALSE], [done EXCEPT !.over = FALSE]}
    BY <1>1
  <2>2. RunStep => done'.cmds = done.cmds /\ done'.crashes = done.crashes
                   /\ done'.deletes = done.deletes
    BY <1>0, <2>1 DEF DoneRecord
  <2>3. CASE RunStep
    BY <2>2, <2>3
  <2>4. CASE ~RunStep /\ done' \in {[done EXCEPT !.crashes = @ + 1], [done EXCEPT !.deletes = @ + 1],
                                   [done EXCEPT !.cmds = @ + 1]}
    BY <1>0, <2>4 DEF DoneRecord
  <2>5. CASE ~RunStep /\ ~(done' \in {[done EXCEPT !.crashes = @ + 1],
                              [done EXCEPT !.deletes = @ + 1], [done EXCEPT !.cmds = @ + 1]})
    <3>1. done'.cmds = done.cmds /\ done'.crashes = done.crashes
          /\ done'.deletes = done.deletes
      BY <1>0, <1>1, <2>5 DEF DoneRecord
    <3>2. QED BY <2>5, <3>1
  <2>6. QED BY <2>3, <2>4, <2>5
<1>3. /\ ~done'.git => ~done.git
      /\ ~done'.over /\ ~SetDone => ~done.over
      /\ ~done'.subdir /\ ~AddTree => ~done.subdir
  <2>1. CASE done' \in {done, [done EXCEPT !.git = TRUE], [done EXCEPT !.git = @ \/ CanAdd],
                        [done EXCEPT !.subdir = TRUE],
                        [done EXCEPT !.subdir = TRUE, !.git = TRUE]}
    BY <1>0, <2>1 DEF DoneRecord
  <2>2. CASE AddTree /\ done' = [done EXCEPT !.subdir = FALSE]
    BY <1>0, <2>2 DEF DoneRecord
  <2>3. CASE SetDone /\ done' = [done EXCEPT !.over = FALSE]
    BY <1>0, <2>3 DEF DoneRecord
  <2>4. CASE done' \in {[done EXCEPT !.crashes = @ + 1], [done EXCEPT !.deletes = @ + 1],
                        [done EXCEPT !.cmds = @ + 1],
                        [done EXCEPT !.over = @ \/ cmd.copy # file]}
    BY <1>0, <2>4 DEF DoneRecord
  <2>5. QED BY <1>1, <2>1, <2>2, <2>3, <2>4
<1>4. QED BY <1>2, <1>3

\* What a command does to the row and the file: nothing, both are forgotten, the file
\* alone is, or the file is the copy with another worktree.
LEMMA CommandRows ==
  ASSUME TypeOK, CmdInv, Command
  PROVE  /\ row' = row \/ (~row.pid /\ row' = NoRow)
         /\ file' \in {file, NoRow}
            \/ /\ file' # NoRow => cmd.copy # NoRow
               /\ file'.pid = cmd.copy.pid /\ file'.status = cmd.copy.status
               /\ file'.log = cmd.copy.log /\ file'.session = cmd.copy.session
               /\ ~done'.over => ~done.over /\ cmd.copy = file
<1>1. CASE SaveMove \/ SaveRm
  <2>1. PICK tree : SaveCopy(tree)
    BY <1>1 DEF SaveMove, SaveRm
  <2>2. row' = row /\ file' = [cmd.copy EXCEPT !.tree = tree]
        /\ done' = [done EXCEPT !.over = @ \/ cmd.copy # file]
    BY <2>1 DEF SaveCopy
  <2>3. cmd.copy \in Row /\ done \in DoneRecord
    BY DEF TypeOK, CmdRecord
  <2>4. cmd.copy # NoRow
    BY <1>1 DEF SaveMove, SaveRm, CmdEnds, CmdInv, NoRow
  <2>5. /\ file'.pid = cmd.copy.pid /\ file'.status = cmd.copy.status
        /\ file'.log = cmd.copy.log /\ file'.session = cmd.copy.session
    BY <2>2, <2>3 DEF Row
  <2>6. ~done'.over => ~done.over /\ cmd.copy = file
    BY <2>2, <2>3 DEF DoneRecord
  <2>7. QED BY <2>2, <2>4, <2>5, <2>6
<1>2. CASE Forget
  BY <1>2 DEF Forget, Save
<1>3. CASE (\E kind \in Commands : LoadState(kind)) \/ (\E dest \in Paths : MoveTree(dest))
           \/ RmTree \/ CmdFails \/ CloseTree \/ ForgetRefused \/ PruneLeftovers
  BY <1>3 DEF LoadState, MoveTree, RmTree, CmdFails, CloseTree, ForgetRefused, PruneLeftovers
<1>4. QED BY <1>1, <1>2, <1>3 DEF Command

LEMMA RowStep ==
  ASSUME TypeOK, CmdInv, RowInv, [Next]_vars
  PROVE  RowInv'
<1> USE ConstantsAssumption
<1>0. /\ run \in RunRecord /\ row \in Row /\ file \in Row /\ daemon \in BOOLEAN
      /\ done \in DoneRecord
  BY DEF TypeOK
<1>a. ASSUME told'.n = 0 PROVE ToldIsRecorded'
  BY <1>a DEF ToldIsRecorded
<1>b. ASSUME daemon', run'.pc \in Positions \ {"idle", "tell", "trim"}, told'.n = 0, row'.pid,
             run'.session # 0 => row'.session = run'.session
      PROVE  RowInv'
  BY <1>b, <1>a DEF RowInv
<1>1. CASE \E mode \in Modes, resume \in 0..MaxRuns, ts \in 1..MaxRuns :
             StartRun(mode, resume, ts)
  <2>1. run'.pc = "pre" /\ run'.session = 0 /\ daemon' /\ told'.n = 0
    BY <1>1 DEF StartRun, NoRun, NothingTold
  <2>2. row'.pid
    BY <1>0, <1>1 DEF StartRun, Save, Row
  <2>3. QED BY <1>b, <2>1, <2>2 DEF Positions
<1>2. CASE RunStep
  <2>0. PublishCompleted \/ told' = told
    BY <1>2 DEF RunStep, EnvUnreadable, PreExecFails, PreExecDone, RunInFolder, ReuseTree,
       DiscardTree, AddTree, AddTreeFails, SubDirMissing, RecordTree, AgentMissing, Turn,
       TurnEnds, TurnFails, TurnWakes, SleepEnds, SleepCancelled, PostExec, KeepTree,
       RemoveOwnTree, RemoveOwnTreeFails, ClearTreePath, SetDone, PublishCompleted, TrimLogs
  <2>a. ASSUME ~PublishCompleted, run.pc \in Positions \ {"idle", "tell", "trim"}
        PROVE  /\ told'.n = 0 /\ row.pid /\ daemon
               /\ run.session # 0 => row.session = run.session
    BY <2>0, <2>a DEF RowInv
  <2>1. CASE EnvUnreadable \/ PreExecFails \/ RunInFolder \/ AddTreeFails \/ SubDirMissing
             \/ AgentMissing \/ SleepEnds \/ PostExec
    <3>1. UNCHANGED <<daemon, row>> /\ daemon
      BY <2>1 DEF EnvUnreadable, PreExecFails, RunInFolder, AddTreeFails, SubDirMissing,
         AgentMissing, SleepEnds, PostExec
    <3>2. run'.session = run.session /\ run'.pc \in {"pre", "turn", "post", "clean"}
          /\ run.pc \in Positions \ {"idle", "tell", "trim"}
      BY <1>0, <2>1 DEF EnvUnreadable, PreExecFails, RunInFolder, AddTreeFails, SubDirMissing,
         AgentMissing, SleepEnds, PostExec, ToAgent, RunRecord, Positions
    <3>3. ~PublishCompleted
      BY <3>2 DEF PublishCompleted, RunSteps, Positions
    <3>4. QED BY <1>b, <2>a, <3>1, <3>2, <3>3 DEF Positions
  <2>2. CASE ReuseTree \/ RecordTree
    <3>1. row' = [row EXCEPT !.tree = Default, !.keep = KeepsTree] /\ daemon /\ daemon' = daemon
      BY <2>2 DEF ReuseTree, RecordTree, Save
    <3>2. row'.pid = row.pid /\ row'.session = row.session
      BY <1>0, <3>1 DEF Row
    <3>3. run'.session = run.session /\ run'.pc = "turn"
          /\ run.pc \in Positions \ {"idle", "tell", "trim"}
      BY <1>0, <2>2 DEF ReuseTree, RecordTree, ToAgent, RunRecord, Positions
    <3>4. ~PublishCompleted
      BY <3>3 DEF PublishCompleted, RunSteps, Positions
    <3>5. QED BY <1>b, <2>a, <3>1, <3>2, <3>3, <3>4 DEF Positions
  <2>3. CASE Turn
    <3>1. run.pc = "turn" /\ daemon /\ daemon' = daemon /\ SaveSession(run'.session)
          /\ run'.pc \in {"post", "asleep"}
      BY <2>3, TurnRun
    <3>2. row'.pid = row.pid /\ (run'.session # 0 => row'.session = run'.session)
      BY <1>0, <3>1 DEF SaveSession, Save, Row
    <3>3. ~PublishCompleted /\ run.pc \in Positions \ {"idle", "tell", "trim"}
      BY <3>1 DEF PublishCompleted, RunSteps, Positions
    <3>4. QED BY <1>b, <2>a, <3>1, <3>2, <3>3 DEF Positions
  <2>4. CASE SleepCancelled
    <3>1. run.pc = "asleep" /\ daemon /\ daemon' = daemon /\ SaveSession(run.session)
          /\ run'.pc = "post" /\ run'.session = run.session
      BY <1>0, <2>4 DEF SleepCancelled, RunRecord
    <3>2. row'.pid = row.pid /\ (run.session # 0 => row'.session = run.session)
      BY <1>0, <3>1 DEF SaveSession, Save, Row
    <3>3. ~PublishCompleted /\ run.pc \in Positions \ {"idle", "tell", "trim"}
      BY <3>1 DEF PublishCompleted, RunSteps, Positions
    <3>4. QED BY <1>b, <2>a, <3>1, <3>2, <3>3 DEF Positions
  <2>5. CASE PreExecDone \/ DiscardTree \/ AddTree \/ KeepTree \/ RemoveOwnTree
             \/ RemoveOwnTreeFails \/ ClearTreePath
    <3>1. run'.session = run.session /\ daemon /\ daemon' = daemon
      BY <2>5, PositionSteps DEF PreExecDone, DiscardTree, AddTree, KeepTree, RemoveOwnTree,
         RemoveOwnTreeFails, ClearTreePath, RunSteps
    <3>2. run'.pc \in Positions \ {"idle", "tell", "trim"}
          /\ run.pc \in Positions \ {"idle", "tell", "trim"}
      BY <1>0, <2>5 DEF PreExecDone, DiscardTree, AddTree, KeepTree, RemoveOwnTree,
         RemoveOwnTreeFails, ClearTreePath, RunSteps, RunRecord, Positions
    <3>3. row' = row \/ row' = [row EXCEPT !.tree = None]
      BY <2>5 DEF PreExecDone, DiscardTree, AddTree, KeepTree, RemoveOwnTree,
         RemoveOwnTreeFails, ClearTreePath, Save
    <3>4. row'.pid = row.pid /\ row'.session = row.session
      BY <1>0, <3>3 DEF Row
    <3>5. ~PublishCompleted
      BY <3>2 DEF PublishCompleted, RunSteps, Positions
    <3>6. QED BY <1>b, <2>a, <3>1, <3>2, <3>4, <3>5
  <2>6. CASE SetDone
    <3>1. /\ run.pc = "done" /\ run'.pc = "tell" /\ daemon /\ daemon' = daemon
          /\ run'.session = run.session /\ run'.status = run.status /\ run'.ts = run.ts
      BY <1>0, <2>6 DEF SetDone, RunSteps, RunRecord
    <3>2. /\ ~row'.pid /\ row'.status = run.status /\ row'.log = run.ts
          /\ row'.session = row.session /\ file' = row'
      BY <1>0, <2>6 DEF SetDone, Save, Row
    <3>3. told' = told /\ told.n = 0 /\ (run.session # 0 => row.session = run.session)
      BY <2>6, <3>1 DEF RowInv, SetDone, Positions
    <3>4. SaysRun(row)' /\ SaysRun(file)'
      BY <3>1, <3>2, <3>3 DEF SaysRun
    <3>5. QED BY <1>a, <3>1, <3>3, <3>4 DEF RowInv, Positions
  <2>7. CASE PublishCompleted
    <3>1. /\ run.pc = "tell" /\ run'.pc = "trim" /\ daemon /\ UNCHANGED <<daemon, row, file, done>>
          /\ run'.n = run.n
      BY <1>0, <2>7 DEF PublishCompleted, RunSteps, RunRecord
    <3>2. /\ told'.n = run.n /\ told'.status = run.status /\ told'.log = run.ts
          /\ told'.session = run.session
      BY <2>7 DEF PublishCompleted
    <3>3. /\ SaysRun(row) => Tells(row)'
          /\ SaysRun(file) => Tells(file)'
      BY <3>1, <3>2 DEF SaysRun, Tells
    <3>4. ToldIsRecorded'
      BY <3>1, <3>3 DEF RowInv, ToldIsRecorded
    <3>5. QED BY <3>1, <3>4 DEF RowInv, Positions
  <2>8. CASE TrimLogs
    <3>1. /\ run'.pc = "idle" /\ run'.n = run.n
          /\ UNCHANGED <<daemon, row, file, told, done>>
      BY <2>8 DEF TrimLogs, NoRun
    <3>2. ToldIsRecorded'
      BY <3>1 DEF RowInv, ToldIsRecorded, Tells
    <3>3. QED BY <3>1, <3>2 DEF RowInv
  <2>9. QED BY <1>2, <2>1, <2>2, <2>3, <2>4, <2>5, <2>6, <2>7, <2>8 DEF RunStep
<1>3. CASE Cancel
  <2>1. /\ run'.pc = run.pc /\ run'.session = run.session /\ run.pc \in {"pre", "turn", "asleep"}
        /\ UNCHANGED <<daemon, row, told>> /\ daemon
    BY <1>0, <1>3 DEF Cancel, RunRecord
  <2>2. run.pc \in Positions \ {"idle", "tell", "trim"}
    BY <2>1 DEF Positions
  <2>3. told.n = 0 /\ row.pid /\ (run.session # 0 => row.session = run.session)
    BY <2>2 DEF RowInv
  <2>4. QED BY <1>b, <2>1, <2>2, <2>3
<1>4. CASE Crash
  <2>1. /\ run'.pc = "idle" /\ run'.n = run.n /\ UNCHANGED <<row, file, told>>
        /\ done' = [done EXCEPT !.crashes = @ + 1]
    BY <1>4 DEF Crash, NoRun
  <2>2. done'.crashes # 0 /\ done'.over = done.over
    BY <1>0, <2>1 DEF DoneRecord
  <2>3. ToldIsRecorded'
    BY <2>1, <2>2 DEF RowInv, ToldIsRecorded, Tells
  <2>4. QED BY <2>1, <2>2, <2>3 DEF RowInv
<1>5. CASE StartDaemon
  <2>1. /\ run.pc = "idle" /\ daemon' /\ done.crashes # 0 /\ UNCHANGED <<run, told, done>>
        /\ row' = Reconciled(file) /\ file' = Reconciled(file)
    BY <1>5 DEF StartDaemon, RowInv, Save
  <2>2. ~file.pid => Reconciled(file) = file
    BY DEF Reconciled
  <2>3. Reconciled(file) # NoRow => file # NoRow
    BY <2>2 DEF NoRow
  <2>4. ASSUME told.n = run.n, told.n # 0, ~done.over, Reconciled(file) # NoRow
        PROVE  Tells(row)' /\ Tells(file)'
    <3>1. Tells(file)
      BY <2>3, <2>4 DEF RowInv, ToldIsRecorded
    <3>2. row' = file /\ file' = file
      BY <2>1, <2>2, <3>1 DEF Tells
    <3>3. QED BY <2>1, <3>1, <3>2 DEF Tells
  <2>5. ToldIsRecorded'
    BY <2>1, <2>4 DEF ToldIsRecorded
  <2>6. QED BY <2>1, <2>5 DEF RowInv
<1>6. CASE Command
  <2>1. run' = run /\ UNCHANGED <<daemon, told>>
    BY <1>6, RunUnchanged DEF Command, LoadState, MoveTree, SaveMove, RmTree,
       SaveRm, CmdFails, CloseTree, Forget, ForgetRefused, PruneLeftovers, SaveCopy
  <2>2. /\ done'.crashes = 0 => done.crashes = 0
        /\ ~done'.over => ~done.over
    <3>1. ~SetDone \/ run' # run
      BY <1>0 DEF SetDone, RunSteps, RunRecord
    <3>2. QED BY <2>1, <3>1, HistoryGrows
  <2>3. row' = row \/ (~row.pid /\ row' = NoRow)
    BY <1>6, CommandRows
  <2>4. \/ file' \in {file, NoRow}
        \/ /\ file' # NoRow => cmd.copy # NoRow
           /\ file'.pid = cmd.copy.pid /\ file'.status = cmd.copy.status
           /\ file'.log = cmd.copy.log /\ file'.session = cmd.copy.session
           /\ ~done'.over => cmd.copy = file
    BY <1>6, CommandRows
  <2>5. ASSUME row' # NoRow PROVE row' = row
    BY <2>3, <2>5
  <2>6. ASSUME file' # NoRow, ~done'.over
        PROVE  /\ file # NoRow /\ ~done.over
               /\ file'.pid = file.pid /\ file'.status = file.status
               /\ file'.log = file.log /\ file'.session = file.session
    BY <2>2, <2>4, <2>6
  <2>7. /\ row' # NoRow => (SaysRun(row) => SaysRun(row)') /\ (Tells(row) => Tells(row)')
        /\ file' # NoRow /\ ~done'.over =>
              (SaysRun(file) => SaysRun(file)') /\ (Tells(file) => Tells(file)')
    BY <2>1, <2>5, <2>6 DEF SaysRun, Tells
  <2>8. ToldIsRecorded'
    BY <2>1, <2>2, <2>5, <2>6, <2>7 DEF RowInv, ToldIsRecorded
  <2>9. run.pc = "tell" =>
          /\ row' # NoRow => SaysRun(row)'
          /\ file' # NoRow /\ ~done'.over => SaysRun(file)'
    BY <2>5, <2>6, <2>7 DEF RowInv
  <2>10. ~daemon => done'.crashes # 0
    BY <2>2 DEF RowInv
  <2>11. run.pc \in Positions \ {"idle", "tell", "trim"} => row' = row
    BY <2>3 DEF RowInv
  <2>12. QED BY <2>1, <2>8, <2>9, <2>10, <2>11 DEF RowInv
<1>7. CASE (\E p \in Paths : DeleteTree(p)) \/ UNCHANGED vars
  <2>1. UNCHANGED <<daemon, row, file, run, told>>
        /\ done' \in {done, [done EXCEPT !.deletes = @ + 1]}
    BY <1>7 DEF DeleteTree, vars
  <2>2. done'.crashes = done.crashes /\ done'.over = done.over
    BY <1>0, <2>1 DEF DoneRecord
  <2>3. QED BY <2>1, <2>2 DEF RowInv, ToldIsRecorded, Tells, SaysRun
<1>8. QED BY <1>1, <1>2, <1>3, <1>4, <1>5, <1>6, <1>7 DEF Next

\* What a run has told stays what the daemon's row says, and what state.json says, until
\* the next run, the row is forgotten or a command has saved an older copy of the file;
\* the status is ok only when nothing of the run failed, stopped only when it was
\* stopped, timeout only at its deadline; and all turns with their sleeps fit in one
\* timeout (runner.go:145-202, 267-272, 316-327, 383-402; get.go:33, resume.go:28).
THEOREM ToldIsTrueHolds == Spec => []ToldIsTrue
<1> DEFINE Inv == TypeOK /\ CmdInv /\ ClockInv /\ StatusInv /\ RowInv
<1>1. Init => Inv
  <2>1. Init => ClockInv /\ StatusInv /\ RowInv
    BY ConstantsAssumption
       DEF Init, NoRun, NothingTold, ClockInv, StatusInv, StatusTrue, RowInv, ToldIsRecorded
  <2>2. QED BY <2>1, InitType
<1>2. Inv /\ [Next]_vars => Inv'
  BY StepType, ClockStep, StatusStep, RowStep
<1>3. Inv => ToldIsTrue
  BY DEF ToldIsTrue, ClockInv, StatusInv, RowInv, OneDeadline
<1>4. QED BY <1>1, <1>2, <1>3, PTL DEF Spec

-----------------------------------------------------------------------------
(***************************************************************************)
(* What the runs leave behind.                                             *)
(***************************************************************************)

\* A set of numbers that is not empty has a least one.
LEMMA LeastNumber ==
  ASSUME NEW S \in SUBSET Nat, S # {}
  PROVE  \E x \in S : \A y \in S : x <= y
<1>1. \E x \in S : \A y \in S : ~ (<<y, x>> \in OpToRel(<, Nat))
  BY NatLessThanWellFounded, WFMin
<1>2. \A x, y \in S : <<y, x>> \in OpToRel(<, Nat) <=> y < x
  BY DEF OpToRel
<1>3. \A x, y \in S : ~(y < x) => x <= y
  OBVIOUS
<1>4. QED BY <1>1, <1>2, <1>3

\* trimLogs leaves the number of logs it is told to leave, or fewer, and the newest
\* is one of them.
LEMMA KeptBound ==
  ASSUME NEW top \in Nat, NEW names, names \subseteq 1..top
  PROVE  /\ Kept(names) \subseteq names
         /\ Cardinality(Kept(names)) <= RetainLogs
         /\ top \in names => top \in Kept(names)
<1>0. /\ RetainLogs \in Nat \ {0} /\ names \in SUBSET Nat /\ Kept(names) \in SUBSET Nat
      /\ \A x \in names : x \in Nat /\ x <= top
  <2>1. \A x \in names : x \in 1..top
    OBVIOUS
  <2>2. \A x \in names : x \in Nat /\ x <= top
    BY <2>1
  <2>3. \A x \in Kept(names) : x \in names
    BY DEF Kept
  <2>4. RetainLogs \in Nat \ {0}
    BY ConstantsAssumption
  <2>5. QED BY <2>2, <2>3, <2>4
<1>1. IsFiniteSet(names) /\ \A T \in SUBSET names : IsFiniteSet(T) /\ Cardinality(T) \in Nat
  <2>1. IsFiniteSet(1..top)
    BY FS_Interval
  <2>2. IsFiniteSet(names)
    BY <2>1, FS_Subset
  <2>3. QED BY <2>2, FS_Subset, FS_CardinalityType
<1>2. Kept(names) \subseteq names
  BY DEF Kept
<1>3. Cardinality(Kept(names)) <= RetainLogs
  <2>1. CASE Kept(names) = {}
    BY <1>0, <2>1, FS_EmptySet
  <2>2. CASE Kept(names) # {}
    <3>1. PICK least \in Kept(names) : \A y \in Kept(names) : least <= y
      BY <1>0, <2>2, LeastNumber
    <3> DEFINE newer == {m \in names : m > least}
    <3>2. IsFiniteSet(newer) /\ Cardinality(newer) \in Nat
      BY <1>1
    <3>3. Cardinality(newer) < RetainLogs
      BY <3>1 DEF Kept
    <3>4. Kept(names) \subseteq newer \cup {least}
      <4>1. \A x \in Kept(names) : x \in names /\ (x = least \/ x > least)
        BY <1>0, <1>2, <3>1
      <4>2. QED BY <4>1
    <3> HIDE DEF newer
    <3>5. IsFiniteSet(newer \cup {least}) /\ Cardinality(newer \cup {least}) <= RetainLogs
          /\ Cardinality(newer \cup {least}) \in Nat
      <4>1. IsFiniteSet(newer \cup {least})
            /\ Cardinality(newer \cup {least}) \in {Cardinality(newer), Cardinality(newer) + 1}
        BY <3>2, FS_AddElement
      <4>2. QED BY <1>0, <3>2, <3>3, <4>1
    <3>6. Cardinality(Kept(names)) <= Cardinality(newer \cup {least})
      BY <3>4, <3>5, FS_Subset
    <3>7. Cardinality(Kept(names)) \in Nat
      BY <1>1, <1>2
    <3>8. QED BY <1>0, <3>5, <3>6, <3>7
  <2>3. QED BY <2>1, <2>2
<1>4. top \in names => top \in Kept(names)
  <2>1. \A m \in names : ~(m > top)
    BY <1>0
  <2>2. Cardinality({m \in names : m > top}) = 0
    <3>1. {m \in names : m > top} = {}
      BY <2>1
    <3>2. QED BY <3>1, FS_EmptySet
  <2>3. QED BY <1>0, <2>2 DEF Kept
<1>5. QED BY <1>2, <1>3, <1>4

\* A step of a run keeps its number and its second until it is over, and the logs.
LEMMA RunGoesOn ==
  ASSUME TypeOK, RunStep, ~TrimLogs
  PROVE  /\ run'.n = run.n /\ run'.ts = run.ts
         /\ run.pc # "idle" /\ run'.pc # "idle"
         /\ UNCHANGED <<logs, cmd>>
         /\ PublishCompleted \/ (run'.pc # "trim" /\ run.pc # "trim")
<1>0. run \in RunRecord
  BY DEF TypeOK
<1>1. CASE EnvUnreadable \/ PreExecFails
  BY <1>0, <1>1 DEF EnvUnreadable, PreExecFails, RunRecord
<1>2. CASE RunInFolder \/ AddTreeFails \/ ReuseTree \/ RecordTree
  BY <1>0, <1>2 DEF RunInFolder, AddTreeFails, ReuseTree, RecordTree, ToAgent, RunRecord
<1>3. CASE SubDirMissing \/ AgentMissing
  BY <1>0, <1>3 DEF SubDirMissing, AgentMissing, RunRecord
<1>4. CASE SleepEnds \/ SleepCancelled \/ PostExec
  BY <1>0, <1>4 DEF SleepEnds, SleepCancelled, PostExec, RunRecord
<1>5. CASE Turn
  <2>1. UNCHANGED <<logs, cmd>>
    BY <1>5 DEF Turn, TurnEnds, TurnFails, TurnWakes
  <2>2. QED BY <1>5, <2>1, TurnRun
<1>6. CASE PreExecDone \/ DiscardTree \/ AddTree \/ KeepTree \/ RemoveOwnTree
           \/ RemoveOwnTreeFails \/ ClearTreePath \/ SetDone \/ PublishCompleted
  <2>1. /\ UNCHANGED <<logs, cmd>> /\ run.pc # "idle" /\ run.pc # "trim"
        /\ PublishCompleted \/ run'.pc # "trim"
    BY <1>0, <1>6 DEF PreExecDone, DiscardTree, AddTree, KeepTree, RemoveOwnTree,
       RemoveOwnTreeFails, ClearTreePath, SetDone, PublishCompleted, RunSteps, RunRecord
  <2>2. QED BY <1>6, <2>1, PositionSteps
<1>7. QED BY <1>1, <1>2, <1>3, <1>4, <1>5, <1>6 DEF RunStep

LEMMA LogStep ==
  ASSUME TypeOK, LogInv, [Next]_vars
  PROVE  LogInv'
<1> USE ConstantsAssumption
<1>0. /\ run \in RunRecord /\ run.ts \in Nat /\ run.n \in Nat /\ done \in DoneRecord
      /\ logs \subseteq 1..run.ts
  BY DEF TypeOK, RunRecord, LogInv
<1>1. CASE \E mode \in Modes, resume \in 0..MaxRuns, ts \in 1..MaxRuns :
             StartRun(mode, resume, ts)
  <2>1. PICK mode \in Modes, resume \in 0..MaxRuns, ts \in 1..MaxRuns :
          StartRun(mode, resume, ts)
    BY <1>1
  <2>2. /\ run'.n = run.n + 1 /\ run'.ts = ts /\ run'.pc = "pre" /\ ts \in {run.ts, run.ts + 1}
        /\ ts > 0 /\ logs' = logs \cup {ts} /\ UNCHANGED <<cmd, done>>
    BY <2>1 DEF StartRun, NoRun
  <2>3. logs' \subseteq 1..run'.ts
    <3>1. \A x \in logs' : x \in 1..ts
      BY <1>0, <2>2
    <3>2. QED BY <2>2, <3>1
  <2>4. run'.n # 0 /\ run'.ts # 0
    BY <1>0, <2>2
  <2>5. QED BY <2>2, <2>3, <2>4 DEF LogInv, ToldLogKept
<1>2. CASE TrimLogs
  <2>1. /\ run.pc = "trim" /\ run'.pc = "idle" /\ run'.n = run.n /\ run'.ts = run.ts
        /\ logs' = Kept(logs) /\ UNCHANGED <<told, cmd, done>>
    BY <1>2 DEF TrimLogs, NoRun
  <2>2. /\ logs' \subseteq logs /\ Cardinality(logs') <= RetainLogs
        /\ run.ts \in logs => run.ts \in logs'
    BY <1>0, <2>1, KeptBound
  <2>3. told.log = run.ts /\ (done.cmds = 0 => run.ts \in logs /\ cmd = NoCommand)
    BY <2>1 DEF LogInv
  <2>4. QED BY <1>0, <2>1, <2>2, <2>3 DEF LogInv, ToldLogKept
<1>3. CASE RunStep /\ ~TrimLogs
  <2>1. /\ run'.n = run.n /\ run'.ts = run.ts /\ run.pc # "idle" /\ run'.pc # "idle"
        /\ UNCHANGED <<logs, cmd>>
    BY <1>3, RunGoesOn
  <2>2. done'.cmds = done.cmds
    BY <1>3, HistoryGrows
  <2>3. run'.pc = "trim" => told'.log = run.ts
    BY <1>3, RunGoesOn DEF PublishCompleted
  <2>4. QED BY <2>1, <2>2, <2>3 DEF LogInv, ToldLogKept
<1>4. CASE Cancel
  <2>1. /\ run'.pc = run.pc /\ run'.n = run.n /\ run'.ts = run.ts /\ run.pc # "idle"
        /\ UNCHANGED <<logs, told, cmd, done>>
    BY <1>0, <1>4 DEF Cancel, RunRecord
  <2>2. QED BY <2>1 DEF LogInv, ToldLogKept
<1>5. CASE Crash
  <2>1. /\ run'.pc = "idle" /\ run'.ts = run.ts /\ UNCHANGED <<logs, cmd>>
        /\ done' = [done EXCEPT !.crashes = @ + 1]
    BY <1>5 DEF Crash, NoRun
  <2>2. done'.crashes # 0 /\ done'.cmds = done.cmds
    BY <1>0, <2>1 DEF DoneRecord
  <2>3. QED BY <1>0, <2>1, <2>2 DEF LogInv, ToldLogKept
<1>6. CASE StartDaemon \/ (\E p \in Paths : DeleteTree(p)) \/ UNCHANGED vars
  <2>1. UNCHANGED <<run, logs, told, cmd>>
    BY <1>6 DEF StartDaemon, DeleteTree, vars
  <2>2. done'.cmds = 0 => done.cmds = 0
    BY HistoryGrows
  <2>3. done'.crashes = 0 => done.crashes = 0
    BY HistoryGrows
  <2>4. QED BY <2>1, <2>2, <2>3 DEF LogInv, ToldLogKept
<1>7. CASE Command
  <2>1. run' = run /\ UNCHANGED told
    BY <1>7, RunUnchanged DEF Command, LoadState, MoveTree, SaveMove, RmTree, SaveRm,
       CmdFails, CloseTree, Forget, ForgetRefused, PruneLeftovers, SaveCopy
  <2>2. logs' \in {logs, {}}
    BY <1>7 DEF Command, LoadState, MoveTree, SaveMove, RmTree, SaveRm, CmdFails, CloseTree,
       Forget, ForgetRefused, PruneLeftovers, SaveCopy
  <2>3. done'.cmds # 0
    <3>1. ASSUME NEW kind \in Commands, LoadState(kind) PROVE done'.cmds # 0
      BY <1>0, <3>1 DEF LoadState, DoneRecord
    <3>2. CASE \A kind \in Commands : ~LoadState(kind)
      <4>1. cmd.pc # "idle"
        BY <1>7, <3>2 DEF Command, MoveTree, SaveMove, RmTree, SaveRm, CmdFails, CloseTree,
           Forget, ForgetRefused, PruneLeftovers, CmdSteps, CmdEnds
      <4>2. QED BY <4>1, HistoryGrows DEF LogInv, NoCommand
    <3>3. QED BY <3>1, <3>2
  <2>4. QED BY <1>0, <2>1, <2>2, <2>3 DEF LogInv, ToldLogKept
<1>8. QED BY <1>1, <1>2, <1>3, <1>4, <1>5, <1>6, <1>7 DEF Next

LEMMA TrackStep ==
  ASSUME TypeOK, LogInv, TrackInv, [Next]_vars
  PROVE  TrackInv'
<1> USE ConstantsAssumption
<1> SUFFICES ASSUME Undisturbed'
             PROVE  TrackInv'
  BY DEF TrackInv
<1>0. /\ run \in RunRecord /\ row \in Row /\ done \in DoneRecord
      /\ trees \in [Paths -> 0..MaxRuns] /\ Paths = {Default, Elsewhere}
  BY DEF TypeOK, Paths
<1>1. Undisturbed
  BY HistoryGrows DEF Undisturbed
<1>2. /\ daemon /\ cmd = NoCommand
      /\ trees[Elsewhere] = 0 /\ branch \in {None, Default}
      /\ branch = Default <=> trees[Default] # 0
      /\ run.pc = "add" => trees[Default] = 0
      /\ run.pc = "record" => trees[Default] # 0
      /\ run.pc = "clear" => trees[Default] = 0
      /\ run.pc \notin {"add", "record", "clear"} =>
            /\ trees[Default] # 0 => row.tree = Default
            /\ row.tree = Default /\ ~done.subdir => trees[Default] # 0
  BY <1>1 DEF TrackInv
<1>a. ~done'.subdir /\ ~AddTree => ~done.subdir
  BY HistoryGrows
<1>b. ~AddTree \/ (RunStep /\ AddTree /\ run'.pc = "record")
  BY <1>0 DEF RunStep, AddTree, RunSteps, RunRecord
<1>3. CASE \E mode \in Modes, resume \in 0..MaxRuns, ts \in 1..MaxRuns :
             StartRun(mode, resume, ts)
  <2>1. /\ run.pc = "idle" /\ run'.pc = "pre" /\ UNCHANGED <<daemon, trees, branch, cmd>>
        /\ row' = [row EXCEPT !.pid = TRUE, !.status = "running"]
    BY <1>3 DEF StartRun, NoRun, Save
  <2>2. row'.tree = row.tree
    BY <1>0, <2>1 DEF Row
  <2>3. QED BY <1>a, <1>b, <1>2, <2>1, <2>2 DEF TrackInv
<1>4. CASE RunStep
  <2>1. CASE EnvUnreadable \/ PreExecFails \/ PreExecDone \/ RunInFolder \/ AgentMissing
             \/ SleepEnds \/ PostExec \/ KeepTree \/ PublishCompleted \/ TrimLogs
    <3>1. UNCHANGED <<daemon, row, trees, branch, cmd>>
      BY <2>1 DEF EnvUnreadable, PreExecFails, PreExecDone, RunInFolder, AgentMissing,
         SleepEnds, PostExec, KeepTree, PublishCompleted, TrimLogs
    <3>2. run.pc \notin {"add", "record", "clear"} /\ run'.pc \notin {"add", "record", "clear"}
      <4>1. CASE EnvUnreadable \/ PreExecFails \/ PreExecDone
        BY <1>0, <4>1 DEF EnvUnreadable, PreExecFails, PreExecDone, RunSteps, RunRecord
      <4>2. CASE RunInFolder \/ AgentMissing \/ SleepEnds
        BY <1>0, <4>2 DEF RunInFolder, AgentMissing, SleepEnds, ToAgent, RunRecord
      <4>3. CASE PostExec
        BY <1>0, <4>3 DEF PostExec, RunRecord
      <4>4. CASE KeepTree \/ PublishCompleted \/ TrimLogs
        BY <1>0, <4>4 DEF KeepTree, PublishCompleted, TrimLogs, RunSteps, NoRun, RunRecord
      <4>5. QED BY <2>1, <4>1, <4>2, <4>3, <4>4
    <3>3. QED BY <1>a, <1>b, <1>2, <3>1, <3>2 DEF TrackInv
  <2>2. CASE Turn \/ SleepCancelled
    <3>1. /\ UNCHANGED <<daemon, trees, branch, cmd>>
          /\ \E i : SaveSession(i)
      BY <2>2 DEF Turn, TurnEnds, TurnFails, TurnWakes, SleepCancelled
    <3>2. run.pc \in {"turn", "asleep"} /\ run'.pc \in {"post", "asleep"}
      BY <1>0, <2>2, TurnRun DEF SleepCancelled, RunRecord
    <3>3. row'.tree = row.tree
      BY <1>0, <3>1 DEF SaveSession, Save, Row
    <3>4. QED BY <1>a, <1>b, <1>2, <3>1, <3>2, <3>3 DEF TrackInv
  <2>3. CASE ReuseTree \/ RecordTree
    <3>1. /\ UNCHANGED <<daemon, trees, branch, cmd>> /\ trees[Default] # 0
          /\ row' = [row EXCEPT !.tree = Default, !.keep = KeepsTree]
      BY <1>2, <2>3 DEF ReuseTree, RecordTree, Save
    <3>2. row'.tree = Default /\ run'.pc = "turn"
      BY <1>0, <2>3, <3>1 DEF ReuseTree, RecordTree, ToAgent, RunRecord, Row
    <3>3. QED BY <1>a, <1>b, <1>2, <3>1, <3>2 DEF TrackInv
  <2>4. CASE DiscardTree
    <3>1. UNCHANGED <<daemon, cmd>> /\ run'.pc = "add"
      BY <1>0, <2>4 DEF DiscardTree, RunRecord
    <3>2. CASE trees[Default] # 0 /\ trees' = Removed(Default).trees
               /\ branch' = DeleteBranch(Removed(Default).branch)
      <4>1. trees' = [trees EXCEPT ![Default] = 0]
        BY <3>2, RemovedType
      <4>2. branch' = None
        BY <1>2, <3>2 DEF Removed, DeleteBranch
      <4>3. trees'[Default] = 0 /\ trees'[Elsewhere] = 0
        BY <1>0, <1>2, <4>1
      <4>4. QED BY <1>2, <3>1, <4>2, <4>3 DEF TrackInv
    <3>3. CASE done' = [done EXCEPT !.git = TRUE]
      BY <1>0, <3>3 DEF Undisturbed, DoneRecord
    <3>4. CASE trees[Default] = 0 /\ branch' = DeleteBranch(branch) /\ trees' = trees
      BY <1>2, <3>1, <3>4 DEF TrackInv, DeleteBranch
    <3>5. QED BY <2>4, <3>2, <3>3, <3>4 DEF DiscardTree
  <2>5. CASE AddTree
    <3>1. /\ UNCHANGED <<daemon, cmd>> /\ run.pc = "add" /\ run'.pc = "record"
          /\ trees' = [trees EXCEPT ![Default] = run.n] /\ branch' = Default
      BY <1>0, <2>5 DEF AddTree, RunSteps, RunRecord
    <3>2. run.n # 0
      BY <3>1 DEF LogInv
    <3>3. trees'[Default] # 0 /\ trees'[Elsewhere] = 0
      BY <1>0, <1>2, <3>1, <3>2
    <3>4. QED BY <1>2, <3>1, <3>3 DEF TrackInv
  <2>6. CASE AddTreeFails
    <3>1. run.pc = "add" /\ done' = [done EXCEPT !.git = @ \/ CanAdd]
      BY <2>6 DEF AddTreeFails
    <3>2. CanAdd
      BY <1>2, <3>1 DEF CanAdd
    <3>3. done'.git
      BY <1>0, <3>1, <3>2 DEF DoneRecord
    <3>4. QED BY <3>3 DEF Undisturbed
  <2>7. CASE SubDirMissing
    <3>1. /\ UNCHANGED <<daemon, row, cmd>> /\ run'.pc = "turn" /\ run.pc = "record"
          /\ \/ RemoveTree(Default) /\ done' = [done EXCEPT !.subdir = TRUE]
             \/ done' = [done EXCEPT !.subdir = TRUE, !.git = TRUE]
      BY <1>0, <2>7 DEF SubDirMissing, RunRecord
    <3>2. RemoveTree(Default) /\ done'.subdir
      BY <1>0, <3>1 DEF Undisturbed, DoneRecord
    <3>3. trees' = [trees EXCEPT ![Default] = 0] /\ branch' = None
      BY <1>0, <1>2, <3>1, <3>2, RemovedType DEF RemoveTree, Removed
    <3>4. trees'[Default] = 0 /\ trees'[Elsewhere] = 0
      BY <1>0, <1>2, <3>3
    <3>5. QED BY <1>2, <3>1, <3>2, <3>3, <3>4 DEF TrackInv
  <2>8. CASE RemoveOwnTree
    <3>1. /\ UNCHANGED <<daemon, cmd>> /\ run'.pc = "clear" /\ run.pc = "clean"
          /\ run.tree = Default
          /\ trees' = Removed(Default).trees /\ branch' = Removed(Default).branch
      <4>1. /\ UNCHANGED <<daemon, cmd>> /\ run.pc = "clean" /\ run.tree # None
            /\ run' = [run EXCEPT !.pc = "clear"] /\ RemoveTree(run.tree)
        BY <2>8 DEF RemoveOwnTree, RunSteps
      <4>2. run.tree = Default /\ run'.pc = "clear"
        BY <1>0, <4>1 DEF RunRecord
      <4>3. QED BY <4>1, <4>2 DEF RemoveTree
    <3>2. trees' = [trees EXCEPT ![Default] = 0]
      BY <3>1, RemovedType
    <3>3. branch' = None
      BY <1>0, <1>2, <3>1 DEF Removed
    <3>4. trees'[Default] = 0 /\ trees'[Elsewhere] = 0
      BY <1>0, <1>2, <3>2
    <3>5. QED BY <1>2, <3>1, <3>3, <3>4 DEF TrackInv
  <2>9. CASE RemoveOwnTreeFails
    <3>1. /\ UNCHANGED <<daemon, row, cmd, trees, branch>> /\ run'.pc = "done"
          /\ run.pc = "clean"
      BY <1>0, <2>9 DEF RemoveOwnTreeFails, RemoveFails, RunSteps, RunRecord
    <3>2. QED BY <1>a, <1>b, <1>2, <3>1 DEF TrackInv
  <2>10. CASE ClearTreePath
    <3>1. /\ UNCHANGED <<daemon, cmd, trees, branch>> /\ run'.pc = "done" /\ run.pc = "clear"
          /\ row' = [row EXCEPT !.tree = None]
      BY <1>0, <2>10 DEF ClearTreePath, RunSteps, Save, RunRecord
    <3>2. row'.tree = None
      BY <1>0, <3>1 DEF Row
    <3>3. QED BY <1>a, <1>b, <1>2, <3>1, <3>2 DEF TrackInv
  <2>11. CASE SetDone
    <3>1. /\ UNCHANGED <<daemon, cmd, trees, branch>> /\ run'.pc = "tell" /\ run.pc = "done"
          /\ row' = [row EXCEPT !.pid = FALSE, !.status = run.status, !.log = run.ts]
      BY <1>0, <2>11 DEF SetDone, RunSteps, Save, RunRecord
    <3>2. row'.tree = row.tree
      BY <1>0, <3>1 DEF Row
    <3>3. QED BY <1>a, <1>b, <1>2, <3>1, <3>2 DEF TrackInv
  <2>12. QED
    BY <1>4, <2>1, <2>2, <2>3, <2>4, <2>5, <2>6, <2>7, <2>8, <2>9, <2>10, <2>11 DEF RunStep
<1>5. CASE Cancel
  <2>1. run'.pc = run.pc /\ UNCHANGED <<daemon, row, trees, branch, cmd>>
    BY <1>0, <1>5 DEF Cancel, RunRecord
  <2>2. QED BY <1>a, <1>b, <1>2, <2>1 DEF TrackInv
<1>6. CASE Crash
  <2>1. done'.crashes # 0
    BY <1>0, <1>6 DEF Crash, DoneRecord
  <2>2. QED BY <2>1 DEF Undisturbed
<1>7. CASE StartDaemon
  BY <1>2, <1>7 DEF StartDaemon
<1>8. CASE \E p \in Paths : DeleteTree(p)
  <2>1. done'.deletes # 0
    BY <1>0, <1>8 DEF DeleteTree, DoneRecord
  <2>2. QED BY <2>1 DEF Undisturbed
<1>9. CASE Command
  <2>1. ASSUME NEW kind \in Commands, LoadState(kind) PROVE FALSE
    <3>1. done'.cmds # 0
      BY <1>0, <2>1 DEF LoadState, DoneRecord
    <3>2. QED BY <3>1 DEF Undisturbed
  <2>2. cmd.pc # "idle"
    BY <1>9, <2>1 DEF Command, MoveTree, SaveMove, RmTree, SaveRm, CmdFails, CloseTree,
       Forget, ForgetRefused, PruneLeftovers, CmdSteps, CmdEnds
  <2>3. QED BY <1>2, <2>2 DEF NoCommand
<1>10. CASE UNCHANGED vars
  BY <1>2, <1>10 DEF vars, TrackInv
<1>11. QED BY <1>3, <1>4, <1>5, <1>6, <1>7, <1>8, <1>9, <1>10 DEF Next

\* Between undisturbed runs the row has the path of the job's worktree exactly when
\* there is one, the log the last run told about is there, and no more logs are kept
\* than the job is to keep (runner.go:367-378, 430-465, 525-546).
THEOREM LeftoversKnownHolds == Spec => []LeftoversKnown
<1> DEFINE Inv == TypeOK /\ CmdInv /\ LogInv /\ TrackInv
<1>1. Init => Inv
  <2>1. Init => LogInv
    BY DEF Init, NoRun, LogInv, ToldLogKept, NothingTold
  <2>2. Init => TrackInv
    BY ConstantsAssumption DEF Init, NoRun, NoRow, TrackInv, Paths
  <2>3. QED BY <2>1, <2>2, InitType
<1>2. Inv /\ [Next]_vars => Inv'
  BY StepType, LogStep, TrackStep
<1>3. Inv => LeftoversKnown
  BY DEF LogInv, TrackInv, LeftoversKnown, TreeTracked
<1>4. QED BY <1>1, <1>2, <1>3, PTL DEF Spec
=============================================================================
