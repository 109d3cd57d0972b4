------------------------------ MODULE AgentTurn ------------------------------
(***************************************************************************)
(* One call of agent.Run: a claude process that writes records, and the     *)
(* provider that reads them.  "claude-pty" tails the session file and keeps *)
(* claude alive while its background work is outstanding                    *)
(* (internal/agent/claudepty); "claude" parses the NDJSON on the process's  *)
(* standard output until it exits (internal/agent/claude).                  *)
(*                                                                          *)
(* A record is one line.  Positions in the file count half lines, so that a *)
(* line can be on disk in part: its first half is 2k-1, its newline is 2k.  *)
(* A text is named by the turn it was said in.  Timeouts (the stall and the *)
(* quiet window, the grace for the file, the job deadline) elapse at any    *)
(* time; what the code makes of that is in the guards.                      *)
(***************************************************************************)
EXTENDS Naturals, Sequences

CONSTANTS
  Task,          \* background tasks
  Kind,          \* how each is dispatched: "bash", "monitor" or "message"
  NoTask,
  MaxRecords,    \* bound on the lines of the file
  MaxTurns,      \* bound on claude's turns
  ReadErrors     \* whether reading the session file may fail while a line is partial

ASSUME AgentAssumption ==
  /\ Kind \in [Task -> {"bash", "monitor", "message"}]
  /\ NoTask \notin Task
  /\ MaxRecords \in Nat /\ MaxTurns \in Nat \ {0}
  /\ ReadErrors \in BOOLEAN

VARIABLES
  provider,   \* which provider runs, and whether it resumes a session
  file,       \* the lines claude has written, the last one perhaps in part
  half,       \* the newline of the last line is not written yet
  claude,     \* the process
  task,       \* each background task as claude knows it
  stopping,   \* TaskStop calls without a result
  turn,       \* the number of claude's turn
  ctx,        \* the context of the run
  pc,         \* where the provider is
  tail,       \* the first half line that was not visited, how much was read, and
              \* whether the offset has moved since the current window began
  path,       \* whether the path it tails is that of the file
  st,         \* runState, or the parsed fields of streamWriter
  seen,       \* history: the lines visited, in order
  gaveUp,     \* why it stopped waiting for background work
  result      \* what Run returned

env  == << file, half, claude, task, stopping, turn >>
prov == << pc, tail, path, st, seen, gaveUp, result >>
vars == << provider, env, ctx, prov >>

Pty == provider.name = "claude-pty"

Rec == [kind : {"text", "launch", "ack", "stop", "stopped", "refused", "event",
                "done", "schedule", "cancel", "end"},
        task : Task \cup {NoTask}, turn : 0..MaxTurns]

Line(k, t, n) == [kind |-> k, task |-> t, turn |-> n]
Size == IF half THEN 2 * Len(file) - 1 ELSE 2 * Len(file)
Alive == claude \in {"busy", "idle"}

NewState == [pending |-> {}, known |-> {}, mapped |-> {}, stops |-> {},
             last |-> 0, final |-> 0, wakeup |-> FALSE, turnDone |-> FALSE,
             deferring |-> FALSE, awaiting |-> FALSE]

NoResult == [state |-> "none", final |-> 0, wakeup |-> FALSE]

\* A resumed session has a file with an earlier turn in it.
Earlier == << Line("text", NoTask, 0), Line("end", NoTask, 0) >>

Init ==
  /\ provider \in [name : {"claude", "claude-pty"}, resumes : BOOLEAN]
  /\ file = IF Pty /\ provider.resumes THEN Earlier ELSE << >>
  /\ half = FALSE
  /\ claude = "none" /\ task = [t \in Task |-> "new"] /\ stopping = {}
  /\ turn = 1 /\ ctx = "live"
  /\ pc = "start" /\ tail = [off |-> 0, read |-> 0, moved |-> FALSE]
  /\ path = TRUE /\ st = NewState /\ seen = << >>
  /\ gaveUp = "no" /\ result = NoResult

-----------------------------------------------------------------------------
(* The claude process. *)

\* Bounds: MaxRecords lines, and no line twice but the end of a turn.
Emit(k, t, n) ==
  /\ ~half /\ Len(file) < MaxRecords
  /\ k # "end" => \A i \in DOMAIN file : file[i] # Line(k, t, n)
  /\ file' = Append(file, Line(k, t, n)) /\ half' = TRUE
  /\ UNCHANGED << provider, ctx, prov >>

\* The newline of a line reaches the file.
Flush ==
  /\ half /\ Alive
  /\ half' = FALSE
  /\ UNCHANGED << provider, file, claude, task, stopping, turn, ctx, prov >>

Say ==
  /\ claude = "busy" /\ Emit("text", NoTask, turn)
  /\ UNCHANGED << claude, task, stopping, turn >>

Launch(t) ==
  /\ claude = "busy" /\ task[t] = "new" /\ Emit("launch", t, 0)
  /\ task' = [task EXCEPT ![t] = "called"]
  /\ UNCHANGED << claude, stopping, turn >>

Acknowledge(t) ==
  /\ claude = "busy" /\ task[t] = "called" /\ Emit("ack", t, 0)
  /\ task' = [task EXCEPT ![t] = "running"]
  /\ UNCHANGED << claude, stopping, turn >>

AskStop(t) ==
  /\ claude = "busy" /\ task[t] = "running" /\ t \notin stopping
  /\ Emit("stop", t, 0)
  /\ stopping' = stopping \cup {t}
  /\ UNCHANGED << claude, task, turn >>

\* A task that was stopped sends no notification.
StopResult(t) ==
  /\ claude = "busy" /\ t \in stopping
  /\ \/ /\ task[t] = "running" /\ Emit("stopped", t, 0)
        /\ task' = [task EXCEPT ![t] = "over"]
     \/ /\ Emit("refused", t, 0) /\ UNCHANGED task
  /\ stopping' = stopping \ {t}
  /\ UNCHANGED << claude, turn >>

\* A notification is attached to the current turn; an idle claude may start
\* a turn for it, or not.
Prompted ==
  \/ claude = "busy" /\ UNCHANGED << claude, turn >>
  \/ claude = "idle" /\ turn < MaxTurns /\ claude' = "busy" /\ turn' = turn + 1
  \/ claude = "idle" /\ UNCHANGED << claude, turn >>

TaskReports(t) ==
  /\ Alive /\ task[t] = "running" /\ Emit("done", t, 0) /\ Prompted
  /\ task' = [task EXCEPT ![t] = "over"]
  /\ UNCHANGED stopping

\* An event of a Monitor names no tool use.
MonitorEvent(t) ==
  /\ Alive /\ task[t] = "running" /\ Kind[t] = "monitor"
  /\ Emit("event", NoTask, 0) /\ Prompted
  /\ UNCHANGED << task, stopping >>

ScheduleWakeup ==
  /\ claude = "busy"
  /\ \E k \in {"schedule", "cancel"} : Emit(k, NoTask, 0)
  /\ UNCHANGED << claude, task, stopping, turn >>

EndTurn ==
  /\ claude = "busy" /\ stopping = {}
  /\ \A t \in Task : task[t] # "called"
  /\ Emit("end", NoTask, 0)
  /\ claude' = "idle"
  /\ UNCHANGED << task, stopping, turn >>

\* claude -p exits after its turn; an interactive one ends by a signal, a
\* crash, or the kill that follows the end of the context.
Exit(how) ==
  /\ Alive
  /\ how = "exited" => claude = "idle" /\ ~half /\ ~Pty
  /\ claude' = how
  /\ UNCHANGED << provider, file, half, task, stopping, turn, ctx, prov >>

Cancel ==
  /\ ctx = "live" /\ result = NoResult /\ pc # "start"
  /\ ctx' = "done"
  /\ UNCHANGED << provider, env, prov >>

-----------------------------------------------------------------------------
(* What a record does to the state of the provider. *)

\* isAsyncLaunchResult: an ack counts if the tool that was called is known,
\* and is not one whose results are content.
IsAsyncAck(s, r) == r.kind = "ack" /\ r.task \in s.known /\ Kind[r.task] # "bash"

Tracked(s, r) ==
  \/ r.kind = "launch" /\ Kind[r.task] = "bash"
  \/ IsAsyncAck(s, r)

\* backgroundTaskID: the ack of a resumed agent carries no id.
IsMapped(s, r) ==
  r.kind = "ack" /\ Kind[r.task] # "message"
    /\ (r.task \in s.pending \/ IsAsyncAck(s, r))

\* Mutation: the ids of the dispatch and of the task are taken for the same.
EndedByAnyStop(s, r) ==
  r.kind = "done" \/ (r.kind \in {"stopped", "refused"} /\ r.task \in s.stops)

Ended(s, r) ==
  \/ r.kind = "done"
  \/ r.kind = "stopped" /\ r.task \in s.stops /\ r.task \in s.mapped

\* Mutation: the cancellation of a schedule is not recognized.
CancelsNothing(r) == FALSE

\* stop:true ends the loop: the schedule must not outlive it.
Cancels(r) == r.kind = "cancel"

Visit(s, r) ==
  [pending |-> (s.pending \cup {t \in {r.task} : Tracked(s, r)})
                 \ {t \in {r.task} : Ended(s, r)},
   known   |-> (s.known \cup {t \in {r.task} : r.kind = "launch"})
                 \ {t \in {r.task} : r.kind = "ack"},
   mapped  |-> (s.mapped \cup {t \in {r.task} : IsMapped(s, r)})
                 \ {t \in {r.task} : r.kind = "stopped" /\ r.task \in s.stops},
   stops   |-> (s.stops \cup {t \in {r.task} : r.kind = "stop"})
                 \ {t \in {r.task} : r.kind \in {"stopped", "refused"}},
   last    |-> IF r.kind = "text" THEN r.turn ELSE s.last,
   final   |-> IF r.kind = "end" THEN s.last ELSE s.final,
   wakeup  |-> r.kind = "schedule" \/ (s.wakeup /\ ~Cancels(r)),
   turnDone  |-> s.turnDone \/ r.kind = "end",
   deferring |-> s.deferring,
   awaiting  |-> s.awaiting]

\* Whether visit asks the tail to stop after this record.
Stops(s, r) ==
  \/ r.kind = "end" /\ (~s.deferring \/ s.awaiting)
  \/ s.deferring /\ ~s.awaiting /\ s.pending = {}

\* The stream parser keeps the text of the turn, and the last schedule only.
TextBlock(s, r) == IF r.kind = "text" THEN [s EXCEPT !.last = r.turn] ELSE s
Captured(s, r)  == IF r.kind = "schedule" THEN [s EXCEPT !.wakeup = TRUE] ELSE s
ResultOf(s, r)  ==
  IF r.kind = "end"
    THEN [s EXCEPT !.final = IF s.last # 0 THEN s.last ELSE @, !.last = 0,
                   !.turnDone = TRUE]
    ELSE s

VisitStream(s, r) == ResultOf(Captured(TextBlock(s, r), r), r)

FinalMessage(s) == IF Pty /\ s.final = 0 THEN s.last ELSE s.final

Return(how) ==
  /\ pc' = "closed"
  /\ result' = [state |-> how, final |-> FinalMessage(st), wakeup |-> st.wakeup]
  /\ claude' = IF Alive THEN "dead" ELSE claude

-----------------------------------------------------------------------------
(* The call. *)

\* A session that cannot be resumed, a command that does not start.
StartFails ==
  /\ pc = "start" /\ Return("error")
  /\ UNCHANGED << provider, file, half, task, stopping, turn, ctx,
                  tail, path, st, seen, gaveUp >>

\* The size of the file is taken before claude is started.
Start ==
  /\ pc = "start"
  /\ claude' = "busy"
  /\ pc' = IF ~Pty THEN "stream" ELSE IF provider.resumes THEN "tail" ELSE "await"
  /\ tail' = [off |-> Size, read |-> Size, moved |-> FALSE]
  /\ UNCHANGED << provider, file, half, task, stopping, turn, ctx,
                  path, st, seen, gaveUp, result >>

\* awaitSessionFile finds the file of a fresh session, where it was derived to
\* be or by its name.
FindFile ==
  /\ pc = "await" /\ file # << >>
  /\ pc' = "tail"
  /\ UNCHANGED << provider, env, ctx, tail, path, st, seen, gaveUp, result >>

\* It returns the derived path when claude has died or the run is cancelled;
\* the file may be elsewhere, since the search for it is throttled.
SkipFile ==
  /\ pc = "await" /\ (~Alive \/ ctx = "done")
  /\ pc' = "tail" /\ path' \in BOOLEAN
  /\ UNCHANGED << provider, env, ctx, tail, st, seen, gaveUp, result >>

FileGraceElapses ==
  /\ pc = "await" /\ file = << >> /\ Alive
  /\ Return("error")
  /\ UNCHANGED << provider, file, half, task, stopping, turn, ctx,
                  tail, path, st, seen, gaveUp >>

\* Mutation: it starts after everything that was read.
AfterRead(t) == t.read

\* Where the next call of tailSession starts: at the first byte that was not
\* handed to visit.
Resumable(t) == t.off

TailReturns(t) ==
  /\ pc' = "returned"
  /\ tail' = [t EXCEPT !.off = Resumable(t), !.read = Resumable(t)]

\* The next line that is whole, and the state once it was visited.  A line
\* whose beginning was lost does not parse and is left out.
NextLine == tail.off \div 2 + 1
Whole == 2 * NextLine <= Size
VisitLine(visited) ==
  IF tail.off % 2 = 1
    THEN UNCHANGED << st, seen >>
    ELSE st' = visited /\ seen' = Append(seen, NextLine)

\* The lines of a burst are visited in order, up to the one at which visit asks
\* to stop; the bytes after it were read too.
ReadLine ==
  /\ pc = "tail" /\ ctx = "live" /\ path /\ Whole
  /\ VisitLine(Visit(st, file[NextLine]))
  /\ IF tail.off % 2 = 0 /\ Stops(st', file[NextLine])
       THEN TailReturns([off |-> 2 * NextLine, read |-> Size, moved |-> TRUE])
       ELSE /\ tail' = [off |-> 2 * NextLine, read |-> 2 * NextLine, moved |-> TRUE]
            /\ UNCHANGED pc
  /\ UNCHANGED << provider, env, ctx, path, gaveUp, result >>

\* A burst that ends within a line: its beginning is kept for the next one.
ReadPart ==
  /\ pc = "tail" /\ ctx = "live" /\ path /\ ~Whole /\ Size > tail.read
  /\ tail' = [tail EXCEPT !.read = Size]
  /\ UNCHANGED << provider, env, ctx, pc, path, st, seen, gaveUp, result >>

\* stat or read fails: the offset that is returned is not the resumable one.
ReadFails ==
  /\ ReadErrors \/ tail.read = tail.off
  /\ pc = "tail" /\ ctx = "live"
  /\ pc' = "returned"
  /\ tail' = [tail EXCEPT !.off = tail.read, !.moved = @ \/ tail.read > tail.off]
  /\ UNCHANGED << provider, env, ctx, path, st, seen, gaveUp, result >>

NothingNew ==
  /\ pc = "tail" /\ ctx = "live" /\ (path => Size <= tail.read)
  /\ pc' = "check"
  /\ UNCHANGED << provider, env, ctx, tail, path, st, seen, gaveUp, result >>

\* The child is looked at after the size: what it wrote in between is not read.
CheckChild ==
  /\ pc = "check"
  /\ IF Alive THEN pc' = "tail" /\ UNCHANGED tail ELSE TailReturns(tail)
  /\ UNCHANGED << provider, env, ctx, path, st, seen, gaveUp, result >>

TailCancelled ==
  /\ pc \in {"tail", "check"} /\ ctx = "done"
  /\ TailReturns(tail)
  /\ UNCHANGED << provider, env, ctx, path, st, seen, gaveUp, result >>

\* deferredStallWindow or synthesisQuietWindow has elapsed.
WindowElapses ==
  /\ pc \in {"tail", "check"} /\ st.deferring
  /\ TailReturns(tail)
  /\ UNCHANGED << provider, env, ctx, path, st, seen, gaveUp, result >>

\* Mutation: the failure of a call that never had a turn leaves it unreturned.
FirstTurnFailsSilently ==
  /\ pc = "returned" /\ ~st.deferring /\ ~st.turnDone
  /\ pc' = "failed"
  /\ UNCHANGED << provider, env, ctx, tail, path, st, seen, gaveUp, result >>

\* Phase 1 is over.
FirstTurnFails ==
  /\ pc = "returned" /\ ~st.deferring /\ ~st.turnDone
  /\ Return("error")
  /\ UNCHANGED << provider, file, half, task, stopping, turn, ctx,
                  tail, path, st, seen, gaveUp >>

FirstTurnEnds ==
  /\ pc = "returned" /\ ~st.deferring /\ st.turnDone
  /\ st' = [st EXCEPT !.deferring = st.pending # {}]
  /\ pc' = IF st.pending = {} THEN "settle" ELSE "outer"
  /\ UNCHANGED << provider, env, ctx, tail, path, seen, gaveUp, result >>

\* Tail again, with a window that begins here.
TailAgain ==
  /\ pc' = "tail" /\ tail' = [tail EXCEPT !.moved = FALSE]

\* The head of the loop over drain and synthesis.
OuterLoop ==
  /\ pc = "outer"
  /\ \/ /\ st.pending = {} /\ pc' = "settle"
        /\ UNCHANGED << tail, st, gaveUp >>
     \/ /\ st.pending # {} /\ (ctx = "done" \/ ~Alive)
        /\ pc' = "settle" /\ gaveUp' = "ended"
        /\ UNCHANGED << tail, st >>
     \/ /\ st.pending # {} /\ ctx = "live" /\ Alive
        /\ TailAgain /\ gaveUp' = "no"
        /\ st' = [st EXCEPT !.awaiting = FALSE, !.turnDone = FALSE]
  /\ UNCHANGED << provider, env, ctx, path, seen, result >>

\* Mutation: the turn that ended before the work drained is taken for the one
\* that follows it.
StartSynthesisLate(s) == [s EXCEPT !.awaiting = TRUE]

StartSynthesis(s) == [s EXCEPT !.awaiting = TRUE, !.turnDone = FALSE]

\* Mutation: the wait has no cap of its own.
QuietNever == FALSE

\* A window without a record that counts.
Quiet == ~tail.moved

AwaitDrain ==
  /\ pc = "returned" /\ st.deferring /\ ~st.awaiting
  /\ \/ /\ st.pending = {} /\ TailAgain
        /\ st' = StartSynthesis(st) /\ UNCHANGED gaveUp
     \/ /\ st.pending # {} /\ (ctx = "done" \/ ~Alive)
        /\ pc' = "settle" /\ gaveUp' = "ended" /\ UNCHANGED << tail, st >>
     \/ /\ st.pending # {} /\ ctx = "live" /\ Alive /\ Quiet
        /\ pc' = "settle" /\ gaveUp' = "quiet" /\ UNCHANGED << tail, st >>
     \/ /\ st.pending # {} /\ ctx = "live" /\ Alive /\ ~Quiet
        /\ TailAgain /\ UNCHANGED << st, gaveUp >>
  /\ UNCHANGED << provider, env, ctx, path, seen, result >>

AwaitSynthesis ==
  /\ pc = "returned" /\ st.deferring /\ st.awaiting
  /\ IF st.turnDone \/ ctx = "done" \/ Quiet
       THEN /\ pc' = "outer" /\ UNCHANGED tail
            /\ gaveUp' = IF st.turnDone THEN "no" ELSE "no synthesis"
       ELSE TailAgain /\ UNCHANGED gaveUp
  /\ UNCHANGED << provider, env, ctx, path, st, seen, result >>

Settle ==
  /\ pc = "settle" /\ Return("ok")
  /\ UNCHANGED << provider, file, half, task, stopping, turn, ctx,
                  tail, path, st, seen, gaveUp >>

\* Write and processLines of the stream parser: the whole lines of what came.
StreamWrite ==
  /\ pc = "stream" /\ Whole
  /\ VisitLine(VisitStream(st, file[NextLine]))
  /\ tail' = [tail EXCEPT !.off = 2 * NextLine, !.read = 2 * NextLine]
  /\ UNCHANGED << provider, env, ctx, pc, path, gaveUp, result >>

\* The pipe is at its end: Run of the command returns its exit status.
StreamEnds ==
  /\ pc = "stream" /\ ~Whole /\ ~Alive
  /\ Return(IF claude = "exited" THEN "ok" ELSE "error")
  /\ UNCHANGED << provider, file, half, task, stopping, turn, ctx,
                  tail, path, st, seen, gaveUp >>

\* Mutation: only the pty's child is killed when the context ends.
KillPtyOnCancel ==
  /\ ctx = "done" /\ Alive /\ Pty
  /\ claude' = "dead"
  /\ UNCHANGED << provider, file, half, task, stopping, turn, ctx, prov >>

\* Both providers kill claude when the context ends.
KillOnCancel ==
  /\ ctx = "done" /\ Alive
  /\ claude' = "dead"
  /\ UNCHANGED << provider, file, half, task, stopping, turn, ctx, prov >>

-----------------------------------------------------------------------------
Claude ==
  \/ Flush \/ Say \/ ScheduleWakeup \/ EndTurn
  \/ \E t \in Task : Launch(t) \/ Acknowledge(t) \/ AskStop(t) \/ StopResult(t)
                       \/ TaskReports(t) \/ MonitorEvent(t)
  \/ \E how \in {"exited", "dead"} : Exit(how)

Provider ==
  \/ StartFails \/ Start \/ FindFile \/ SkipFile \/ FileGraceElapses
  \/ ReadLine \/ ReadPart \/ ReadFails \/ NothingNew \/ CheckChild
  \/ FirstTurnFails \/ FirstTurnEnds \/ OuterLoop \/ AwaitDrain
  \/ AwaitSynthesis \/ Settle \/ StreamWrite \/ StreamEnds

Next == Claude \/ Provider \/ TailCancelled \/ WindowElapses \/ Cancel \/ KillOnCancel

Spec == Init /\ [][Next]_vars

\* The provider is scheduled, its windows elapse, a line that was begun is
\* completed, and claude ends when it is killed.  Neither the job deadline nor
\* anything claude does is assumed.
FairSpec ==
  /\ Spec
  /\ WF_vars(Provider) /\ WF_vars(TailCancelled) /\ WF_vars(WindowElapses)
  /\ WF_vars(Flush) /\ WF_vars(KillOnCancel)

-----------------------------------------------------------------------------
RunState ==
  [pending : SUBSET Task, known : SUBSET Task, mapped : SUBSET Task,
   stops : SUBSET Task, last : 0..MaxTurns, final : 0..MaxTurns, wakeup : BOOLEAN,
   turnDone : BOOLEAN, deferring : BOOLEAN, awaiting : BOOLEAN]

Results == [state : {"none", "ok", "error"}, final : 0..MaxTurns, wakeup : BOOLEAN]

TypeOK ==
  /\ provider \in [name : {"claude", "claude-pty"}, resumes : BOOLEAN]
  /\ file \in Seq(Rec) /\ half \in BOOLEAN
  /\ path \in BOOLEAN
  /\ claude \in {"none", "busy", "idle", "dead", "exited"}
  /\ task \in [Task -> {"new", "called", "running", "over"}]
  /\ stopping \subseteq Task /\ turn \in 1..MaxTurns /\ ctx \in {"live", "done"}
  /\ pc \in {"start", "await", "tail", "check", "returned", "outer", "settle",
             "stream", "closed"}
  /\ tail \in [off : Nat, read : Nat, moved : BOOLEAN]
  /\ st \in RunState
  /\ seen \in Seq(Nat)
  /\ gaveUp \in {"no", "ended", "quiet", "no synthesis"}
  /\ result \in Results

SeenLines == { file[seen[i]] : i \in DOMAIN seen }
SeenOf(k) == { seen[i] : i \in { j \in DOMAIN seen : file[seen[j]].kind = k } }

\* The lines claude wrote in this call are visited one after the other, each
\* once, however the file is read in bursts, whatever part of a line a read
\* ended in, and however often the tail stopped and was started again
\* (tail.go:40-49).
EachLineOnce ==
  \A i \in DOMAIN seen :
    seen[i] = i + (IF Pty /\ provider.resumes THEN Len(Earlier) ELSE 0)

\* Background work that the provider could know of is not killed by its own
\* success: when the call returns well while such a task still runs, the run
\* was cancelled, claude had died, or a whole window had passed without a
\* record or ended in a failed read (provider.go:190-237).  If that window was
\* the one of the turn that composes the answer, the task was dispatched in
\* that turn and its acknowledgement was not read.
NoWorkAbandoned ==
  Pty /\ result.state = "ok" /\ gaveUp \notin {"ended", "quiet"} =>
    \A t \in Task :
      task[t] = "running" =>
        gaveUp = "no synthesis" /\ Line("ack", t, 0) \notin SeenLines

\* The final message is that of the turn claude composed after its background
\* work had reported, and of a completed turn, unless no such turn came
\* (provider.go:221-236, 293-297).
FinalFollowsWork ==
  Pty /\ result.state = "ok" /\ gaveUp = "no" =>
    \E e \in SeenOf("end") :
      /\ \A d \in SeenOf("done") : d < e
      /\ \A x \in SeenOf("text") : x < e => file[x].turn <= result.final
      /\ result.final # 0 => \E x \in SeenOf("text") :
                                x < e /\ file[x].turn = result.final

\* The reader of the session file loses and repeats nothing (tail.go:40-83).
TailSound == TypeOK /\ EachLineOnce

\* The result of a call accounts for the background work of its turns.
WorkAccounted == NoWorkAbandoned /\ FinalFollowsWork

LastSchedule == { i \in SeenOf("schedule") : \A j \in SeenOf("cancel") : j < i }

\* A wakeup is handed to the runner only if claude did not cancel it after it
\* had scheduled it (provider.go:342-349).
CancelledWakeupDropped ==
  Pty /\ result.state # "none" => (result.wakeup <=> LastSchedule # {})

\* The same of both providers, which have "the same contract"
\* (provider.go:30-34, 342-344; stream.go:381-389).
WakeupContract ==
  result.state = "ok" => (result.wakeup <=> LastSchedule # {})

\* tail.go:59: "one last read attempt above already captured any final bytes".
LastBytesCaptured ==
  Pty /\ pc = "returned" /\ claude = "dead" /\ ctx = "live" /\ path =>
    \/ st.deferring \/ st.turnDone
    \/ \A k \in DOMAIN file : file[k].kind = "end" =>
         k \in { seen[i] : i \in DOMAIN seen }
           \/ (provider.resumes /\ k <= Len(Earlier))
           \/ (half /\ k = Len(file))

\* provider.go:544: the text of a turn that did not end is the final message
\* "only when no turn ever terminated".
FallbackOnlyWithoutTurn ==
  Pty /\ result.state = "ok" =>
    \A x \in SeenOf("text") :
      file[x].turn = result.final => \E e \in SeenOf("end") : x < e

\* Once the first turn is over, or the run is cancelled, the call returns,
\* whatever claude does with its background work, and without the deadline of
\* the job: each wait ends when a window passes in silence
\* (provider.go:458-506).
CallReturns ==
  (ctx = "done" \/ (Pty /\ st.turnDone)) ~> (result.state # "none")

=============================================================================
