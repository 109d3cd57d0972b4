---------------------------- MODULE AgentTurnProofs ----------------------------
(***************************************************************************)
(* Proofs about AgentTurn, for every set of background tasks and every      *)
(* bound: the reader of the session file visits each line once, the result  *)
(* accounts for the background work, and a cancelled wakeup is dropped.     *)
(***************************************************************************)
EXTENDS AgentTurn, TLAPS

-----------------------------------------------------------------------------
(* Types.                                                                    *)

\* What is written of a task names it.
Names(r) == r.kind \in {"launch", "ack", "stop", "stopped", "refused", "done"} => r.task \in Task

\* The file is not empty while its last line is there in part.
TypeInv ==
  /\ TypeOK
  /\ half => file # << >>
  /\ \A i \in DOMAIN file : Names(file[i])

\* claude appends a line; what it becomes of its turn and its tasks.
Wrote(k, t, n) ==
  /\ Emit(k, t, n) /\ Line(k, t, n) \in Rec /\ Names(Line(k, t, n))
  /\ n = IF k = "text" THEN turn ELSE 0
  /\ Alive /\ claude' \in {"busy", "idle"}
  /\ turn <= turn' /\ turn' \in 1..MaxTurns
  /\ stopping' \subseteq Task
  /\ task' \in [Task -> {"new", "called", "running", "over"}]

Writes == \E k, t, n : Wrote(k, t, n)

LEMMA Written ==
  ASSUME TypeInv, NEW k, NEW t, NEW n, Wrote(k, t, n)
  PROVE  /\ file' \in Seq(Rec) /\ half' = TRUE /\ half = FALSE
         /\ Len(file) \in Nat /\ Len(file') = Len(file) + 1
         /\ \A i \in DOMAIN file : i \in DOMAIN file' /\ file'[i] = file[i]
         /\ file'[Len(file) + 1] = Line(k, t, n)
         /\ Len(file) + 1 \in DOMAIN file'
         /\ \A i \in DOMAIN file' : i \in DOMAIN file \/ i = Len(file) + 1
         /\ UNCHANGED << provider, ctx, pc, tail, path, st, seen, gaveUp, result >>
<1>1. file \in Seq(Rec) /\ half \in BOOLEAN
  BY DEF TypeInv, TypeOK
<1>2. PICK r \in Rec : r = Line(k, t, n)
  BY DEF Wrote
<1>3. file' = Append(file, r) /\ half' = TRUE /\ ~half /\ UNCHANGED << provider, ctx, prov >>
  BY <1>2 DEF Wrote, Emit
<1> HIDE DEF Rec
<1>4. QED BY <1>1, <1>2, <1>3 DEF prov

LEMMA WritesTyped ==
  ASSUME AgentAssumption, TypeInv, Writes
  PROVE  TypeInv'
<1>1. PICK k, t, n : Wrote(k, t, n)
  BY DEF Writes
<1>2. file' \in Seq(Rec) /\ half' = TRUE /\ Len(file') = Len(file) + 1 /\ Len(file) \in Nat
      /\ UNCHANGED << provider, ctx, pc, tail, path, st, seen, gaveUp, result >>
  BY <1>1, Written
<1>3. file' # << >>
  BY <1>2
<1>4. \A i \in DOMAIN file' : Names(file'[i])
  <2>1. Names(Line(k, t, n))
    BY <1>1 DEF Wrote
  <2>2. /\ \A i \in DOMAIN file : file'[i] = file[i]
        /\ file'[Len(file) + 1] = Line(k, t, n)
        /\ \A i \in DOMAIN file' : i \in DOMAIN file \/ i = Len(file) + 1
    BY <1>1, Written
  <2>3. \A i \in DOMAIN file : Names(file[i])
    BY DEF TypeInv
  <2>4. QED BY <2>1, <2>2, <2>3
<1>5. TypeOK'
  BY <1>1, <1>2 DEF TypeInv, TypeOK, Wrote
<1>6. QED BY <1>2, <1>3, <1>4, <1>5 DEF TypeInv, Names

\* Every action of claude that writes.
Writer ==
  \/ Say \/ ScheduleWakeup \/ EndTurn
  \/ \E t \in Task : Launch(t) \/ Acknowledge(t) \/ AskStop(t) \/ StopResult(t)
                       \/ TaskReports(t) \/ MonitorEvent(t)

LEMMA WriterWrites ==
  ASSUME AgentAssumption, TypeInv, Writer
  PROVE  Writes
<1>1. /\ turn \in 1..MaxTurns /\ MaxTurns \in Nat /\ stopping \subseteq Task
      /\ task \in [Task -> {"new", "called", "running", "over"}]
      /\ claude \in {"none", "busy", "idle", "dead", "exited"}
  BY DEF TypeInv, TypeOK, AgentAssumption
<1>2. ASSUME NEW k \in {"launch", "ack", "stop", "stopped", "refused", "event",
                        "done", "schedule", "cancel", "end"}, NEW t \in Task \cup {NoTask}
      PROVE  Line(k, t, 0) \in Rec /\ (t \in Task \/ k \in {"event", "schedule", "cancel", "end"}
                                         => Names(Line(k, t, 0)))
  BY <1>1 DEF Line, Rec, Names
<1>3. CASE Say
  <2>1. Line("text", NoTask, turn) \in Rec /\ Names(Line("text", NoTask, turn))
    BY <1>1 DEF Line, Rec, Names
  <2>2. Wrote("text", NoTask, turn)
    BY <1>1, <1>3, <2>1 DEF Say, Wrote, Alive
  <2>3. QED BY <2>2 DEF Writes
<1>4. CASE ScheduleWakeup
  <2>1. PICK k \in {"schedule", "cancel"} : Emit(k, NoTask, 0)
    BY <1>4 DEF ScheduleWakeup
  <2>2. Line(k, NoTask, 0) \in Rec /\ Names(Line(k, NoTask, 0)) /\ k # "text"
    BY <1>2
  <2>3. Wrote(k, NoTask, 0)
    BY <1>1, <1>4, <2>1, <2>2 DEF ScheduleWakeup, Wrote, Alive
  <2>4. QED BY <2>3 DEF Writes
<1>5. CASE EndTurn
  <2>1. Line("end", NoTask, 0) \in Rec /\ Names(Line("end", NoTask, 0))
    BY <1>2
  <2>2. Wrote("end", NoTask, 0)
    BY <1>1, <1>5, <2>1 DEF EndTurn, Wrote, Alive
  <2>3. QED BY <2>2 DEF Writes
<1>6. ASSUME NEW t \in Task, Launch(t) PROVE Writes
  <2>1. Wrote("launch", t, 0)
    BY <1>1, <1>2, <1>6 DEF Launch, Wrote, Alive
  <2>2. QED BY <2>1 DEF Writes
<1>7. ASSUME NEW t \in Task, Acknowledge(t) PROVE Writes
  <2>1. Wrote("ack", t, 0)
    BY <1>1, <1>2, <1>7 DEF Acknowledge, Wrote, Alive
  <2>2. QED BY <2>1 DEF Writes
<1>8. ASSUME NEW t \in Task, AskStop(t) PROVE Writes
  <2>1. Wrote("stop", t, 0)
    BY <1>1, <1>2, <1>8 DEF AskStop, Wrote, Alive
  <2>2. QED BY <2>1 DEF Writes
<1>9. ASSUME NEW t \in Task, StopResult(t) PROVE Writes
  <2>1. Wrote("stopped", t, 0) \/ Wrote("refused", t, 0)
    BY <1>1, <1>2, <1>9 DEF StopResult, Wrote, Alive
  <2>2. QED BY <2>1 DEF Writes
<1>10. Prompted /\ Alive => claude' \in {"busy", "idle"} /\ turn <= turn' /\ turn' \in 1..MaxTurns
  BY <1>1 DEF Prompted, Alive
<1>11. ASSUME NEW t \in Task, TaskReports(t) PROVE Writes
  <2>1. Wrote("done", t, 0)
    BY <1>1, <1>2, <1>10, <1>11 DEF TaskReports, Wrote
  <2>2. QED BY <2>1 DEF Writes
<1>12. ASSUME NEW t \in Task, MonitorEvent(t) PROVE Writes
  <2>1. Wrote("event", NoTask, 0)
    BY <1>1, <1>2, <1>10, <1>12 DEF MonitorEvent, Wrote
  <2>2. QED BY <2>1 DEF Writes
<1>13. QED
  BY <1>3, <1>4, <1>5, <1>6, <1>7, <1>8, <1>9, <1>11, <1>12, Writer DEF Writer

\* What the environment does without writing a line.
LEMMA SilentTyped ==
  ASSUME TypeInv, Flush \/ (\E how \in {"exited", "dead"} : Exit(how)) \/ Cancel \/ KillOnCancel
  PROVE  TypeInv'
<1>1. /\ file' = file /\ UNCHANGED << provider, pc, tail, path, st, seen, gaveUp, result >>
      /\ task' = task /\ stopping' = stopping /\ turn' = turn /\ half' \in {FALSE, half}
      /\ ctx' \in {"live", "done"}
      /\ claude' \in {"none", "busy", "idle", "dead", "exited"}
  BY DEF TypeInv, TypeOK, Flush, Exit, Cancel, KillOnCancel, prov, env
<1>2. TypeOK'
  BY <1>1 DEF TypeInv, TypeOK
<1>3. half' => half
  BY <1>1
<1>4. QED BY <1>1, <1>2, <1>3 DEF TypeInv, Names

LEMMA VisitTyped ==
  ASSUME NEW s \in RunState, NEW r \in Rec, Names(r), AgentAssumption
  PROVE  Visit(s, r) \in RunState /\ VisitStream(s, r) \in RunState
<1>1. Visit(s, r) \in RunState
  <2>1. /\ s.pending \subseteq Task /\ s.known \subseteq Task /\ s.mapped \subseteq Task
        /\ s.stops \subseteq Task /\ s.last \in 0..MaxTurns /\ s.final \in 0..MaxTurns
        /\ {s.wakeup, s.turnDone, s.deferring, s.awaiting} \subseteq BOOLEAN
        /\ r.turn \in 0..MaxTurns
    BY DEF RunState, Rec
  <2>2. Tracked(s, r) \/ IsMapped(s, r) \/ r.kind \in {"launch", "stop"} => r.task \in Task
    BY DEF Names, Tracked, IsMapped, IsAsyncAck
  <2>3. Visit(s, r).pending \subseteq Task
    BY <2>1, <2>2 DEF Visit
  <2>4. Visit(s, r).known \subseteq Task
    BY <2>1, <2>2 DEF Visit
  <2>5. Visit(s, r).mapped \subseteq Task
    BY <2>1, <2>2 DEF Visit
  <2>6. Visit(s, r).stops \subseteq Task
    BY <2>1, <2>2 DEF Visit
  <2>7. Visit(s, r).last \in 0..MaxTurns /\ Visit(s, r).final \in 0..MaxTurns
    BY <2>1 DEF Visit
  <2>8. /\ Visit(s, r).wakeup \in BOOLEAN /\ Visit(s, r).turnDone \in BOOLEAN
        /\ Visit(s, r).deferring \in BOOLEAN /\ Visit(s, r).awaiting \in BOOLEAN
    BY <2>1 DEF Visit
  <2> DEFINE v == Visit(s, r)
  <2>9. v = [pending |-> v.pending, known |-> v.known, mapped |-> v.mapped, stops |-> v.stops,
             last |-> v.last, final |-> v.final, wakeup |-> v.wakeup,
             turnDone |-> v.turnDone, deferring |-> v.deferring, awaiting |-> v.awaiting]
    BY DEF Visit
  <2>10. QED BY <2>3, <2>4, <2>5, <2>6, <2>7, <2>8, <2>9 DEF RunState
<1>2. ASSUME NEW u \in RunState PROVE TextBlock(u, r) \in RunState
  BY <1>2 DEF TextBlock, RunState, Rec
<1>3. ASSUME NEW u \in RunState PROVE Captured(u, r) \in RunState
  BY <1>3 DEF Captured, RunState
<1>4. ASSUME NEW u \in RunState PROVE ResultOf(u, r) \in RunState
  <2>1. PICK f \in 0..MaxTurns : f = IF u.last # 0 THEN u.last ELSE u.final
    BY <1>4 DEF RunState
  <2>2. 0 \in 0..MaxTurns
    BY DEF AgentAssumption
  <2>3. [u EXCEPT !.final = f, !.last = 0, !.turnDone = TRUE] \in RunState
    BY <1>4, <2>2 DEF RunState
  <2>4. ResultOf(u, r) \in {u, [u EXCEPT !.final = f, !.last = 0, !.turnDone = TRUE]}
    BY <2>1 DEF ResultOf
  <2>5. QED BY <1>4, <2>3, <2>4
<1>5. QED
  BY <1>1, <1>2, <1>3, <1>4 DEF VisitStream
-----------------------------------------------------------------------------
(* The steps of the provider.                                                *)

LEMMA SizeFacts ==
  ASSUME TypeInv
  PROVE  /\ Size \in Nat /\ Len(file) \in Nat /\ DOMAIN file = 1..Len(file)
         /\ tail.off \in Nat /\ tail.read \in Nat /\ tail.moved \in BOOLEAN
         /\ NextLine \in Nat \ {0} /\ 2 * NextLine \in Nat
         /\ Whole => NextLine \in DOMAIN file /\ file[NextLine] \in Rec /\ Names(file[NextLine])
<1>1. /\ Len(file) \in Nat /\ DOMAIN file = 1..Len(file) /\ half \in BOOLEAN
      /\ half => Len(file) # 0
      /\ tail.off \in Nat /\ tail.read \in Nat /\ tail.moved \in BOOLEAN
      /\ \A i \in DOMAIN file : file[i] \in Rec /\ Names(file[i])
  <2>1. file \in Seq(Rec) /\ half \in BOOLEAN /\ (half => file # << >>)
        /\ tail \in [off : Nat, read : Nat, moved : BOOLEAN]
        /\ \A i \in DOMAIN file : Names(file[i])
    BY DEF TypeInv, TypeOK
  <2>2. Len(file) \in Nat /\ DOMAIN file = 1..Len(file) /\ (Len(file) = 0 => file = << >>)
    BY <2>1
  <2>3. \A i \in DOMAIN file : file[i] \in Rec
    BY <2>1
  <2>4. QED BY <2>1, <2>2, <2>3
<1>2. Size \in Nat /\ Size <= 2 * Len(file)
  BY <1>1 DEF Size
<1>3. NextLine \in Nat \ {0} /\ 2 * NextLine \in Nat
  BY <1>1 DEF NextLine
<1>4. Whole => NextLine \in DOMAIN file
  BY <1>1, <1>2, <1>3 DEF Whole
<1>5. QED BY <1>1, <1>2, <1>3, <1>4

ReadInv ==
  /\ tail.off <= tail.read /\ tail.read <= Size
  /\ \A i \in DOMAIN seen : seen[i] \in DOMAIN file /\ 2 * seen[i] <= tail.off

Tails == [off : Nat, read : Nat, moved : BOOLEAN]

\* A record is visited, by either provider.
Visits ==
  /\ UNCHANGED << provider, file, half, claude, task, stopping, turn, ctx, path, gaveUp, result >>
  /\ Whole /\ pc \in {"tail", "stream"}
  /\ tail.off % 2 = 0 /\ seen' = Append(seen, NextLine)
  /\ st' = IF pc = "tail" THEN Visit(st, file[NextLine]) ELSE VisitStream(st, file[NextLine])
  /\ tail' \in Tails /\ tail'.off = 2 * NextLine
  /\ tail'.off <= tail'.read /\ tail'.read <= Size
  /\ pc' = IF pc = "tail" /\ Stops(st', file[NextLine]) THEN "returned" ELSE pc

\* Nothing is visited: what the state says of the records stays, and so does the
\* offset unless a line was lost.
Keeps ==
  /\ UNCHANGED << provider, file, half, task, stopping, turn, ctx, seen >>
  /\ claude' = claude \/ (claude' = "dead" /\ pc' = "closed" /\ Alive)
  /\ st' \in RunState
  /\ st'.pending = st.pending /\ st'.known = st.known
  /\ st'.last = st.last /\ st'.final = st.final /\ st'.wakeup = st.wakeup
  /\ tail' \in Tails /\ tail.off <= tail'.off
  /\ tail'.off <= tail'.read /\ tail'.read <= Size
  /\ tail.off % 2 = 0 /\ ~ReadErrors => tail'.off = tail.off

\* The steps of the tail.
Tailing ==
  \/ ReadLine \/ ReadPart \/ ReadFails \/ NothingNew \/ CheckChild
  \/ TailCancelled \/ WindowElapses \/ StreamWrite

\* The steps of the call around it.
Calling ==
  \/ FindFile \/ SkipFile \/ FileGraceElapses
  \/ FirstTurnFails \/ FirstTurnEnds \/ OuterLoop \/ AwaitDrain
  \/ AwaitSynthesis \/ Settle \/ StreamEnds

LEMMA TailingShape ==
  ASSUME TypeInv, ReadInv, Tailing
  PROVE  Visits \/ Keeps
<1> USE SizeFacts DEF ReadInv, Tails
<1>1. st \in RunState /\ tail \in Tails
  BY DEF TypeInv, TypeOK
<1>2. \A n \in Nat : n <= tail.read /\ tail.off <= n =>
        [tail EXCEPT !.off = n, !.read = n] \in Tails
  BY <1>1
<1>3. ASSUME TailReturns(tail), UNCHANGED << provider, env, ctx, path, st, seen, gaveUp, result >>
      PROVE  Keeps
  <2>1. tail' = [tail EXCEPT !.off = tail.off, !.read = tail.off]
    BY <1>3 DEF TailReturns, Resumable
  <2>2. tail' \in Tails /\ tail'.off = tail.off /\ tail'.read = tail.off
    BY <1>1, <2>1
  <2>3. UNCHANGED << provider, file, half, claude, task, stopping, turn, ctx, st, seen >>
    BY <1>3 DEF env
  <2> HIDE DEF Tails
  <2>4. QED BY <1>1, <2>2, <2>3 DEF Keeps
<1>4. CASE ReadLine
  <2>1. 2 * NextLine \in Nat /\ 2 * NextLine <= Size /\ tail.off <= 2 * NextLine
    BY <1>4 DEF ReadLine, Whole, NextLine
  <2>2. [off |-> 2 * NextLine, read |-> 2 * NextLine, moved |-> TRUE] \in Tails
    BY <2>1
  <2>3. UNCHANGED << provider, file, half, claude, task, stopping, turn, ctx, path, gaveUp, result >>
        /\ pc = "tail" /\ Whole
    BY <1>4 DEF ReadLine, env
  <2>4. CASE tail.off % 2 = 0
    <3>1. seen' = Append(seen, NextLine) /\ st' = Visit(st, file[NextLine])
      BY <1>4, <2>4 DEF ReadLine, VisitLine
    <3>2. CASE Stops(st', file[NextLine])
      <4>1. tail' = [[off |-> 2 * NextLine, read |-> Size, moved |-> TRUE]
                       EXCEPT !.off = 2 * NextLine, !.read = 2 * NextLine]
            /\ pc' = "returned"
        BY <1>4, <2>4, <3>2 DEF ReadLine, TailReturns, Resumable
      <4>2. tail' \in Tails /\ tail'.off = 2 * NextLine /\ tail'.read = 2 * NextLine
        BY <2>1, <4>1
      <4> HIDE DEF Tails
      <4>3. QED BY <2>1, <2>3, <2>4, <3>1, <3>2, <4>1, <4>2 DEF Visits
    <3>3. CASE ~Stops(st', file[NextLine])
      <4>1. tail' = [off |-> 2 * NextLine, read |-> 2 * NextLine, moved |-> TRUE] /\ pc' = pc
        BY <1>4, <3>3 DEF ReadLine
      <4>2. QED BY <2>1, <2>2, <2>3, <2>4, <3>1, <3>3, <4>1 DEF Visits
    <3>4. QED BY <3>2, <3>3
  <2>5. CASE tail.off % 2 # 0
    <3>1. tail.off % 2 = 1
      BY <2>5
    <3>2. st' = st /\ seen' = seen
          /\ tail' = [off |-> 2 * NextLine, read |-> 2 * NextLine, moved |-> TRUE]
      BY <1>4, <3>1, <2>5 DEF ReadLine, VisitLine
    <3>3. QED BY <1>1, <2>1, <2>2, <2>3, <2>5, <3>2 DEF Keeps
  <2>6. QED BY <2>4, <2>5
<1>5. CASE ReadPart
  <2>1. tail' = [tail EXCEPT !.read = Size] /\ Size > tail.read
    BY <1>5 DEF ReadPart
  <2>2. UNCHANGED << provider, file, half, claude, task, stopping, turn, ctx, seen, st >>
    BY <1>5 DEF ReadPart, env
  <2>3. QED BY <1>1, <2>1, <2>2 DEF Keeps
<1>6. CASE ReadFails
  <2>1. PICK b \in BOOLEAN : tail' = [tail EXCEPT !.off = tail.read, !.moved = b]
    BY <1>1, <1>6 DEF ReadFails
  <2>2. UNCHANGED << provider, file, half, claude, task, stopping, turn, ctx, seen, st >>
        /\ (ReadErrors \/ tail.read = tail.off)
    BY <1>6 DEF ReadFails, env
  <2>3. tail' \in Tails /\ tail'.off = tail.read /\ tail'.read = tail.read
    BY <1>1, <2>1
  <2> HIDE DEF Tails
  <2>4. QED BY <1>1, <2>2, <2>3 DEF Keeps
<1>7. CASE NothingNew
  BY <1>1, <1>7 DEF NothingNew, Keeps, env
<1>8. CASE CheckChild
  <2>1. CASE Alive
    BY <1>1, <1>8, <2>1 DEF CheckChild, Keeps, env
  <2>2. CASE ~Alive
    BY <1>3, <1>8, <2>2 DEF CheckChild
  <2>3. QED BY <2>1, <2>2
<1>9. CASE TailCancelled \/ WindowElapses
  BY <1>3, <1>9 DEF TailCancelled, WindowElapses
<1>10. CASE StreamWrite
  <2>1. 2 * NextLine \in Nat /\ 2 * NextLine <= Size /\ tail.off <= 2 * NextLine
    BY <1>10 DEF StreamWrite, Whole, NextLine
  <2>2. tail' = [tail EXCEPT !.off = 2 * NextLine, !.read = 2 * NextLine]
        /\ UNCHANGED << provider, file, half, claude, task, stopping, turn, ctx, pc, path, gaveUp, result >>
        /\ pc = "stream" /\ Whole
    BY <1>10 DEF StreamWrite, env
  <2>6. tail' \in Tails /\ tail'.off = 2 * NextLine /\ tail'.read = 2 * NextLine
    BY <1>1, <2>1, <2>2
  <2> HIDE DEF Tails
  <2>3. CASE tail.off % 2 = 0
    <3>1. seen' = Append(seen, NextLine) /\ st' = VisitStream(st, file[NextLine])
      BY <1>10, <2>3 DEF StreamWrite, VisitLine
    <3>2. QED BY <2>1, <2>2, <2>3, <2>6, <3>1 DEF Visits
  <2>4. CASE tail.off % 2 # 0
    <3>1. tail.off % 2 = 1
      BY <2>4
    <3>2. st' = st /\ seen' = seen
      BY <1>10, <3>1 DEF StreamWrite, VisitLine
    <3>3. QED BY <1>1, <2>1, <2>2, <2>4, <2>6, <3>2 DEF Keeps
  <2>5. QED BY <2>3, <2>4
<1>11. QED
  BY <1>4, <1>5, <1>6, <1>7, <1>8, <1>9, <1>10, Tailing DEF Tailing

LEMMA CallingShape ==
  ASSUME TypeInv, ReadInv, Calling
  PROVE  Keeps
<1> USE SizeFacts DEF ReadInv, Tails
<1>1. st \in RunState /\ tail \in Tails
  BY DEF TypeInv, TypeOK
<1>2. UNCHANGED << provider, file, half, task, stopping, turn, ctx, seen >>
  BY DEF Calling, FindFile, SkipFile, FileGraceElapses, FirstTurnFails, FirstTurnEnds, OuterLoop,
         AwaitDrain, AwaitSynthesis, Settle, StreamEnds, env
<1>3. claude' = claude \/ (claude' = "dead" /\ pc' = "closed" /\ Alive)
  BY DEF Calling, FindFile, SkipFile, FileGraceElapses, FirstTurnFails, FirstTurnEnds, OuterLoop,
         AwaitDrain, AwaitSynthesis, Settle, StreamEnds, env, Return
<1>4. tail' = tail \/ tail' = [tail EXCEPT !.moved = FALSE]
  BY DEF Calling, FindFile, SkipFile, FileGraceElapses, FirstTurnFails, FirstTurnEnds, OuterLoop,
         AwaitDrain, AwaitSynthesis, Settle, StreamEnds, TailAgain
<1>5. \E d, t, a \in BOOLEAN :
        st' = [st EXCEPT !.deferring = d, !.turnDone = t, !.awaiting = a]
  <2>1. CASE st' = st
    BY <1>1, <2>1 DEF RunState
  <2>2. CASE FirstTurnEnds
    BY <1>1, <2>2 DEF FirstTurnEnds, RunState
  <2>3. CASE OuterLoop
    BY <1>1, <2>1, <2>3 DEF OuterLoop, RunState
  <2>4. CASE AwaitDrain
    BY <1>1, <2>1, <2>4 DEF AwaitDrain, StartSynthesis, RunState
  <2>5. QED
    BY <2>1, <2>2, <2>3, <2>4, Calling
       DEF Calling, FindFile, SkipFile, FileGraceElapses, FirstTurnFails, AwaitSynthesis, Settle,
           StreamEnds
<1>6. PICK d, t, a \in BOOLEAN :
        st' = [st EXCEPT !.deferring = d, !.turnDone = t, !.awaiting = a]
  BY <1>5
<1>7. /\ st' \in RunState /\ st'.pending = st.pending /\ st'.known = st.known
      /\ st'.last = st.last /\ st'.final = st.final /\ st'.wakeup = st.wakeup
  BY <1>1, <1>6 DEF RunState
<1>8. tail' \in Tails /\ tail'.off = tail.off /\ tail'.read = tail.read
  BY <1>1, <1>4
<1>9. QED BY <1>2, <1>3, <1>7, <1>8 DEF Keeps

\* What happens without a line being written, read or waited for.
Silent == Flush \/ (\E how \in {"exited", "dead"} : Exit(how)) \/ Cancel \/ KillOnCancel

Begins == StartFails \/ Start

LEMMA NextCases ==
  ASSUME Next
  PROVE  Writer \/ Silent \/ Begins \/ Tailing \/ Calling
BY DEF Next, Claude, Provider, Writer, Silent, Begins, Tailing, Calling

\* Where a call is tells which provider runs it, and whether claude was started.
CallInv ==
  /\ claude = "none" => /\ pc \in {"start", "closed"} /\ seen = << >> /\ ~half
                        /\ file = IF Pty /\ provider.resumes THEN Earlier ELSE << >>
  /\ pc = "start" => claude = "none" /\ st = NewState /\ gaveUp = "no"
  /\ pc = "closed" => ~Alive
  /\ pc # "closed" => result = NoResult
  /\ pc = "closed" => /\ result.state # "none" /\ result.wakeup = st.wakeup
                      /\ result.final = FinalMessage(st)
  /\ pc = "stream" => ~Pty
  /\ pc \notin {"start", "stream", "closed"} => Pty

LEMMA Returned ==
  ASSUME AgentAssumption, TypeInv, NEW how \in {"ok", "error"}, Return(how)
  PROVE  /\ pc' = "closed" /\ result' \in Results /\ claude' \in {"none", "dead", "exited"}
         /\ result'.state = how /\ result'.final = FinalMessage(st)
         /\ result'.wakeup = st.wakeup /\ ~Alive'
         /\ claude' = "none" => claude = "none"
<1>1. st \in RunState /\ claude \in {"none", "busy", "idle", "dead", "exited"}
  BY DEF TypeInv, TypeOK
<1>2. FinalMessage(st) \in 0..MaxTurns /\ st.wakeup \in BOOLEAN
  BY <1>1 DEF FinalMessage, RunState
<1>3. result' = [state |-> how, final |-> FinalMessage(st), wakeup |-> st.wakeup]
      /\ pc' = "closed" /\ claude' \in {"none", "dead", "exited"}
      /\ (claude' = "none" => claude = "none")
  BY <1>1 DEF Return, Alive
<1>4. result' \in Results /\ result'.state = how /\ result'.final = FinalMessage(st)
      /\ result'.wakeup = st.wakeup
  <2> HIDE DEF FinalMessage
  <2>1. QED BY <1>2, <1>3 DEF Results
<1>5. QED BY <1>3, <1>4 DEF Alive

PCs == {"start", "await", "tail", "check", "returned", "outer", "settle", "stream", "closed"}

\* Where the call goes, and with what result.
Goes ==
  /\ pc' \in PCs /\ path' \in BOOLEAN /\ gaveUp' \in {"no", "ended", "quiet", "no synthesis"}
  /\ result' \in Results
  /\ pc \notin {"start", "closed"}
  /\ pc' = "stream" => pc = "stream"
  /\ pc' \notin {"start", "stream", "closed"} => pc # "stream"
  /\ pc' # "start"
  /\ \/ pc' # "closed" /\ result' = result
     \/ /\ pc' = "closed" /\ st' = st /\ result'.state # "none" /\ result'.wakeup = st.wakeup
        /\ result'.final = FinalMessage(st) /\ ~Alive'

LEMMA TailingGoes ==
  ASSUME TypeInv, Tailing
  PROVE  Goes
<1>1. pc \in PCs /\ path \in BOOLEAN /\ gaveUp \in {"no", "ended", "quiet", "no synthesis"}
      /\ result \in Results
  BY DEF TypeInv, TypeOK, PCs
<1>2. path' = path /\ gaveUp' = gaveUp /\ result' = result
  BY DEF Tailing, ReadLine, ReadPart, ReadFails, NothingNew, CheckChild, TailCancelled,
         WindowElapses, StreamWrite
<1>3. \/ pc = "stream" /\ pc' = "stream"
      \/ pc \in {"tail", "check"} /\ pc' \in {"tail", "check", "returned"}
  BY DEF Tailing, ReadLine, ReadPart, ReadFails, NothingNew, CheckChild, TailCancelled,
         WindowElapses, StreamWrite, TailReturns
<1>4. QED BY <1>1, <1>2, <1>3 DEF Goes, PCs

LEMMA CallingGoes ==
  ASSUME AgentAssumption, TypeInv, Calling
  PROVE  Goes
<1>1. pc \in PCs /\ path \in BOOLEAN /\ gaveUp \in {"no", "ended", "quiet", "no synthesis"}
      /\ result \in Results
  BY DEF TypeInv, TypeOK, PCs
<1>2. ASSUME NEW how \in {"ok", "error"}, Return(how), st' = st, path' = path, gaveUp' = gaveUp,
             pc \notin {"start", "closed"}
      PROVE  Goes
  BY <1>1, <1>2, Returned DEF Goes, PCs
<1>3. CASE FindFile \/ SkipFile
  BY <1>1, <1>3 DEF FindFile, SkipFile, Goes, PCs
<1>4. CASE FileGraceElapses
  BY <1>2, <1>4 DEF FileGraceElapses
<1>5. CASE FirstTurnFails
  BY <1>2, <1>5 DEF FirstTurnFails
<1>6. CASE FirstTurnEnds
  BY <1>1, <1>6 DEF FirstTurnEnds, Goes, PCs
<1>7. CASE OuterLoop
  <2>1. result' = result /\ path' = path /\ pc = "outer" /\ pc' \in {"settle", "tail"}
        /\ gaveUp' \in {gaveUp, "ended", "no"}
    BY <1>7 DEF OuterLoop, TailAgain
  <2>2. QED BY <1>1, <2>1 DEF Goes, PCs
<1>8. CASE AwaitDrain
  <2>1. result' = result /\ path' = path /\ pc = "returned" /\ pc' \in {"settle", "tail"}
        /\ gaveUp' \in {gaveUp, "ended", "quiet"}
    BY <1>8 DEF AwaitDrain, TailAgain
  <2>2. QED BY <1>1, <2>1 DEF Goes, PCs
<1>9. CASE AwaitSynthesis
  <2>1. result' = result /\ path' = path /\ pc = "returned" /\ pc' \in {"outer", "tail"}
        /\ gaveUp' \in {gaveUp, "no", "no synthesis"}
    BY <1>9 DEF AwaitSynthesis, TailAgain
  <2>2. QED BY <1>1, <2>1 DEF Goes, PCs
<1>10. CASE Settle
  BY <1>2, <1>10 DEF Settle
<1>11. CASE StreamEnds
  <2>1. PICK how \in {"ok", "error"} : Return(how)
    BY <1>11 DEF StreamEnds
  <2>2. QED BY <1>2, <1>11, <2>1 DEF StreamEnds
<1>12. QED
  BY <1>3, <1>4, <1>5, <1>6, <1>7, <1>8, <1>9, <1>10, <1>11, Calling DEF Calling

LEMMA VisitsTyped ==
  ASSUME AgentAssumption, TypeInv, Visits, Goes
  PROVE  TypeInv'
<1>1. NextLine \in Nat /\ file[NextLine] \in Rec /\ Names(file[NextLine])
  BY SizeFacts DEF Visits
<1>2. st' \in RunState
  BY <1>1, VisitTyped DEF Visits, TypeInv, TypeOK
<1>3. seen' \in Seq(Nat)
  <2>1. seen \in Seq(Nat) /\ seen' = Append(seen, NextLine)
    BY DEF Visits, TypeInv, TypeOK
  <2> HIDE DEF NextLine
  <2>2. QED BY <1>1, <2>1
<1>4. TypeOK'
  BY <1>2, <1>3 DEF Visits, TypeInv, TypeOK, Goes, PCs, Tails
<1>5. QED BY <1>4 DEF TypeInv, Visits, Names

LEMMA KeepsTyped ==
  ASSUME TypeInv, Keeps, Goes
  PROVE  TypeInv'
<1>1. TypeOK'
  BY DEF Keeps, TypeInv, TypeOK, Goes, PCs, Tails
<1>2. QED BY <1>1 DEF TypeInv, Keeps, Names

LEMMA BeginsTyped ==
  ASSUME AgentAssumption, TypeInv, Begins
  PROVE  TypeInv'
<1>1. CASE StartFails
  <2>1. /\ UNCHANGED << provider, file, half, task, stopping, turn, ctx, tail, path, st, seen, gaveUp >>
        /\ pc' \in PCs /\ result' \in Results
        /\ claude' \in {"none", "busy", "idle", "dead", "exited"}
    BY <1>1, Returned DEF StartFails, PCs
  <2>2. TypeOK'
    BY <2>1 DEF TypeInv, TypeOK, PCs
  <2>3. QED BY <2>1, <2>2 DEF TypeInv, Names
<1>2. CASE Start
  <2>1. tail' \in Tails
    BY <1>2, SizeFacts DEF Start, Tails
  <2>2. /\ UNCHANGED << provider, file, half, task, stopping, turn, ctx, path, st, seen, gaveUp, result >>
        /\ pc' \in PCs /\ claude' \in {"none", "busy", "idle", "dead", "exited"}
    BY <1>2 DEF Start, PCs
  <2>3. TypeOK'
    BY <2>1, <2>2 DEF TypeInv, TypeOK, PCs, Tails
  <2>4. QED BY <2>2, <2>3 DEF TypeInv, Names
<1>3. QED BY <1>1, <1>2 DEF Begins

\* A step of the provider once claude was started.
LEMMA ProviderSteps ==
  ASSUME AgentAssumption, TypeInv, ReadInv, Tailing \/ Calling
  PROVE  (Visits \/ Keeps) /\ Goes
BY TailingShape, CallingShape, TailingGoes, CallingGoes

LEMMA TypeStep ==
  ASSUME AgentAssumption, TypeInv, ReadInv, Next
  PROVE  TypeInv'
<1>1. CASE Writer
  BY <1>1, WriterWrites, WritesTyped
<1>2. CASE Silent
  BY <1>2, SilentTyped DEF Silent
<1>3. CASE Begins
  BY <1>3, BeginsTyped
<1>4. CASE Tailing \/ Calling
  BY <1>4, ProviderSteps, VisitsTyped, KeepsTyped
<1>5. QED BY <1>1, <1>2, <1>3, <1>4, NextCases

\* What claude, a signal or the runner do while the provider does nothing.
LEMMA SilentFrame ==
  ASSUME TypeInv, Silent
  PROVE  /\ UNCHANGED << provider, file, task, stopping, turn, pc, tail, path, st, seen, gaveUp, result >>
         /\ half' = half \/ (half = TRUE /\ half' = FALSE /\ Alive)
         /\ claude' = claude \/ (claude' \in {"dead", "exited"} /\ Alive)
BY DEF Silent, Flush, Exit, Cancel, KillOnCancel, env, prov, TypeInv, TypeOK

LEMMA ReadStep ==
  ASSUME AgentAssumption, TypeInv, ReadInv, CallInv, Next
  PROVE  ReadInv'
<1> USE SizeFacts
<1>0. /\ seen \in Seq(Nat) /\ half \in BOOLEAN
      /\ tail.off <= tail.read /\ tail.read <= Size
      /\ \A i \in DOMAIN seen : seen[i] \in DOMAIN file /\ 2 * seen[i] <= tail.off
  BY DEF TypeInv, TypeOK, ReadInv
<1>1. CASE Writer
  <2>1. PICK k, t, n : Wrote(k, t, n)
    BY <1>1, WriterWrites DEF Writes
  <2>2. /\ half' = TRUE /\ half = FALSE /\ Len(file') = Len(file) + 1
        /\ \A i \in DOMAIN file : i \in DOMAIN file'
        /\ UNCHANGED << tail, seen >>
    BY <2>1, Written
  <2>3. Size' = Size + 1
    BY <2>2 DEF Size
  <2>4. QED BY <1>0, <2>2, <2>3 DEF ReadInv
<1>2. CASE Silent
  <2>0. UNCHANGED << file, tail, seen >> /\ (half' = half \/ (half = TRUE /\ half' = FALSE))
    BY <1>2, SilentFrame
  <2>1. Size' = Size \/ Size' = Size + 1
    <3>1. CASE half' = half
      BY <2>0, <3>1 DEF Size
    <3>2. CASE half = TRUE /\ half' = FALSE
      <4>1. Size' = 2 * Len(file) /\ Size = 2 * Len(file) - 1 /\ Len(file) \in Nat
        BY <2>0, <3>2 DEF Size
      <4>2. QED BY <4>1
    <3>3. QED BY <2>0, <3>1, <3>2
  <2>2. UNCHANGED << file, tail, seen >> /\ Size' \in Nat /\ Size <= Size'
    BY <2>0, <2>1
  <2>3. QED BY <1>0, <2>1, <2>2 DEF ReadInv
<1>3. CASE StartFails
  <2>1. UNCHANGED << file, half, tail, seen >>
    BY <1>3 DEF StartFails
  <2>2. QED BY <1>0, <2>1 DEF ReadInv, Size
<1>4. CASE Start
  <2>1. UNCHANGED << file, half >> /\ tail'.off = Size /\ tail'.read = Size /\ seen' = << >>
    BY <1>4 DEF Start, CallInv
  <2>2. QED BY <2>1 DEF ReadInv, Size
<1>5. CASE Visits
  <2>1. UNCHANGED << file, half >> /\ tail'.off = 2 * NextLine /\ tail'.off <= tail'.read
        /\ tail'.read <= Size /\ seen' = Append(seen, NextLine)
        /\ NextLine \in DOMAIN file /\ tail.off <= 2 * NextLine
    BY <1>5 DEF Visits, NextLine
  <2>2. Size' = Size
    BY <2>1 DEF Size
  <2>3. PICK m \in Nat : m = NextLine
    OBVIOUS
  <2>4. DOMAIN seen' = DOMAIN seen \cup {Len(seen) + 1} /\ seen'[Len(seen) + 1] = m
        /\ \A i \in DOMAIN seen : seen'[i] = seen[i]
    <3>1. seen \in Seq(Nat) /\ seen' = Append(seen, m)
      BY <1>0, <2>1, <2>3
    <3> HIDE SizeFacts
    <3>2. QED BY <3>1
  <2>5. \A i \in DOMAIN seen' : seen'[i] \in DOMAIN file' /\ 2 * seen'[i] <= tail'.off
    <3> SUFFICES ASSUME NEW i \in DOMAIN seen'
                 PROVE  seen'[i] \in DOMAIN file' /\ 2 * seen'[i] <= tail'.off
      OBVIOUS
    <3>1. CASE i \in DOMAIN seen
      <4>1. seen'[i] = seen[i] /\ seen[i] \in DOMAIN file /\ 2 * seen[i] <= tail.off
        BY <1>0, <2>4, <3>1
      <4>2. QED BY <2>1, <4>1
    <3>2. CASE i = Len(seen) + 1
      BY <2>1, <2>3, <2>4, <3>2
    <3>3. QED BY <2>4, <3>1, <3>2
  <2>6. QED BY <2>1, <2>2, <2>5 DEF ReadInv
<1>6. CASE Keeps
  <2>1. /\ UNCHANGED << file, half, seen >> /\ tail'.off \in Nat /\ tail.off <= tail'.off
        /\ tail'.off <= tail'.read /\ tail'.read <= Size
    BY <1>6 DEF Keeps, Tails
  <2>2. QED BY <1>0, <2>1 DEF ReadInv, Size
<1>7. QED
  BY <1>1, <1>2, <1>3, <1>4, <1>5, <1>6, NextCases, ProviderSteps DEF Begins

LEMMA CallStep ==
  ASSUME AgentAssumption, TypeInv, ReadInv, CallInv, Next
  PROVE  CallInv'
<1>1. CASE Writer
  <2>1. PICK k, t, n : Wrote(k, t, n)
    BY <1>1, WriterWrites DEF Writes
  <2>2. UNCHANGED << provider, pc, st, seen, gaveUp, result >> /\ Alive
        /\ claude' \in {"busy", "idle"}
    BY <2>1, Written DEF Wrote
  <2>3. claude # "none"
    BY <2>2 DEF Alive
  <2>4. pc \notin {"start", "closed"}
    BY <2>2, <2>3 DEF CallInv
  <2>5. QED BY <2>2, <2>4 DEF CallInv, Pty
<1>2. CASE Silent
  <2>1. claude' = "none" => claude' = claude /\ half' = half
    BY <1>2, SilentFrame DEF Alive
  <2>2. pc = "start" => claude' = "none"
    BY <1>2, SilentFrame DEF CallInv, Alive
  <2>3. ~Alive => ~Alive'
    BY <1>2, SilentFrame DEF Alive
  <2>4. UNCHANGED << provider, file, pc, st, seen, gaveUp, result >>
    BY <1>2, SilentFrame
  <2>5. FinalMessage(st)' = FinalMessage(st)
    BY <2>4 DEF FinalMessage, Pty
  <2>6. QED BY <2>1, <2>2, <2>3, <2>4, <2>5 DEF CallInv, Pty
<1>3. CASE StartFails
  <2>1. UNCHANGED << provider, file, half, st, seen, gaveUp >> /\ pc' = "closed"
        /\ claude = "none" /\ ~Alive' /\ result'.state # "none" /\ result'.wakeup = st.wakeup
        /\ result'.final = FinalMessage(st)
    BY <1>3, Returned DEF StartFails, CallInv
  <2>2. FinalMessage(st)' = FinalMessage(st)
    BY <2>1 DEF FinalMessage, Pty
  <2>3. QED BY <2>1, <2>2 DEF CallInv, Pty
<1>4. CASE Start
  BY <1>4 DEF Start, CallInv, Pty
<1>5. CASE Tailing \/ Calling
  <2>1. (Visits \/ Keeps) /\ Goes
    BY <1>5, ProviderSteps
  <2>2. claude # "none"
    BY <2>1 DEF CallInv, Goes
  <2>3. claude' # "none" /\ provider' = provider
    BY <2>1, <2>2 DEF Visits, Keeps
  <2>4. FinalMessage(st)' = FinalMessage(st')
    BY <2>3 DEF FinalMessage, Pty
  <2>5. QED BY <2>1, <2>3, <2>4 DEF Goes, CallInv, Pty
<1>6. QED BY <1>1, <1>2, <1>3, <1>4, <1>5, NextCases DEF Begins

BaseInv == TypeInv /\ ReadInv /\ CallInv

LEMMA BaseInit == AgentAssumption /\ Init => BaseInv
<1> SUFFICES ASSUME AgentAssumption, Init PROVE BaseInv
  OBVIOUS
<1>1. /\ file \in Seq(Rec) /\ \A i \in DOMAIN file : Names(file[i])
  <2>1. Line("text", NoTask, 0) \in Rec /\ Line("end", NoTask, 0) \in Rec
        /\ Names(Line("text", NoTask, 0)) /\ Names(Line("end", NoTask, 0))
    BY DEF Line, Rec, Names, AgentAssumption
  <2>2. Earlier \in Seq(Rec) /\ \A i \in DOMAIN Earlier : Names(Earlier[i])
    <3> HIDE DEF Rec
    <3>1. QED BY <2>1 DEF Earlier
  <2>3. file \in {Earlier, << >>}
    BY DEF Init
  <2>4. << >> \in Seq(Rec) /\ DOMAIN << >> = {}
    OBVIOUS
  <2> HIDE DEF Earlier
  <2>5. CASE file = << >>
    BY <2>4, <2>5
  <2>6. CASE file = Earlier
    BY <2>2, <2>6
  <2>7. QED BY <2>3, <2>5, <2>6
<1>2. NewState \in RunState /\ NoResult \in Results
  BY DEF NewState, RunState, NoResult, Results, AgentAssumption
<1>3. TypeOK
  <2> HIDE DEF Rec, RunState, Results, NewState, NoResult
  <2>1. turn \in 1..MaxTurns /\ tail \in [off : Nat, read : Nat, moved : BOOLEAN]
    BY DEF Init, AgentAssumption
  <2>2. task \in [Task -> {"new", "called", "running", "over"}] /\ stopping \subseteq Task
        /\ seen \in Seq(Nat)
    BY DEF Init
  <2>3. provider \in [name : {"claude", "claude-pty"}, resumes : BOOLEAN] /\ half \in BOOLEAN
        /\ path \in BOOLEAN /\ claude = "none" /\ ctx = "live" /\ pc = "start" /\ gaveUp = "no"
        /\ st = NewState /\ result = NoResult
    BY DEF Init
  <2>4. QED BY <1>1, <1>2, <2>1, <2>2, <2>3 DEF TypeOK
<1>4. TypeInv
  BY <1>1, <1>3 DEF TypeInv, Init
<1>5. ReadInv
  BY <1>4, SizeFacts DEF Init, ReadInv
<1>6. CallInv
  BY DEF Init, CallInv, Alive, NoResult
<1>7. QED BY <1>4, <1>5, <1>6 DEF BaseInv

LEMMA BaseStep == AgentAssumption /\ BaseInv /\ [Next]_vars => BaseInv'
<1> SUFFICES ASSUME AgentAssumption, BaseInv, [Next]_vars PROVE BaseInv'
  OBVIOUS
<1>1. CASE UNCHANGED vars
  <2>1. UNCHANGED << provider, file, half, claude, task, stopping, turn, ctx, pc, tail, path, st,
                     seen, gaveUp, result >>
    BY <1>1 DEF vars, env, prov
  <2>2. TypeInv'
    <3>1. TypeOK'
      <4>1. TypeOK
        BY DEF BaseInv, TypeInv
      <4>2. /\ provider' = provider /\ file' = file /\ half' = half /\ claude' = claude
            /\ task' = task /\ stopping' = stopping /\ turn' = turn /\ ctx' = ctx /\ pc' = pc
            /\ tail' = tail /\ path' = path /\ st' = st /\ seen' = seen /\ gaveUp' = gaveUp
            /\ result' = result
        BY <2>1
      <4>3. provider' \in [name : {"claude", "claude-pty"}, resumes : BOOLEAN] /\ pc' \in PCs
            /\ claude' \in {"none", "busy", "idle", "dead", "exited"}
            /\ half' \in BOOLEAN /\ path' \in BOOLEAN /\ ctx' \in {"live", "done"}
        BY <4>1, <4>2 DEF TypeOK, PCs
      <4>4. file' \in Seq(Rec)
        BY <4>1, <4>2 DEF TypeOK
      <4>5. task' \in [Task -> {"new", "called", "running", "over"}] /\ stopping' \subseteq Task
            /\ turn' \in 1..MaxTurns
        BY <4>1, <4>2 DEF TypeOK
      <4>6. st' \in RunState /\ result' \in Results /\ seen' \in Seq(Nat)
            /\ gaveUp' \in {"no", "ended", "quiet", "no synthesis"}
        BY <4>1, <4>2 DEF TypeOK
      <4>7. tail' \in [off : Nat, read : Nat, moved : BOOLEAN]
        BY <4>1, <4>2 DEF TypeOK
      <4>8. QED BY <4>3, <4>4, <4>5, <4>6, <4>7 DEF TypeOK, PCs
    <3>2. QED BY <2>1, <3>1 DEF BaseInv, TypeInv, Names
  <2>3. ReadInv'
    BY <2>1 DEF BaseInv, ReadInv, Size
  <2>4. CallInv'
    BY <2>1 DEF BaseInv, CallInv, Pty, Alive, FinalMessage
  <2>5. QED BY <2>2, <2>3, <2>4 DEF BaseInv
<1>2. CASE Next
  BY <1>2, TypeStep, ReadStep, CallStep DEF BaseInv
<1>3. QED BY <1>1, <1>2

-----------------------------------------------------------------------------
(* What was visited.                                                         *)

Visited == { seen[i] : i \in DOMAIN seen }

LEMMA VisitedLines ==
  ASSUME BaseInv
  PROVE  /\ \A x \in Visited : x \in DOMAIN file /\ x \in Nat /\ 2 * x <= tail.off
         /\ \A k : \A x : x \in SeenOf(k) <=> x \in Visited /\ file[x].kind = k
<1>1. /\ \A i \in DOMAIN seen : seen[i] \in DOMAIN file /\ 2 * seen[i] <= tail.off
      /\ DOMAIN file \subseteq Nat
  BY SizeFacts DEF BaseInv, ReadInv
<1>2. QED BY <1>1 DEF Visited, SeenOf

LEMMA VisitedGrows ==
  ASSUME BaseInv, Visits
  PROVE  /\ NextLine \in Nat /\ NextLine \in DOMAIN file
         /\ file[NextLine] \in Rec /\ Names(file[NextLine])
         /\ Visited' = Visited \cup {NextLine}
         /\ \A x \in Visited : x < NextLine
<1>1. seen \in Seq(Nat) /\ seen' = Append(seen, NextLine) /\ tail.off \in Nat
  BY DEF BaseInv, TypeInv, TypeOK, Visits
<1>2. PICK m \in Nat : m = NextLine /\ m \in DOMAIN file /\ file[m] \in Rec /\ Names(file[m])
  BY SizeFacts DEF BaseInv, Visits
<1>3. seen' = Append(seen, m)
  BY <1>1, <1>2
<1>4. Visited' = Visited \cup {m}
  <2>1. DOMAIN seen' = DOMAIN seen \cup {Len(seen) + 1} /\ seen'[Len(seen) + 1] = m
        /\ \A i \in DOMAIN seen : seen'[i] = seen[i]
    BY <1>1, <1>3
  <2>2. QED BY <2>1 DEF Visited
<1>5. \A x \in Nat : 2 * x <= tail.off => x < m
  BY <1>1, <1>2 DEF NextLine
<1>6. QED BY <1>2, <1>4, <1>5, VisitedLines

\* A step that visits nothing.
Unread ==
  /\ provider' = provider /\ Visited' = Visited
  /\ \A x \in Visited : file'[x] = file[x]
  /\ st'.pending = st.pending /\ st'.known = st.known
  /\ st'.last = st.last /\ st'.final = st.final /\ st'.wakeup = st.wakeup

LEMMA UnreadOrVisits ==
  ASSUME AgentAssumption, BaseInv, Next
  PROVE  Unread \/ Visits
<1>1. CASE Writer
  <2>1. PICK k, t, n : Wrote(k, t, n)
    BY <1>1, WriterWrites DEF Writes, BaseInv
  <2>2. /\ \A i \in DOMAIN file : file'[i] = file[i]
        /\ UNCHANGED << provider, st, seen >>
    BY <2>1, Written DEF BaseInv
  <2>3. QED BY <2>2, VisitedLines DEF Unread, Visited
<1>2. CASE Silent \/ Begins
  <2>1. UNCHANGED << provider, file, st, seen >>
    BY <1>2, SilentFrame DEF BaseInv, Begins, StartFails, Start
  <2>2. QED BY <2>1 DEF Unread, Visited
<1>3. CASE Keeps
  BY <1>3 DEF Keeps, Unread, Visited
<1>4. QED BY <1>1, <1>2, <1>3, NextCases, ProviderSteps DEF BaseInv

\* What the last record about the wakeup said is what is handed on.
Scheduled ==
  \E x \in Visited : /\ file[x].kind = "schedule"
                    /\ \A y \in Visited : file[y].kind = "cancel" => y < x

WakeupInv == Pty => (st.wakeup <=> Scheduled)

LEMMA WakeupStep == AgentAssumption /\ BaseInv /\ WakeupInv /\ [Next]_vars => WakeupInv'
<1> SUFFICES ASSUME AgentAssumption, BaseInv, WakeupInv, [Next]_vars PROVE WakeupInv'
  OBVIOUS
<1>1. CASE Unread
  BY <1>1 DEF Unread, WakeupInv, Scheduled, Pty
<1>2. CASE Visits
  <2> SUFFICES ASSUME Pty PROVE st'.wakeup <=> Scheduled'
    BY <1>2 DEF Visits, WakeupInv, Pty
  <2>1. PICK m \in Nat : m = NextLine
    BY <1>2, VisitedGrows
  <2>2. /\ Visited' = Visited \cup {m} /\ \A x \in Visited : x < m
        /\ file' = file
    BY <1>2, <2>1, VisitedGrows DEF Visits
  <2>3. st' = Visit(st, file[m])
    BY <1>2, <2>1 DEF Visits, BaseInv, CallInv
  <2>4. st'.wakeup <=> file[m].kind = "schedule" \/ (st.wakeup /\ file[m].kind # "cancel")
    BY <2>3 DEF Visit, Cancels
  <2>5. \A x \in Visited : x \in Nat
    BY VisitedLines
  <2>6. CASE file[m].kind = "schedule"
    <3>1. \A y \in Visited' : file'[y].kind = "cancel" => y < m
      BY <2>2, <2>6
    <3>2. Scheduled'
      BY <2>2, <2>6, <3>1 DEF Scheduled
    <3>3. QED BY <2>4, <2>6, <3>2
  <2>7. CASE file[m].kind = "cancel"
    <3>1. ~Scheduled'
      BY <2>2, <2>5, <2>7 DEF Scheduled
    <3>2. QED BY <2>4, <2>7, <3>1
  <2>8. CASE file[m].kind \notin {"schedule", "cancel"}
    <3>1. Scheduled' <=> Scheduled
      BY <2>2, <2>8 DEF Scheduled
    <3>2. QED BY <2>4, <2>8, <3>1 DEF WakeupInv
  <2>9. QED BY <2>6, <2>7, <2>8
<1>3. CASE UNCHANGED vars
  BY <1>3 DEF vars, env, prov, WakeupInv, Scheduled, Visited, Pty
<1>4. QED BY <1>1, <1>2, <1>3, UnreadOrVisits

LEMMA ScheduledIsLast ==
  ASSUME BaseInv
  PROVE  Scheduled <=> LastSchedule # {}
BY VisitedLines DEF Scheduled, LastSchedule

\* A wakeup that claude cancelled is not handed to the runner, and one that it did not
\* cancel is, however the records were read, and even if reads fail
\* (runState.visit, agentWakeup).
THEOREM WakeupHandedOn ==
  ASSUME AgentAssumption
  PROVE  Spec => []CancelledWakeupDropped
<1>1. Init => WakeupInv
  BY DEF Init, WakeupInv, Scheduled, Visited, NewState
<1>2. BaseInv /\ WakeupInv => CancelledWakeupDropped
  <2> SUFFICES ASSUME BaseInv, WakeupInv, Pty, result.state # "none"
               PROVE  result.wakeup <=> LastSchedule # {}
    BY DEF CancelledWakeupDropped
  <2>1. pc = "closed"
    BY DEF BaseInv, CallInv, NoResult
  <2>2. result.wakeup = st.wakeup
    BY <2>1 DEF BaseInv, CallInv
  <2>3. QED BY <2>2, ScheduledIsLast DEF WakeupInv
<1>3. QED BY <1>1, <1>2, BaseInit, BaseStep, WakeupStep, PTL DEF Spec

-----------------------------------------------------------------------------
(* The reader of the session file.                                           *)

Base == IF Pty /\ provider.resumes THEN Len(Earlier) ELSE 0

\* While no read fails the offset is behind the last line that was visited.
OnceInv ==
  /\ \A i \in DOMAIN seen : seen[i] = i + Base
  /\ claude # "none" => tail.off = 2 * (Base + Len(seen))

LEMMA BaseFacts == Base \in {0, 2} /\ (~Pty => Base = 0) /\ Len(Earlier) = 2
BY DEF Base, Earlier

LEMMA OnceStep ==
  ASSUME AgentAssumption, ~ReadErrors, BaseInv, OnceInv, [Next]_vars
  PROVE  OnceInv'
<1>0. seen \in Seq(Nat) /\ Len(seen) \in Nat /\ Base \in Nat
  <2>1. seen \in Seq(Nat)
    BY DEF BaseInv, TypeInv, TypeOK
  <2>2. QED BY <2>1, BaseFacts
<1>1. CASE Writer
  <2>1. PICK k, t, n : Wrote(k, t, n)
    BY <1>1, WriterWrites DEF Writes, BaseInv
  <2>2. UNCHANGED << provider, tail, seen >> /\ claude # "none"
    BY <2>1, Written DEF BaseInv, Wrote, Alive
  <2>3. Base' = Base
    BY <2>2 DEF Base, Pty
  <2>4. QED BY <2>2, <2>3 DEF OnceInv
<1>2. CASE Silent \/ StartFails
  <2>1. UNCHANGED << provider, tail, seen >> /\ (claude' # "none" => claude # "none")
    BY <1>2, SilentFrame, Returned DEF BaseInv, CallInv, StartFails, Alive, Return
  <2>2. Base' = Base
    BY <2>1 DEF Base, Pty
  <2>3. QED BY <2>1, <2>2 DEF OnceInv
<1>3. CASE Start
  <2>1. provider' = provider /\ seen' = << >> /\ tail'.off = Size /\ ~half
        /\ file = IF Pty /\ provider.resumes THEN Earlier ELSE << >>
    BY <1>3 DEF Start, BaseInv, CallInv
  <2>2. Base' = Base /\ Len(file) = Base
    BY <2>1 DEF Base, Pty
  <2>3. tail'.off = 2 * Base
    BY <2>1, <2>2 DEF Size
  <2>4. QED BY <1>0, <2>1, <2>2, <2>3 DEF OnceInv
<1>4. CASE Tailing \/ Calling
  <2>1. Visits \/ Keeps
    BY <1>4, ProviderSteps DEF BaseInv
  <2>2. claude # "none" /\ provider' = provider
    BY <1>4, <2>1, ProviderSteps DEF BaseInv, CallInv, Goes, Visits, Keeps
  <2>3. tail.off = 2 * (Base + Len(seen)) /\ Base' = Base
    BY <2>2 DEF OnceInv, Base, Pty
  <2>4. tail.off % 2 = 0 /\ NextLine = Base + Len(seen) + 1
    BY <1>0, <2>3 DEF NextLine
  <2>5. CASE Visits
    <3>1. seen' = Append(seen, NextLine) /\ tail'.off = 2 * NextLine
      BY <2>5 DEF Visits
    <3>2. PICK m \in Nat : m = NextLine /\ m = Base + Len(seen) + 1
      BY <1>0, <2>4
    <3>3. Len(seen') = Len(seen) + 1 /\ seen'[Len(seen) + 1] = m
          /\ \A i \in DOMAIN seen' : (i \in DOMAIN seen /\ seen'[i] = seen[i]) \/ i = Len(seen) + 1
      BY <1>0, <3>1, <3>2
    <3>4. QED BY <1>0, <2>3, <3>1, <3>2, <3>3 DEF OnceInv
  <2>6. CASE Keeps
    BY <2>2, <2>3, <2>4, <2>6 DEF Keeps, OnceInv
  <2>7. QED BY <2>1, <2>5, <2>6
<1>5. CASE UNCHANGED vars
  <2>1. UNCHANGED << provider, claude, tail, seen >>
    BY <1>5 DEF vars, env, prov
  <2>2. Base' = Base
    BY <2>1 DEF Base, Pty
  <2>3. QED BY <2>1, <2>2 DEF OnceInv
<1>6. QED BY <1>1, <1>2, <1>3, <1>4, <1>5, NextCases DEF Begins

\* Each line that claude wrote in this call is visited once and in order, whatever
\* part of a line a read ended in and however often the tail was started again
\* (tailSession, the offset it returns).
THEOREM TailReadsAll ==
  ASSUME AgentAssumption, ~ReadErrors
  PROVE  Spec => []TailSound
<1>1. Init => OnceInv
  BY DEF Init, OnceInv
<1>2. BaseInv /\ OnceInv => TailSound
  BY DEF TailSound, EachLineOnce, BaseInv, TypeInv, OnceInv, Base
<1>3. BaseInv /\ OnceInv /\ [Next]_vars => OnceInv'
  BY OnceStep
<1>4. QED BY <1>1, <1>2, <1>3, BaseInit, BaseStep, PTL DEF Spec

-----------------------------------------------------------------------------
(* The final message.                                                        *)

LEMMA FileKept ==
  ASSUME AgentAssumption, BaseInv, Next, ~Writer
  PROVE  UNCHANGED << provider, file, task, turn >>
<1>1. CASE Silent
  BY <1>1, SilentFrame DEF BaseInv
<1>2. CASE Begins
  BY <1>2 DEF Begins, StartFails, Start
<1>3. CASE Tailing \/ Calling
  BY <1>3, ProviderSteps DEF BaseInv, Visits, Keeps
<1>4. QED BY <1>1, <1>2, <1>3, NextCases

\* Texts are in the order of their turns.
TurnsOrdered ==
  /\ \A i \in DOMAIN file : file[i].turn <= turn
  /\ \A i, j \in DOMAIN file :
       i < j /\ file[i].kind = "text" /\ file[j].kind = "text" => file[i].turn <= file[j].turn

\* The text that was visited last is remembered.
TextRead ==
  Pty => /\ \A x \in Visited : file[x].kind = "text" => file[x].turn <= st.last
         /\ st.last # 0 => \E x \in Visited : file[x].kind = "text" /\ file[x].turn = st.last

LEMMA TurnsStep == AgentAssumption /\ BaseInv /\ TurnsOrdered /\ [Next]_vars => TurnsOrdered'
<1> SUFFICES ASSUME AgentAssumption, BaseInv, TurnsOrdered, [Next]_vars PROVE TurnsOrdered'
  OBVIOUS
<1>1. CASE Writer
  <2>1. PICK k, t, n : Wrote(k, t, n)
    BY <1>1, WriterWrites DEF Writes, BaseInv
  <2>2. /\ \A i \in DOMAIN file : file'[i] = file[i] /\ i < Len(file) + 1 /\ i \in Nat
        /\ file'[Len(file) + 1] = Line(k, t, n) /\ Len(file) \in Nat
        /\ \A i \in DOMAIN file' : i \in DOMAIN file \/ i = Len(file) + 1
    <3>1. \A i \in DOMAIN file : i < Len(file) + 1 /\ i \in Nat
      BY SizeFacts DEF BaseInv
    <3>2. QED BY <2>1, <3>1, Written DEF BaseInv
  <2>3. turn \in Nat /\ turn' \in Nat /\ turn <= turn' /\ n = (IF k = "text" THEN turn ELSE 0)
        /\ \A i \in DOMAIN file : file[i].turn \in Nat
    <3>1. turn \in 1..MaxTurns /\ MaxTurns \in Nat
      BY DEF BaseInv, TypeInv, TypeOK, AgentAssumption
    <3>2. \A i \in DOMAIN file : file[i] \in Rec
      <4>1. file \in Seq(Rec)
        BY DEF BaseInv, TypeInv, TypeOK
      <4>2. QED BY <4>1
    <3>3. \A i \in DOMAIN file : file[i].turn \in Nat
      BY <3>1, <3>2 DEF Rec
    <3>4. QED BY <2>1, <3>1, <3>3 DEF Wrote
  <2>4. Line(k, t, n).turn = n /\ Line(k, t, n).kind = k
    BY DEF Line
  <2>5. PICK r : r = Line(k, t, n) /\ r.turn = n /\ r.kind = k
    BY <2>4
  <2>6. PICK m \in Nat : m = Len(file) + 1
    BY <2>2
  <2>7. \A i \in DOMAIN file' : file'[i].turn <= turn'
    <3> SUFFICES ASSUME NEW i \in DOMAIN file' PROVE file'[i].turn <= turn'
      OBVIOUS
    <3>1. CASE i = m
      BY <2>2, <2>3, <2>5, <2>6, <3>1
    <3>2. CASE i \in DOMAIN file
      BY <2>2, <2>3, <3>2 DEF TurnsOrdered
    <3>3. QED BY <2>2, <2>6, <3>1, <3>2
  <2>8. ASSUME NEW i \in DOMAIN file', NEW j \in DOMAIN file', i < j,
               file'[i].kind = "text", file'[j].kind = "text"
        PROVE  file'[i].turn <= file'[j].turn
    <3>1. CASE i \in DOMAIN file /\ j \in DOMAIN file
      BY <2>2, <2>8, <3>1 DEF TurnsOrdered
    <3>2. CASE i \in DOMAIN file /\ j = m
      <4>1. k = "text" /\ file'[j].turn = turn
        BY <2>2, <2>3, <2>5, <2>6, <2>8, <3>2
      <4>2. file'[i].turn <= turn
        BY <2>2, <3>2 DEF TurnsOrdered
      <4>3. QED BY <4>1, <4>2
    <3>3. CASE i = m
      <4>1. j \in DOMAIN file \/ j = m
        BY <2>2, <2>6
      <4>2. QED BY <2>2, <2>6, <2>8, <3>3, <4>1
    <3>4. QED BY <2>2, <2>6, <3>1, <3>2, <3>3
  <2>9. QED BY <2>7, <2>8 DEF TurnsOrdered
<1>2. CASE ~Writer /\ Next
  BY <1>2, FileKept DEF TurnsOrdered
<1>3. CASE UNCHANGED vars
  BY <1>3 DEF vars, env, TurnsOrdered
<1>4. QED BY <1>1, <1>2, <1>3

LEMMA TextStep == AgentAssumption /\ BaseInv /\ TurnsOrdered /\ TextRead /\ [Next]_vars => TextRead'
<1> SUFFICES ASSUME AgentAssumption, BaseInv, TurnsOrdered, TextRead, [Next]_vars PROVE TextRead'
  OBVIOUS
<1>1. CASE Unread
  BY <1>1 DEF Unread, TextRead, Pty
<1>2. CASE Visits
  <2> SUFFICES ASSUME Pty, Pty'
               PROVE  /\ \A x \in Visited' : file'[x].kind = "text" => file'[x].turn <= st'.last
                      /\ st'.last # 0 => \E x \in Visited' :
                                           file'[x].kind = "text" /\ file'[x].turn = st'.last
    BY <1>2 DEF Visits, TextRead, Pty
  <2>1. PICK m \in Nat : m = NextLine
    BY <1>2, VisitedGrows
  <2>2. /\ Visited' = Visited \cup {m} /\ \A x \in Visited : x < m
        /\ file' = file /\ m \in DOMAIN file
    BY <1>2, <2>1, VisitedGrows DEF Visits
  <2>3. st' = Visit(st, file[m])
    BY <1>2, <2>1 DEF Visits, BaseInv, CallInv
  <2>4. st'.last = IF file[m].kind = "text" THEN file[m].turn ELSE st.last
    BY <2>3 DEF Visit
  <2>5. \A x \in Visited : x \in DOMAIN file
    BY VisitedLines
  <2>6. CASE file[m].kind = "text"
    <3>1. \A x \in Visited : file[x].kind = "text" => file[x].turn <= file[m].turn
      BY <2>2, <2>5, <2>6 DEF TurnsOrdered
    <3>2. file[m].turn <= file[m].turn
      <4>1. file[m] \in Rec
        BY <1>2, <2>1, VisitedGrows
      <4>2. file[m].turn \in Nat
        BY <4>1 DEF Rec, AgentAssumption
      <4>3. QED BY <4>2
    <3>3. QED BY <2>2, <2>4, <2>6, <3>1, <3>2
  <2>7. CASE file[m].kind # "text"
    BY <2>2, <2>4, <2>7 DEF TextRead
  <2>8. QED BY <2>6, <2>7
<1>3. CASE UNCHANGED vars
  BY <1>3 DEF vars, env, prov, TextRead, Visited, Pty
<1>4. QED BY <1>1, <1>2, <1>3, UnreadOrVisits

\* The last record that was visited is the end of a turn, whose text is the final one.
LastIsEnd ==
  /\ st.final = st.last
  /\ \E e \in Visited : file[e].kind = "end" /\ \A x \in Visited : x <= e

Answered == pc = "closed" /\ Pty /\ result.state = "ok"

\* The tail stops at the end of a turn; the loop over drain and synthesis is left
\* behind one, and with nothing pending, unless it gave up.
EndInv ==
  /\ pc \in {"await", "tail", "check"} /\ st.turnDone => st.deferring /\ ~st.awaiting
  /\ pc = "returned" /\ st.turnDone /\ (st.deferring => st.awaiting) => LastIsEnd
  /\ pc = "outer" /\ gaveUp = "no" /\ st.pending = {} => LastIsEnd
  /\ (pc = "settle" \/ Answered) /\ gaveUp = "no" => LastIsEnd
  /\ (pc = "settle" \/ Answered) /\ gaveUp \notin {"ended", "quiet"} => st.pending = {}

LEMMA EndVisits ==
  ASSUME AgentAssumption, BaseInv, EndInv, Visits
  PROVE  EndInv'
<1>1. provider' = provider /\ gaveUp' = gaveUp /\ file' = file
  BY DEF Visits
<1>2. CASE pc = "stream"
  BY <1>2 DEF Visits, EndInv, Answered
<1>3. CASE pc = "tail"
  <2>1. PICK m \in Nat : m = NextLine
    BY VisitedGrows
  <2>2. Visited' = Visited \cup {m} /\ (\A x \in Visited : x < m) /\ file[m] \in Rec
    BY <2>1, VisitedGrows
  <2>3. PICK r \in Rec : r = file[m]
    BY <2>2
  <2>4. st' = Visit(st, r) /\ pc' = IF Stops(st', r) THEN "returned" ELSE "tail"
    BY <1>3, <2>1, <2>3 DEF Visits
  <2>5. /\ st'.deferring = st.deferring /\ st'.awaiting = st.awaiting
        /\ st'.turnDone <=> st.turnDone \/ r.kind = "end"
        /\ r.kind = "end" => st'.final = st.last /\ st'.last = st.last
    BY <2>4 DEF Visit
  <2>6. r.kind = "end" => LastIsEnd'
    <3> SUFFICES ASSUME r.kind = "end" PROVE LastIsEnd'
      OBVIOUS
    <3>1. \A x \in Visited' : x <= m
      BY <2>2, VisitedLines
    <3>2. m \in Visited' /\ file'[m].kind = "end"
      BY <1>1, <2>2, <2>3
    <3>3. QED BY <2>5, <3>1, <3>2 DEF LastIsEnd
  <2>7. st.turnDone => st.deferring /\ ~st.awaiting
    BY <1>3 DEF EndInv
  <2>8. CASE Stops(st', r)
    <3>1. pc' = "returned"
      BY <2>4, <2>8
    <3>2. st'.turnDone /\ (st'.deferring => st'.awaiting) => LastIsEnd'
      BY <2>5, <2>6, <2>7
    <3>3. QED BY <3>1, <3>2 DEF EndInv, Answered
  <2>9. CASE ~Stops(st', r)
    <3>1. pc' = "tail"
      BY <2>4, <2>9
    <3>2. st'.turnDone => st'.deferring /\ ~st'.awaiting
      BY <2>5, <2>7, <2>9 DEF Stops
    <3>3. QED BY <3>1, <3>2 DEF EndInv, Answered
  <2>10. QED BY <2>8, <2>9
<1>4. QED BY <1>2, <1>3 DEF Visits

LEMMA LastKept ==
  ASSUME Unread, LastIsEnd
  PROVE  LastIsEnd'
BY DEF Unread, LastIsEnd

LEMMA EndTailing ==
  ASSUME AgentAssumption, BaseInv, EndInv, Tailing, Unread
  PROVE  EndInv'
<1>1. CASE pc = "stream"
  <2>1. pc' = "stream"
    BY <1>1 DEF Tailing, ReadLine, ReadPart, ReadFails, NothingNew, CheckChild, TailCancelled,
                WindowElapses, StreamWrite
  <2>2. QED BY <2>1 DEF EndInv, Answered
<1>2. CASE pc # "stream"
  <2>1. pc \in {"tail", "check"} /\ pc' \in {"tail", "check", "returned"}
    BY <1>2 DEF Tailing, ReadLine, ReadPart, ReadFails, NothingNew, CheckChild, TailCancelled,
                WindowElapses, StreamWrite, TailReturns
  <2>2. st' = st \/ ReadLine
    BY <1>2 DEF Tailing, ReadPart, ReadFails, NothingNew, CheckChild, TailCancelled,
                WindowElapses, StreamWrite
  <2>3. CASE st' = st
    BY <2>1, <2>3 DEF EndInv, Answered
  <2>4. CASE ReadLine
    <3>1. CASE tail.off % 2 = 1
      BY <2>1, <2>3, <2>4, <3>1 DEF ReadLine, VisitLine
    <3>2. CASE tail.off % 2 # 1
      <4>1. seen' = Append(seen, NextLine)
        BY <2>4, <3>2 DEF ReadLine, VisitLine
      <4>2. NextLine \in Visited'
        <5>1. seen \in Seq(Nat)
          BY DEF BaseInv, TypeInv, TypeOK
        <5>2. PICK m : m = NextLine
          OBVIOUS
        <5>3. Len(seen) + 1 \in DOMAIN seen' /\ seen'[Len(seen) + 1] = m
          BY <4>1, <5>1, <5>2
        <5>4. QED BY <5>2, <5>3 DEF Visited
      <4>3. NextLine \notin Visited
        <5>1. \A x \in Nat : 2 * x <= tail.off => x # NextLine
          BY SizeFacts DEF NextLine, BaseInv
        <5>2. QED BY <5>1, VisitedLines
      <4>4. QED BY <4>2, <4>3 DEF Unread
    <3>3. QED BY <3>1, <3>2
  <2>5. QED BY <2>2, <2>3, <2>4
<1>3. QED BY <1>1, <1>2

LEMMA EndCalling ==
  ASSUME AgentAssumption, BaseInv, EndInv, Calling, Unread
  PROVE  EndInv'
<1>0. /\ LastIsEnd => LastIsEnd'
      /\ provider' = provider /\ st'.pending = st.pending
  BY LastKept DEF Unread
<1>1. CASE FindFile \/ SkipFile
  BY <1>1 DEF FindFile, SkipFile, EndInv, Answered
<1>2. CASE FileGraceElapses \/ FirstTurnFails
  <2>1. pc' = "closed" /\ result'.state = "error"
    BY <1>2, Returned DEF FileGraceElapses, FirstTurnFails, BaseInv
  <2>2. QED BY <2>1 DEF EndInv, Answered
<1>3. CASE FirstTurnEnds
  <2>1. /\ pc = "returned" /\ ~st.deferring /\ st.turnDone
        /\ pc' = IF st.pending = {} THEN "settle" ELSE "outer"
    BY <1>3 DEF FirstTurnEnds
  <2>2. LastIsEnd'
    BY <1>0, <2>1 DEF EndInv
  <2>3. QED BY <1>0, <2>1, <2>2 DEF EndInv, Answered
<1>4. CASE OuterLoop
  <2>1. CASE pc' = "tail"
    <3>1. st' = [st EXCEPT !.awaiting = FALSE, !.turnDone = FALSE]
      BY <1>4, <2>1 DEF OuterLoop
    <3>2. ~st'.turnDone
      <4>1. st \in RunState
        BY DEF BaseInv, TypeInv, TypeOK
      <4>2. QED BY <3>1, <4>1 DEF RunState
    <3>3. QED BY <2>1, <3>2 DEF EndInv, Answered
  <2>2. CASE pc' # "tail"
    <3>1. pc' = "settle" /\ pc = "outer"
          /\ (gaveUp' = "ended" \/ (gaveUp' = gaveUp /\ st.pending = {}))
      BY <1>4, <2>2 DEF OuterLoop, TailAgain
    <3>2. QED BY <1>0, <3>1 DEF EndInv, Answered
  <2>3. QED BY <2>1, <2>2
<1>5. CASE AwaitDrain
  <2>1. pc = "returned" /\ st.deferring /\ ~st.awaiting
    BY <1>5 DEF AwaitDrain
  <2>2. CASE pc' = "tail"
    <3>1. st' = st \/ st' = [st EXCEPT !.awaiting = TRUE, !.turnDone = FALSE]
      BY <1>5, <2>2 DEF AwaitDrain, StartSynthesis
    <3>2. st'.turnDone => st'.deferring /\ ~st'.awaiting
      <4>1. st \in RunState
        BY DEF BaseInv, TypeInv, TypeOK
      <4>2. QED BY <2>1, <3>1, <4>1 DEF RunState
    <3>3. QED BY <2>2, <3>2 DEF EndInv, Answered
  <2>3. CASE pc' # "tail"
    <3>1. pc' = "settle" /\ gaveUp' \in {"ended", "quiet"}
      BY <1>5, <2>3 DEF AwaitDrain, TailAgain
    <3>2. QED BY <3>1 DEF EndInv, Answered
  <2>4. QED BY <2>2, <2>3
<1>6. CASE AwaitSynthesis
  <2>1. pc = "returned" /\ st.deferring /\ st.awaiting /\ st' = st
    BY <1>6 DEF AwaitSynthesis
  <2>2. CASE st.turnDone \/ ctx = "done" \/ Quiet
    <3>1. pc' = "outer" /\ (gaveUp' = "no" => st.turnDone)
      BY <1>6, <2>2 DEF AwaitSynthesis
    <3>2. gaveUp' = "no" => LastIsEnd'
      BY <1>0, <2>1, <3>1 DEF EndInv
    <3>3. QED BY <3>1, <3>2 DEF EndInv, Answered
  <2>3. CASE ~(st.turnDone \/ ctx = "done" \/ Quiet)
    <3>1. pc' = "tail" /\ ~st'.turnDone
      BY <1>6, <2>1, <2>3 DEF AwaitSynthesis, TailAgain
    <3>2. QED BY <3>1 DEF EndInv, Answered
  <2>4. QED BY <2>2, <2>3
<1>7. CASE Settle
  BY <1>0, <1>7 DEF Settle, Return, EndInv, Answered
<1>8. CASE StreamEnds
  <2>1. ~Pty' /\ pc' = "closed"
    BY <1>0, <1>8 DEF StreamEnds, Return, BaseInv, CallInv, Pty
  <2>2. QED BY <2>1 DEF EndInv, Answered
<1>9. QED
  BY <1>1, <1>2, <1>3, <1>4, <1>5, <1>6, <1>7, <1>8, Calling DEF Calling

LEMMA EndStep == AgentAssumption /\ BaseInv /\ EndInv /\ [Next]_vars => EndInv'
<1> SUFFICES ASSUME AgentAssumption, BaseInv, EndInv, [Next]_vars PROVE EndInv'
  OBVIOUS
<1>1. CASE Visits
  BY <1>1, EndVisits
<1>2. CASE Unread /\ (Writer \/ Silent)
  <2>1. UNCHANGED << provider, pc, st, gaveUp, result >>
    <3>1. CASE Writer
      <4>1. PICK k, t, n : Wrote(k, t, n)
        BY <3>1, WriterWrites DEF Writes, BaseInv
      <4>2. QED BY <4>1, Written DEF BaseInv
    <3>2. CASE Silent
      BY <3>2, SilentFrame DEF BaseInv
    <3>3. QED BY <1>2, <3>1, <3>2
  <2>2. (LastIsEnd => LastIsEnd') /\ (Answered' <=> Answered)
    BY <1>2, <2>1, LastKept DEF Answered, Pty
  <2>3. QED BY <2>1, <2>2 DEF EndInv
<1>3. CASE StartFails
  <2>1. pc' = "closed" /\ result'.state = "error"
    BY <1>3, Returned DEF StartFails, BaseInv
  <2>2. QED BY <2>1 DEF EndInv, Answered
<1>4. CASE Start
  <2>1. pc' \in {"stream", "tail", "await"} /\ ~st'.turnDone
    BY <1>4 DEF Start, BaseInv, CallInv, NewState
  <2>2. QED BY <2>1 DEF EndInv, Answered
<1>5. CASE Unread /\ (Tailing \/ Calling)
  BY <1>5, EndTailing, EndCalling
<1>6. CASE UNCHANGED vars
  <2>1. UNCHANGED << provider, file, pc, st, seen, gaveUp, result >>
    BY <1>6 DEF vars, env, prov
  <2>2. QED BY <2>1 DEF EndInv, Answered, LastIsEnd, Visited, Pty
<1>7. QED BY <1>1, <1>2, <1>3, <1>4, <1>5, <1>6, UnreadOrVisits, NextCases DEF Begins

AnswerInv == BaseInv /\ TurnsOrdered /\ TextRead /\ EndInv

LEMMA AnswerHolds == AgentAssumption => (Spec => []AnswerInv)
<1> SUFFICES ASSUME AgentAssumption PROVE Spec => []AnswerInv
  OBVIOUS
<1>1. Init => TurnsOrdered /\ TextRead /\ EndInv
  <2> SUFFICES ASSUME Init PROVE TurnsOrdered /\ TextRead /\ EndInv
    OBVIOUS
  <2>1. Visited = {} /\ st = NewState /\ pc = "start" /\ turn = 1
    BY DEF Init, Visited
  <2>2. DOMAIN Earlier = 1..2 /\ Earlier[1] = Line("text", NoTask, 0)
        /\ Earlier[2] = Line("end", NoTask, 0)
    BY DEF Earlier
  <2>3. Line("text", NoTask, 0).turn = 0 /\ Line("end", NoTask, 0).turn = 0
    BY DEF Line
  <2>4. \A i \in DOMAIN file : file[i].turn = 0
    <3> HIDE DEF Earlier, Line
    <3>1. CASE file = Earlier
      BY <2>2, <2>3, <3>1
    <3>2. CASE file = << >>
      BY <3>2
    <3>3. QED BY <3>1, <3>2 DEF Init
  <2>5. TurnsOrdered
    BY <2>1, <2>4 DEF TurnsOrdered
  <2>6. TextRead
    BY <2>1 DEF TextRead, NewState
  <2>7. EndInv
    BY <2>1 DEF EndInv, Answered
  <2>8. QED BY <2>5, <2>6, <2>7
<1>2. QED BY <1>1, BaseInit, BaseStep, TurnsStep, TextStep, EndStep, PTL DEF Spec, AnswerInv

LEMMA FinalIsLast == AnswerInv => FinalFollowsWork
<1> SUFFICES ASSUME AnswerInv, Pty, result.state = "ok", gaveUp = "no"
             PROVE  \E e \in SeenOf("end") :
                      /\ \A d \in SeenOf("done") : d < e
                      /\ \A x \in SeenOf("text") : x < e => file[x].turn <= result.final
                      /\ result.final # 0 => \E x \in SeenOf("text") :
                                                x < e /\ file[x].turn = result.final
  BY DEF FinalFollowsWork
<1>1. BaseInv
  BY DEF AnswerInv
<1>2. pc = "closed"
  BY <1>1 DEF BaseInv, CallInv, NoResult
<1>3. LastIsEnd
  BY <1>2 DEF AnswerInv, EndInv, Answered
<1>4. PICK e \in Visited : file[e].kind = "end" /\ \A x \in Visited : x <= e
  BY <1>3 DEF LastIsEnd
<1>5. result.final = st.last
  <2>1. result.final = FinalMessage(st) /\ st.final = st.last
    BY <1>1, <1>2, <1>3 DEF BaseInv, CallInv, LastIsEnd
  <2>2. QED BY <2>1 DEF FinalMessage
<1>6. \A k, x : x \in SeenOf(k) <=> x \in Visited /\ file[x].kind = k
  BY <1>1, VisitedLines
<1>7. \A x \in Visited : x \in Nat
  BY <1>1, VisitedLines
<1>8. \A x \in Visited : file[x].kind # "end" => x < e
  BY <1>4, <1>7
<1>9. QED BY <1>4, <1>5, <1>6, <1>8 DEF AnswerInv, TextRead

\* A call that did not give up answers with the text of the turn that came after the
\* work it had seen to be done, even if reads fail (awaitSynthesis, finalMessage).
THEOREM FinalFollows ==
  ASSUME AgentAssumption
  PROVE  Spec => []FinalFollowsWork
BY AnswerHolds, FinalIsLast, PTL

-----------------------------------------------------------------------------
(* Background work: what is in the file.                                     *)

Of(k, kind, t) == file[k].kind = kind /\ file[k].task = t
IsOver(k, t)   == Of(k, "done", t) \/ Of(k, "stopped", t)

\* What a line does to the tasks, and who may write one.
TaskTurns(k, t) ==
  \/ k \notin {"launch", "ack", "stopped", "done"} /\ task' = task
  \/ t \in Task /\ k = "launch" /\ task[t] = "new" /\ task' = [task EXCEPT ![t] = "called"]
  \/ t \in Task /\ k = "ack" /\ task[t] = "called" /\ task' = [task EXCEPT ![t] = "running"]
  \/ t \in Task /\ k \in {"stopped", "done"} /\ task[t] = "running"
       /\ task' = [task EXCEPT ![t] = "over"]

Awake(k) ==
  /\ k = "end" => claude' = "idle"
  /\ claude # "busy" => \E u \in Task : task[u] = "running"

LEMMA WriterTasks ==
  ASSUME AgentAssumption, BaseInv, Writer
  PROVE  \E k, t, n : Wrote(k, t, n) /\ TaskTurns(k, t) /\ Awake(k)
<1>1. PICK k, t, n : Wrote(k, t, n)
  BY WriterWrites DEF Writes, BaseInv
<1>2. file \in Seq(Rec)
  BY DEF BaseInv, TypeInv, TypeOK
\* The line is the one that the action writes.
<1>3. ASSUME NEW l, NEW u, NEW v, Emit(l, u, v) PROVE k = l /\ t = u /\ n = v
  <2>1. file' = Append(file, Line(l, u, v)) /\ file' = Append(file, Line(k, t, n))
    BY <1>1, <1>3 DEF Emit, Wrote
  <2>2. file'[Len(file) + 1] = Line(k, t, n) /\ Len(file) \in Nat
    BY <1>1, Written DEF BaseInv
  <2>3. PICK r : r = Line(l, u, v)
    OBVIOUS
  <2>4. file'[Len(file) + 1] = r
    <3>1. file \in Seq(Rec \cup {r}) /\ r \in Rec \cup {r}
      BY <1>2
    <3>2. PICK S : S = Rec \cup {r}
      OBVIOUS
    <3>3. file \in Seq(S) /\ r \in S /\ file' = Append(file, r)
      BY <2>1, <2>3, <3>1, <3>2
    <3>4. QED BY <3>3
  <2>5. Line(l, u, v) = Line(k, t, n)
    BY <2>2, <2>3, <2>4
  <2>6. QED BY <2>5 DEF Line
<1>4. CASE Say \/ ScheduleWakeup \/ EndTurn
  <2>1. k \in {"text", "schedule", "cancel", "end"} /\ task' = task /\ claude = "busy"
        /\ (EndTurn => claude' = "idle") /\ (k = "end" => EndTurn)
    BY <1>3, <1>4 DEF Say, ScheduleWakeup, EndTurn
  <2>2. QED BY <1>1, <2>1 DEF TaskTurns, Awake
<1>5. ASSUME NEW u \in Task, Launch(u) \/ Acknowledge(u) \/ AskStop(u) \/ StopResult(u)
                               \/ TaskReports(u) \/ MonitorEvent(u)
      PROVE  TaskTurns(k, t) /\ Awake(k)
  <2>1. CASE Launch(u)
    <3>1. k = "launch" /\ t = u
      BY <1>3, <2>1 DEF Launch
    <3>2. task[u] = "new" /\ task' = [task EXCEPT ![u] = "called"]
          /\ (claude # "busy" => task[u] = "running")
      BY <2>1 DEF Launch
    <3>3. QED BY <3>1, <3>2 DEF TaskTurns, Awake
  <2>2. CASE Acknowledge(u)
    <3>1. k = "ack" /\ t = u
      BY <1>3, <2>2 DEF Acknowledge
    <3>2. task[u] = "called" /\ task' = [task EXCEPT ![u] = "running"]
          /\ (claude # "busy" => task[u] = "running")
      BY <2>2 DEF Acknowledge
    <3>3. QED BY <3>1, <3>2 DEF TaskTurns, Awake
  <2>3. CASE AskStop(u)
    BY <1>3, <1>5, <2>3 DEF AskStop, TaskTurns, Awake
  <2>4. CASE StopResult(u)
    BY <1>3, <1>5, <2>4 DEF StopResult, TaskTurns, Awake
  <2>5. CASE TaskReports(u)
    <3>1. k = "done" /\ t = u
      BY <1>3, <2>5 DEF TaskReports
    <3>2. task[u] = "running" /\ task' = [task EXCEPT ![u] = "over"]
          /\ (claude # "busy" => task[u] = "running")
      BY <2>5 DEF TaskReports
    <3>3. QED BY <3>1, <3>2 DEF TaskTurns, Awake
  <2>6. CASE MonitorEvent(u)
    BY <1>3, <1>5, <2>6 DEF MonitorEvent, TaskTurns, Awake
  <2>7. QED BY <1>5, <2>1, <2>2, <2>3, <2>4, <2>5, <2>6
<1>6. QED BY <1>1, <1>4, <1>5, Writer DEF Writer

\* An acknowledgement follows its dispatch in this call; a task that runs was
\* acknowledged and did not report.
TaskLines(t) ==
  /\ \A k \in DOMAIN file :
       Of(k, "ack", t) => \E j \in DOMAIN file : Base < j /\ j < k /\ Of(j, "launch", t)
  /\ task[t] # "over" => \A k \in DOMAIN file : ~IsOver(k, t)
  /\ task[t] = "called" => \E k \in DOMAIN file : Base < k /\ Of(k, "launch", t)
  /\ task[t] = "running" => \E k \in DOMAIN file : Of(k, "ack", t)

\* The task ran when the line was written.
Unfinished(m, t) ==
  /\ \E k \in DOMAIN file : k < m /\ Of(k, "ack", t)
  /\ \A k \in DOMAIN file : k < m => ~IsOver(k, t)

\* After the end of a turn nothing more is written unless a task ran then.
EndsQuiet ==
  \A m \in DOMAIN file :
    Base < m /\ file[m].kind = "end" =>
      (m = Len(file) /\ claude # "busy") \/ \E t \in Task : Unfinished(m, t)

FileInv ==
  /\ Base <= Len(file)
  /\ \A t \in Task : TaskLines(t)
  /\ EndsQuiet

LEMMA FileWritten ==
  ASSUME AgentAssumption, BaseInv, FileInv, Writer
  PROVE  FileInv'
<1>1. PICK k, t, n : Wrote(k, t, n) /\ TaskTurns(k, t) /\ Awake(k)
  BY WriterTasks
<1>2. PICK m \in Nat : m = Len(file) + 1
  BY SizeFacts DEF BaseInv
<1>3. /\ \A i \in DOMAIN file : i \in DOMAIN file' /\ file'[i] = file[i]
      /\ m \in DOMAIN file' /\ file'[m] = Line(k, t, n)
      /\ \A i \in DOMAIN file' : i \in DOMAIN file \/ i = m
      /\ Len(file') = m /\ provider' = provider
  BY <1>1, <1>2, Written DEF BaseInv
<1>4. \A i \in DOMAIN file : i \in Nat /\ i < m /\ i <= Len(file)
  BY <1>2, SizeFacts DEF BaseInv
<1>5. Base' = Base /\ Base \in Nat /\ Base < m
  <2>1. Base' = Base
    BY <1>3 DEF Base, Pty
  <2>2. QED BY <1>2, <2>1, BaseFacts, SizeFacts DEF FileInv, BaseInv
<1>6. \A kind, u : /\ Of(m, kind, u)' <=> kind = k /\ u = t
                   /\ \A i \in DOMAIN file : Of(i, kind, u)' <=> Of(i, kind, u)
  BY <1>3 DEF Of, Line
<1>7. \A u : /\ IsOver(m, u)' <=> k \in {"done", "stopped"} /\ u = t
             /\ \A i \in DOMAIN file : IsOver(i, u)' <=> IsOver(i, u)
  BY <1>6 DEF IsOver
<1>8. task \in [Task -> {"new", "called", "running", "over"}]
  BY DEF BaseInv, TypeInv, TypeOK
<1>9. ASSUME NEW u \in Task PROVE TaskLines(u)'
  <2>1. TaskLines(u)
    BY DEF FileInv
  <2>2. /\ task'[u] # "over" => task[u] # "over" /\ ~(k \in {"done", "stopped"} /\ u = t)
        /\ task'[u] = "called" => task[u] = "called" \/ (k = "launch" /\ u = t)
        /\ task'[u] = "running" => task[u] = "running" \/ (k = "ack" /\ u = t)
        /\ k = "ack" /\ u = t => task[u] = "called"
    BY <1>1, <1>8 DEF TaskTurns
  <2>3. \A i \in DOMAIN file' :
          Of(i, "ack", u)' => \E j \in DOMAIN file' : Base' < j /\ j < i /\ Of(j, "launch", u)'
    <3> SUFFICES ASSUME NEW i \in DOMAIN file', Of(i, "ack", u)'
                 PROVE  \E j \in DOMAIN file' : Base' < j /\ j < i /\ Of(j, "launch", u)'
      OBVIOUS
    <3>1. CASE i \in DOMAIN file
      <4>1. PICK j \in DOMAIN file : Base < j /\ j < i /\ Of(j, "launch", u)
        BY <1>6, <2>1, <3>1 DEF TaskLines
      <4>2. QED BY <1>3, <1>5, <1>6, <4>1
    <3>2. CASE i = m
      <4>1. task[u] = "called"
        BY <1>6, <2>2, <3>2
      <4>2. PICK j \in DOMAIN file : Base < j /\ Of(j, "launch", u)
        BY <2>1, <4>1 DEF TaskLines
      <4>3. QED BY <1>3, <1>4, <1>5, <1>6, <3>2, <4>2
    <3>3. QED BY <1>3, <3>1, <3>2
  <2>4. task'[u] # "over" => \A i \in DOMAIN file' : ~IsOver(i, u)'
    BY <1>3, <1>7, <2>1, <2>2 DEF TaskLines
  <2>5. task'[u] = "called" => \E i \in DOMAIN file' : Base' < i /\ Of(i, "launch", u)'
    BY <1>3, <1>5, <1>6, <2>1, <2>2 DEF TaskLines
  <2>6. task'[u] = "running" => \E i \in DOMAIN file' : Of(i, "ack", u)'
    BY <1>3, <1>6, <2>1, <2>2 DEF TaskLines
  <2>7. QED BY <2>3, <2>4, <2>5, <2>6 DEF TaskLines
<1>10. ASSUME NEW i \in DOMAIN file, NEW u \in Task, Unfinished(i, u) PROVE Unfinished(i, u)'
  <2>1. PICK j \in DOMAIN file : j < i /\ Of(j, "ack", u)
    BY <1>10 DEF Unfinished
  <2>2. ASSUME NEW x \in DOMAIN file', x < i PROVE ~IsOver(x, u)'
    <3>1. i \in Nat /\ i < m
      BY <1>4, <1>10
    <3>2. x \in DOMAIN file
      BY <1>2, <1>3, <2>2, <3>1
    <3>3. ~IsOver(x, u)
      BY <1>10, <2>2, <3>2 DEF Unfinished
    <3>4. QED BY <1>7, <3>2, <3>3
  <2>3. QED BY <1>3, <1>6, <2>1, <2>2 DEF Unfinished
<1>11. EndsQuiet'
  <2> SUFFICES ASSUME NEW i \in DOMAIN file', Base' < i, file'[i].kind = "end"
               PROVE  (i = Len(file') /\ claude' # "busy") \/ \E u \in Task : Unfinished(i, u)'
    BY DEF EndsQuiet
  <2>1. CASE i = m
    <3>1. k = "end"
      BY <1>3, <2>1 DEF Line
    <3>2. QED BY <1>1, <1>3, <2>1, <3>1 DEF Awake
  <2>2. CASE i \in DOMAIN file
    <3>1. file[i].kind = "end" /\ Base < i
      BY <1>3, <1>5, <2>2
    <3>2. CASE \E u \in Task : Unfinished(i, u)
      BY <1>10, <2>2, <3>2
    <3>3. CASE i = Len(file) /\ claude # "busy"
      <4>1. PICK u \in Task : task[u] = "running"
        BY <1>1, <3>3 DEF Awake
      <4>2. /\ \E j \in DOMAIN file : Of(j, "ack", u)
            /\ \A j \in DOMAIN file : ~IsOver(j, u)
        BY <4>1 DEF FileInv, TaskLines
      <4>3. PICK j \in DOMAIN file : Of(j, "ack", u)
        BY <4>2
      <4>4. j # i
        BY <3>1, <4>3 DEF Of
      <4>5. j < i
        BY <1>4, <2>2, <3>3, <4>4
      <4>6. Unfinished(i, u)
        BY <4>2, <4>3, <4>5 DEF Unfinished
      <4>7. QED BY <1>10, <2>2, <4>6
    <3>4. QED BY <2>2, <3>1, <3>2, <3>3 DEF FileInv, EndsQuiet
  <2>3. QED BY <1>3, <2>1, <2>2
<1>12. QED BY <1>2, <1>3, <1>4, <1>5, <1>9, <1>11 DEF FileInv

LEMMA FileStep == AgentAssumption /\ BaseInv /\ FileInv /\ [Next]_vars => FileInv'
<1> SUFFICES ASSUME AgentAssumption, BaseInv, FileInv, [Next]_vars PROVE FileInv'
  OBVIOUS
<1>1. CASE Writer
  BY <1>1, FileWritten
<1>2. CASE ~Writer /\ Next
  <2>1. UNCHANGED << provider, file, task >>
    BY <1>2, FileKept
  <2>2. Base' = Base
    BY <2>1 DEF Base, Pty
  <2>3. \A t \in Task : TaskLines(t)'
    BY <2>1, <2>2 DEF FileInv, TaskLines, Of, IsOver
  <2>4. \A m : \A t \in Task : Unfinished(m, t)' <=> Unfinished(m, t)
    BY <2>1 DEF Unfinished, Of, IsOver
  <2>5. claude' = "busy" => claude = "busy" \/ Start
    <3>1. CASE Silent
      BY <3>1, SilentFrame DEF BaseInv
    <3>2. CASE StartFails
      BY <3>2, Returned DEF StartFails, BaseInv
    <3>3. CASE Tailing \/ Calling
      BY <3>3, ProviderSteps DEF BaseInv, Visits, Keeps
    <3>4. QED BY <1>2, <3>1, <3>2, <3>3, NextCases DEF Begins
  <2>6. CASE ~Start
    BY <2>1, <2>2, <2>3, <2>4, <2>5, <2>6 DEF FileInv, EndsQuiet
  <2>7. CASE Start
    <3>1. file = IF Pty /\ provider.resumes THEN Earlier ELSE << >>
      BY <2>7 DEF Start, BaseInv, CallInv
    <3>2. Len(file) = Base
      BY <3>1 DEF Base
    <3>3. \A m \in DOMAIN file : ~(Base < m)
      BY <3>2, SizeFacts, BaseFacts DEF BaseInv
    <3>4. QED BY <2>1, <2>2, <2>3, <3>3 DEF FileInv, EndsQuiet
  <2>8. QED BY <2>6, <2>7
<1>3. CASE UNCHANGED vars
  <2>1. UNCHANGED << provider, file, task, claude >>
    BY <1>3 DEF vars, env
  <2>2. Base' = Base
    BY <2>1 DEF Base, Pty
  <2>3. \A t \in Task : TaskLines(t)'
    BY <2>1, <2>2 DEF FileInv, TaskLines, Of, IsOver
  <2>4. \A m : \A t \in Task : Unfinished(m, t)' <=> Unfinished(m, t)
    BY <2>1 DEF Unfinished, Of, IsOver
  <2>5. QED BY <2>1, <2>2, <2>3, <2>4 DEF FileInv, EndsQuiet
<1>4. QED BY <1>1, <1>2, <1>3

-----------------------------------------------------------------------------
(* Background work: what the provider knows of it.                           *)

Seen(kind, t) == \E x \in Visited : Of(x, kind, t)

\* Whoever was dispatched is known until the acknowledgement; who was acknowledged, or
\* runs in the shell, is pending until it is over.
PendInv ==
  Pty => \A t \in Task :
    /\ Seen("launch", t) /\ ~Seen("ack", t) => t \in st.known
    /\ Seen("ack", t) /\ ~Seen("done", t) /\ ~Seen("stopped", t) => t \in st.pending
    /\ Seen("launch", t) /\ Kind[t] = "bash" /\ ~Seen("done", t) /\ ~Seen("stopped", t) =>
         t \in st.pending

LEMMA AllVisited ==
  ASSUME BaseInv, OnceInv
  PROVE  /\ \A x \in Visited : Base < x /\ \A j \in Nat : Base < j /\ j < x => j \in Visited
         /\ claude # "none" => \A j \in Nat : Base < j /\ j < NextLine => j \in Visited
<1>1. seen \in Seq(Nat)
  BY DEF BaseInv, TypeInv, TypeOK
<1>2. PICK n \in Nat : n = Len(seen) /\ DOMAIN seen = 1..n
  BY <1>1
<1>3. PICK b \in Nat : b = Base
  BY BaseFacts
<1>4. \A i \in 1..n : seen[i] = i + b
  BY <1>2, <1>3 DEF OnceInv
<1>5. \A j \in Nat : b < j /\ j <= b + n => j \in Visited
  <2> SUFFICES ASSUME NEW j \in Nat, b < j, j <= b + n PROVE j \in Visited
    OBVIOUS
  <2>1. PICK i \in 1..n : j = i + b
    <3>1. j - b \in 1..n /\ j = (j - b) + b
      OBVIOUS
    <3>2. QED BY <3>1
  <2>2. seen[i] = j
    BY <1>4, <2>1
  <2>3. QED BY <1>2, <2>2 DEF Visited
<1>6. \A x \in Visited : x \in Nat /\ b < x /\ x <= b + n
  BY <1>2, <1>4 DEF Visited
<1>7. claude # "none" => NextLine = b + n + 1
  BY <1>2, <1>3 DEF OnceInv, NextLine
<1>8. QED BY <1>3, <1>5, <1>6, <1>7

LEMMA PendStep ==
  ASSUME AgentAssumption, BaseInv, OnceInv, FileInv, PendInv, [Next]_vars
  PROVE  PendInv'
<1>1. CASE Unread
  BY <1>1 DEF Unread, PendInv, Seen, Of, Pty
<1>2. CASE Visits
  <2> SUFFICES ASSUME Pty, NEW t \in Task
               PROVE  /\ Seen("launch", t)' /\ ~Seen("ack", t)' => t \in st'.known
                      /\ Seen("ack", t)' /\ ~Seen("done", t)' /\ ~Seen("stopped", t)' =>
                           t \in st'.pending
                      /\ Seen("launch", t)' /\ Kind[t] = "bash"
                           /\ ~Seen("done", t)' /\ ~Seen("stopped", t)' => t \in st'.pending
    BY <1>2 DEF Visits, PendInv, Pty
  <2>1. PICK m \in Nat : m = NextLine
    BY <1>2, VisitedGrows
  <2>2. Visited' = Visited \cup {m} /\ m \in DOMAIN file /\ file' = file
    BY <1>2, <2>1, VisitedGrows DEF Visits
  <2>3. PICK r : r = file[m]
    OBVIOUS
  <2>4. st' = Visit(st, r)
    BY <1>2, <2>1, <2>3 DEF Visits, BaseInv, CallInv
  <2>5. \A kind : Seen(kind, t)' <=> Seen(kind, t) \/ (r.kind = kind /\ r.task = t)
    BY <2>2, <2>3 DEF Seen, Of
  <2>6. /\ t \in st'.known <=> (t \in st.known \/ (t = r.task /\ r.kind = "launch"))
                                /\ ~(t = r.task /\ r.kind = "ack")
        /\ t \in st'.pending <=> (t \in st.pending \/ (t = r.task /\ Tracked(st, r)))
                                  /\ ~(t = r.task /\ Ended(st, r))
    BY <2>4 DEF Visit
  <2>7. Seen("launch", t)' /\ ~Seen("ack", t)' => t \in st'.known
    BY <2>5, <2>6 DEF PendInv
  <2>8. ~Seen("done", t)' /\ ~Seen("stopped", t)' =>
          ~Seen("done", t) /\ ~Seen("stopped", t) /\ ~(t = r.task /\ Ended(st, r))
    BY <2>5 DEF Ended
  <2>9. t = r.task /\ r.kind = "ack" => Seen("launch", t)
    <3> SUFFICES ASSUME t = r.task, r.kind = "ack" PROVE Seen("launch", t)
      OBVIOUS
    <3>1. Of(m, "ack", t)
      BY <2>3 DEF Of
    <3>2. PICK j \in DOMAIN file : Base < j /\ j < m /\ Of(j, "launch", t)
      BY <2>2, <3>1 DEF FileInv, TaskLines
    <3>3. claude # "none" /\ j \in Nat
      <4>1. claude # "none"
        BY <1>2 DEF Visits, BaseInv, CallInv
      <4>2. QED BY <4>1, SizeFacts DEF BaseInv
    <3>4. j \in Visited
      BY <2>1, <3>2, <3>3, AllVisited
    <3>5. QED BY <3>2, <3>4 DEF Seen
  <2>10. ASSUME Seen("ack", t)', ~Seen("done", t)', ~Seen("stopped", t)'
         PROVE  t \in st'.pending
    <3>1. CASE Seen("ack", t)
      BY <2>6, <2>8, <2>10, <3>1 DEF PendInv
    <3>2. CASE ~Seen("ack", t)
      <4>1. t = r.task /\ r.kind = "ack"
        BY <2>5, <2>10, <3>2
      <4>2. CASE Kind[t] = "bash"
        BY <2>6, <2>8, <2>9, <2>10, <4>1, <4>2 DEF PendInv
      <4>3. CASE Kind[t] # "bash"
        <5>1. t \in st.known
          BY <2>9, <3>2, <4>1 DEF PendInv
        <5>2. Tracked(st, r)
          BY <4>1, <4>3, <5>1 DEF Tracked, IsAsyncAck
        <5>3. QED BY <2>6, <2>8, <2>10, <4>1, <5>2
      <4>4. QED BY <4>2, <4>3
    <3>3. QED BY <3>1, <3>2
  <2>11. ASSUME Seen("launch", t)', Kind[t] = "bash", ~Seen("done", t)', ~Seen("stopped", t)'
         PROVE  t \in st'.pending
    <3>1. CASE Seen("launch", t)
      BY <2>6, <2>8, <2>11, <3>1 DEF PendInv
    <3>2. CASE ~Seen("launch", t)
      <4>1. t = r.task /\ Tracked(st, r)
        BY <2>5, <2>11, <3>2 DEF Tracked
      <4>2. QED BY <2>6, <2>8, <2>11, <4>1
    <3>3. QED BY <3>1, <3>2
  <2>12. QED BY <2>7, <2>10, <2>11
<1>3. CASE UNCHANGED vars
  BY <1>3 DEF vars, env, prov, PendInv, Seen, Of, Visited, Pty
<1>4. QED BY <1>1, <1>2, <1>3, UnreadOrVisits

WorkInv == AnswerInv /\ OnceInv /\ FileInv /\ PendInv

LEMMA WorkInit == AgentAssumption /\ Init => OnceInv /\ FileInv /\ PendInv
<1> SUFFICES ASSUME AgentAssumption, Init PROVE OnceInv /\ FileInv /\ PendInv
  OBVIOUS
<1>1. OnceInv
  BY DEF Init, OnceInv
<1>2. PendInv
  <2>1. Visited = {}
    BY DEF Init, Visited
  <2>2. \A k, t : ~Seen(k, t)
    BY <2>1 DEF Seen
  <2>3. QED BY <2>2 DEF PendInv
<1>3. Len(file) = Base /\ Base \in Nat
  <2>1. Len(<< >>) = 0
    OBVIOUS
  <2>2. Len(file) = Base
    BY <2>1 DEF Init, Base
  <2>3. QED BY <2>2, BaseFacts
<1>4. BaseInv
  BY BaseInit
<1>5. \A m \in DOMAIN file : m \in Nat /\ ~(Base < m)
  BY <1>3, <1>4, SizeFacts DEF BaseInv
<1>6. \A m \in DOMAIN file : file[m].kind \in {"text", "end"}
  <2>1. DOMAIN Earlier = 1..2 /\ Earlier[1].kind = "text" /\ Earlier[2].kind = "end"
    BY DEF Earlier, Line
  <2>2. CASE file = Earlier
    BY <2>1, <2>2
  <2>3. CASE file = << >>
    BY <2>3
  <2>4. QED BY <2>2, <2>3 DEF Init
<1>7. \A t \in Task : TaskLines(t)
  BY <1>6 DEF Init, TaskLines, Of, IsOver
<1>8. EndsQuiet
  BY <1>5 DEF EndsQuiet
<1>9. FileInv
  BY <1>3, <1>7, <1>8 DEF FileInv
<1>10. QED BY <1>1, <1>2, <1>9

LEMMA NoneAbandoned == WorkInv => NoWorkAbandoned
<1> SUFFICES ASSUME WorkInv, Pty, result.state = "ok", gaveUp \notin {"ended", "quiet"},
                    NEW t \in Task, task[t] = "running"
             PROVE  gaveUp = "no synthesis" /\ Line("ack", t, 0) \notin SeenLines
  BY DEF NoWorkAbandoned
<1>1. BaseInv /\ EndInv /\ FileInv /\ OnceInv
  BY DEF WorkInv, AnswerInv
<1>2. Answered
  BY <1>1 DEF BaseInv, CallInv, NoResult, Answered
<1>3. st.pending = {}
  BY <1>1, <1>2 DEF EndInv
<1>4. \A x \in Visited : x \in DOMAIN file /\ x \in Nat
  BY <1>1, VisitedLines
<1>5. \A u \in Task : Seen("ack", u) => Seen("done", u) \/ Seen("stopped", u)
  BY <1>3 DEF WorkInv, PendInv
<1>6. ~Seen("ack", t)
  <2>1. \A x \in Visited : ~IsOver(x, t)
    BY <1>1, <1>4 DEF FileInv, TaskLines
  <2>2. QED BY <1>5, <2>1 DEF Seen, IsOver
<1>7. Line("ack", t, 0) \notin SeenLines
  BY <1>6 DEF Seen, Of, SeenLines, Visited, Line
<1>8. ASSUME gaveUp = "no" PROVE FALSE
  <2>1. PICK e \in Visited : file[e].kind = "end" /\ \A x \in Visited : x <= e
    BY <1>1, <1>2, <1>8 DEF EndInv, LastIsEnd
  <2>2. Base < e /\ \A j \in Nat : Base < j /\ j < e => j \in Visited
    BY <1>1, AllVisited
  \* An acknowledgement before the end of the turn was visited.
  <2>3. ASSUME NEW u \in Task, NEW k \in DOMAIN file, k < e, Of(k, "ack", u)
        PROVE  Seen("ack", u)
    <3>1. PICK j \in DOMAIN file : Base < j /\ j < k
      BY <1>1, <2>3 DEF FileInv, TaskLines
    <3>2. k \in Nat /\ j \in Nat /\ Base \in Nat
      BY <1>1, SizeFacts, BaseFacts DEF BaseInv
    <3>3. k \in Visited
      BY <2>2, <2>3, <3>1, <3>2
    <3>4. QED BY <2>3, <3>3 DEF Seen
  <2>4. CASE e = Len(file)
    <3>1. PICK k \in DOMAIN file : Of(k, "ack", t)
      BY <1>1 DEF FileInv, TaskLines
    <3>2. k # e
      BY <2>1, <3>1 DEF Of
    <3>3. k < e
      BY <1>1, <2>4, <3>2, SizeFacts DEF BaseInv
    <3>4. QED BY <1>6, <2>3, <3>1, <3>3
  <2>5. ASSUME NEW u \in Task, Unfinished(e, u) PROVE FALSE
    <3>1. Seen("ack", u)
      BY <2>3, <2>5 DEF Unfinished
    <3>2. \A x \in Visited : ~IsOver(x, u)
      <4> SUFFICES ASSUME NEW x \in Visited PROVE ~IsOver(x, u)
        OBVIOUS
      <4>1. CASE x = e
        BY <2>1, <4>1 DEF IsOver, Of
      <4>2. CASE x # e
        <5>1. x < e /\ x \in DOMAIN file
          BY <1>4, <2>1, <4>2
        <5>2. QED BY <2>5, <5>1 DEF Unfinished
      <4>3. QED BY <4>1, <4>2
    <3>3. QED BY <1>5, <3>1, <3>2 DEF Seen, IsOver
  <2>6. QED BY <1>1, <1>4, <2>1, <2>2, <2>4, <2>5 DEF FileInv, EndsQuiet
<1>9. gaveUp \in {"no", "no synthesis"}
  BY <1>1 DEF BaseInv, TypeInv, TypeOK
<1>10. QED BY <1>7, <1>8, <1>9

\* The result of a call accounts for the background work of its turns: no task of which
\* the provider could know is killed by its own success, and the answer is that of the
\* turn after the work (awaitDrain, awaitSynthesis).  A failed read can lose the
\* acknowledgement of a task, so that reads are taken not to fail.
THEOREM WorkIsAccounted ==
  ASSUME AgentAssumption, ~ReadErrors
  PROVE  Spec => []WorkAccounted
<1>1. WorkInv => WorkAccounted
  BY NoneAbandoned, FinalIsLast DEF WorkAccounted, WorkInv
<1>2. BaseInv /\ OnceInv /\ FileInv /\ PendInv /\ [Next]_vars => OnceInv' /\ FileInv' /\ PendInv'
  BY OnceStep, FileStep, PendStep
<1>3. AnswerInv => BaseInv
  BY DEF AnswerInv
<1>4. QED BY <1>1, <1>2, <1>3, WorkInit, BaseInit, BaseStep, AnswerHolds, PTL DEF Spec, WorkInv

=============================================================================
