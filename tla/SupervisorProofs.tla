-------------------------- MODULE SupervisorProofs --------------------------
(***************************************************************************)
(* What holds of Supervisor for any number of extensions, calls and         *)
(* goroutines.                                                              *)
(***************************************************************************)
EXTENDS Supervisor, FiniteSetTheorems, SequenceTheorems, TLAPS

\* A supervise goroutine is always somebody's.
LoopsOwned ==
  \A l \in Loop : loop[l].pc \notin { "off", "panic" } => loop[l].entry \in Entry

LEMMA Todo ==
  ASSUME NEW s \in Seq(Step), s # << >>
  PROVE  /\ Head(s) \in Step /\ Tail(s) \in Seq(Step)
         /\ \A do \in { "join", "awaiting" } :
              << [do |-> do, e |-> Head(s).e] >> \o Tail(s) \in Seq(Step)
<1>1. Head(s) \in Step /\ Tail(s) \in Seq(Step)
  BY HeadTailProperties
<1>2. ASSUME NEW do \in { "join", "awaiting" }
      PROVE  << [do |-> do, e |-> Head(s).e] >> \o Tail(s) \in Seq(Step)
  <2>1. [do |-> do, e |-> Head(s).e] \in Step
    BY <1>1 DEF Step
  <2>2. << [do |-> do, e |-> Head(s).e] >> \in Seq(Step)
    BY <2>1
  <2>3. QED BY <1>1, <2>2, ConcatProperties
<1>3. QED BY <1>1, <1>2

\* A call leaves a call record: its steps are steps on entries.
LEMMA CallTyped ==
  ASSUME TypeOK, NEW c \in Caller, NEW op, NEW todo \in Seq(Step), Call(c, op, todo),
         Free(c)
  PROVE  caller' \in [Caller -> CallRecord] /\ ops' \in 0..MaxOps
<1>1. op \in AllOps
  BY SupervisorAssumption DEF Call
<1>2. [op |-> op, todo |-> todo, prev |-> None] \in CallRecord
  BY <1>1 DEF CallRecord
<1>3. QED BY <1>2, SupervisorAssumption DEF Call, TypeOK, Free

LEMMA NewLoopTyped ==
  ASSUME NEW e \in Entry \cup {None}, NEW pc \in Points
  PROVE  NewLoop(e, pc) \in LoopRecord
BY SupervisorAssumption DEF NewLoop, LoopRecord

LEMMA PanicTyped ==
  ASSUME NEW r \in LoopRecord
  PROVE  [r EXCEPT !.pc = "panic", !.notes = 0] \in LoopRecord
<1>1. 0 \in 0..MaxNotes
  BY SupervisorAssumption
<1>2. ASSUME NEW n \in 0..MaxNotes
      PROVE  [r EXCEPT !.pc = "panic", !.notes = n] \in LoopRecord
  BY DEF LoopRecord, Points
<1>3. QED BY <1>1, <1>2

LEMMA NewEntryTyped ==
  ASSUME NEW m \in Manifests \cup {None}, NEW st \in Statuses
  PROVE  NewEntry(m, st) \in EntryRecord
BY DEF NewEntry, EntryRecord

\* The first section of an operation.
LEMMA OperateTyped ==
  ASSUME TypeOK, NEW c \in Caller, Operate(c)
  PROVE  TypeOK'
<1> USE SupervisorAssumption DEF TypeOK, Installed
<1>0. /\ Manifest \subseteq Manifests /\ Placeholder \in Manifests
      /\ \A e \in Entry : stop(e) \in Step /\ start(e) \in Step /\ await(e) \in Step
      /\ << >> \in Seq(Step)
  BY DEF Manifests, stop, start, await, Step
<1>1. ASSUME NEW x \in Ext, NEW m \in Manifest, ApplyNew(c, x, m) PROVE TypeOK'
  <2>1. PICK e \in FreshEntry :
           /\ entry' = [entry EXCEPT ![e] = NewEntry(m, "stopped")]
           /\ states' = [states EXCEPT ![x] = e]
           /\ Call(c, "apply", << start(e) >>)
    BY <1>1 DEF ApplyNew
  <2>2. e \in Entry
    BY DEF FreshEntry, OneOf
  <2>3. NewEntry(m, "stopped") \in EntryRecord
    BY <1>0, NewEntryTyped DEF Statuses
  <2>4. << start(e) >> \in Seq(Step)
    BY <1>0, <2>2
  <2>5. caller' \in [Caller -> CallRecord] /\ ops' \in 0..MaxOps
    BY <1>1, <2>1, <2>4, CallTyped DEF ApplyNew
  <2>6. QED BY <1>1, <2>1, <2>2, <2>3, <2>5 DEF ApplyNew
<1>2. ASSUME NEW x \in Ext, NEW m \in Manifest, ApplyChange(c, x, m) PROVE TypeOK'
  <2> DEFINE e == states[x]
             todo == IF ~(IsEnabled(m) /\ ~entry[e].manual) THEN << stop(e) >>
              ELSE IF ~specEqual(entry[e].manifest, m) THEN << stop(e), start(e) >>
              ELSE IF ~Alive(entry[e].status) THEN << start(e) >> ELSE << >>
  <2>1. e \in Entry
    BY <1>2 DEF ApplyChange
  <2>2. todo \in Seq(Step)
    <3>1. /\ << stop(e) >> \in Seq(Step) /\ << start(e) >> \in Seq(Step)
          /\ << stop(e), start(e) >> \in Seq(Step)
      BY <1>0, <2>1
    <3> HIDE DEF e
    <3>2. QED BY <1>0, <3>1, Zenon
  <2>3. Call(c, "apply", todo) /\ Free(c)
    BY <1>2, Zenon DEF ApplyChange
  <2>4. caller' \in [Caller -> CallRecord] /\ ops' \in 0..MaxOps
    <3> HIDE DEF todo
    <3>1. QED BY <2>2, <2>3, CallTyped
  <2>5. entry' \in [Entry -> EntryRecord]
    <3>1. entry' = [entry EXCEPT ![e].manifest = m]
      BY <1>2 DEF ApplyChange
    <3> HIDE DEF e
    <3>2. QED BY <1>0, <2>1, <3>1 DEF EntryRecord
  <2>6. QED BY <1>2, <2>4, <2>5 DEF ApplyChange
<1>3. ASSUME NEW x \in Ext, MarkInvalid(c, x) PROVE TypeOK'
  <2>1. caller' \in [Caller -> CallRecord] /\ ops' \in 0..MaxOps
    BY <1>0, <1>3, CallTyped DEF MarkInvalid
  <2>2. NewEntry(Placeholder, "invalid") \in EntryRecord
    BY <1>0, NewEntryTyped DEF Statuses
  <2>3. CASE states[x] = None
    <3>1. PICK e \in FreshEntry :
             /\ entry' = [entry EXCEPT ![e] = NewEntry(Placeholder, "invalid")]
             /\ states' = [states EXCEPT ![x] = e]
      BY <1>3, <2>3 DEF MarkInvalid
    <3>2. e \in Entry
      BY DEF FreshEntry, OneOf
    <3>3. QED BY <1>3, <2>1, <2>2, <3>1, <3>2 DEF MarkInvalid
  <2>4. CASE states[x] # None
    <3>1. PICK e \in Entry : e = states[x]
      BY <2>4
    <3>2. entry' = [entry EXCEPT ![e].status = "invalid"]
      BY <1>3, <2>4, <3>1 DEF MarkInvalid
    <3>3. entry' \in [Entry -> EntryRecord]
      BY <3>2 DEF EntryRecord, Statuses
    <3>4. QED BY <1>3, <2>1, <2>4, <3>3 DEF MarkInvalid
  <2>5. QED BY <2>3, <2>4
<1>4. ASSUME NEW x \in Ext, Remove(c, x) PROVE TypeOK'
  <2>1. << stop(states[x]), await(states[x]) >> \in Seq(Step)
    BY <1>0, <1>4 DEF Remove
  <2>2. caller' \in [Caller -> CallRecord] /\ ops' \in 0..MaxOps
    BY <1>4, <2>1, CallTyped DEF Remove
  <2>3. QED BY <1>4, <2>2 DEF Remove
<1>5. ASSUME NEW x \in Ext, Start(c, x) PROVE TypeOK'
  <2> DEFINE e == states[x]
             already == entry[e].cur # None
                        /\ entry[e].status \notin { "stopped", "failed" }
             todo == IF already THEN << >> ELSE << start(e) >>
  <2>1. e \in Entry /\ << start(e) >> \in Seq(Step)
    BY <1>0, <1>5 DEF Start
  <2>2. todo \in Seq(Step)
    BY <1>0, <2>1, Zenon
  <2>3. Call(c, "start", todo) /\ Free(c)
    BY <1>5, Zenon DEF Start
  <2>4. caller' \in [Caller -> CallRecord] /\ ops' \in 0..MaxOps
    <3> HIDE DEF todo
    <3>1. QED BY <2>2, <2>3, CallTyped
  <2>5. entry' \in [Entry -> EntryRecord]
    <3>1. entry' = [entry EXCEPT ![e].manual = FALSE, ![e].failures = 0,
                                 ![e].wish = "run"]
      BY <1>5 DEF Start
    <3> HIDE DEF e
    <3>2. [entry[e] EXCEPT !.manual = FALSE, !.failures = 0, !.wish = "run"]
            \in EntryRecord
      BY <2>1 DEF EntryRecord
    <3>3. QED BY <2>1, <3>1, <3>2
  <2>6. QED BY <1>5, <2>4, <2>5 DEF Start
<1>6. ASSUME NEW x \in Ext, Stop(c, x) PROVE TypeOK'
  <2>1. << stop(states[x]) >> \in Seq(Step)
    BY <1>0, <1>6 DEF Stop
  <2>2. caller' \in [Caller -> CallRecord] /\ ops' \in 0..MaxOps
    BY <1>6, <2>1, CallTyped DEF Stop
  <2>3. entry' \in [Entry -> EntryRecord]
    <3>1. PICK e \in Entry : e = states[x]
      BY <1>6 DEF Stop
    <3>2. entry' = [entry EXCEPT ![e].manual = TRUE, ![e].wish = "stay"]
      BY <1>6, <3>1 DEF Stop
    <3>3. [entry[e] EXCEPT !.manual = TRUE, !.wish = "stay"] \in EntryRecord
      BY DEF EntryRecord
    <3>4. QED BY <3>2, <3>3
  <2>4. QED BY <1>6, <2>2, <2>3 DEF Stop
<1>7. ASSUME NEW x \in Ext, Restart(c, x) PROVE TypeOK'
  <2>1. << stop(states[x]), start(states[x]) >> \in Seq(Step)
    BY <1>0, <1>7 DEF Restart
  <2>2. caller' \in [Caller -> CallRecord] /\ ops' \in 0..MaxOps
    BY <1>7, <2>1, CallTyped DEF Restart
  <2>3. entry' \in [Entry -> EntryRecord]
    <3>1. PICK e \in Entry : e = states[x]
      BY <1>7 DEF Restart
    <3>2. entry' = [entry EXCEPT ![e].failures = 0, ![e].wish = "run"]
      BY <1>7, <3>1 DEF Restart
    <3>3. [entry[e] EXCEPT !.failures = 0, !.wish = "run"] \in EntryRecord
      BY DEF EntryRecord
    <3>4. QED BY <3>2, <3>3
  <2>4. QED BY <1>7, <2>2, <2>3 DEF Restart
<1>8. CASE Shutdown(c)
  <2>1. PICK q \in [1..Cardinality(Installed) -> Installed] :
           Call(c, "shutdown", [i \in DOMAIN q |-> stop(q[i])]
                                 \o [i \in DOMAIN q |-> await(q[i])])
    BY <1>8 DEF Shutdown
  <2>2. Cardinality(Installed) \in Nat
    <3>1. Installed \subseteq Entry
      OBVIOUS
    <3>2. QED BY <3>1, FS_Subset, FS_CardinalityType
  <2> DEFINE stops  == [i \in DOMAIN q |-> stop(q[i])]
             awaits == [i \in DOMAIN q |-> await(q[i])]
  <2>3. \A i \in DOMAIN q : q[i] \in Entry
    BY <2>1
  <2>4. stops \in Seq(Step) /\ awaits \in Seq(Step)
    <3>1. PICK n \in Nat : DOMAIN q = 1..n
      BY <2>1, <2>2
    <3>2. stops \in [1..n -> Step] /\ awaits \in [1..n -> Step]
      BY <1>0, <2>3, <3>1
    <3> HIDE DEF stops, awaits
    <3>3. QED BY <3>2
  <2>5. stops \o awaits \in Seq(Step)
    BY <2>4, ConcatProperties
  <2>6. Call(c, "shutdown", stops \o awaits) /\ Free(c)
    BY <1>8, <2>1 DEF Shutdown
  <2>7. caller' \in [Caller -> CallRecord] /\ ops' \in 0..MaxOps
    <3> HIDE DEF stops, awaits
    <3>1. QED BY <2>5, <2>6, CallTyped
  <2>8. QED BY <1>8, <2>7 DEF Shutdown
<1>9. QED BY <1>1, <1>2, <1>3, <1>4, <1>5, <1>6, <1>7, <1>8 DEF Operate

\* What is left of an operation.
LEMMA ProceedTyped ==
  ASSUME TypeOK, NEW c \in Caller, Proceed(c)
  PROVE  TypeOK'
<1> USE SupervisorAssumption DEF TypeOK
<1>1. caller[c] \in CallRecord
  OBVIOUS
<1>2. ASSUME NEW do, Doing(c, do)
      PROVE  /\ caller[c].todo # << >> /\ Target(c) \in Entry
             /\ Tail(caller[c].todo) \in Seq(Step)
  BY <1>1, <1>2, Todo DEF CallRecord, Doing, Target, Step
<1>3. ASSUME NEW do, Doing(c, do), Done(c)
      PROVE  caller' \in [Caller -> CallRecord]
  <2>1. [caller[c] EXCEPT !.todo = Tail(@), !.prev = None] \in CallRecord
    BY <1>1, <1>2, <1>3 DEF CallRecord
  <2>2. QED BY <1>3, <2>1 DEF Done
<1>4. ASSUME NEW do, Doing(c, do), NEW next \in { "join", "awaiting" },
             NEW on \in Loop \cup {None}, Blocks(c, next, on)
      PROVE  caller' \in [Caller -> CallRecord]
  <2>1. << [do |-> next, e |-> Target(c)] >> \o Tail(caller[c].todo) \in Seq(Step)
    BY <1>1, <1>2, <1>4, Todo DEF CallRecord, Target
  <2>2. [caller[c] EXCEPT !.todo = << [do |-> next, e |-> Target(c)] >> \o Tail(@),
                          !.prev = on] \in CallRecord
    BY <1>1, <2>1 DEF CallRecord
  <2>3. QED BY <1>4, <2>2 DEF Blocks
<1>5. ASSUME NEW do, Doing(c, do), Launch(c, Target(c))
      PROVE  /\ caller' \in [Caller -> CallRecord]
             /\ entry' \in [Entry -> EntryRecord] /\ loop' \in [Loop -> LoopRecord]
  <2>1. PICK l \in FreshLoop :
          /\ loop' = [loop EXCEPT ![l] = NewLoop(Target(c), "head")]
          /\ entry' = [entry EXCEPT ![Target(c)].cur = l, ![Target(c)].status = "starting",
                                    ![Target(c)].failures = 0]
          /\ Done(c)
    BY <1>5 DEF Launch
  <2>2. l \in Loop
    BY DEF FreshLoop, OneOf
  <2>3. NewLoop(Target(c), "head") \in LoopRecord
    BY <1>2, <1>5, NewLoopTyped DEF Points
  <2>4. PICK e \in Entry : e = Target(c)
    BY <1>2, <1>5
  <2>5. [entry[e] EXCEPT !.cur = l, !.status = "starting", !.failures = 0]
          \in EntryRecord
    BY <2>2 DEF EntryRecord, Statuses
  <2>6. entry' \in [Entry -> EntryRecord]
    BY <2>1, <2>4, <2>5
  <2>7. QED BY <1>3, <1>5, <2>1, <2>2, <2>3, <2>6
<1>6. CASE RequestStop(c)
  <2> DEFINE st == entry[Target(c)]
             asked(l) == [loop[l] EXCEPT !.stop = @ \/ l = st.cur,
                                         !.ctx  = @ \/ l = st.cancel]
  <2>1. \A l \in Loop : asked(l) \in LoopRecord
    <3> SUFFICES ASSUME NEW l \in Loop PROVE asked(l) \in LoopRecord
      OBVIOUS
    <3>1. /\ (loop[l].stop \/ l = st.cur) \in BOOLEAN
          /\ (loop[l].ctx \/ l = st.cancel) \in BOOLEAN
      OBVIOUS
    <3>2. ASSUME NEW r \in LoopRecord, NEW a \in BOOLEAN, NEW b \in BOOLEAN
          PROVE  [r EXCEPT !.stop = a, !.ctx = b] \in LoopRecord
      BY DEF LoopRecord
    <3>3. PICK a \in BOOLEAN, b \in BOOLEAN :
            a = (loop[l].stop \/ l = st.cur) /\ b = (loop[l].ctx \/ l = st.cancel)
      BY <3>1, Zenon
    <3>4. asked(l) = [loop[l] EXCEPT !.stop = a, !.ctx = b]
      BY <3>3, Zenon
    <3>5. loop[l] \in LoopRecord
      OBVIOUS
    <3>6. QED BY <3>2, <3>4, <3>5, Zenon
  <2>2. loop' = [l \in Loop |-> asked(l)]
    BY <1>6 DEF RequestStop
  <2>3. loop' \in [Loop -> LoopRecord]
    <3> HIDE DEF asked
    <3>1. QED BY <2>1, <2>2
  <2>4. QED BY <1>3, <1>6, <2>3 DEF RequestStop
<1>7. CASE StartLoop(c)
  <2>1. CASE entry[Target(c)].cur = None
    BY <1>5, <1>7, <2>1 DEF StartLoop
  <2>2. CASE entry[Target(c)].cur # None
    <3>1. entry[Target(c)].cur \in Loop \cup {None}
      BY <1>2, <1>7 DEF StartLoop, EntryRecord
    <3>2. caller' \in [Caller -> CallRecord]
      BY <1>4, <1>7, <2>2, <3>1 DEF StartLoop
    <3>3. QED BY <1>7, <2>2, <3>2 DEF StartLoop
  <2>3. QED BY <2>1, <2>2
<1>8. CASE Join(c)
  BY <1>5, <1>8 DEF Join
<1>9. CASE Await(c)
  <2>1. entry[Target(c)].cur \in Loop \cup {None}
    BY <1>2, <1>9 DEF Await, EntryRecord
  <2>2. QED BY <1>4, <1>9, <2>1 DEF Await
<1>10. CASE Awaited(c)
  BY <1>3, <1>10 DEF Awaited
<1>11. CASE GraceOver(c) \/ Return(c)
  <2>1. Idle \in CallRecord /\ [Idle EXCEPT !.op = "gave up"] \in CallRecord
    <3>1. << >> \in Seq(Step)
      OBVIOUS
    <3>2. QED BY <3>1 DEF Idle, CallRecord
  <2>2. QED BY <1>11, <2>1 DEF GraceOver, Return
<1>12. QED BY <1>6, <1>7, <1>8, <1>9, <1>10, <1>11, Proceed(c) DEF Proceed

\* A step of a supervise goroutine, its child or its notifier.
LEMMA LoopTyped ==
  ASSUME TypeOK, LoopsOwned, NEW l \in Loop,
         Advance(l) \/ ChildExits(l) \/ Notify(l)
  PROVE  TypeOK'
<1> USE SupervisorAssumption DEF TypeOK, LoopOnly
<1>1. loop[l] \in LoopRecord
  OBVIOUS
<1>2. ASSUME NEW pc \in Points, Goto(l, pc)
      PROVE  loop' \in [Loop -> LoopRecord]
  <2>1. [loop[l] EXCEPT !.pc = pc] \in LoopRecord
    BY <1>1 DEF LoopRecord
  <2>2. QED BY <1>2, <2>1 DEF Goto
<1>3. ASSUME NEW st \in Statuses, SetStatus(l, st)
      PROVE  entry' \in [Entry -> EntryRecord]
  <2>1. ASSUME NEW e \in Entry PROVE [entry[e] EXCEPT !.status = st] \in EntryRecord
    BY DEF EntryRecord
  <2>2. QED BY <1>3, <2>1 DEF SetStatus
<1>4. ASSUME NEW st \in Statuses, NEW n, NEW pc \in Points, Reaped(l, st, n, pc),
             loop[l].entry \in Entry => n \in Nat
      PROVE  TypeOK'
  <2>1. ASSUME NEW r \in EntryRecord, n \in Nat
        PROVE  [r EXCEPT !.status = st, !.failures = n, !.cancel = None] \in EntryRecord
    BY <2>1 DEF EntryRecord
  <2>2. entry' \in [Entry -> EntryRecord]
    <3>1. entry' = [entry EXCEPT ![loop[l].entry] =
                      [entry[loop[l].entry] EXCEPT !.status = st, !.failures = n,
                                                   !.cancel = None]]
      BY <1>4 DEF Reaped
    <3>2. QED BY <1>4, <2>1, <3>1
  <2>3. PICK b \in BOOLEAN : b = (st = "failed")
    OBVIOUS
  <2>4. [loop[l] EXCEPT !.pc = pc, !.code = 0, !.healthy = FALSE, !.broke = b]
          \in LoopRecord
    BY <1>1 DEF LoopRecord
  <2>5. loop' \in [Loop -> LoopRecord]
    BY <1>4, <2>3, <2>4, Zenon DEF Reaped
  <2>6. QED BY <1>4, <2>2, <2>5 DEF Reaped
<1>5. CASE StopAtHead(l) \/ BackoffStopped(l)
  BY <1>2, <1>3, <1>5 DEF StopAtHead, BackoffStopped, Points, Statuses
<1>6. CASE ReadManifest(l)
  <2>1. Owner(l).manifest \in Manifests \cup {None}
    BY <1>6 DEF ReadManifest, At, LoopsOwned, Owner, EntryRecord
  <2>2. [loop[l] EXCEPT !.pc = "read", !.m = Owner(l).manifest] \in LoopRecord
    BY <1>1, <2>1 DEF LoopRecord, Points
  <2>3. QED BY <1>6, <2>2 DEF ReadManifest
<1>7. CASE Prepare(l)
  <2>1. [loop[l] EXCEPT !.pc = "ready", !.ctx = FALSE] \in LoopRecord
    BY <1>1 DEF LoopRecord, Points
  <2>2. ASSUME NEW e \in Entry
        PROVE  [entry[e] EXCEPT !.cancel = l, !.status = "starting"] \in EntryRecord
    BY DEF EntryRecord, Statuses
  <2>3. entry' \in [Entry -> EntryRecord]
    BY <1>7, <2>2 DEF Prepare
  <2>4. QED BY <1>7, <2>1, <2>3 DEF Prepare
<1>8. CASE Propagate(l) \/ Spawn(l) \/ SpawnFails(l)
  <2>1. [loop[l] EXCEPT !.ctx = TRUE] \in LoopRecord
    BY <1>1 DEF LoopRecord
  <2>2. [loop[l] EXCEPT !.pc = "exited", !.code = 0, !.healthy = FALSE] \in LoopRecord
    BY <1>1 DEF LoopRecord, Points
  <2>3. ASSUME Spawn(l) PROVE TypeOK'
    <3>1. loop[l].notes + 1 \in 0..MaxNotes
      BY <1>1, <2>3 DEF LoopRecord, Spawn
    <3>2. ASSUME NEW n \in 0..MaxNotes
          PROVE  [loop[l] EXCEPT !.pc = "up", !.notes = n] \in LoopRecord
      BY <1>1 DEF LoopRecord, Points
    <3>3. loop' = [loop EXCEPT ![l] = [loop[l] EXCEPT !.pc = "up",
                                                     !.notes = loop[l].notes + 1]]
      BY <2>3 DEF Spawn
    <3>4. loop' \in [Loop -> LoopRecord]
      BY <3>1, <3>2, <3>3
    <3>5. QED BY <2>3, <3>4 DEF Spawn
  <2>4. ASSUME Propagate(l) PROVE TypeOK'
    BY <2>1, <2>4 DEF Propagate
  <2>5. ASSUME SpawnFails(l) PROVE TypeOK'
    BY <2>2, <2>5 DEF SpawnFails
  <2>6. QED BY <1>8, <2>3, <2>4, <2>5
<1>9. CASE ChildExits(l)
  <2>1. PICK code \in { 0, 1 }, long \in BOOLEAN :
          loop' = [loop EXCEPT ![l].pc = "exited", ![l].code = code, ![l].healthy = long]
    BY <1>9 DEF ChildExits
  <2>2. [loop[l] EXCEPT !.pc = "exited", !.code = code, !.healthy = long] \in LoopRecord
    BY <1>1 DEF LoopRecord, Points
  <2>3. QED BY <1>9, <2>1, <2>2 DEF ChildExits
<1>10. CASE Notify(l)
  <2>1. loop[l].notes > 0 => [loop[l] EXCEPT !.notes = @ - 1] \in LoopRecord
    BY <1>1 DEF LoopRecord
  <2>2. QED BY <1>3, <1>10, <2>1 DEF Notify, Statuses
<1>11. ASSUME loop[l].entry \in Entry PROVE Failures(l) \in Nat /\ Owner(l).failures \in Nat
  BY <1>11 DEF Failures, Owner, EntryRecord
<1>12. CASE ReapStopped(l) \/ ReapBroken(l) \/ ReapFinal(l) \/ ReapRestart(l)
  BY <1>4, <1>11, <1>12
     DEF ReapStopped, ReapBroken, ReapFinal, ReapRestart, Points, Statuses
<1>13. CASE BackoffElapses(l) \/ CloseDone(l)
  BY <1>2, <1>13 DEF BackoffElapses, CloseDone, Points
<1>14. CASE Panic(l)
  <2>1. \A k \in Loop : [loop[k] EXCEPT !.pc = "panic", !.notes = 0] \in LoopRecord
    BY PanicTyped
  <2>2. [Idle EXCEPT !.op = "panic"] \in CallRecord
    <3>1. << >> \in Seq(Step)
      OBVIOUS
    <3>2. QED BY <3>1 DEF Idle, CallRecord
  <2>3. QED BY <1>14, <2>1, <2>2 DEF Panic
<1>15. QED
  BY <1>5, <1>6, <1>7, <1>8, <1>9, <1>10, <1>12, <1>13, <1>14 DEF Advance

LEMMA OwnedStep ==
  ASSUME TypeOK, LoopsOwned, [Next]_vars
  PROVE  LoopsOwned'
<1> USE SupervisorAssumption DEF TypeOK, LoopsOwned
<1>1. ASSUME NEW c \in Caller, Operate(c) PROVE LoopsOwned'
  BY <1>1 DEF Operate, ApplyNew, ApplyChange, MarkInvalid, Remove, Start, Stop, Restart,
              Shutdown
<1>2. ASSUME NEW c \in Caller, Proceed(c) PROVE LoopsOwned'
  <2>1. ASSUME NEW do, Doing(c, do) PROVE Target(c) \in Entry
    <3>1. caller[c].todo \in Seq(Step)
      BY DEF CallRecord
    <3>2. QED BY <2>1, <3>1, Todo DEF Doing, Target, Step
  <2>2. ASSUME NEW do, Doing(c, do), Launch(c, Target(c)) PROVE LoopsOwned'
    BY <2>1, <2>2 DEF Launch, NewLoop, FreshLoop, OneOf
  <2>3. CASE StartLoop(c) \/ Join(c)
    BY <2>2, <2>3 DEF StartLoop, Join
  <2>4. CASE RequestStop(c)
    BY <2>4 DEF RequestStop, LoopRecord
  <2>5. CASE Await(c) \/ Awaited(c) \/ GraceOver(c) \/ Return(c)
    BY <2>5 DEF Await, Awaited, GraceOver, Return
  <2>6. QED BY <1>2, <2>3, <2>4, <2>5 DEF Proceed
<1>3. ASSUME NEW l \in Loop, Advance(l) \/ ChildExits(l) \/ Notify(l)
      PROVE  LoopsOwned'
  <2> USE DEF At, Goto, LoopRecord
  <2>1. CASE StopAtHead(l) \/ BackoffStopped(l) \/ BackoffElapses(l) \/ CloseDone(l)
    BY <2>1 DEF StopAtHead, BackoffStopped, BackoffElapses, CloseDone
  <2>2. CASE ReadManifest(l) \/ Prepare(l)
    BY <2>2 DEF ReadManifest, Prepare
  <2>3. CASE Propagate(l) \/ Spawn(l) \/ SpawnFails(l)
    BY <2>3 DEF Propagate, Spawn, SpawnFails
  <2>4. CASE ChildExits(l) \/ Notify(l)
    BY <2>4 DEF ChildExits, Notify
  <2>5. CASE ReapStopped(l) \/ ReapBroken(l) \/ ReapFinal(l) \/ ReapRestart(l)
    <3>1. ASSUME NEW st, NEW n, NEW pc, Reaped(l, st, n, pc), At(l, "exited")
          PROVE  LoopsOwned'
      <4>1. \A k \in Loop : /\ loop'[k].entry = loop[k].entry
                            /\ k # l => loop'[k].pc = loop[k].pc
        BY <3>1 DEF Reaped
      <4>2. QED BY <3>1, <4>1
    <3>2. QED BY <2>5, <3>1 DEF ReapStopped, ReapBroken, ReapFinal, ReapRestart
  <2>6. CASE Panic(l)
    <3>1. ASSUME NEW r \in LoopRecord
          PROVE  [r EXCEPT !.pc = "panic", !.notes = 0].pc = "panic"
      OBVIOUS
    <3>2. \A k \in Loop : loop'[k] = [loop[k] EXCEPT !.pc = "panic", !.notes = 0]
      BY <2>6 DEF Panic
    <3>3. \A k \in Loop : loop[k] \in LoopRecord
      OBVIOUS
    <3>4. ASSUME NEW k \in Loop PROVE loop'[k].pc = "panic"
      <4>1. loop[k] \in LoopRecord /\ loop'[k] = [loop[k] EXCEPT !.pc = "panic", !.notes = 0]
        BY <3>2, <3>3
      <4>2. QED BY <3>1, <4>1
    <3>5. QED BY <3>4
  <2>7. QED BY <1>3, <2>1, <2>2, <2>3, <2>4, <2>5, <2>6 DEF Advance
<1>4. CASE UNCHANGED vars
  BY <1>4 DEF vars
<1>5. QED BY <1>1, <1>2, <1>3, <1>4 DEF Next

LEMMA TypeInit == Init => TypeOK /\ LoopsOwned
<1> SUFFICES ASSUME Init PROVE TypeOK /\ LoopsOwned
  OBVIOUS
<1>1. NoEntry \in EntryRecord /\ NewLoop(None, "off") \in LoopRecord
  BY NewEntryTyped, NewLoopTyped DEF NoEntry, Statuses, Points
<1>2. Idle \in CallRecord
  <2>1. << >> \in Seq(Step)
    OBVIOUS
  <2>2. QED BY <2>1 DEF Idle, CallRecord
<1>3. LoopsOwned
  BY DEF Init, LoopsOwned, NewLoop
<1>4. QED BY <1>1, <1>2, <1>3, SupervisorAssumption DEF Init, TypeOK

LEMMA TypeStep == TypeOK /\ LoopsOwned /\ [Next]_vars => TypeOK' /\ LoopsOwned'
<1>1. TypeOK /\ UNCHANGED vars => TypeOK'
  BY DEF TypeOK, vars
<1>2. QED BY <1>1, OperateTyped, ProceedTyped, LoopTyped, OwnedStep DEF Next

\* The variables of Supervisor always have the type stated there: every entry and
\* every loop is a whole record, and what a caller still does names entries.
THEOREM TypeCorrect == Spec => []TypeOK
BY TypeInit, TypeStep, PTL DEF Spec

-----------------------------------------------------------------------------
(* One loop per entry, while calls come one at a time.                      *)

\* An entry that is in use has a manifest, so it is not made anew.
EntriesKnown ==
  /\ \A x \in Ext : states[x] # None => entry[states[x]].manifest # None
  /\ \A c \in Caller : \A i \in DOMAIN caller[c].todo :
       entry[caller[c].todo[i].e].manifest # None

\* A live loop is the one its entry holds the channels of.
LoopsCurrent ==
  \A l \in Loop : Live(l) => /\ entry[loop[l].entry].cur = l
                            /\ entry[loop[l].entry].manifest # None

\* Who waits for a loop waits for the one the entry still holds.
JoinIsCurrent ==
  \A c \in Caller : \A i \in DOMAIN caller[c].todo :
    caller[c].todo[i].do = "join" =>
      /\ i = 1 /\ caller[c].prev \in Loop
      /\ entry[caller[c].todo[i].e].cur = caller[c].prev

Sequential == \A c, d \in Caller : c = d

SequentialInv ==
  TypeOK /\ LoopsOwned /\ EntriesKnown /\ LoopsCurrent /\ JoinIsCurrent

\* The list of an operation that just began.
Beginning(todo) ==
  \A i \in DOMAIN todo : todo[i].do # "join" /\ entry'[todo[i].e].manifest # None

LEMMA CallBegins ==
  ASSUME SequentialInv, Sequential, NEW c \in Caller, NEW op, NEW todo,
         Call(c, op, todo), Beginning(todo),
         \A x \in Ext : states'[x] # None => entry'[states'[x]].manifest # None
  PROVE  EntriesKnown' /\ JoinIsCurrent'
<1>1. \A d \in Caller : d = c
  BY DEF Sequential
<1>2. caller'[c].todo = todo
  BY DEF Call, SequentialInv, TypeOK
<1>3. QED BY <1>1, <1>2 DEF Beginning, EntriesKnown, JoinIsCurrent

LEMMA FreshEntryUnused ==
  ASSUME NEW e \in FreshEntry
  PROVE  e \in Entry /\ entry[e].manifest = None
<1>1. { f \in Entry : entry[f].manifest = None } # {}
  BY DEF FreshEntry, OneOf
<1>2. e = CHOOSE a \in { f \in Entry : entry[f].manifest = None } : TRUE
  BY DEF FreshEntry, OneOf
<1>3. QED BY <1>1, <1>2

LEMMA FreshLoopUnused ==
  ASSUME NEW l \in FreshLoop
  PROVE  l \in Loop /\ loop[l].pc = "off"
<1>1. { k \in Loop : loop[k].pc = "off" } # {}
  BY DEF FreshLoop, OneOf
<1>2. l = CHOOSE a \in { k \in Loop : loop[k].pc = "off" } : TRUE
  BY DEF FreshLoop, OneOf
<1>3. QED BY <1>1, <1>2

\* Operations leave the loops and the channels of used entries alone.
LEMMA OperateSequential ==
  ASSUME SequentialInv, Sequential, NEW c \in Caller, Operate(c)
  PROVE  EntriesKnown' /\ LoopsCurrent' /\ JoinIsCurrent'
<1> USE SupervisorAssumption DEF SequentialInv, TypeOK
<1>0. \A e : /\ stop(e).do = "stop" /\ start(e).do = "start" /\ await(e).do = "await"
             /\ stop(e).e = e /\ start(e).e = e /\ await(e).e = e
  BY DEF stop, start, await
<1>1. ASSUME loop' = loop,
             \A e \in Entry : entry[e].manifest # None =>
               entry'[e].manifest # None /\ entry'[e].cur = entry[e].cur
      PROVE  LoopsCurrent'
  BY <1>1 DEF LoopsCurrent, LoopsOwned, Live
<1>2. ASSUME NEW x \in Ext, NEW m \in Manifest, ApplyNew(c, x, m)
      PROVE  EntriesKnown' /\ LoopsCurrent' /\ JoinIsCurrent'
  <2>1. PICK e \in FreshEntry :
           /\ entry' = [entry EXCEPT ![e] = NewEntry(m, "stopped")]
           /\ states' = [states EXCEPT ![x] = e]
           /\ Call(c, "apply", << start(e) >>)
    BY <1>2 DEF ApplyNew
  <2>2. e \in Entry /\ entry[e].manifest = None /\ entry'[e].manifest # None
    BY <2>1, FreshEntryUnused DEF NewEntry
  <2>3. LoopsCurrent'
    BY <1>1, <1>2, <2>1, <2>2 DEF ApplyNew
  <2>4. Beginning(<< start(e) >>)
    BY <1>0, <2>2 DEF Beginning
  <2>5. \A y \in Ext : states'[y] # None => entry'[states'[y]].manifest # None
    BY <2>1, <2>2 DEF EntriesKnown
  <2>6. QED BY <2>1, <2>3, <2>4, <2>5, CallBegins
<1>3. ASSUME NEW x \in Ext, MarkInvalid(c, x), states[x] = None
      PROVE  EntriesKnown' /\ LoopsCurrent' /\ JoinIsCurrent'
  <2>1. PICK e \in FreshEntry :
           /\ entry' = [entry EXCEPT ![e] = NewEntry(Placeholder, "invalid")]
           /\ states' = [states EXCEPT ![x] = e]
    BY <1>3 DEF MarkInvalid
  <2>2. e \in Entry /\ entry[e].manifest = None /\ entry'[e].manifest # None
    BY <2>1, FreshEntryUnused DEF NewEntry
  <2>3. LoopsCurrent'
    BY <1>1, <1>3, <2>1, <2>2 DEF MarkInvalid
  <2>4. \A y \in Ext : states'[y] # None => entry'[states'[y]].manifest # None
    BY <2>1, <2>2 DEF EntriesKnown
  <2>5. Beginning(<< >>)
    BY DEF Beginning
  <2>6. QED BY <1>3, <2>3, <2>4, <2>5, CallBegins DEF MarkInvalid
\* Every other operation keeps entries, whatever list it begins.
<1>4. ASSUME NEW op, NEW todo, Call(c, op, todo), loop' = loop,
             \A e \in Entry : /\ entry[e].manifest # None => entry'[e].manifest # None
                              /\ entry'[e].cur = entry[e].cur,
             \A x \in Ext : states'[x] \in { states[x], None },
             \A i \in DOMAIN todo :
               todo[i].do # "join" /\ \E x \in Ext : states[x] # None /\ todo[i].e = states[x]
      PROVE  EntriesKnown' /\ LoopsCurrent' /\ JoinIsCurrent'
  <2>1. Beginning(todo)
    BY <1>4 DEF Beginning, EntriesKnown
  <2>2. \A x \in Ext : states'[x] # None => entry'[states'[x]].manifest # None
    BY <1>4 DEF EntriesKnown
  <2>3. LoopsCurrent'
    BY <1>1, <1>4
  <2>4. QED BY <1>4, <2>1, <2>2, <2>3, CallBegins
<1>5. ASSUME NEW x \in Ext, NEW m \in Manifest, ApplyChange(c, x, m)
      PROVE  EntriesKnown' /\ LoopsCurrent' /\ JoinIsCurrent'
  <2> DEFINE e == states[x]
             todo == IF ~(IsEnabled(m) /\ ~entry[e].manual) THEN << stop(e) >>
              ELSE IF ~specEqual(entry[e].manifest, m) THEN << stop(e), start(e) >>
              ELSE IF ~Alive(entry[e].status) THEN << start(e) >> ELSE << >>
  <2>1. Call(c, "apply", todo)
    BY <1>5, Zenon DEF ApplyChange
  <2>2. e \in Entry /\ e # None
    BY <1>5 DEF ApplyChange
  <2>3. \A i \in DOMAIN todo : todo[i].do # "join" /\ todo[i].e = e
    <3>1. todo \in { << >>, << stop(e) >>, << start(e) >>, << stop(e), start(e) >> }
      BY Zenon
    <3> HIDE DEF todo, e
    <3>2. QED BY <1>0, <3>1
  <2>4. entry' = [entry EXCEPT ![e].manifest = m]
    BY <1>5 DEF ApplyChange
  <2>5. \A f \in Entry : /\ entry[f].manifest # None => entry'[f].manifest # None
                         /\ entry'[f].cur = entry[f].cur
    <3> HIDE DEF e
    <3>1. QED BY <2>2, <2>4 DEF EntryRecord
  <2>6. loop' = loop /\ states' = states
    BY <1>5 DEF ApplyChange
  <2> HIDE DEF todo
  <2>7. QED BY <1>4, <2>1, <2>2, <2>3, <2>5, <2>6
<1>6. ASSUME NEW x \in Ext, MarkInvalid(c, x), states[x] # None
      PROVE  EntriesKnown' /\ LoopsCurrent' /\ JoinIsCurrent'
  <2>1. \A f \in Entry : /\ entry[f].manifest # None => entry'[f].manifest # None
                         /\ entry'[f].cur = entry[f].cur
    BY <1>6 DEF MarkInvalid, EntryRecord
  <2>2. Call(c, "invalid", << >>) /\ loop' = loop /\ states' = states
    BY <1>6 DEF MarkInvalid
  <2>3. QED BY <1>4, <2>1, <2>2
<1>7. ASSUME NEW x \in Ext, Remove(c, x)
      PROVE  EntriesKnown' /\ LoopsCurrent' /\ JoinIsCurrent'
  <2> DEFINE todo == << stop(states[x]), await(states[x]) >>
  <2>1. Call(c, "remove", todo) /\ states[x] # None
    BY <1>7 DEF Remove
  <2>2. \A i \in DOMAIN todo : todo[i].do # "join" /\ todo[i].e = states[x]
    BY <1>0
  <2>3. loop' = loop /\ entry' = entry /\ \A y \in Ext : states'[y] \in { states[y], None }
    BY <1>7 DEF Remove
  <2> HIDE DEF todo
  <2>4. QED BY <1>4, <2>1, <2>2, <2>3
<1>8. ASSUME NEW x \in Ext, Start(c, x) \/ Stop(c, x) \/ Restart(c, x)
      PROVE  EntriesKnown' /\ LoopsCurrent' /\ JoinIsCurrent'
  <2> DEFINE e == states[x]
  <2>1. e \in Entry /\ e # None
    BY <1>8 DEF Start, Stop, Restart
  <2>2. \E op : \E todo \in { << >>, << stop(e) >>, << start(e) >>, << stop(e), start(e) >> } :
          Call(c, op, todo)
    BY <1>8 DEF Start, Stop, Restart
  <2>3. PICK op, todo : /\ todo \in { << >>, << stop(e) >>, << start(e) >>, << stop(e), start(e) >> }
                        /\ Call(c, op, todo)
    BY <2>2
  <2>4. \A i \in DOMAIN todo : todo[i].do # "join" /\ todo[i].e = e
    <3> HIDE DEF e
    <3>1. QED BY <1>0, <2>3
  <2>5. \A f \in Entry : /\ entry'[f].manifest = entry[f].manifest
                         /\ entry'[f].cur = entry[f].cur
    <3>1. \/ entry' = [entry EXCEPT ![e].manual = FALSE, ![e].failures = 0,
                                    ![e].wish = "run"]
          \/ entry' = [entry EXCEPT ![e].manual = TRUE, ![e].wish = "stay"]
          \/ entry' = [entry EXCEPT ![e].failures = 0, ![e].wish = "run"]
      BY <1>8, Zenon DEF Start, Stop, Restart
    <3> HIDE DEF e
    <3>2. QED BY <2>1, <3>1 DEF EntryRecord
  <2>6. loop' = loop /\ states' = states
    BY <1>8 DEF Start, Stop, Restart
  <2>7. QED BY <1>4, <2>1, <2>3, <2>4, <2>5, <2>6
<1>9. CASE Shutdown(c)
  <2>1. PICK q \in [1..Cardinality(Installed) -> Installed] :
           Call(c, "shutdown", [i \in DOMAIN q |-> stop(q[i])]
                                 \o [i \in DOMAIN q |-> await(q[i])])
    BY <1>9 DEF Shutdown
  <2> DEFINE stops  == [i \in DOMAIN q |-> stop(q[i])]
             awaits == [i \in DOMAIN q |-> await(q[i])]
             T == { t \in Step : /\ t.do # "join"
                                 /\ \E x \in Ext : states[x] # None /\ t.e = states[x] }
  <2>2. PICK n \in Nat : DOMAIN q = 1..n
    <3>1. Installed \subseteq Entry
      BY DEF Installed
    <3>2. Cardinality(Installed) \in Nat
      BY <3>1, FS_Subset, FS_CardinalityType
    <3>3. QED BY <2>1, <3>2
  <2>3. \A i \in 1..n : stop(q[i]) \in T /\ await(q[i]) \in T
    <3>1. \A i \in 1..n : q[i] \in Installed
      BY <2>1, <2>2
    <3>2. \A e \in Installed : stop(e) \in T /\ await(e) \in T
      BY DEF Installed, stop, await, Step
    <3>3. QED BY <3>1, <3>2
  <2>4. stops \in [1..n -> T] /\ awaits \in [1..n -> T]
    BY <2>2, <2>3
  <2>5. stops \o awaits \in Seq(T)
    <3>1. ASSUME NEW S, NEW s \in [1..n -> S] PROVE s \in Seq(S)
      OBVIOUS
    <3> HIDE DEF stops, awaits, T
    <3>2. stops \in Seq(T) /\ awaits \in Seq(T)
      BY <2>4, <3>1
    <3>3. QED BY <3>2, ConcatProperties
  <2>6. \A i \in DOMAIN (stops \o awaits) : (stops \o awaits)[i] \in T
    <3> HIDE DEF stops, awaits, T
    <3>1. QED BY <2>5, ElementOfSeq
  <2>7. Call(c, "shutdown", stops \o awaits)
    BY <2>1
  <2>8. loop' = loop /\ entry' = entry /\ states' = states
    BY <1>9 DEF Shutdown
  <2>9. QED BY <1>4, <2>6, <2>7, <2>8
<1>10. QED
  BY <1>2, <1>3, <1>5, <1>6, <1>7, <1>8, <1>9, Operate(c) DEF Operate, ApplyNew, MarkInvalid

\* Waiting for a loop, and starting one, leave every other loop and entry alone.
LEMMA ProceedSequential ==
  ASSUME SequentialInv, Sequential, NEW c \in Caller, Proceed(c)
  PROVE  EntriesKnown' /\ LoopsCurrent' /\ JoinIsCurrent'
<1> USE SupervisorAssumption DEF SequentialInv, TypeOK
<1>1. \A d \in Caller : d = c
  BY DEF Sequential
<1>2. caller[c] \in CallRecord /\ caller[c].todo \in Seq(Step)
  BY DEF CallRecord
\* A step is dropped from the list.
<1>3. ASSUME NEW do, Doing(c, do), Done(c)
      PROVE  /\ caller'[c].todo = Tail(caller[c].todo) /\ Target(c) \in Entry
             /\ entry[Target(c)].manifest # None
             /\ \A i \in DOMAIN caller'[c].todo :
                  /\ caller'[c].todo[i].do # "join"
                  /\ caller'[c].todo[i].e \in Entry
                  /\ entry[caller'[c].todo[i].e].manifest # None
  <2> DEFINE s == caller[c].todo
  <2>1. s \in Seq(Step) /\ s # << >> /\ Target(c) = s[1].e /\ 1 \in DOMAIN s
    BY <1>2, <1>3 DEF Doing, Target
  <2>2. caller'[c].todo = Tail(s)
    BY <1>2, <1>3 DEF Done
  <2>3. \A i \in DOMAIN Tail(s) : /\ Tail(s)[i] = s[i + 1] /\ i + 1 \in DOMAIN s
                                  /\ i + 1 # 1
    <3> HIDE DEF s
    <3>1. QED BY <2>1
  <2>4. \A i \in DOMAIN s : s[i] \in Step /\ entry[s[i].e].manifest # None
    <3>1. \A i \in DOMAIN s : s[i] \in Step
      <4> HIDE DEF s
      <4>1. QED BY <2>1
    <3>2. QED BY <3>1 DEF EntriesKnown
  <2>5. \A i \in DOMAIN s : s[i].do = "join" => i = 1
    BY DEF JoinIsCurrent
  <2>6. \A t \in Step : t.e \in Entry
    BY DEF Step
  <2>7. \A i \in DOMAIN Tail(s) : /\ Tail(s)[i].do # "join" /\ Tail(s)[i].e \in Entry
                                  /\ entry[Tail(s)[i].e].manifest # None
    <3> HIDE DEF s
    <3>1. QED BY <2>3, <2>4, <2>5, <2>6
  <2>8. Target(c) \in Entry /\ entry[Target(c)].manifest # None
    <3> HIDE DEF s
    <3>1. QED BY <2>1, <2>4, <2>6
  <2>9. QED
    <3> HIDE DEF TypeOK
    <3>1. QED BY <2>2, <2>7, <2>8, Zenon
<1>4. ASSUME NEW do, Doing(c, do), Done(c), states' = states,
             \A e \in Entry : entry'[e].manifest = entry[e].manifest
      PROVE  EntriesKnown' /\ JoinIsCurrent'
  BY <1>1, <1>3, <1>4 DEF EntriesKnown, JoinIsCurrent
<1>5. ASSUME \A l \in Loop : loop'[l].entry = loop[l].entry /\ loop'[l].pc = loop[l].pc,
             entry' = entry
      PROVE  LoopsCurrent'
  BY <1>5 DEF LoopsCurrent, Live
<1>6. ASSUME NEW do, Doing(c, do), Launch(c, Target(c)), states' = states,
             entry[Target(c)].cur = None
               \/ \E k \in Loop : entry[Target(c)].cur = k /\ loop[k].pc = "done"
      PROVE  EntriesKnown' /\ LoopsCurrent' /\ JoinIsCurrent'
  <2>1. PICK l \in FreshLoop :
          /\ loop' = [loop EXCEPT ![l] = NewLoop(Target(c), "head")]
          /\ entry' = [entry EXCEPT ![Target(c)].cur = l, ![Target(c)].status = "starting",
                                    ![Target(c)].failures = 0]
    BY <1>6 DEF Launch
  <2>2. l \in Loop /\ loop[l].pc = "off"
    BY FreshLoopUnused
  <2>3. Done(c)
    BY <1>6 DEF Launch
  <2>4. PICK e \in Entry : e = Target(c) /\ entry[e].manifest # None
    BY <1>3, <1>6, <2>3
  <2>5. /\ \A f \in Entry : /\ entry'[f].manifest = entry[f].manifest
                            /\ f # e => entry'[f].cur = entry[f].cur
        /\ entry'[e].cur = l
    BY <2>1, <2>4 DEF EntryRecord
  <2>6. loop'[l].entry = e /\ \A k \in Loop \ {l} : loop'[k] = loop[k]
    BY <2>1, <2>2, <2>4 DEF NewLoop
  <2>7. EntriesKnown' /\ JoinIsCurrent'
    BY <1>4, <1>6, <2>3, <2>5
  <2>8. \A k \in Loop : Live(k) => loop[k].entry # e
    BY <1>6, <2>4 DEF LoopsCurrent, Live
  <2>9. \A k \in Loop : Live(k) => loop[k].entry \in Entry
    BY DEF LoopsOwned, Live
  <2>10. ASSUME NEW k \in Loop, Live(k)'
         PROVE  entry'[loop'[k].entry].cur = k /\ entry'[loop'[k].entry].manifest # None
    <3>1. CASE k = l
      BY <2>4, <2>5, <2>6, <3>1
    <3>2. CASE k # l
      <4>1. loop'[k] = loop[k] /\ Live(k)
        BY <2>6, <2>10, <3>2 DEF Live
      <4>2. QED BY <2>5, <2>8, <2>9, <4>1 DEF LoopsCurrent
    <3>3. QED BY <3>1, <3>2
  <2>11. QED BY <2>7, <2>10 DEF LoopsCurrent
\* A step is replaced by the wait it comes to.
<1>7. ASSUME NEW do, Doing(c, do), NEW next \in { "join", "awaiting" }, NEW on,
             Blocks(c, next, on), states' = states, entry' = entry, loop' = loop,
             next = "join" => on \in Loop /\ entry[Target(c)].cur = on
      PROVE  EntriesKnown' /\ LoopsCurrent' /\ JoinIsCurrent'
  <2> DEFINE s == caller[c].todo
             t == [do |-> next, e |-> Target(c)]
  <2>1. s \in Seq(Step) /\ s # << >> /\ Target(c) = s[1].e /\ 1 \in DOMAIN s
    BY <1>2, <1>7 DEF Doing, Target
  <2>2. caller'[c].todo = << t >> \o Tail(s) /\ caller'[c].prev = on
    BY <1>2, <1>7 DEF Blocks, CallRecord
  <2>3. \A i \in DOMAIN (<< t >> \o Tail(s)) :
          /\ i \in DOMAIN s
          /\ i = 1 => (<< t >> \o Tail(s))[i] = t
          /\ i # 1 => (<< t >> \o Tail(s))[i] = s[i]
    <3> HIDE DEF s, t
    <3>1. QED BY <2>1
  <2>4. \A i \in DOMAIN s : /\ entry[s[i].e].manifest # None
                            /\ s[i].do = "join" => i = 1
    BY DEF EntriesKnown, JoinIsCurrent
  <2>5. t.e = s[1].e /\ t.do = next
    BY <2>1
  <2> DEFINE u == << t >> \o Tail(s)
  <2>6. \A i \in DOMAIN u : /\ entry[u[i].e].manifest # None
                            /\ u[i].do = "join" => /\ i = 1 /\ on \in Loop
                                                   /\ entry[u[i].e].cur = on
    <3>1. ASSUME NEW i \in DOMAIN u, i = 1
          PROVE  /\ entry[u[i].e].manifest # None
                 /\ u[i].do = "join" => on \in Loop /\ entry[u[i].e].cur = on
      <4>1. u[i].e = Target(c) /\ u[i].do = next /\ entry[Target(c)].manifest # None
        <5> HIDE DEF s, t
        <5>1. QED BY <2>1, <2>3, <2>4, <2>5, <3>1
      <4> HIDE DEF u
      <4>2. QED BY <1>7, <4>1
    <3>2. ASSUME NEW i \in DOMAIN u, i # 1
          PROVE  entry[u[i].e].manifest # None /\ u[i].do # "join"
      <4> HIDE DEF s, t
      <4>1. QED BY <2>3, <2>4, <3>2
    <3> HIDE DEF u
    <3>3. QED BY <3>1, <3>2
  <2>7. caller'[c].todo = u
    BY <2>2
  <2> HIDE DEF u
  <2>8. EntriesKnown'
    BY <1>1, <1>7, <2>6, <2>7 DEF EntriesKnown
  <2>9. JoinIsCurrent'
    BY <1>1, <1>7, <2>2, <2>6, <2>7 DEF JoinIsCurrent
  <2>10. QED BY <1>5, <1>7, <2>8, <2>9
<1>8. CASE RequestStop(c)
  <2>1. \A l \in Loop : loop'[l].entry = loop[l].entry /\ loop'[l].pc = loop[l].pc
    BY <1>8 DEF RequestStop, LoopRecord
  <2>2. QED BY <1>4, <1>5, <1>8, <2>1 DEF RequestStop
<1>9. CASE StartLoop(c)
  <2>1. CASE entry[Target(c)].cur = None
    BY <1>6, <1>9, <2>1 DEF StartLoop
  <2>2. CASE entry[Target(c)].cur # None
    <3>1. Target(c) \in Entry
      BY <1>2, <1>9, Todo DEF StartLoop, Doing, Target, Step
    <3>2. entry[Target(c)].cur \in Loop
      BY <2>2, <3>1 DEF EntryRecord
    <3>3. QED BY <1>7, <1>9, <2>2, <3>2 DEF StartLoop
  <2>3. QED BY <2>1, <2>2
<1>10. CASE Join(c)
  <2>1. 1 \in DOMAIN caller[c].todo /\ caller[c].todo[1].do = "join"
        /\ Target(c) = caller[c].todo[1].e
    BY <1>2, <1>10 DEF Join, Doing, Target
  <2>2. caller[c].prev \in Loop /\ entry[Target(c)].cur = caller[c].prev
    BY <2>1 DEF JoinIsCurrent
  <2>3. QED BY <1>6, <1>10, <2>2 DEF Join
<1>11. CASE Await(c)
  BY <1>7, <1>11 DEF Await
<1>12. CASE Awaited(c)
  BY <1>4, <1>5, <1>12 DEF Awaited
<1>13. CASE GraceOver(c) \/ Return(c)
  <2>1. caller'[c] = Idle \/ caller'[c] = [Idle EXCEPT !.op = "gave up"]
    <3> HIDE DEF Idle
    <3>1. QED BY <1>13 DEF GraceOver, Return
  <2>2. caller'[c].todo = << >>
    <3>1. Idle.todo = << >> /\ [Idle EXCEPT !.op = "gave up"].todo = << >>
      BY DEF Idle
    <3> HIDE DEF Idle
    <3>2. QED BY <2>1, <3>1
  <2>3. states' = states /\ entry' = entry /\ loop' = loop
    BY <1>13 DEF GraceOver, Return
  <2>4. QED BY <1>1, <1>5, <2>2, <2>3 DEF EntriesKnown, JoinIsCurrent
<1>14. QED
  BY <1>8, <1>9, <1>10, <1>11, <1>12, <1>13, Proceed(c) DEF Proceed

\* A goroutine writes neither the channels nor the manifest of its entry.
LEMMA LoopSequential ==
  ASSUME SequentialInv, NEW l \in Loop, Advance(l) \/ ChildExits(l) \/ Notify(l)
  PROVE  EntriesKnown' /\ LoopsCurrent' /\ JoinIsCurrent'
<1> USE SupervisorAssumption DEF SequentialInv, TypeOK, LoopOnly
<1>1. ASSUME \A e \in Entry : /\ entry'[e].manifest = entry[e].manifest
                              /\ entry'[e].cur = entry[e].cur,
             \A k \in Loop : /\ loop'[k].entry = loop[k].entry
                             /\ k # l => loop'[k].pc = loop[k].pc,
             Live(l), LoopOnly
      PROVE  EntriesKnown' /\ LoopsCurrent' /\ JoinIsCurrent'
  <2>1. \A d \in Caller : \A i \in DOMAIN caller[d].todo : caller[d].todo[i].e \in Entry
    <3> SUFFICES ASSUME NEW d \in Caller, NEW i \in DOMAIN caller[d].todo
                 PROVE  caller[d].todo[i].e \in Entry
      OBVIOUS
    <3>1. caller[d].todo \in Seq(Step)
      BY DEF CallRecord
    <3>2. caller[d].todo[i] \in Step
      BY <3>1
    <3>3. QED BY <3>2 DEF Step
  <2>2. EntriesKnown' /\ JoinIsCurrent'
    BY <1>1, <2>1 DEF EntriesKnown, JoinIsCurrent
  <2>3. \A k \in Loop : Live(k)' => Live(k) /\ loop[k].entry \in Entry
    BY <1>1 DEF Live, LoopsOwned
  <2>4. QED BY <1>1, <2>2, <2>3 DEF LoopsCurrent
<1>2. \A e \in Entry : entry[e] \in EntryRecord
  OBVIOUS
<1>3. ASSUME NEW pc, At(l, pc), pc \notin { "off", "done", "panic" }
      PROVE  Live(l) /\ loop[l].entry \in Entry
  BY <1>3 DEF At, Live, LoopsOwned
<1> USE DEF EntryRecord, LoopRecord
\* Only the program counter, and perhaps the status, changes.
<1>4. ASSUME NEW pc, Goto(l, pc), Live(l), LoopOnly,
             entry' = entry \/ \E st \in Statuses : SetStatus(l, st)
      PROVE  EntriesKnown' /\ LoopsCurrent' /\ JoinIsCurrent'
  <2>1. \A k \in Loop : /\ loop'[k].entry = loop[k].entry
                        /\ k # l => loop'[k].pc = loop[k].pc
    BY <1>4 DEF Goto
  <2>2. \A e \in Entry : /\ entry'[e].manifest = entry[e].manifest
                         /\ entry'[e].cur = entry[e].cur
    <3>1. ASSUME NEW st \in Statuses, NEW e \in Entry, entry' = [entry EXCEPT ![e].status = st],
                 NEW f \in Entry
          PROVE  entry'[f].manifest = entry[f].manifest /\ entry'[f].cur = entry[f].cur
      BY <3>1
    <3>2. loop[l].entry \in Entry
      BY <1>4 DEF LoopsOwned, Live
    <3> HIDE DEF TypeOK, EntryRecord, LoopRecord
    <3>3. QED BY <1>4, <3>1, <3>2 DEF SetStatus
  <2>3. QED BY <1>1, <1>4, <2>1, <2>2
<1>5. CASE StopAtHead(l) \/ BackoffStopped(l) \/ BackoffElapses(l) \/ CloseDone(l)
  <2> HIDE DEF EntryRecord, LoopRecord, TypeOK
  <2>1. Live(l) /\ LoopOnly
    BY <1>3, <1>5 DEF StopAtHead, BackoffStopped, BackoffElapses, CloseDone
  <2>2. \E pc : Goto(l, pc)
    BY <1>5 DEF StopAtHead, BackoffStopped, BackoffElapses, CloseDone
  <2>3. entry' = entry \/ \E st \in Statuses : SetStatus(l, st)
    BY <1>5 DEF StopAtHead, BackoffStopped, BackoffElapses, CloseDone, Statuses
  <2> HIDE DEF LoopOnly
  <2>4. QED BY <1>4, <2>1, <2>2, <2>3
<1>10. CASE ReadManifest(l) \/ Prepare(l)
  <2>1. Live(l) /\ LoopOnly
    BY <1>3, <1>10 DEF ReadManifest, Prepare
  <2>2. \A k \in Loop : /\ loop'[k].entry = loop[k].entry
                        /\ k # l => loop'[k].pc = loop[k].pc
    BY <1>10 DEF ReadManifest, Prepare
  <2>3. \A e \in Entry : /\ entry'[e].manifest = entry[e].manifest
                         /\ entry'[e].cur = entry[e].cur
    BY <1>10 DEF ReadManifest, Prepare
  <2> HIDE DEF LoopOnly
  <2>4. QED BY <1>1, <2>1, <2>2, <2>3
<1>6. CASE Propagate(l) \/ Spawn(l) \/ SpawnFails(l) \/ ChildExits(l)
  <2>1. Live(l)
    BY <1>3, <1>6 DEF Propagate, Spawn, SpawnFails, ChildExits, At
  <2>2. QED BY <1>1, <1>6, <2>1 DEF Propagate, Spawn, SpawnFails, ChildExits
<1>7. CASE ReapStopped(l) \/ ReapBroken(l) \/ ReapFinal(l) \/ ReapRestart(l)
  <2>1. ASSUME NEW st, NEW n, NEW pc, Reaped(l, st, n, pc), At(l, "exited")
        PROVE  EntriesKnown' /\ LoopsCurrent' /\ JoinIsCurrent'
    <3>1. \A k \in Loop : /\ loop'[k].entry = loop[k].entry
                          /\ k # l => loop'[k].pc = loop[k].pc
      BY <2>1 DEF Reaped
    <3>2. \A e \in Entry : /\ entry'[e].manifest = entry[e].manifest
                           /\ entry'[e].cur = entry[e].cur
      BY <2>1 DEF Reaped
    <3>3. LoopOnly /\ Live(l)
      BY <1>3, <2>1 DEF Reaped
    <3>4. QED BY <1>1, <3>1, <3>2, <3>3
  <2>2. QED BY <1>7, <2>1 DEF ReapStopped, ReapBroken, ReapFinal, ReapRestart
\* A notifier may come when its loop has ended.
<1>8. CASE Notify(l)
  <2>1. /\ \A e \in Entry : /\ entry'[e].manifest = entry[e].manifest
                            /\ entry'[e].cur = entry[e].cur
        /\ \A k \in Loop : loop'[k].entry = loop[k].entry /\ loop'[k].pc = loop[k].pc
    BY <1>8 DEF Notify, SetStatus
  <2>2. caller' = caller /\ states' = states
    BY <1>8 DEF Notify
  <2>3. \A d \in Caller : \A i \in DOMAIN caller[d].todo : caller[d].todo[i].e \in Entry
    <3> SUFFICES ASSUME NEW d \in Caller, NEW i \in DOMAIN caller[d].todo
                 PROVE  caller[d].todo[i].e \in Entry
      OBVIOUS
    <3>1. caller[d].todo \in Seq(Step)
      BY DEF CallRecord
    <3>2. caller[d].todo[i] \in Step
      BY <3>1
    <3>3. QED BY <3>2 DEF Step
  <2>4. EntriesKnown' /\ JoinIsCurrent'
    BY <2>1, <2>2, <2>3 DEF EntriesKnown, JoinIsCurrent
  <2>5. \A k \in Loop : Live(k)' => Live(k) /\ loop[k].entry \in Entry
    BY <2>1 DEF Live, LoopsOwned
  <2>6. QED BY <2>1, <2>4, <2>5 DEF LoopsCurrent
\* When the daemon panics nothing lives and nobody waits.
<1>9. CASE Panic(l)
  <2>1. \A k \in Loop : loop'[k].pc = "panic"
    <3>1. ASSUME NEW r \in LoopRecord
          PROVE  [r EXCEPT !.pc = "panic", !.notes = 0].pc = "panic"
      OBVIOUS
    <3>2. \A k \in Loop : loop'[k] = [loop[k] EXCEPT !.pc = "panic", !.notes = 0]
      BY <1>9 DEF Panic
    <3>3. \A k \in Loop : loop[k] \in LoopRecord
      OBVIOUS
    <3> HIDE DEF LoopRecord, TypeOK
    <3>4. ASSUME NEW k \in Loop PROVE loop'[k].pc = "panic"
      <4>1. loop[k] \in LoopRecord /\ loop'[k] = [loop[k] EXCEPT !.pc = "panic", !.notes = 0]
        BY <3>2, <3>3
      <4>2. QED BY <3>1, <4>1
    <3>5. QED BY <3>4
  <2>2. \A d \in Caller : caller'[d].todo = << >>
    BY <1>9 DEF Panic, Idle
  <2>3. states' = states /\ entry' = entry
    BY <1>9 DEF Panic
  <2>4. QED BY <2>1, <2>2, <2>3 DEF EntriesKnown, LoopsCurrent, JoinIsCurrent, Live
<1>11. QED
  BY <1>5, <1>6, <1>7, <1>8, <1>9, <1>10 DEF Advance

LEMMA SequentialInit == Init => SequentialInv
<1> SUFFICES ASSUME Init PROVE SequentialInv
  OBVIOUS
<1>1. TypeOK /\ LoopsOwned
  BY TypeInit
<1>2. QED BY <1>1 DEF Init, SequentialInv, LoopsOwned, EntriesKnown, LoopsCurrent,
                      JoinIsCurrent, NewLoop, Live, Idle

LEMMA SequentialStep ==
  ASSUME Sequential
  PROVE  SequentialInv /\ [Next]_vars => SequentialInv'
<1> SUFFICES ASSUME SequentialInv, [Next]_vars PROVE SequentialInv'
  OBVIOUS
<1>1. TypeOK' /\ LoopsOwned'
  BY TypeStep, OwnedStep DEF SequentialInv
<1>2. CASE UNCHANGED vars
  BY <1>1, <1>2 DEF vars, SequentialInv, EntriesKnown, LoopsCurrent, JoinIsCurrent,
                    Live
<1>3. QED BY <1>1, <1>2, OperateSequential, ProceedSequential, LoopSequential
          DEF Next, SequentialInv

\* There is never more than one goroutine for an entry (startLoop), provided the
\* supervisor is called from one goroutine only: the lock is given up while the
\* previous loop is waited for, and the model checker shows that two callers can
\* then both start one.
THEOREM OneLoopSequential ==
  ASSUME Sequential
  PROVE  Spec => []OneLoop
<1>1. SequentialInv => OneLoop
  <2> SUFFICES ASSUME SequentialInv, NEW e \in Entry PROVE Cardinality(LoopsOf(e)) <= 1
    BY DEF OneLoop
  <2>1. \A l \in LoopsOf(e) : l = entry[e].cur
    BY DEF LoopsOf, SequentialInv, LoopsCurrent
  <2>2. CASE LoopsOf(e) = {}
    BY <2>2, FS_EmptySet
  <2>3. CASE LoopsOf(e) # {}
    <3>1. PICK l : l \in LoopsOf(e)
      BY <2>3
    <3>2. LoopsOf(e) = {l}
      <4> HIDE DEF SequentialInv
      <4>1. \A k \in LoopsOf(e) : k = l
        BY <2>1, <3>1
      <4>2. QED BY <3>1, <4>1
    <3>3. Cardinality({l}) = 1
      BY FS_Singleton
    <3>4. QED BY <3>2, <3>3
  <2>4. QED BY <2>2, <2>3, Zenon
<1>2. QED BY <1>1, SequentialInit, SequentialStep, PTL DEF Spec

-----------------------------------------------------------------------------
(* What is taken down, while calls come one at a time.                      *)

Runs(e) == \E l \in Loop : Live(l) /\ loop[l].entry = e

\* The caller is still going to wait for the entry.
Waits(c, e) ==
  \E i \in DOMAIN caller[c].todo :
    caller[c].todo[i].e = e /\ caller[c].todo[i].do \in { "await", "awaiting" }

\* Loops are started for installed entries only, and by no call that takes some down;
\* who waits for a loop waits for the one the entry still holds.
StepSound(c, i) ==
  LET s == caller[c].todo[i]
  IN  /\ s.do \in { "start", "join" } =>
           s.e \in Installed /\ caller[c].op \notin { "remove", "shutdown" }
      /\ s.do = "awaiting" => i = 1 /\ caller[c].prev = entry[s.e].cur

\* What runs is installed, unless its removal is under way; while a shutdown is, it
\* will be waited for.
Accounted(e) ==
  Runs(e) => /\ e \in Installed \/ \E c \in Caller : caller[c].op = "remove" /\ Waits(c, e)
             /\ \A c \in Caller : caller[c].op = "shutdown" => Waits(c, e)

DownInv ==
  /\ \A c \in Caller : \A i \in DOMAIN caller[c].todo : StepSound(c, i)
  /\ \A e \in Entry : Accounted(e)

\* The list of an operation that just began, and what it does about the entries.
DownBegins(op, todo) ==
  /\ \A i \in DOMAIN todo :
       /\ todo[i].do # "awaiting"
       /\ todo[i].do \in { "start", "join" } =>
            todo[i].e \in Installed' /\ op \notin { "remove", "shutdown" }
  /\ \A e \in Installed :
       e \in Installed' \/ (op = "remove" /\ \E i \in DOMAIN todo : todo[i] = await(e))
  /\ op = "shutdown" => \A e \in Installed : \E i \in DOMAIN todo : todo[i] = await(e)

LEMMA CallDown ==
  ASSUME SequentialInv, Sequential, DownInv, NEW c \in Caller, NEW op, NEW todo,
         Call(c, op, todo), Free(c), loop' = loop, DownBegins(op, todo)
  PROVE  DownInv'
<1>1. \A d \in Caller : d = c
  BY DEF Sequential
<1>2. caller'[c].todo = todo /\ caller'[c].op = op /\ caller[c].op = "idle"
  BY DEF Call, Free, SequentialInv, TypeOK
<1>3. \A i \in DOMAIN caller'[c].todo : StepSound(c, i)'
  BY <1>2 DEF DownBegins, StepSound
<1>4. ASSUME NEW e \in Entry, Runs(e)' PROVE Accounted(e)'
  <2>1. Runs(e)
    BY <1>4 DEF Runs, Live
  <2>2. e \in Installed
    BY <1>1, <1>2, <2>1 DEF DownInv, Accounted
  <2>3. \A i \in DOMAIN todo : todo[i] = await(e) => Waits(c, e)'
    BY <1>2 DEF Waits, await
  <2>4. e \in Installed' \/ (op = "remove" /\ Waits(c, e)')
    BY <2>2, <2>3 DEF DownBegins
  <2>5. op = "shutdown" => Waits(c, e)'
    BY <2>2, <2>3 DEF DownBegins
  <2>6. QED BY <1>1, <1>2, <2>4, <2>5 DEF Accounted
<1>5. QED BY <1>1, <1>3, <1>4 DEF DownInv, Accounted

\* What a call that is not Remove or Shutdown does to the names.
LEMMA InstalledGrows ==
  ASSUME \A x \in Ext : states'[x] = states[x] \/ states[x] = None
  PROVE  Installed \subseteq Installed'
BY DEF Installed

LEMMA OperateDown ==
  ASSUME SequentialInv, Sequential, DownInv, NEW c \in Caller, Operate(c)
  PROVE  DownInv'
<1> USE SupervisorAssumption DEF SequentialInv, TypeOK
<1>0. \A e : /\ stop(e).do = "stop" /\ start(e).do = "start" /\ await(e).do = "await"
             /\ stop(e).e = e /\ start(e).e = e /\ await(e).e = e
  BY DEF stop, start, await
<1>1. ASSUME NEW x \in Ext, NEW op, NEW todo, Call(c, op, todo), Free(c), loop' = loop,
             states'[x] # None, op \notin { "remove", "shutdown" },
             \A y \in Ext : states'[y] = states[y] \/ states[y] = None,
             \A i \in DOMAIN todo : todo[i].do \in { "stop", "start" } /\ todo[i].e = states'[x]
      PROVE  DownInv'
  <2>1. Installed \subseteq Installed' /\ states'[x] \in Installed'
    BY <1>1, InstalledGrows DEF Installed
  <2>2. DownBegins(op, todo)
    BY <1>1, <2>1 DEF DownBegins
  <2>3. QED BY <1>1, <2>2, CallDown
<1>2. ASSUME NEW x \in Ext, NEW m \in Manifest, ApplyNew(c, x, m) PROVE DownInv'
  <2>1. PICK e \in FreshEntry :
           /\ states' = [states EXCEPT ![x] = e]
           /\ Call(c, "apply", << start(e) >>)
    BY <1>2 DEF ApplyNew
  <2>2. e \in Entry
    BY <2>1, FreshEntryUnused
  <2>3. /\ states'[x] = e /\ e # None /\ loop' = loop /\ Free(c)
        /\ \A y \in Ext : states'[y] = states[y] \/ states[y] = None
    BY <1>2, <2>1, <2>2 DEF ApplyNew
  <2>4. \A i \in DOMAIN << start(e) >> :
          << start(e) >>[i].do \in { "stop", "start" } /\ << start(e) >>[i].e = e
    BY <1>0
  <2>5. QED BY <1>1, <2>1, <2>3, <2>4
<1>3. ASSUME NEW x \in Ext, NEW m \in Manifest, ApplyChange(c, x, m) PROVE DownInv'
  <2> DEFINE e == states[x]
             todo == IF ~(IsEnabled(m) /\ ~entry[e].manual) THEN << stop(e) >>
              ELSE IF ~specEqual(entry[e].manifest, m) THEN << stop(e), start(e) >>
              ELSE IF ~Alive(entry[e].status) THEN << start(e) >> ELSE << >>
  <2>1. Call(c, "apply", todo)
    BY <1>3, Zenon DEF ApplyChange
  <2>2. e # None /\ states' = states /\ loop' = loop /\ Free(c)
    BY <1>3 DEF ApplyChange
  <2>3. \A i \in DOMAIN todo : todo[i].do \in { "stop", "start" } /\ todo[i].e = e
    <3>1. todo \in { << >>, << stop(e) >>, << start(e) >>, << stop(e), start(e) >> }
      BY Zenon
    <3> HIDE DEF todo, e
    <3>2. QED BY <1>0, <3>1
  <2> HIDE DEF todo
  <2>4. QED BY <1>1, <2>1, <2>2, <2>3
<1>4. ASSUME NEW x \in Ext, MarkInvalid(c, x) PROVE DownInv'
  <2>1. Call(c, "invalid", << >>) /\ loop' = loop /\ Free(c)
    BY <1>4 DEF MarkInvalid
  <2>2. states'[x] # None /\ \A y \in Ext : states'[y] = states[y] \/ states[y] = None
    <3>1. CASE states[x] = None
      <4>1. PICK e \in FreshEntry : states' = [states EXCEPT ![x] = e]
        BY <1>4, <3>1 DEF MarkInvalid
      <4>2. e \in Entry
        BY <4>1, FreshEntryUnused
      <4>3. QED BY <4>1, <4>2, <3>1
    <3>2. CASE states[x] # None
      BY <1>4, <3>2 DEF MarkInvalid
    <3>3. QED BY <3>1, <3>2
  <2>3. QED BY <1>1, <2>1, <2>2
<1>5. ASSUME NEW x \in Ext, Remove(c, x) PROVE DownInv'
  <2> DEFINE e == states[x]
             todo == << stop(e), await(e) >>
  <2>1. Call(c, "remove", todo) /\ loop' = loop /\ Free(c) /\ e # None
        /\ states' = [states EXCEPT ![x] = None]
    BY <1>5 DEF Remove
  <2>2. \A f \in Installed : f \in Installed' \/ f = e
    BY <2>1 DEF Installed
  <2>3. DOMAIN todo = 1..2 /\ todo[1].do = "stop" /\ todo[2].do = "await" /\ todo[2] = await(e)
    BY <1>0
  <2>4. DownBegins("remove", todo)
    <3> HIDE DEF todo, e
    <3>1. QED BY <2>2, <2>3 DEF DownBegins
  <2> HIDE DEF todo
  <2>5. QED BY <2>1, <2>4, CallDown
<1>6. ASSUME NEW x \in Ext, Start(c, x) \/ Stop(c, x) \/ Restart(c, x) PROVE DownInv'
  <2> DEFINE e == states[x]
  <2>1. e # None /\ states' = states /\ loop' = loop /\ Free(c)
    BY <1>6 DEF Start, Stop, Restart
  <2>2. \E op \in { "start", "stop", "restart" } :
          \E todo \in { << >>, << stop(e) >>, << start(e) >>, << stop(e), start(e) >> } :
            Call(c, op, todo)
    BY <1>6 DEF Start, Stop, Restart
  <2>3. PICK op, todo :
          /\ op \in { "start", "stop", "restart" }
          /\ todo \in { << >>, << stop(e) >>, << start(e) >>, << stop(e), start(e) >> }
          /\ Call(c, op, todo)
    BY <2>2
  <2>4. \A i \in DOMAIN todo : todo[i].do \in { "stop", "start" } /\ todo[i].e = e
    <3> HIDE DEF e
    <3>1. QED BY <1>0, <2>3
  <2>5. op \notin { "remove", "shutdown" }
    BY <2>3
  <2>6. QED BY <1>1, <2>1, <2>3, <2>4, <2>5
<1>7. CASE Shutdown(c)
  <2>1. PICK q \in [1..Cardinality(Installed) -> Installed] :
           /\ \A i, k \in DOMAIN q : q[i] = q[k] => i = k
           /\ Call(c, "shutdown", [i \in DOMAIN q |-> stop(q[i])]
                                    \o [i \in DOMAIN q |-> await(q[i])])
    BY <1>7 DEF Shutdown
  <2>2. states' = states /\ loop' = loop /\ Free(c) /\ Installed' = Installed
    BY <1>7 DEF Shutdown, Installed
  <2>3. PICK n \in Nat : n = Cardinality(Installed) /\ IsFiniteSet(Installed)
    <3>1. Installed \subseteq Entry
      BY DEF Installed
    <3>2. QED BY <3>1, FS_Subset, FS_CardinalityType
  <2>4. DOMAIN q = 1..n
    BY <2>1, <2>3
  \* Each installed extension is named: as many names as extensions, none twice.
  <2>5. \A e \in Installed : \E i \in 1..n : q[i] = e
    <3>1. q \in Injection(1..n, Installed)
      BY <2>1, <2>3, <2>4 DEF Injection, IsInjective
    <3>2. Cardinality(1..n) = n
      BY <2>3, FS_Interval
    <3>3. q \in Surjection(1..n, Installed)
      BY <2>3, <3>1, <3>2, FS_Injection
    <3>4. QED BY <3>3 DEF Surjection
  <2> DEFINE stops  == [i \in 1..n |-> stop(q[i])]
             awaits == [i \in 1..n |-> await(q[i])]
             todo == stops \o awaits
  <2>6. Call(c, "shutdown", todo)
    BY <2>1, <2>4
  <2>7. Len(stops) = n /\ Len(awaits) = n
    OBVIOUS
  <2>8. /\ DOMAIN todo = 1..(n + n)
        /\ \A i \in 1..n : todo[i] = stop(q[i]) /\ todo[n + i] = await(q[i])
    <3>1. /\ DOMAIN stops = 1..n /\ DOMAIN awaits = 1..n
          /\ \A i \in 1..n : stops[i] = stop(q[i]) /\ awaits[i] = await(q[i])
      OBVIOUS
    <3>2. stops \in Seq(Step) /\ awaits \in Seq(Step)
      <4>1. \A i \in 1..n : q[i] \in Entry
        <5>1. Installed \subseteq Entry
          BY DEF Installed
        <5> HIDE DEF TypeOK
        <5>2. QED BY <2>1, <2>4, <5>1
      <4>2. \A i \in 1..n : stop(q[i]) \in Step /\ await(q[i]) \in Step
        BY <4>1 DEF stop, await, Step
      <4>3. ASSUME NEW f, \A i \in 1..n : f[i] \in Step, f = [i \in 1..n |-> f[i]]
            PROVE  f \in Seq(Step)
        <5> HIDE DEF TypeOK
        <5>1. n \in Nat
          BY <2>3
        <5>2. QED BY <4>3, <5>1
      <4> HIDE DEF TypeOK
      <4>4. stops \in Seq(Step)
        BY <4>2, <4>3
      <4>5. awaits \in Seq(Step)
        BY <4>2, <4>3
      <4>6. QED BY <4>4, <4>5
    <3> HIDE DEF stops, awaits
    <3>3. \A i \in 1..n : i \in 1..(n + n) /\ n + i \in 1..(n + n) /\ ~(n + i <= n) /\ (n + i) - n = i
      BY <2>3
    <3>4. /\ DOMAIN (stops \o awaits) = 1..(n + n)
          /\ \A i \in 1..(n + n) : (stops \o awaits)[i] = IF i <= n THEN stops[i] ELSE awaits[i - n]
      <4> HIDE DEF TypeOK, Step
      <4>1. n \in Nat
        BY <2>3
      <4>2. QED BY <2>7, <3>2, <4>1
    <3>5. QED BY <3>1, <3>3, <3>4
  <2> HIDE DEF todo
  <2>9. \A i \in DOMAIN todo : todo[i].do \in { "stop", "await" }
    <3> SUFFICES ASSUME NEW i \in 1..(n + n) PROVE todo[i].do \in { "stop", "await" }
      BY <2>8
    <3>1. CASE i <= n
      BY <1>0, <2>8, <3>1
    <3>2. CASE i > n
      <4>1. PICK k \in 1..n : i = n + k
        <5>1. i - n \in 1..n /\ i = n + (i - n)
          BY <3>2
        <5>2. QED BY <5>1
      <4>2. QED BY <1>0, <2>8, <4>1
    <3>3. QED BY <3>1, <3>2
  <2>10. \A e \in Installed : \E i \in DOMAIN todo : todo[i] = await(e)
    <3> SUFFICES ASSUME NEW e \in Installed PROVE \E i \in DOMAIN todo : todo[i] = await(e)
      OBVIOUS
    <3>1. PICK i \in 1..n : q[i] = e
      BY <2>5
    <3>2. n + i \in DOMAIN todo /\ todo[n + i] = await(e)
      BY <2>8, <3>1
    <3>3. QED BY <3>2
  <2>11. DownBegins("shutdown", todo)
    BY <2>2, <2>9, <2>10 DEF DownBegins
  <2>12. QED BY <2>2, <2>6, <2>11, CallDown
<1>8. QED
  BY <1>2, <1>3, <1>4, <1>5, <1>6, <1>7, Operate(c) DEF Operate

\* A call that goes on: what it has still to do, and what runs.
LEMMA ProceedDown ==
  ASSUME SequentialInv, Sequential, DownInv, NEW c \in Caller, Proceed(c)
  PROVE  DownInv'
<1> USE SupervisorAssumption DEF SequentialInv, TypeOK
<1>1. \A d \in Caller : d = c
  BY DEF Sequential
<1>2. caller[c] \in CallRecord /\ caller[c].todo \in Seq(Step)
  BY DEF CallRecord
<1> DEFINE s == caller[c].todo
<1>3. \A i \in DOMAIN s : StepSound(c, i) /\ s[i] \in Step
  BY <1>2 DEF DownInv
\* A step is done: what follows it stays.
<1>4. ASSUME NEW do, Doing(c, do), Done(c)
      PROVE  /\ 1 \in DOMAIN s /\ Target(c) = s[1].e /\ s[1].do = do
             /\ caller'[c].todo = Tail(s) /\ caller'[c].op = caller[c].op
             /\ \A i \in DOMAIN Tail(s) : i + 1 \in DOMAIN s /\ Tail(s)[i] = s[i + 1] /\ i + 1 # 1
             /\ \A i \in DOMAIN s : i # 1 => i - 1 \in DOMAIN Tail(s) /\ Tail(s)[i - 1] = s[i]
  <2>1. s \in Seq(Step) /\ s # << >> /\ Target(c) = Head(s) .e /\ Head(s).do = do
    BY <1>2, <1>4 DEF Doing, Target
  <2>2. caller'[c].todo = Tail(s) /\ caller'[c].op = caller[c].op
    BY <1>2, <1>4 DEF Done, CallRecord
  <2> HIDE DEF s, TypeOK
  <2>3. 1 \in DOMAIN s /\ Head(s) = s[1]
    BY <2>1
  <2>4. /\ \A i \in DOMAIN Tail(s) : i + 1 \in DOMAIN s /\ Tail(s)[i] = s[i + 1] /\ i + 1 # 1
        /\ \A i \in DOMAIN s : i # 1 => i - 1 \in DOMAIN Tail(s) /\ Tail(s)[i - 1] = s[i]
    BY <2>1
  <2>5. QED BY <2>1, <2>2, <2>3, <2>4
<1>5. ASSUME NEW do, Doing(c, do), Done(c), states' = states
      PROVE  \A i \in DOMAIN caller'[c].todo : StepSound(c, i)'
  <2> SUFFICES ASSUME NEW i \in DOMAIN Tail(s)
               PROVE  /\ caller'[c].todo[i].do # "awaiting"
                      /\ caller'[c].todo[i].do \in { "start", "join" } =>
                           /\ caller'[c].todo[i].e \in Installed
                           /\ caller'[c].op \notin { "remove", "shutdown" }
    <3>1. caller'[c].todo = Tail(s) /\ Installed' = Installed
      BY <1>4, <1>5 DEF Installed
    <3> HIDE DEF s, TypeOK
    <3>2. QED BY <3>1 DEF StepSound
  <2>1. i + 1 \in DOMAIN s /\ caller'[c].todo[i] = s[i + 1] /\ i + 1 # 1
        /\ caller'[c].op = caller[c].op
    BY <1>4, <1>5
  <2>2. StepSound(c, i + 1)
    BY <1>3, <2>1
  <2>3. QED BY <2>1, <2>2 DEF StepSound
<1>6. ASSUME NEW do, Doing(c, do), Done(c), do \notin { "await", "awaiting" }, NEW e, Waits(c, e)
      PROVE  Waits(c, e)'
  <2>1. PICK i \in DOMAIN s : s[i].e = e /\ s[i].do \in { "await", "awaiting" }
    BY <1>6 DEF Waits
  <2>2. i # 1
    BY <1>4, <1>6, <2>1
  <2>3. i - 1 \in DOMAIN caller'[c].todo /\ caller'[c].todo[i - 1] = s[i]
    BY <1>4, <1>6, <2>2
  <2>4. QED BY <2>1, <2>3 DEF Waits
<1>7. CASE RequestStop(c)
  <2>1. \A e : Runs(e)' => Runs(e)
    <3>1. \A l \in Loop : loop'[l].pc = loop[l].pc /\ loop'[l].entry = loop[l].entry
      <4>1. ASSUME NEW r \in LoopRecord, NEW a, NEW b
            PROVE  /\ [r EXCEPT !.stop = a, !.ctx = b].pc = r.pc
                   /\ [r EXCEPT !.stop = a, !.ctx = b].entry = r.entry
        BY DEF LoopRecord
      <4>2. ASSUME NEW l \in Loop
            PROVE  \E a, b : loop'[l] = [loop[l] EXCEPT !.stop = a, !.ctx = b]
        BY <1>7 DEF RequestStop
      <4>3. \A l \in Loop : loop[l] \in LoopRecord
        OBVIOUS
      <4> HIDE DEF TypeOK, LoopRecord
      <4>4. SUFFICES ASSUME NEW l \in Loop
                     PROVE  loop'[l].pc = loop[l].pc /\ loop'[l].entry = loop[l].entry
        OBVIOUS
      <4>5. PICK a, b : loop'[l] = [loop[l] EXCEPT !.stop = a, !.ctx = b]
        BY <4>2
      <4>6. loop[l] \in LoopRecord
        BY <4>3
      <4>7. QED BY <4>1, <4>5, <4>6
    <3>2. QED BY <3>1 DEF Runs, Live
  <2>2. Doing(c, "stop") /\ Done(c) /\ states' = states /\ Installed' = Installed
    <3> HIDE DEF TypeOK
    <3>1. QED BY <1>7 DEF RequestStop, Installed
  <2>3. \A e : Waits(c, e) => Waits(c, e)'
    BY <1>6, <2>2
  <2>4. caller'[c].op = caller[c].op
    BY <1>4, <2>2
  <2>5. \A e \in Entry : Accounted(e)'
    BY <1>1, <2>1, <2>2, <2>3, <2>4 DEF DownInv, Accounted
  <2>6. QED BY <1>1, <1>5, <2>2, <2>5 DEF DownInv
<1>8. ASSUME NEW do \in { "start", "join" }, Doing(c, do), Launch(c, Target(c)), states' = states
      PROVE  DownInv'
  <2>1. Done(c) /\ Installed' = Installed
    BY <1>8 DEF Launch, Installed
  <2>2. Target(c) \in Installed /\ caller[c].op \notin { "remove", "shutdown" }
    BY <1>3, <1>4, <1>8, <2>1 DEF StepSound
  <2>3. PICK l \in FreshLoop : loop' = [loop EXCEPT ![l] = NewLoop(Target(c), "head")]
    BY <1>8 DEF Launch
  <2>4. \A e : Runs(e)' => Runs(e) \/ e = Target(c)
    BY <2>3, FreshLoopUnused DEF Runs, Live, NewLoop
  <2>5. caller'[c].op = caller[c].op
    BY <1>4, <1>8, <2>1
  <2>6. \A e \in Entry : Accounted(e)'
    BY <1>1, <2>1, <2>2, <2>4, <2>5 DEF DownInv, Accounted
  <2>7. QED BY <1>1, <1>5, <1>8, <2>1, <2>6 DEF DownInv
\* A step is replaced by the wait it comes to.
<1>9. ASSUME NEW do, Doing(c, do), NEW next \in { "join", "awaiting" }, NEW on,
             Blocks(c, next, on), states' = states, entry' = entry, loop' = loop,
             next = "join" => do = "start",
             next = "awaiting" => do = "await" /\ on = entry[Target(c)].cur
      PROVE  DownInv'
  <2> DEFINE t == [do |-> next, e |-> Target(c)]
             u == << t >> \o Tail(s)
  <2>1. s \in Seq(Step) /\ s # << >> /\ Target(c) = s[1].e /\ 1 \in DOMAIN s /\ s[1].do = do
    BY <1>2, <1>9 DEF Doing, Target
  <2>2. caller'[c].todo = u /\ caller'[c].prev = on /\ caller'[c].op = caller[c].op
    BY <1>2, <1>9 DEF Blocks, CallRecord
  <2>3. DOMAIN u = DOMAIN s /\ u[1] = t /\ \A i \in DOMAIN s : i # 1 => u[i] = s[i]
    <3> HIDE DEF s, t
    <3>1. QED BY <2>1
  <2>4. t.do = next /\ t.e = s[1].e
    BY <2>1
  <2>5. Installed' = Installed
    BY <1>9 DEF Installed
  <2> HIDE DEF u, t
  <2>6. ASSUME NEW i \in DOMAIN s PROVE StepSound(c, i)'
    <3>1. CASE i = 1
      BY <1>3, <1>9, <2>1, <2>2, <2>3, <2>4, <2>5, <3>1 DEF StepSound
    <3>2. CASE i # 1
      BY <1>3, <1>9, <2>2, <2>3, <2>5, <2>6, <3>2 DEF StepSound
    <3>3. QED BY <3>1, <3>2
  <2>7. ASSUME NEW e, Waits(c, e) PROVE Waits(c, e)'
    <3>1. PICK i \in DOMAIN s : s[i].e = e /\ s[i].do \in { "await", "awaiting" }
      BY <2>7 DEF Waits
    <3>2. u[i].e = e /\ u[i].do \in { "await", "awaiting" }
      <4>1. CASE i = 1
        BY <1>9, <2>1, <2>3, <2>4, <3>1, <4>1
      <4>2. CASE i # 1
        BY <2>3, <3>1, <4>2
      <4>3. QED BY <4>1, <4>2
    <3>3. QED BY <2>2, <2>3, <3>2 DEF Waits
  <2>8. \A e : Runs(e)' <=> Runs(e)
    BY <1>9 DEF Runs, Live
  <2>9. \A e \in Entry : Accounted(e)'
    BY <1>1, <2>2, <2>5, <2>7, <2>8 DEF DownInv, Accounted
  <2>10. QED BY <1>1, <2>2, <2>3, <2>6, <2>9 DEF DownInv
<1>10. CASE StartLoop(c)
  <2>1. CASE entry[Target(c)].cur = None
    BY <1>8, <1>10, <2>1 DEF StartLoop
  <2>2. CASE entry[Target(c)].cur # None
    BY <1>9, <1>10, <2>2 DEF StartLoop
  <2>3. QED BY <2>1, <2>2
<1>11. CASE Join(c)
  BY <1>8, <1>11 DEF Join
<1>12. CASE Await(c)
  BY <1>9, <1>12 DEF Await
<1>13. CASE Awaited(c)
  <2>1. /\ Doing(c, "awaiting") /\ Done(c) /\ states' = states /\ loop' = loop
        /\ Installed' = Installed /\ loop[caller[c].prev].pc = "done"
    BY <1>13 DEF Awaited, Installed
  <2>2. caller[c].prev = entry[Target(c)].cur /\ caller'[c].op = caller[c].op
    BY <1>3, <1>4, <2>1 DEF StepSound
  <2>3. ~Runs(Target(c))
    BY <2>1, <2>2 DEF Runs, LoopsCurrent, Live
  <2>4. ASSUME NEW e, Waits(c, e), e # Target(c) PROVE Waits(c, e)'
    <3>1. PICK i \in DOMAIN s : s[i].e = e /\ s[i].do \in { "await", "awaiting" }
      BY <2>4 DEF Waits
    <3>2. i # 1
      BY <1>4, <2>1, <2>4, <3>1
    <3>3. i - 1 \in DOMAIN caller'[c].todo /\ caller'[c].todo[i - 1] = s[i]
      BY <1>4, <2>1, <3>2
    <3>4. QED BY <3>1, <3>3 DEF Waits
  <2>5. \A e : Runs(e)' <=> Runs(e)
    BY <2>1 DEF Runs, Live
  <2>6. \A e \in Entry : Accounted(e)'
    BY <1>1, <2>1, <2>2, <2>3, <2>4, <2>5 DEF DownInv, Accounted
  <2>7. QED BY <1>1, <1>5, <2>1, <2>6 DEF DownInv
<1>14. CASE GraceOver(c) \/ Return(c)
  <2>1. /\ caller'[c].todo = << >> /\ caller'[c].op \in { "gave up", "idle" }
        /\ caller[c].op = "shutdown" \/ s = << >>
    <3>1. Idle.todo = << >> /\ [Idle EXCEPT !.op = "gave up"].todo = << >>
          /\ Idle.op = "idle" /\ [Idle EXCEPT !.op = "gave up"].op = "gave up"
      BY DEF Idle
    <3>2. caller'[c] = Idle \/ caller'[c] = [Idle EXCEPT !.op = "gave up"]
      <4> HIDE DEF Idle
      <4>1. QED BY <1>14 DEF GraceOver, Return
    <3>3. caller[c].op = "shutdown" \/ s = << >>
      BY <1>14 DEF GraceOver, Return
    <3> HIDE DEF Idle, s
    <3>4. QED BY <3>1, <3>2, <3>3
  <2>2. states' = states /\ entry' = entry /\ loop' = loop /\ Installed' = Installed
    <3> HIDE DEF TypeOK
    <3>1. QED BY <1>14 DEF GraceOver, Return, Installed
  <2>3. \A e : Runs(e)' <=> Runs(e)
    BY <2>2 DEF Runs, Live
  <2>4. ASSUME NEW e \in Entry, Runs(e) PROVE e \in Installed
    <3>1. s = << >> => ~Waits(c, e)
      BY DEF Waits
    <3>2. QED BY <1>1, <2>1, <2>4, <3>1 DEF DownInv, Accounted
  <2>5. \A e \in Entry : Accounted(e)'
    BY <1>1, <2>1, <2>2, <2>3, <2>4 DEF Accounted
  <2>6. \A d \in Caller : DOMAIN caller'[d].todo = {}
    <3>1. DOMAIN << >> = {}
      OBVIOUS
    <3>2. \A d \in Caller : caller'[d].todo = << >>
      <4> HIDE DEF TypeOK, s
      <4>1. QED BY <1>1, <2>1
    <3> HIDE DEF TypeOK
    <3>3. QED BY <3>1, <3>2
  <2>7. QED BY <2>5, <2>6 DEF DownInv
<1>15. QED
  BY <1>7, <1>10, <1>11, <1>12, <1>13, <1>14, Proceed(c) DEF Proceed

\* A goroutine ends of itself and starts nothing; when the daemon panics nothing lives.
LEMMA LoopFrame ==
  ASSUME SequentialInv, NEW l \in Loop, Advance(l) \/ ChildExits(l) \/ Notify(l), ~Panic(l)
  PROVE  /\ states' = states /\ caller' = caller
         /\ \A e \in Entry : entry'[e].cur = entry[e].cur
         /\ \A k \in Loop : loop'[k].entry = loop[k].entry /\ (Live(k)' => Live(k))
<1> USE SupervisorAssumption DEF SequentialInv, TypeOK, EntryRecord, LoopRecord
<1>1. states' = states /\ caller' = caller
  BY DEF Advance, StopAtHead, ReadManifest, Prepare, Propagate, Spawn, SpawnFails, ReapStopped,
         ReapBroken, ReapFinal, ReapRestart, Reaped, BackoffElapses, BackoffStopped, CloseDone,
         ChildExits, Notify, LoopOnly
<1>2. \A e \in Entry : entry'[e].cur = entry[e].cur
  <2>1. CASE StopAtHead(l) \/ BackoffStopped(l) \/ Notify(l)
    <3>1. PICK st \in Statuses : SetStatus(l, st)
      BY <2>1 DEF StopAtHead, BackoffStopped, Notify, Statuses
    <3>2. QED BY <3>1 DEF SetStatus
  <2>2. CASE Prepare(l)
    BY <2>2 DEF Prepare
  <2>3. CASE ReapStopped(l) \/ ReapBroken(l) \/ ReapFinal(l) \/ ReapRestart(l)
    <3>1. ASSUME NEW st, NEW n, NEW pc, Reaped(l, st, n, pc)
          PROVE  \A e \in Entry : entry'[e].cur = entry[e].cur
      BY <3>1 DEF Reaped
    <3>2. QED BY <2>3, <3>1 DEF ReapStopped, ReapBroken, ReapFinal, ReapRestart
  <2>4. CASE entry' = entry
    BY <2>4
  <2>5. QED
    BY <2>1, <2>2, <2>3, <2>4, Advance(l) \/ ChildExits(l) \/ Notify(l), ~Panic(l)
       DEF Advance, ReadManifest, Propagate, Spawn, SpawnFails, BackoffElapses, CloseDone,
           ChildExits
<1>3. \A k \in Loop : loop'[k].entry = loop[k].entry /\ (Live(k)' => Live(k))
  <2>1. ASSUME NEW pc, At(l, pc), pc \notin { "off", "done", "panic" } PROVE Live(l)
    BY <2>1 DEF At, Live
  <2>2. ASSUME Live(l), \A k \in Loop : /\ loop'[k].entry = loop[k].entry
                                        /\ k # l => loop'[k].pc = loop[k].pc
        PROVE  \A k \in Loop : loop'[k].entry = loop[k].entry /\ (Live(k)' => Live(k))
    BY <2>2 DEF Live
  <2>3. CASE StopAtHead(l) \/ BackoffStopped(l) \/ BackoffElapses(l) \/ CloseDone(l)
    <3>1. Live(l) /\ \E pc : Goto(l, pc)
      BY <2>1, <2>3 DEF StopAtHead, BackoffStopped, BackoffElapses, CloseDone
    <3>2. QED BY <2>2, <3>1 DEF Goto
  <2>4. CASE ReadManifest(l) \/ Prepare(l)
    BY <2>1, <2>2, <2>4 DEF ReadManifest, Prepare
  <2>5. CASE Propagate(l) \/ Spawn(l) \/ SpawnFails(l) \/ ChildExits(l)
    <3>1. Live(l)
      BY <2>1, <2>5 DEF Propagate, Spawn, SpawnFails, ChildExits, At
    <3>2. QED BY <2>2, <2>5, <3>1 DEF Propagate, Spawn, SpawnFails, ChildExits
  <2>6. CASE ReapStopped(l) \/ ReapBroken(l) \/ ReapFinal(l) \/ ReapRestart(l)
    <3>1. ASSUME NEW st, NEW n, NEW pc, Reaped(l, st, n, pc)
          PROVE  \A k \in Loop : /\ loop'[k].entry = loop[k].entry
                                 /\ k # l => loop'[k].pc = loop[k].pc
      BY <3>1 DEF Reaped
    <3>2. Live(l)
      BY <2>1, <2>6 DEF ReapStopped, ReapBroken, ReapFinal, ReapRestart
    <3>3. QED BY <2>2, <2>6, <3>1, <3>2 DEF ReapStopped, ReapBroken, ReapFinal, ReapRestart
  <2>7. CASE Notify(l)
    BY <2>7 DEF Notify, Live
  <2>8. QED BY <2>3, <2>4, <2>5, <2>6, <2>7, Advance(l) \/ ChildExits(l) \/ Notify(l), ~Panic(l)
            DEF Advance
<1>4. QED BY <1>1, <1>2, <1>3

LEMMA LoopDown ==
  ASSUME SequentialInv, DownInv, NEW l \in Loop, Advance(l) \/ ChildExits(l) \/ Notify(l)
  PROVE  DownInv'
<1>1. CASE Panic(l)
  <2>1. \A k \in Loop : loop'[k].pc = "panic"
    <3>1. \A k \in Loop : loop'[k] = [loop[k] EXCEPT !.pc = "panic", !.notes = 0]
      BY <1>1 DEF Panic
    <3>2. \A k \in Loop : loop[k] \in LoopRecord
      BY DEF SequentialInv, TypeOK
    <3>3. ASSUME NEW r \in LoopRecord PROVE [r EXCEPT !.pc = "panic", !.notes = 0].pc = "panic"
      BY DEF LoopRecord
    <3> HIDE DEF LoopRecord
    <3>4. ASSUME NEW k \in Loop PROVE loop'[k].pc = "panic"
      <4>1. loop[k] \in LoopRecord /\ loop'[k] = [loop[k] EXCEPT !.pc = "panic", !.notes = 0]
        BY <3>1, <3>2
      <4>2. QED BY <3>3, <4>1
    <3>5. QED BY <3>4
  <2>2. \A d \in Caller : caller'[d].todo = << >>
    BY <1>1 DEF Panic, Idle
  <2>3. \A e : ~Runs(e)'
    BY <2>1 DEF Runs, Live
  <2>4. QED BY <2>2, <2>3 DEF DownInv, Accounted
<1>2. CASE ~Panic(l)
  <2>1. /\ states' = states /\ caller' = caller
        /\ \A e \in Entry : entry'[e].cur = entry[e].cur
        /\ \A k \in Loop : loop'[k].entry = loop[k].entry /\ (Live(k)' => Live(k))
    BY <1>2, LoopFrame
  <2>2. Installed' = Installed /\ \A e : Runs(e)' => Runs(e)
    BY <2>1 DEF Installed, Runs
  <2>3. \A c \in Caller : \A e : Waits(c, e)' <=> Waits(c, e)
    BY <2>1 DEF Waits
  <2>4. \A e \in Entry : Accounted(e)'
    BY <2>1, <2>2, <2>3 DEF DownInv, Accounted
  <2>5. \A c \in Caller : \A i \in DOMAIN caller[c].todo : caller[c].todo[i].e \in Entry
    <3> SUFFICES ASSUME NEW c \in Caller, NEW i \in DOMAIN caller[c].todo
                 PROVE  caller[c].todo[i].e \in Entry
      OBVIOUS
    <3>1. caller[c].todo \in Seq(Step)
      BY DEF SequentialInv, TypeOK, CallRecord
    <3>2. caller[c].todo[i] \in Step
      BY <3>1
    <3>3. QED BY <3>2 DEF Step
  <2>6. \A c \in Caller : \A i \in DOMAIN caller'[c].todo : StepSound(c, i)'
    BY <2>1, <2>2, <2>5 DEF DownInv, StepSound
  <2>7. QED BY <2>4, <2>6 DEF DownInv
<1>3. QED BY <1>1, <1>2

\* A removal that has returned, and a shutdown that was not cut off by its grace, leave
\* no goroutine behind (Remove, Shutdown), provided the supervisor is called from one
\* goroutine only: a second one can start a loop again for an entry that is being
\* removed, or add an extension while the others are taken down.
THEOREM NothingLeftSequential ==
  ASSUME Sequential
  PROVE  Spec => []NothingLeftBehind
<1>1. Init => DownInv
  <2> SUFFICES ASSUME Init PROVE DownInv
    OBVIOUS
  <2>1. \A l \in Loop : ~Live(l)
    BY DEF Init, NewLoop, Live
  <2>2. \A c \in Caller : caller[c].todo = << >>
    BY DEF Init, Idle
  <2>3. QED BY <2>1, <2>2 DEF DownInv, Accounted, Runs
<1>2. SequentialInv /\ DownInv /\ [Next]_vars => DownInv'
  <2> SUFFICES ASSUME SequentialInv, DownInv, [Next]_vars PROVE DownInv'
    OBVIOUS
  <2>1. CASE UNCHANGED vars
    BY <2>1 DEF vars, DownInv, StepSound, Accounted, Runs, Waits, Live, Installed
  <2>2. QED BY <2>1, OperateDown, ProceedDown, LoopDown DEF Next
<1>3. SequentialInv /\ DownInv => NothingLeftBehind
  <2> SUFFICES ASSUME SequentialInv, DownInv PROVE NothingLeftBehind
    OBVIOUS
  <2>1. \A c \in Caller : ~Busy(c) => \A e : ~Waits(c, e)
    BY DEF Busy, Waits
  <2>2. RemovedIsGone
    <3> SUFFICES ASSUME NEW e \in Entry, e \notin Installed,
                        \A c \in Caller : ~(caller[c].op = "remove" /\ Busy(c))
                 PROVE  LoopsOf(e) = {}
      BY DEF RemovedIsGone
    <3>1. ~Runs(e)
      BY <2>1 DEF DownInv, Accounted
    <3>2. QED BY <3>1 DEF Runs, LoopsOf
  <2>3. ShutdownIsClean
    <3> SUFFICES ASSUME NEW c \in Caller, caller[c].op = "shutdown", ~Busy(c), NEW l \in Loop, Live(l)
                 PROVE  FALSE
      BY DEF ShutdownIsClean
    <3>1. loop[l].entry \in Entry
      BY DEF SequentialInv, LoopsOwned, Live
    <3>2. Runs(loop[l].entry)
      BY DEF Runs
    <3>3. QED BY <2>1, <3>1, <3>2 DEF DownInv, Accounted
  <2>4. QED BY <2>2, <2>3 DEF NothingLeftBehind
<1>4. QED BY <1>1, <1>2, <1>3, SequentialInit, SequentialStep, PTL DEF Spec

=============================================================================
