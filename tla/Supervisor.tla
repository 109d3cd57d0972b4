----------------------------- MODULE Supervisor -----------------------------
(***************************************************************************)
(* The extension supervisor (internal/extensions): entries that outlive      *)
(* neither their removal nor each other, the goroutine that drives each      *)
(* extension through spawn, wait, backoff and respawn, and the operations    *)
(* that the manifest watcher, the IPC handlers and the shutdown of the       *)
(* daemon call from goroutines of their own.                                 *)
(*                                                                           *)
(* An operation is its first critical section and then a list of calls still *)
(* to make: requestStop, startLoop, a wait for doneCh.  The loop's stopReq,  *)
(* doneCh and context are fields of the loop; an entry names the loop whose  *)
(* channels it holds (cur) and the loop whose context it would cancel.       *)
(***************************************************************************)
EXTENDS Integers, Sequences, FiniteSets

CONSTANTS
  Ext,        \* names of extensions
  Entry,      \* the procState objects that are ever made
  Loop,       \* the supervise goroutines that are ever started
  Caller,     \* goroutines that call the supervisor: timers, IPC, main
  Manifest,   \* the valid manifests that are ever saved
  Ops,        \* the operations that are called
  MaxOps,     \* bound on the number of calls
  MaxNotes,   \* bound on the notifiers of a loop that have not run yet
  None

AllOps == { "apply", "remove", "invalid", "start", "stop", "restart", "shutdown" }
Policies == { "always", "on_failure", "never" }

\* What MarkInvalid puts into an entry that has no manifest: enabled by default,
\* and without a command to run.
Placeholder == [spec |-> 0, enabled |-> TRUE, policy |-> "on_failure", max |-> 0]

ASSUME SupervisorAssumption ==
  /\ IsFiniteSet(Entry)
  /\ Manifest \subseteq [spec : Nat, enabled : BOOLEAN, policy : Policies, max : Nat]
  /\ Ops \subseteq AllOps /\ MaxOps \in Nat /\ MaxNotes \in Nat \ {0}
  /\ None \notin Entry \cup Loop \cup Manifest \cup { Placeholder }

VARIABLES
  states,   \* s.states
  entry,    \* the procState objects
  loop,     \* the goroutines of run
  caller,   \* where each caller is
  ops,      \* the number of calls made
  told      \* the names an extension.failed event was published for

vars == << states, entry, loop, caller, ops, told >>

IsEnabled(m) == m.enabled

\* EffectiveRestart: zero means the default, which is five.
MaxFailures(m) == IF m.max = 0 THEN 5 ELSE m.max

\* Mutation: only the limit on failures is compared.
specEqualMax(a, b) == a.max = b.max

\* The fields that make a restart necessary: all but enabled.
specEqual(a, b) == [a EXCEPT !.enabled = TRUE] = [b EXCEPT !.enabled = TRUE]

\* "wish" is not in the code: what the operator asked for last.
NewEntry(m, st) ==
  [manifest |-> m, status |-> st, failures |-> 0, manual |-> FALSE,
   cur |-> None, cancel |-> None, wish |-> "run"]
NoEntry == NewEntry(None, "stopped")

NewLoop(e, pc) ==
  [entry |-> e, pc |-> pc, stop |-> FALSE, ctx |-> FALSE, m |-> None,
   code |-> 0, healthy |-> FALSE, notes |-> 0, broke |-> FALSE]

Idle == [op |-> "idle", todo |-> << >>, prev |-> None]

Init ==
  /\ states = [x \in Ext |-> None] /\ entry = [e \in Entry |-> NoEntry]
  /\ loop = [l \in Loop |-> NewLoop(None, "off")]
  /\ caller = [c \in Caller |-> Idle] /\ ops = 0 /\ told = {}

Free(c) == caller[c].op = "idle" /\ ops < MaxOps
Call(c, op, todo) ==
  /\ op \in Ops /\ ops' = ops + 1
  /\ caller' = [caller EXCEPT ![c] = [op |-> op, todo |-> todo, prev |-> None]]

stop(e)  == [do |-> "stop", e |-> e]
start(e) == [do |-> "start", e |-> e]
await(e) == [do |-> "await", e |-> e]

-----------------------------------------------------------------------------
(* The first critical section of each operation.                            *)

\* The object and the goroutine that are made next, if the bounds allow one.
OneOf(S)   == IF S = {} THEN {} ELSE { CHOOSE a \in S : TRUE }
FreshEntry == OneOf({ e \in Entry : entry[e].manifest = None })
FreshLoop  == OneOf({ l \in Loop : loop[l].pc = "off" })

Alive(st) == st \in { "running", "starting", "backoff" }

ApplyNew(c, x, m) ==
  /\ Free(c) /\ states[x] = None
  /\ \E e \in FreshEntry :
       /\ entry' = [entry EXCEPT ![e] = NewEntry(m, "stopped")]
       /\ states' = [states EXCEPT ![x] = e]
       /\ Call(c, "apply", << start(e) >>)
  /\ UNCHANGED << loop, told >>

ApplyChange(c, x, m) ==
  /\ Free(c) /\ states[x] # None
  /\ LET e    == states[x]
         want == IsEnabled(m) /\ ~entry[e].manual
     IN  /\ entry' = [entry EXCEPT ![e].manifest = m]
         /\ Call(c, "apply",
              IF ~want THEN << stop(e) >>
              ELSE IF ~specEqual(entry[e].manifest, m) THEN << stop(e), start(e) >>
              ELSE IF ~Alive(entry[e].status) THEN << start(e) >> ELSE << >>)
  /\ UNCHANGED << states, loop, told >>

MarkInvalid(c, x) ==
  /\ Free(c)
  /\ IF states[x] = None
     THEN \E e \in FreshEntry :
            /\ entry' = [entry EXCEPT ![e] = NewEntry(Placeholder, "invalid")]
            /\ states' = [states EXCEPT ![x] = e]
     ELSE /\ entry' = [entry EXCEPT ![states[x]].status = "invalid"]
          /\ UNCHANGED states
  /\ told' = told \cup {x} /\ Call(c, "invalid", << >>)
  /\ UNCHANGED loop

\* Mutation: it does not wait for the loop.
RemoveNoWait(c, x) ==
  /\ Free(c) /\ states[x] # None
  /\ states' = [states EXCEPT ![x] = None]
  /\ Call(c, "remove", << stop(states[x]) >>)
  /\ UNCHANGED << entry, loop, told >>

Remove(c, x) ==
  /\ Free(c) /\ states[x] # None
  /\ states' = [states EXCEPT ![x] = None]
  /\ Call(c, "remove", << stop(states[x]), await(states[x]) >>)
  /\ UNCHANGED << entry, loop, told >>

\* A manifest is never nil, so that check of the code never fires.
Start(c, x) ==
  /\ Free(c) /\ states[x] # None
  /\ LET e == states[x]
         already == entry[e].cur # None /\ entry[e].status \notin { "stopped", "failed" }
     IN  /\ entry' = [entry EXCEPT ![e].manual = FALSE, ![e].failures = 0,
                                   ![e].wish = "run"]
         /\ Call(c, "start", IF already THEN << >> ELSE << start(e) >>)
  /\ UNCHANGED << states, loop, told >>

\* Mutation: the entry is pinned and nobody tells the loop.
StopPins(c, x) ==
  /\ Free(c) /\ states[x] # None
  /\ entry' = [entry EXCEPT ![states[x]].manual = TRUE, ![states[x]].wish = "stay"]
  /\ Call(c, "stop", << >>)
  /\ UNCHANGED << states, loop, told >>

Stop(c, x) ==
  /\ Free(c) /\ states[x] # None
  /\ entry' = [entry EXCEPT ![states[x]].manual = TRUE, ![states[x]].wish = "stay"]
  /\ Call(c, "stop", << stop(states[x]) >>)
  /\ UNCHANGED << states, loop, told >>

Restart(c, x) ==
  /\ Free(c) /\ states[x] # None
  /\ entry' = [entry EXCEPT ![states[x]].failures = 0, ![states[x]].wish = "run"]
  /\ Call(c, "restart", << stop(states[x]), start(states[x]) >>)
  /\ UNCHANGED << states, loop, told >>

Installed == { states[x] : x \in Ext } \ {None}

\* Mutation: the loops are asked to stop and the last is not waited for.
ShutdownAllButLast(c) ==
  /\ Free(c)
  /\ \E q \in [1..Cardinality(Installed) -> Installed] :
       /\ \A i, k \in DOMAIN q : q[i] = q[k] => i = k
       /\ Call(c, "shutdown", [i \in DOMAIN q |-> stop(q[i])]
                                \o [i \in 1..(Len(q) - 1) |-> await(q[i])])
  /\ UNCHANGED << states, entry, loop, told >>

\* Every loop is asked to stop before the first is waited for.
Shutdown(c) ==
  /\ Free(c)
  /\ \E q \in [1..Cardinality(Installed) -> Installed] :
       /\ \A i, k \in DOMAIN q : q[i] = q[k] => i = k
       /\ Call(c, "shutdown", [i \in DOMAIN q |-> stop(q[i])]
                                \o [i \in DOMAIN q |-> await(q[i])])
  /\ UNCHANGED << states, entry, loop, told >>

-----------------------------------------------------------------------------
(* The calls an operation still makes.                                       *)

Doing(c, do) == caller[c].todo # << >> /\ Head(caller[c].todo).do = do
Target(c)    == Head(caller[c].todo).e
Done(c)      == caller' = [caller EXCEPT ![c].todo = Tail(@), ![c].prev = None]
Blocks(c, do, on) ==
  caller' = [caller EXCEPT ![c].todo = << [do |-> do, e |-> Target(c)] >> \o Tail(@),
                           ![c].prev = on]

RequestStop(c) ==
  /\ Doing(c, "stop") /\ Done(c)
  /\ LET st == entry[Target(c)]
     IN  loop' = [l \in Loop |-> [loop[l] EXCEPT !.stop = @ \/ l = st.cur,
                                                 !.ctx  = @ \/ l = st.cancel]]
  /\ UNCHANGED << states, entry, ops, told >>

\* The last section of startLoop: channels, status, and the goroutine.
Launch(c, e) ==
  \E l \in FreshLoop :
    /\ loop' = [loop EXCEPT ![l] = NewLoop(e, "head")]
    /\ entry' = [entry EXCEPT ![e].cur = l, ![e].status = "starting",
                              ![e].failures = 0]
    /\ Done(c)

\* Mutations: the previous loop is not waited for; nothing happens while it lives.
StartLoopAtOnce(c) ==
  /\ Doing(c, "start") /\ Launch(c, Target(c))
  /\ UNCHANGED << states, ops, told >>
StartLoopUnlessAlive(c) ==
  /\ Doing(c, "start")
  /\ LET e == Target(c)
     IN  IF entry[e].cur = None \/ loop[entry[e].cur].pc = "done"
         THEN Launch(c, e) ELSE Done(c) /\ UNCHANGED << entry, loop >>
  /\ UNCHANGED << states, ops, told >>

StartLoop(c) ==
  /\ Doing(c, "start")
  /\ LET e == Target(c)
     IN  IF entry[e].cur = None
         THEN Launch(c, e)
         ELSE Blocks(c, "join", entry[e].cur) /\ UNCHANGED << entry, loop >>
  /\ UNCHANGED << states, ops, told >>

\* The lock is not held while the previous loop is waited for.
Join(c) ==
  /\ Doing(c, "join") /\ loop[caller[c].prev].pc = "done"
  /\ Launch(c, Target(c))
  /\ UNCHANGED << states, ops, told >>

\* The channel is read without the lock; a receive from nil never returns.
Await(c) ==
  /\ Doing(c, "await") /\ Blocks(c, "awaiting", entry[Target(c)].cur)
  /\ UNCHANGED << states, entry, loop, ops, told >>

Awaited(c) ==
  /\ Doing(c, "awaiting") /\ caller[c].prev # None
  /\ loop[caller[c].prev].pc = "done" /\ Done(c)
  /\ UNCHANGED << states, entry, loop, ops, told >>

\* Shutdown returns when the grace is over, whatever it has not waited for yet.
GraceOver(c) ==
  /\ caller[c].op = "shutdown" /\ Doing(c, "awaiting")
  /\ caller[c].prev # None => loop[caller[c].prev].pc # "done"
  /\ caller' = [caller EXCEPT ![c] = [Idle EXCEPT !.op = "gave up"]]
  /\ UNCHANGED << states, entry, loop, ops, told >>

Return(c) ==
  /\ caller[c].op # "idle" /\ caller[c].todo = << >>
  /\ caller' = [caller EXCEPT ![c] = Idle]
  /\ UNCHANGED << states, entry, loop, ops, told >>

-----------------------------------------------------------------------------
(* The supervise goroutine.                                                  *)

At(l, pc) == loop[l].pc = pc
Owner(l)  == entry[loop[l].entry]
Goto(l, pc) == loop' = [loop EXCEPT ![l].pc = pc]
SetStatus(l, st) == entry' = [entry EXCEPT ![loop[l].entry].status = st]
LoopOnly == UNCHANGED << states, caller, ops, told >>

Wanted(l) == IsEnabled(Owner(l).manifest) /\ ~Owner(l).manual

StopAtHead(l) ==
  /\ At(l, "head") /\ (loop[l].stop \/ ~Wanted(l))
  /\ Goto(l, "leaving") /\ SetStatus(l, "stopped") /\ LoopOnly

\* The manifest is read in one section of the lock, the context stored in another.
ReadManifest(l) ==
  /\ At(l, "head") /\ ~loop[l].stop /\ Wanted(l)
  /\ loop' = [loop EXCEPT ![l].pc = "read", ![l].m = Owner(l).manifest]
  /\ UNCHANGED entry /\ LoopOnly

Prepare(l) ==
  /\ At(l, "read")
  /\ loop' = [loop EXCEPT ![l].pc = "ready", ![l].ctx = FALSE]
  /\ entry' = [entry EXCEPT ![loop[l].entry].cancel = l,
                            ![loop[l].entry].status = "starting"]
  /\ LoopOnly

\* Mutation: a stop during the backoff and the preparation is not passed on.
PropagateNever(l) == FALSE /\ UNCHANGED vars

\* The goroutine that turns a closed stopReq into a cancelled context.
Propagate(l) ==
  /\ loop[l].pc \in { "ready", "up" } /\ loop[l].stop /\ ~loop[l].ctx
  /\ loop' = [loop EXCEPT ![l].ctx = TRUE] /\ UNCHANGED entry /\ LoopOnly

Spawn(l) ==
  /\ At(l, "ready") /\ ~loop[l].ctx /\ loop[l].m # Placeholder
  /\ loop[l].notes < MaxNotes
  /\ loop' = [loop EXCEPT ![l].pc = "up", ![l].notes = @ + 1]
  /\ UNCHANGED entry /\ LoopOnly

\* Command[0] of an empty command: the daemon panics, and nothing of it goes on.
Panic(l) ==
  /\ At(l, "ready") /\ loop[l].m = Placeholder
  /\ loop' = [k \in Loop |-> [loop[k] EXCEPT !.pc = "panic", !.notes = 0]]
  /\ caller' = [c \in Caller |-> [Idle EXCEPT !.op = "panic"]]
  /\ UNCHANGED << states, entry, ops, told >>

\* No log file, no such command, or a context that is cancelled already: an error
\* and an exit code of zero.
SpawnFails(l) ==
  /\ At(l, "ready") /\ loop[l].m # Placeholder
  /\ loop' = [loop EXCEPT ![l].pc = "exited", ![l].code = 0, ![l].healthy = FALSE]
  /\ UNCHANGED entry /\ LoopOnly

ChildExits(l) ==
  /\ At(l, "up")
  /\ \E code \in { 0, 1 }, long \in BOOLEAN :
       loop' = [loop EXCEPT ![l].pc = "exited", ![l].code = code, ![l].healthy = long]
  /\ UNCHANGED entry /\ LoopOnly

\* The goroutine that records the pid of a spawn and publishes extension.started.
\* Nothing orders it before the exit of the child.
Notify(l) ==
  /\ loop[l].notes > 0
  /\ loop' = [loop EXCEPT ![l].notes = @ - 1] /\ SetStatus(l, "running") /\ LoopOnly

ShouldRestart(l) ==
  \/ loop[l].m.policy = "always"
  \/ loop[l].m.policy = "on_failure" /\ loop[l].code # 0

\* Mutations: a long run takes one failure back; only a non-zero code is a failure.
FailuresDecay(l) ==
  IF loop[l].healthy THEN Owner(l).failures - 1
  ELSE IF ShouldRestart(l) THEN Owner(l).failures + 1 ELSE Owner(l).failures
FailuresNonZero(l) ==
  IF loop[l].healthy \/ loop[l].code = 0 THEN 0 ELSE Owner(l).failures + 1

\* Consecutive failures after this exit.
Failures(l) ==
  IF loop[l].healthy THEN 0
  ELSE IF ShouldRestart(l) THEN Owner(l).failures + 1 ELSE Owner(l).failures

Breaks(l) == ShouldRestart(l) /\ Failures(l) >= MaxFailures(loop[l].m)

\* The result of the spawn is local to the iteration and is dropped here.
Reaped(l, st, n, pc) ==
  /\ entry' = [entry EXCEPT ![loop[l].entry].status = st, ![loop[l].entry].failures = n,
                            ![loop[l].entry].cancel = None]
  /\ loop' = [loop EXCEPT ![l].pc = pc, ![l].code = 0, ![l].healthy = FALSE,
                          ![l].broke = (st = "failed")]
  /\ LoopOnly

ReapStopped(l) ==
  /\ At(l, "exited") /\ loop[l].stop
  /\ Reaped(l, "stopped", Owner(l).failures, "leaving")

ReapBroken(l) ==
  /\ At(l, "exited") /\ ~loop[l].stop /\ Breaks(l)
  /\ Reaped(l, "failed", Failures(l), "leaving")

ReapFinal(l) ==
  /\ At(l, "exited") /\ ~loop[l].stop /\ ~ShouldRestart(l)
  /\ Reaped(l, "stopped", Failures(l), "leaving")

ReapRestart(l) ==
  /\ At(l, "exited") /\ ~loop[l].stop /\ ShouldRestart(l) /\ ~Breaks(l)
  /\ Reaped(l, "backoff", Failures(l), "backoff")

BackoffElapses(l) ==
  /\ At(l, "backoff") /\ Goto(l, "head") /\ UNCHANGED entry /\ LoopOnly

BackoffStopped(l) ==
  /\ At(l, "backoff") /\ loop[l].stop
  /\ Goto(l, "leaving") /\ SetStatus(l, "stopped") /\ LoopOnly

CloseDone(l) ==
  /\ At(l, "leaving") /\ Goto(l, "done") /\ UNCHANGED entry /\ LoopOnly

-----------------------------------------------------------------------------

Operate(c) ==
  \/ \E x \in Ext :
       \/ \E m \in Manifest : ApplyNew(c, x, m) \/ ApplyChange(c, x, m)
       \/ MarkInvalid(c, x) \/ Remove(c, x)
       \/ Start(c, x) \/ Stop(c, x) \/ Restart(c, x)
  \/ Shutdown(c)

Proceed(c) ==
  \/ RequestStop(c) \/ StartLoop(c) \/ Join(c) \/ Await(c) \/ Awaited(c)
  \/ GraceOver(c) \/ Return(c)

\* What the goroutine does without waiting for its child.
Advance(l) ==
  \/ StopAtHead(l) \/ ReadManifest(l) \/ Prepare(l) \/ Propagate(l) \/ Spawn(l) \/ SpawnFails(l)
  \/ ReapStopped(l) \/ ReapBroken(l) \/ ReapFinal(l) \/ ReapRestart(l)
  \/ BackoffElapses(l) \/ BackoffStopped(l) \/ CloseDone(l) \/ Panic(l)

Next ==
  \/ \E c \in Caller : Operate(c) \/ Proceed(c)
  \/ \E l \in Loop : Advance(l) \/ ChildExits(l) \/ Notify(l)

Spec == Init /\ [][Next]_vars

\* Callers and loops are scheduled, a child whose context is cancelled is killed
\* after WaitDelay.  Nobody has to call the supervisor and no other child ends.
FairSpec ==
  /\ Spec
  /\ \A c \in Caller : WF_vars(Proceed(c))
  /\ \A l \in Loop : /\ WF_vars(Advance(l))
                     /\ WF_vars(Notify(l))
                     /\ WF_vars(loop[l].ctx /\ ChildExits(l))

-----------------------------------------------------------------------------
(* Properties.                                                               *)

Statuses == { "stopped", "starting", "running", "backoff", "failed", "invalid" }
Points   == { "off", "head", "read", "ready", "up", "exited", "backoff", "leaving", "done",
              "panic" }
Manifests == Manifest \cup { Placeholder }

EntryRecord ==
  [manifest : Manifests \cup {None}, status : Statuses, failures : Nat,
   manual : BOOLEAN, cur : Loop \cup {None}, cancel : Loop \cup {None},
   wish : { "run", "stay" }]
LoopRecord ==
  [entry : Entry \cup {None}, pc : Points, stop : BOOLEAN, ctx : BOOLEAN,
   m : Manifests \cup {None}, code : { 0, 1 }, healthy : BOOLEAN,
   notes : 0..MaxNotes, broke : BOOLEAN]
Step == [do : { "stop", "start", "await", "join", "awaiting" }, e : Entry]
CallRecord ==
  [op : AllOps \cup { "idle", "gave up", "panic" }, todo : Seq(Step),
   prev : Loop \cup {None}]

TypeOK ==
  /\ states \in [Ext -> Entry \cup {None}]
  /\ entry \in [Entry -> EntryRecord] /\ loop \in [Loop -> LoopRecord]
  /\ caller \in [Caller -> CallRecord]
  /\ ops \in 0..MaxOps /\ told \subseteq Ext

Live(l)     == loop[l].pc \notin { "off", "done", "panic" }
LoopsOf(e)  == { l \in Loop : Live(l) /\ loop[l].entry = e }
Busy(c)     == caller[c].todo # << >>

\* "One goroutine per extension drives its spawn, wait, restart loop": there are
\* never two for one entry (startLoop).  Holds while calls come one at a time.
OneLoop == \A e \in Entry : Cardinality(LoopsOf(e)) <= 1

\* Once Remove has returned nothing runs for the entry, which nobody can stop any
\* more.
RemovedIsGone ==
  \A e \in Entry :
    /\ e \notin Installed
    /\ \A c \in Caller : ~(caller[c].op = "remove" /\ Busy(c))
    => LoopsOf(e) = {}

\* When Shutdown returns before the grace is over, every loop has ended.
ShutdownIsClean ==
  \A c \in Caller : caller[c].op = "shutdown" /\ ~Busy(c) => \A l \in Loop : ~Live(l)

\* A call that took an extension, or all of them, down leaves nothing running
\* (Remove, Shutdown).
NothingLeftBehind == RemovedIsGone /\ ShutdownIsClean

\* A loop that was asked to stop ends, whatever the number of callers
\* (requestStop, run).
StopIsFinal == \A l \in Loop : loop[l].stop ~> ~Live(l)

\* A manual stop takes effect: the child of the entry ends and no other is
\* spawned for it, unless the operator changes his mind (Stop).
StopReaches ==
  \A e \in Entry : entry[e].manual ~> (~entry[e].manual \/ LoopsOf(e) = {})

\* No child goes on under a manifest whose spawn-relevant fields were replaced
\* (Apply).
SpecFollows ==
  \A l \in Loop :
    LET Outdated == At(l, "up") /\ loop[l].m.spec # Owner(l).manifest.spec
    IN  Outdated ~> ~Outdated

\* The breaker does its job: a loop that spawns for ever has children that live
\* long (run).
BreakerWorks ==
  \A l \in Loop : []<>At(l, "backoff") => []<>(At(l, "exited") /\ loop[l].healthy)

\* Remove "returns once the supervise loop has exited", and so does every other
\* call that waits (Remove).
EveryCallReturns == \A c \in Caller : Busy(c) ~> ~Busy(c)

\* Every call returns, unless an extension was ever marked invalid
\* (requestStop, startLoop, run).
CallsReturn == [](told = {}) => EveryCallReturns

\* Edits, removals and restarts never lose an extension: one that is installed
\* and that nobody disables, stops by hand or marks invalid has a loop in the end,
\* or its last one ended without being asked to (Apply, startLoop).
EndedItself(e) == entry[e].cur # None /\ ~loop[entry[e].cur].stop
LeftAlone ==
  /\ told = {} /\ \A c \in Caller : caller[c].op \notin { "shutdown", "gave up" }
  /\ \A e \in Entry : entry[e].manifest # None =>
       IsEnabled(entry[e].manifest) /\ ~entry[e].manual
StaysSupervised ==
  []LeftAlone => \A e \in Entry :
    <>[](e \in Installed) => []<>(LoopsOf(e) # {} \/ EndedItself(e))

\* "Enabled flips are honoured even when no other field changed", "a stopped
\* extension stays stopped until ext start", Restart is "equivalent to Stop
\* followed by Start": an extension that is installed, enabled and wanted by the
\* operator is supervised in the end, unless its breaker tripped.
Supervised(e) == LoopsOf(e) # {} \/ (entry[e].cur # None /\ loop[entry[e].cur].broke)
EnabledRuns ==
  \A e \in Entry :
    <>[](e \in Installed /\ IsEnabled(entry[e].manifest) /\ entry[e].wish = "run")
      => []<>Supervised(e)

\* "Currently running here means the supervise loop is alive" (Apply).
AliveHasLoop ==
  \A e \in Entry : Alive(entry[e].status) => LoopsOf(e) # {}

\* "No supervise loop is started for an invalid entry" (MarkInvalid).
NoLoopForInvalid == \A l \in Loop : loop[l].m # Placeholder

\* Shutdown "waits up to grace for them", the supervise loops (Shutdown).
GraceIsForLoops ==
  \A c \in Caller : caller[c].op = "gave up" => \E l \in Loop : Live(l)

\* extension.failed is "emitted on supervisor circuit-break" (docs/EVENTS.md).
BreakIsTold ==
  \A x \in Ext : states[x] # None /\ entry[states[x]].status = "failed" => x \in told

\* "max_consecutive_failures: 0 = unlimited" (docs/MANIFESTS.md).
UnlimitedNeverBreaks == \A l \in Loop : loop[l].broke => loop[l].m.max # 0

=============================================================================
