-------------------------------- MODULE Wake --------------------------------
(***************************************************************************)
(* bigband-wake: it keeps one pmset wake for each upcoming run of the       *)
(* daemon (cmd/bigband-wake).  The ledger of the wakes it owns is kept in    *)
(* memory and in state.json, and the wakes themselves are changed one call   *)
(* of pmset at a time, so that a stop, a crash, a failed call, an edit of    *)
(* the config or a `clear` can come between any two of them.                 *)
(*                                                                           *)
(* An event is a job and the time its wake is due.  Times are positions of   *)
(* one clock: a wake that is due is gone from pmset, whoever owned it.  pmset *)
(* knows a wake by its time only (pmset_darwin.go:37-40).                    *)
(***************************************************************************)
EXTENDS Naturals, FiniteSets

CONSTANTS
  Job,
  At,          \* the times at which each job may have to be woken for
  MaxTime,     \* bound on the clock
  MaxEvents,   \* MaxEventsValue: how many wakes may be owned
  MaxCancelFailures,
  MaxChanges,  \* bound on what the users, the daemon and the laptop do
  MaxFaults    \* bound on failed calls and crashes

ASSUME WakeAssumption ==
  /\ MaxTime \in Nat /\ MaxEvents \in Nat \ {0} /\ MaxCancelFailures \in Nat \ {0}
  /\ MaxChanges \in Nat /\ MaxFaults \in Nat
  /\ At \in [Job -> SUBSET (1..MaxTime)]
  /\ IsFiniteSet(Job)

VARIABLES
  now,       \* the clock
  next,      \* the daemon's status: when each job has to be woken for, or 0
  conf,      \* config.yaml: enabled, disabled, cannot be parsed, or no file
  cfg,       \* r.cfg, what was loaded of it: enabled
  watch,     \* the watch of config.yaml: not started, there, its file gone, or lost
  reload,    \* the debounce timer of the watcher
  unseen,    \* history: an edit of which no event came, not yet read
  pmset,     \* the wakes that are scheduled
  disk,      \* state.json
  mem,       \* state.Events
  fails,     \* failureCount
  proc,      \* the process
  due,       \* a kick that no reconcile has taken
  rc,        \* the reconcile goroutine
  main,      \* cancelAll at shutdown
  clear,     \* the command `clear`, a process of its own
  hold,      \* assertionMgr: what is held, the timers, and callbacks that wait
  loose,     \* history: the events of which the ledger may say something else than
             \* pmset: a call and its record were torn apart
  stuck,     \* history: the events a cancel of which failed
  changes, faults

world   == << now, next >>
file    == << conf, cfg, watch, reload, unseen >>
ledger  == << pmset, disk, mem, fails >>
history == << loose, stuck >>
vars    == << world, file, ledger, proc, due, rc, main, clear, hold, history,
              changes, faults >>

Event   == {e \in [job : Job, at : 1..MaxTime] : e.at \in At[e.job]}
Idle    == [at |-> "idle", todo |-> {}, adds |-> {}, want |-> {}, kept |-> {},
            gone |-> {}, inflight |-> FALSE]
NoStop  == [at |-> "no", todo |-> {}, kept |-> {}, late |-> FALSE]
NoClear == [at |-> "no", todo |-> {}, kept |-> {}, late |-> FALSE, alone |-> FALSE]
NoHold  == [held |-> FALSE, armed |-> FALSE, stray |-> 0, waiting |-> 0, lost |-> 0]
Clean   == [e \in Event |-> 0]

Init ==
  /\ now = 0 /\ next = [j \in Job |-> 0]
  /\ conf \in {"on", "off", "broken", "none"} /\ cfg = FALSE
  /\ watch = "none" /\ reload = FALSE /\ unseen = FALSE
  /\ pmset = {} /\ disk = {} /\ mem = {} /\ fails = Clean
  /\ proc = "down" /\ due = FALSE /\ rc = Idle /\ main = NoStop
  /\ clear = NoClear /\ hold = NoHold
  /\ loose = {} /\ stuck = {} /\ changes = 0 /\ faults = 0

Change == changes < MaxChanges /\ changes' = changes + 1
Fault  == faults < MaxFaults /\ faults' = faults + 1

-----------------------------------------------------------------------------
(* The world. *)

\* A wake that is due happens.
TimePasses ==
  /\ now < MaxTime
  /\ now' = now + 1 /\ pmset' = pmset \ {now + 1}
  /\ UNCHANGED << next, file, disk, mem, fails, proc, due, rc, main, clear, hold,
                  history, changes, faults >>

\* A run has completed or the config of the daemon was edited: the next fire of a
\* job is another, or none.
Reschedule(j) ==
  /\ Change
  /\ \E t \in {0} \cup {x \in At[j] : x > now} : t # next[j] /\ next' = [next EXCEPT ![j] = t]
  /\ UNCHANGED << now, file, ledger, proc, due, rc, main, clear, hold, history, faults >>

-----------------------------------------------------------------------------
(* The config of bigband-wake. *)

\* config.yaml is written in place, or its file is removed or replaced by another,
\* which takes the watch with it.  Before there is a watch, and after it is lost, no
\* event comes.
EditConfig ==
  /\ Change
  /\ \E c \in {"on", "off", "broken", "none"} \ {conf}, inPlace \in BOOLEAN :
       /\ conf' = c
       /\ inPlace => conf # "none" /\ c # "none"
       /\ reload' = (reload \/ (watch = "there" /\ inPlace))
       /\ watch' = IF watch = "there" /\ ~inPlace THEN "gone" ELSE watch
  /\ unseen' = (unseen \/ (proc = "up" /\ watch \in {"none", "lost"}))
  /\ UNCHANGED << world, cfg, ledger, proc, due, rc, main, clear, hold, history, faults >>

\* The path is watched, if there is a file.
WatchFile == watch' = IF conf = "none" THEN "lost" ELSE "there"

StartWatch ==
  /\ proc = "up" /\ watch = "none" /\ WatchFile
  /\ UNCHANGED << world, conf, cfg, reload, unseen, ledger, proc, due, rc, main, clear,
                  hold, history, changes, faults >>

\* The removal arrives: the path is watched again.
WatchAgain ==
  /\ proc = "up" /\ watch = "gone" /\ WatchFile
  /\ reload' = TRUE
  /\ UNCHANGED << world, conf, cfg, unseen, ledger, proc, due, rc, main, clear, hold,
                  history, changes, faults >>

\* The debounce timer: what cannot be loaded changes nothing.
Reload ==
  /\ proc \in {"up", "stopping"} /\ reload
  /\ reload' = FALSE /\ unseen' = FALSE
  /\ \/ conf \in {"on", "off"} /\ cfg' = (conf = "on") /\ due' = TRUE
     \/ conf \notin {"on", "off"} /\ UNCHANGED << cfg, due >>
  /\ UNCHANGED << world, conf, watch, ledger, proc, rc, main, clear, hold, history,
                  changes, faults >>

-----------------------------------------------------------------------------
(* The process. *)

\* A process that is started disabled idles until it is stopped; one that cannot
\* load its config exits at once.  A ledger that cannot be read is taken for empty;
\* what `clear` has cancelled and not yet saved is still in it.
Start ==
  /\ proc = "down" /\ conf \in {"on", "off"}
  /\ cfg' = (conf = "on")
  /\ \/ /\ conf = "off"
        /\ proc' = "parked" /\ UNCHANGED << mem, fails, due, clear, loose, faults >>
     \/ /\ conf = "on"
        /\ proc' = "up" /\ due' = TRUE /\ fails' = Clean
        /\ clear' = [clear EXCEPT !.alone = FALSE]
        /\ \/ /\ mem' = disk /\ UNCHANGED faults
              /\ loose' = IF clear.alone THEN loose \cup (disk \ (clear.todo \cup clear.kept))
                          ELSE loose
           \/ Fault /\ mem' = {} /\ loose' = loose \cup disk
  /\ UNCHANGED << now, next, conf, watch, reload, unseen, pmset, disk, rc, main, hold,
                  stuck, changes >>

\* A tick, or an event of the daemon: one may come, late, again or for another job, at
\* any time.
Kick ==
  /\ proc = "up" /\ ~due /\ due' = TRUE
  /\ UNCHANGED << world, file, ledger, proc, rc, main, clear, hold, history, changes,
                  faults >>

\* How a call of pmset may go: whether it succeeds, and whether it does what was
\* asked.  Once the context is cancelled no call starts, and the one that was in
\* flight is killed, before it has done it or after.
Outcome ==
  IF proc = "up"
    THEN {[ok |-> TRUE, done |-> TRUE]}
           \cup {o \in {[ok |-> FALSE, done |-> FALSE]} : faults < MaxFaults}
    ELSE {[ok |-> FALSE, done |-> FALSE]}
           \cup {o \in [ok : BOOLEAN, done : {TRUE}] : rc.inflight}

Called(o) ==
  faults' = faults + (IF proc = "up" /\ ~o.ok THEN 1 ELSE 0)

\* The same of a worker with a deadline: at the deadline the call in flight is
\* killed, before it has done it or after, and all that follow fail.
Before(late) ==
  IF late
    THEN {[ok |-> FALSE, done |-> FALSE, late |-> TRUE]}
    ELSE {[ok |-> TRUE, done |-> TRUE, late |-> FALSE]}
           \cup {o \in [ok : {FALSE}, done : BOOLEAN, late : BOOLEAN] :
                   faults < MaxFaults /\ (o.done => o.late)}

Spent(late, o) ==
  faults' = faults + (IF ~late /\ ~o.ok THEN 1 ELSE 0)

First(S) == {e \in S : \A x \in S : e.at <= x.at}

\* Mutation: what is wanted is not capped.
Uncapped(S) == {S}

\* The soonest, when there are more than may be owned.
Capped(S) ==
  {W \in SUBSET S : /\ Cardinality(W) = IF Cardinality(S) > MaxEvents THEN MaxEvents
                                        ELSE Cardinality(S)
                    /\ \A e \in W, x \in S \ W : e.at <= x.at}

Upcoming == {e \in Event : next[e.job] = e.at /\ e.at > now}

Reconciling == rc.at # "idle"

\* The events that a reconcile has in its hands.
InWork == rc.todo \cup rc.adds \cup rc.want \cup rc.kept

\* What was loaded of the config is read, and the status of the daemon.  ctx may be
\* cancelled by now: then cancelAll is at work on the same ledger.
Reconcile ==
  /\ due /\ ~Reconciling /\ proc \in {"up", "stopping"}
  /\ due' = FALSE
  /\ \/ ~cfg /\ mem = {} /\ UNCHANGED rc
     \/ ~cfg /\ mem # {} /\ rc' = [Idle EXCEPT !.at = "all", !.todo = mem]
     \/ /\ cfg
        /\ \E want \in Capped(Upcoming) :
             rc' = IF mem = want THEN Idle
                   ELSE [Idle EXCEPT !.at = "cancel", !.todo = mem \ want,
                                     !.adds = want \ mem, !.want = want]
  /\ loose' = IF proc = "stopping" /\ rc' # Idle THEN loose \cup mem \cup InWork' ELSE loose
  /\ UNCHANGED << world, file, ledger, proc, main, clear, hold, stuck, changes, faults >>

StatusFails ==
  /\ due /\ ~Reconciling /\ proc \in {"up", "stopping"} /\ cfg /\ Fault
  /\ due' = FALSE
  /\ UNCHANGED << world, file, ledger, proc, rc, main, clear, hold, history, changes >>

\* A call that succeeded while the ledger has one worker settles what is known of e.
Settles(o) == o.ok /\ proc = "up"

\* Mutation: a cancel that keeps failing is retried for ever.
NeverEvicted(e) == FALSE

\* After MaxCancelFailures the event is taken for cancelled.
Evicted(e) == fails[e] + 1 >= MaxCancelFailures

CancelOne(e) ==
  /\ rc.at = "cancel" /\ e \in First(rc.todo)
  /\ \E o \in Outcome :
       /\ Called(o)
       /\ pmset' = IF o.done THEN pmset \ {e.at} ELSE pmset
       /\ fails' = [fails EXCEPT ![e] = IF o.ok \/ Evicted(e) THEN 0 ELSE @ + 1]
       /\ stuck' = IF o.ok THEN (IF Settles(o) THEN stuck \ {e} ELSE stuck)
                   ELSE stuck \cup {e}
       /\ loose' = CASE Settles(o)              -> loose \ {e}
                     [] ~o.ok /\ Evicted(e)    -> loose \cup {e}
                     [] OTHER                  -> loose
       /\ rc' = [rc EXCEPT !.todo = @ \ {e}, !.inflight = FALSE,
                           !.gone = IF o.ok \/ Evicted(e) THEN @ \cup {e} ELSE @,
                           !.kept = IF o.ok \/ Evicted(e) THEN @ ELSE @ \cup {e}]
  /\ UNCHANGED << world, file, disk, mem, proc, due, main, clear, hold, changes >>

\* Mutation: only what could not be cancelled is kept.
KeepFailed == rc.kept

\* What stays owned: state.Events is read here.
KeepOwned == rc.kept \cup {e \in mem : e \notin rc.gone /\ e \in rc.want}

StartAdding ==
  /\ rc.at = "cancel" /\ rc.todo = {}
  /\ rc' = [rc EXCEPT !.at = "add", !.todo = rc.adds, !.kept = KeepOwned]
  /\ UNCHANGED << world, file, ledger, proc, due, main, clear, hold, history, changes,
                  faults >>

\* Mutation: it is recorded whether or not it could be scheduled.
RecordAll(o) == TRUE

Recorded(o) == o.ok

ScheduleOne(e) ==
  /\ rc.at = "add" /\ e \in First(rc.todo)
  /\ \E o \in Outcome :
       /\ Called(o)
       /\ pmset' = IF o.done /\ e.at > now THEN pmset \cup {e.at} ELSE pmset
       /\ loose' = IF Settles(o) THEN loose \ {e} ELSE loose
       /\ stuck' = IF Settles(o) THEN stuck \ {e} ELSE stuck
       /\ rc' = [rc EXCEPT !.todo = @ \ {e}, !.inflight = FALSE,
                           !.kept = IF Recorded(o) THEN @ \cup {e} ELSE @]
  /\ UNCHANGED << world, file, disk, mem, fails, proc, due, main, clear, hold, changes >>

CancelOneOfAll(e) ==
  /\ rc.at = "all" /\ e \in First(rc.todo)
  /\ \E o \in Outcome :
       /\ Called(o)
       /\ pmset' = IF o.done THEN pmset \ {e.at} ELSE pmset
       /\ stuck' = IF o.ok THEN (IF Settles(o) THEN stuck \ {e} ELSE stuck)
                   ELSE stuck \cup {e}
       /\ loose' = IF Settles(o) THEN loose \ {e} ELSE loose
       /\ rc' = [rc EXCEPT !.todo = @ \ {e}, !.inflight = FALSE,
                           !.kept = IF o.ok THEN @ ELSE @ \cup {e}]
  /\ UNCHANGED << world, file, disk, mem, fails, proc, due, main, clear, hold, changes >>

\* A save that fails is logged.
Save(events) ==
  /\ mem' = events
  /\ \/ disk' = events /\ UNCHANGED faults
     \/ Fault /\ UNCHANGED disk

Record ==
  /\ rc.at \in {"add", "all"} /\ rc.todo = {}
  /\ Save(rc.kept) /\ rc' = Idle
  /\ UNCHANGED << world, file, pmset, fails, proc, due, main, clear, hold, history,
                  changes >>

-----------------------------------------------------------------------------
(* The end of the process. *)

\* SIGTERM, or the daemon is gone.  The reconcile goroutine is not waited for
\* before cancelAll: from here on both have the ledger.
Stop ==
  /\ proc \in {"up", "parked"} /\ Change
  /\ IF proc = "parked"
       THEN proc' = "down" /\ UNCHANGED << rc, main, loose >>
       ELSE /\ proc' = "stopping"
            /\ main' = [NoStop EXCEPT !.at = "cancel", !.todo = mem]
            /\ rc' = [rc EXCEPT !.inflight = Reconciling /\ rc.todo # {}]
            /\ loose' = IF Reconciling THEN loose \cup mem \cup InWork ELSE loose
  /\ UNCHANGED << world, file, ledger, due, clear, hold, stuck, faults >>

\* cancelAll, with a deadline of ten seconds.
CancelAtStop(e) ==
  /\ main.at = "cancel" /\ e \in First(main.todo)
  /\ \E o \in Before(main.late) :
       /\ Spent(main.late, o)
       /\ pmset' = IF o.done THEN pmset \ {e.at} ELSE pmset
       /\ main' = [main EXCEPT !.todo = @ \ {e}, !.late = o.late,
                               !.kept = IF o.ok THEN @ ELSE @ \cup {e}]
       /\ stuck' = IF o.ok THEN stuck ELSE stuck \cup {e}
       /\ loose' = IF o.done /\ ~o.ok THEN loose \cup {e} ELSE loose
  /\ UNCHANGED << world, file, disk, mem, fails, proc, due, rc, clear, hold, changes >>

\* What could not be cancelled is saved.
RecordAtStop ==
  /\ main.at = "cancel" /\ main.todo = {}
  /\ Save(main.kept)
  /\ main' = [NoStop EXCEPT !.at = "release"]
  /\ UNCHANGED << world, file, pmset, fails, proc, due, rc, clear, hold, history, changes >>

\* The state of a process that is over.
Ended ==
  /\ proc' = "down" /\ due' = FALSE /\ rc' = Idle /\ main' = NoStop /\ hold' = NoHold
  /\ watch' = "none" /\ reload' = FALSE /\ unseen' = FALSE

\* What a process that ends leaves behind in doubt: wakes that it has changed and
\* not recorded, or recorded in its memory alone.
InHand ==
  IF proc \in {"up", "stopping"}
    THEN (mem \ disk) \cup (disk \ mem)
           \cup (IF main.at = "cancel" THEN mem ELSE {})
           \cup (IF Reconciling THEN (mem \ rc.want) \cup rc.adds ELSE {})
    ELSE {}

Exit ==
  /\ main.at = "wait" /\ ~Reconciling
  /\ Ended /\ loose' = loose \cup InHand
  /\ UNCHANGED << world, conf, cfg, ledger, clear, stuck, changes, faults >>

Crash ==
  /\ proc # "down" /\ Fault
  /\ Ended /\ loose' = loose \cup InHand
  /\ UNCHANGED << world, conf, cfg, ledger, clear, stuck, changes >>

-----------------------------------------------------------------------------
(* The command `clear`: a process of its own, which cancels what state.json says *)
(* and then writes what is left, whoever has the ledger by then.                *)

ClearLoad ==
  /\ clear.at = "no" /\ Change /\ disk # {}
  /\ clear' = [NoClear EXCEPT !.at = "cancel", !.todo = disk,
                              !.alone = proc \in {"down", "parked"}]
  /\ UNCHANGED << world, file, ledger, proc, due, rc, main, hold, history, faults >>

\* cancelAll, with a deadline of thirty seconds.
ClearOne(e) ==
  /\ clear.at = "cancel" /\ e \in First(clear.todo)
  /\ \E o \in Before(clear.late) :
       /\ Spent(clear.late, o)
       /\ pmset' = IF o.done THEN pmset \ {e.at} ELSE pmset
       /\ clear' = [clear EXCEPT !.todo = @ \ {e}, !.late = o.late,
                                 !.kept = IF o.ok THEN @ ELSE @ \cup {e}]
       /\ stuck' = IF o.ok THEN stuck ELSE stuck \cup {e}
       /\ loose' = IF o.done /\ ~(o.ok /\ clear.alone) THEN loose \cup {e} ELSE loose
  /\ UNCHANGED << world, file, disk, mem, fails, proc, due, rc, main, hold, changes >>

\* A save that fails is logged.
ClearSave ==
  /\ clear.at = "cancel" /\ clear.todo = {}
  /\ \/ disk' = clear.kept /\ UNCHANGED faults
     \/ Fault /\ UNCHANGED disk
  /\ loose' = CASE clear.alone -> loose \cup (disk' \ clear.kept)
                [] ~clear.alone /\ proc \in {"down", "parked"}
                     -> loose \cup (disk \ disk') \cup (disk' \ disk)
                [] OTHER -> loose
  /\ clear' = NoClear
  /\ UNCHANGED << world, file, pmset, mem, fails, proc, due, rc, main, hold, stuck, changes >>

-----------------------------------------------------------------------------
(* The sleep assertion. *)

\* Mutation: the old timer is stopped, and a new one is armed only for a new
\* assertion.
HoldOnce(h) == [h EXCEPT !.held = TRUE, !.armed = ~h.held]

\* A held assertion is extended: the timer is stopped, unless it has fired.
HoldFor(h) == [h EXCEPT !.held = TRUE, !.armed = TRUE]

\* The laptop was asleep: the assertion is held until later, or it is held for longer
\* already, or it cannot be created.
WakeDetected ==
  /\ proc = "up" /\ Change /\ due' = TRUE
  /\ \/ hold' = HoldFor(hold) /\ UNCHANGED faults
     \/ hold.held /\ UNCHANGED << hold, faults >>
     \/ ~hold.held /\ Fault /\ UNCHANGED hold
  /\ UNCHANGED << world, file, ledger, proc, rc, main, clear, history >>

\* The timer, or one that was left armed when another released the assertion.
TimerFires ==
  /\ \/ hold.armed /\ hold' = [hold EXCEPT !.armed = FALSE, !.waiting = @ + 1]
     \/ hold.stray > 0 /\ hold' = [hold EXCEPT !.stray = @ - 1, !.waiting = @ + 1]
  /\ UNCHANGED << world, file, ledger, proc, due, rc, main, clear, history, changes, faults >>

\* The id is forgotten, also when the release fails and the assertion stays.
Released(h) ==
  \/ hold' = h /\ UNCHANGED faults
  \/ hold.held /\ Fault /\ hold' = [h EXCEPT !.lost = @ + 1]

\* It releases whatever is held; a timer that is armed is forgotten, not stopped.
ReleaseFromTimer ==
  /\ hold.waiting > 0
  /\ Released([hold EXCEPT !.waiting = @ - 1, !.held = FALSE, !.armed = FALSE,
                           !.stray = IF hold.armed THEN @ + 1 ELSE @])
  /\ UNCHANGED << world, file, ledger, proc, due, rc, main, clear, history, changes >>

\* releaseNow, after cancelAll; a callback may be waiting.
ReleaseAtStop ==
  /\ main.at = "release"
  /\ main' = [NoStop EXCEPT !.at = "wait"]
  /\ Released([hold EXCEPT !.held = FALSE, !.armed = FALSE])
  /\ UNCHANGED << world, file, ledger, proc, due, rc, clear, history, changes >>

-----------------------------------------------------------------------------
Reconciler ==
  \/ Reconcile \/ StartAdding \/ Record
  \/ \E e \in Event : CancelOne(e) \/ ScheduleOne(e) \/ CancelOneOfAll(e)

Main ==
  \/ Start \/ RecordAtStop \/ ReleaseAtStop \/ Exit
  \/ \E e \in Event : CancelAtStop(e)

Watcher == StartWatch \/ WatchAgain \/ Reload

Timer == TimerFires \/ ReleaseFromTimer

Command == ClearLoad \/ ClearSave \/ \E e \in Event : ClearOne(e)

Next ==
  \/ Reconciler \/ Main \/ Watcher \/ Timer \/ Command \/ Kick
  \/ TimePasses \/ EditConfig \/ StatusFails \/ Stop \/ Crash \/ WakeDetected
  \/ \E j \in Job : Reschedule(j)

Spec == Init /\ [][Next]_vars

\* The supervisor starts the process again, its goroutines run, the ticker ticks, and
\* timers and the watcher's events arrive.  The events of the daemon are not relied
\* on, and `clear` may be slow.
FairSpec ==
  /\ Spec
  /\ WF_vars(Reconciler) /\ WF_vars(Main) /\ WF_vars(Watcher) /\ WF_vars(Timer)
  /\ WF_vars(Kick)

-----------------------------------------------------------------------------
TypeOK ==
  /\ now \in 0..MaxTime /\ next \in [Job -> 0..MaxTime]
  /\ conf \in {"on", "off", "broken", "none"}
  /\ watch \in {"none", "there", "gone", "lost"}
  /\ {cfg, reload, unseen, due} \subseteq BOOLEAN
  /\ pmset \subseteq (now + 1)..MaxTime
  /\ disk \subseteq Event /\ mem \subseteq Event
  /\ fails \in [Event -> 0..(MaxCancelFailures - 1)]
  /\ proc \in {"down", "parked", "up", "stopping"}
  /\ rc.at \in {"idle", "cancel", "add", "all"} /\ InWork \cup rc.gone \subseteq Event
  /\ main.at \in {"no", "cancel", "release", "wait"}
  /\ main.todo \cup main.kept \subseteq Event
  /\ clear.at \in {"no", "cancel"} /\ clear.todo \cup clear.kept \subseteq Event
  /\ hold \in [held : BOOLEAN, armed : BOOLEAN, stray : Nat, waiting : Nat, lost : Nat]
  /\ loose \subseteq Event /\ stuck \subseteq Event

Times(S) == {e.at : e \in S}

\* Nobody is between a call of pmset and its record.
Settled == rc = Idle /\ main.at # "cancel" /\ ~clear.alone
Owned == IF proc \in {"up", "stopping"} THEN mem ELSE disk

\* The ledger is what pmset has: a wake that is recorded is scheduled until it is
\* due, and one that is scheduled is recorded, whatever was retried, edited,
\* restarted, cleared or stopped (daemon.go:466-516, 571-584).  Excepted are, wake by
\* wake and until it is scheduled or cancelled anew, those of which a call and its
\* record were torn apart: in the hands of a process that ended, or of a reconcile
\* at the moment of a stop; cancelled by `clear` behind the back of the process;
\* killed after they took effect; given up after repeated failures; in a ledger
\* that could not be read, or was overwritten by `clear`.
LedgerTrue ==
  Settled =>
    /\ \A e \in Owned \ loose : e.at > now => e.at \in pmset
    /\ pmset \subseteq Times(Owned \cup loose)

\* daemon.go:467: "cancel first so we never push above max_events transiently".
\* What could not be cancelled, and what is in doubt in the sense of LedgerTrue,
\* comes on top.
NeverAboveMax == Cardinality(pmset \ Times(stuck \cup loose)) <= MaxEvents

\* The ledger is true and its size bounded.
LedgerSound == TypeOK /\ LedgerTrue /\ NeverAboveMax

\* The same without exception.
OwnsAtMostMax == Cardinality(pmset) <= MaxEvents

\* Whenever the daemon and the config have come to rest, each wake that is wanted
\* is scheduled in the end: calls that failed are made again, also after a crash, and
\* a reconcile that was asked for while another one ran is not lost
\* (daemon.go:169-210, 270-281).  The exceptions are those of LedgerTrue: a wake that
\* is in the ledger and not in pmset is never scheduled again.  An edit of the
\* config that the watcher saw is followed (354-411).  One that it did not see,
\* before it began to watch or after it lost the file, may be followed or not; so may
\* one that cannot be parsed.
Scheduled ==
  proc = "up" =>
    /\ cfg => \E W \in Capped(Upcoming) : Times(W \ loose) \subseteq pmset
    /\ ~unseen /\ conf \in {"on", "off"} => cfg = (conf = "on")

WakesScheduled == []<>Scheduled

\* Each assertion is released, or its release is tried and fails: no interleaving of
\* an extension with the timers leaves one that nothing will release
\* (assertion.go:20-26).
AssertionEnds == []<>(~hold.held)

\* assertion.go:20: "the timer releases the assertion when it fires".  One whose
\* release failed is forgotten and kept until the process exits.
NothingLeaks == []<>(~hold.held /\ hold.lost = 0)

\* assertion.go:39: an assertion is held for at least the time of the last
\* extension, that is, its timer is not armed any more when it is released.
HeldLongEnough ==
  [][proc' = "up" /\ hold.held /\ ~hold'.held => ~hold.armed]_vars

\* bigband-wake/README.md:86: "Auto-reloaded on every save via `fsnotify`".  A file that
\* is removed and then written again is not.
EverySaveLoaded == []<>(proc = "up" /\ conf \in {"on", "off"} => cfg = (conf = "on"))

\* daemon.go:147-151: "State writes still live on the single reconcile goroutine
\* so they don't need synchronisation", and its README: on SIGTERM every owned
\* wake is cancelled.  A stop without a failed call leaves no wake.
StopCancelsAll ==
  proc = "down" /\ faults = 0 /\ stuck = {} => pmset = {}

\* bigband-wake/README.md:86: "no restart needed for `enabled`".
EnabledWithoutRestart == []<>(conf = "on" => proc # "parked")

\* daemon.go:265-267: thanks to the ticker bigband-wake "eventually self-heals".  That is
\* WakesScheduled without its exceptions: what `clear` cancelled while the process runs
\* stays in its memory, and the diff never finds it (init.go:190-213, daemon.go:456).
SelfHeals ==
  []<>(proc = "up" /\ cfg => \E W \in Capped(Upcoming) : Times(W) \subseteq pmset)

=============================================================================
