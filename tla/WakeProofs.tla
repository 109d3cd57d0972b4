------------------------------ MODULE WakeProofs ------------------------------
(***************************************************************************)
(* What holds of Wake for any jobs, any cap on the wakes that are owned, and *)
(* any number of changes, failed calls and crashes.                         *)
(***************************************************************************)
EXTENDS Wake, FiniteSetTheorems, TLAPS

-----------------------------------------------------------------------------
(* The inductive invariant.                                                 *)

RcRecord == [at : {"idle", "cancel", "add", "all"}, todo : SUBSET Event,
             adds : SUBSET Event, want : SUBSET Event, kept : SUBSET Event,
             gone : SUBSET Event, inflight : BOOLEAN]
MainRecord == [at : {"no", "cancel", "release", "wait"}, todo : SUBSET Event,
               kept : SUBSET Event, late : BOOLEAN]
ClearRecord == [at : {"no", "cancel"}, todo : SUBSET Event, kept : SUBSET Event,
                late : BOOLEAN, alone : BOOLEAN]
HoldRecord == [held : BOOLEAN, armed : BOOLEAN, stray : Nat, waiting : Nat, lost : Nat]

TypeInv ==
  /\ now \in 0..MaxTime /\ next \in [Job -> 0..MaxTime]
  /\ conf \in {"on", "off", "broken", "none"}
  /\ watch \in {"none", "there", "gone", "lost"}
  /\ cfg \in BOOLEAN /\ reload \in BOOLEAN /\ unseen \in BOOLEAN /\ due \in BOOLEAN
  /\ pmset \subseteq (now + 1)..MaxTime
  /\ disk \subseteq Event /\ mem \subseteq Event
  /\ fails \in [Event -> 0..(MaxCancelFailures - 1)]
  /\ proc \in {"down", "parked", "up", "stopping"}
  /\ rc \in RcRecord /\ main \in MainRecord /\ clear \in ClearRecord /\ hold \in HoldRecord
  /\ loose \subseteq Event /\ stuck \subseteq Event

\* Who is at work: there is a reconcile or a cancelAll in a process only; a `clear`
\* has the ledger for itself as long as no process has started.
WorkInv ==
  /\ proc \in {"down", "parked"} => rc.at = "idle" /\ main.at = "no"
  /\ proc = "up" => main.at = "no"
  /\ clear.alone => clear.at = "cancel" /\ proc \in {"down", "parked"}

\* What cancelAll has left is of the ledger, or in doubt; and where a reconcile is at
\* work beside it, everything is.
MainInv ==
  /\ main.at # "cancel" => main.todo = {} /\ main.kept = {}
  /\ main.todo \cap main.kept = {}
  /\ main.todo \cup main.kept \subseteq mem \cup loose
  /\ proc = "stopping" /\ rc.at # "idle" =>
       mem \cup InWork \cup main.todo \cup main.kept \subseteq loose

ClearInv ==
  clear.alone => clear.todo \cap clear.kept = {} /\ clear.todo \cup clear.kept \subseteq disk

\* The events that stand for the wakes of pmset at this point of the work.
Accounted ==
  CASE rc.at = "cancel" -> mem \ rc.gone
    [] rc.at = "add"    -> rc.kept
    [] rc.at = "all"    -> rc.todo \cup rc.kept
    [] rc.at = "idle" /\ main.at = "cancel" -> main.todo \cup main.kept
    [] rc.at = "idle" /\ main.at # "cancel" /\ clear.alone -> clear.todo \cup clear.kept
    [] OTHER -> Owned

\* Every wake of pmset is accounted for, or in doubt.
OwnerInv == \A t \in pmset : \E e \in Accounted \cup loose : e.at = t

\* Every event that is accounted for, and not in doubt, has its wake until it is due.
WakeInv == \A e \in Accounted \ loose : e.at > now => e.at \in pmset

Capable(W) == W \subseteq Event /\ IsFiniteSet(W) /\ Cardinality(W) <= MaxEvents

\* What is accounted for is within the cap, but for the wakes that could not be
\* cancelled or are in doubt.
CapInv == \E W \in SUBSET Event : Capable(W) /\ Accounted \subseteq W \cup stuck \cup loose

\* The work of a reconcile, point by point: what is left to cancel is owned and not
\* wanted; what was dealt with is gone, or kept and stuck; what is left to add is
\* wanted and not owned; what is owned and wanted stays.
RcInv ==
  proc = "up" =>
    /\ rc.at = "cancel" =>
         /\ Capable(rc.want) /\ rc.adds \subseteq rc.want
         /\ rc.todo \subseteq mem \ rc.want /\ rc.gone \cap rc.want = {}
         /\ rc.kept \subseteq mem \ rc.gone /\ rc.todo \cap (rc.gone \cup rc.kept) = {}
         /\ mem \subseteq rc.want \cup rc.todo \cup rc.gone \cup rc.kept
         /\ rc.kept \subseteq stuck
    /\ rc.at = "add" =>
         /\ Capable(rc.want) /\ rc.adds \subseteq rc.want /\ rc.todo \subseteq rc.adds
         /\ rc.kept \subseteq stuck \cup rc.want
         /\ mem \cap rc.want \subseteq rc.kept /\ rc.kept \subseteq mem \cup rc.adds
    /\ rc.at = "all" =>
         /\ rc.want = {} /\ rc.todo \cap rc.kept = {} /\ rc.todo \cup rc.kept \subseteq mem

\* Without a premise on the times; WakeInv needs one.
CoreInv == TypeInv /\ WorkInv /\ MainInv /\ ClearInv /\ OwnerInv /\ CapInv /\ RcInv
IInv    == CoreInv /\ WakeInv

\* No two jobs have to be woken for at the same time.  pmset knows a wake by its
\* time only, so that a cancel for one job takes the wake of another with it.
TimesApart == \A j, k \in Job : j # k => At[j] \cap At[k] = {}

\* What a step may do to the account.  Nothing, or more is in doubt than before; the
\* wake of an event goes, and the event with it or into doubt; one that is wanted comes
\* in with its wake; one whose wake may be scheduled is in doubt; a wake that is due
\* happens.
Covered(D)  == Accounted \cup loose \subseteq Accounted' \cup loose' \cup D
Certain(D)  == Accounted' \ loose' \subseteq (Accounted \ loose) \cup D
Quiet       == now' = now /\ pmset' = pmset /\ stuck \subseteq stuck' /\ Covered({}) /\ Certain({})
Dropped(e)  ==
  /\ now' = now /\ pmset' = pmset \ {e.at} /\ stuck \subseteq stuck' \cup {e}
  /\ Covered({e}) /\ Certain({}) /\ e \notin Accounted' \ loose'
Added(e)    ==
  /\ rc.at = "add" /\ proc = "up" /\ e \in rc.want
  /\ now' = now /\ pmset' = (IF e.at > now THEN pmset \cup {e.at} ELSE pmset)
  /\ stuck \subseteq stuck' \cup {e} /\ Covered({}) /\ Certain({e}) /\ e \in Accounted'
AddedLate(e) ==
  /\ now' = now /\ (pmset' = pmset \/ pmset' = pmset \cup {e.at}) /\ stuck \subseteq stuck'
  /\ Covered({}) /\ Certain({}) /\ e \in loose'
Elapsed     ==
  /\ now' = now + 1 /\ pmset' = pmset \ {now + 1}
  /\ Accounted' = Accounted /\ loose' = loose /\ stuck' = stuck

AccountStep ==
  \/ Quiet \/ Elapsed
  \/ \E e \in Event : Dropped(e) \/ Added(e) \/ AddedLate(e)

-----------------------------------------------------------------------------
(* The effects of the steps.                                                *)

\* An event has a job and one of its times.
LEMMA EventIs ==
  ASSUME NEW e \in Event
  PROVE  e.job \in Job /\ e.at \in 1..MaxTime /\ e.at \in Nat /\ e.at \in At[e.job]
BY DEF Event

\* The records of the workers at rest.
LEMMA RestIs ==
  /\ Idle \in RcRecord /\ Idle.at = "idle" /\ Idle.todo = {} /\ Idle.kept = {}
  /\ Idle.want = {} /\ Idle.gone = {} /\ Idle.adds = {}
  /\ NoStop \in MainRecord /\ NoStop.at = "no" /\ NoStop.todo = {} /\ NoStop.kept = {}
  /\ NoClear \in ClearRecord /\ NoClear.at = "no" /\ NoClear.alone = FALSE
  /\ NoClear.todo = {} /\ NoClear.kept = {}
  /\ NoHold \in HoldRecord
BY DEF Idle, NoStop, NoClear, NoHold, RcRecord, MainRecord, ClearRecord, HoldRecord

\* A call of pmset by the reconcile: while the process runs it has succeeded and done
\* what was asked, or failed and done nothing.
LEMMA OutcomeIs ==
  ASSUME NEW o \in Outcome
  PROVE  /\ o.ok \in BOOLEAN /\ o.done \in BOOLEAN /\ (o.ok => o.done)
         /\ proc = "up" => o.done = o.ok
<1>1. CASE proc = "up"
  <2>1. o \in {[ok |-> TRUE, done |-> TRUE], [ok |-> FALSE, done |-> FALSE]}
    BY <1>1 DEF Outcome
  <2>2. CASE o = [ok |-> TRUE, done |-> TRUE] BY <2>2
  <2>3. CASE o = [ok |-> FALSE, done |-> FALSE] BY <2>3
  <2>. QED BY <2>1, <2>2, <2>3
<1>2. CASE proc # "up"
  <2>1. o = [ok |-> FALSE, done |-> FALSE] \/ o \in [ok : BOOLEAN, done : {TRUE}]
    BY <1>2 DEF Outcome
  <2>2. CASE o = [ok |-> FALSE, done |-> FALSE] BY <2>2, <1>2
  <2>3. CASE o \in [ok : BOOLEAN, done : {TRUE}] BY <2>3, <1>2
  <2>. QED BY <2>1, <2>2, <2>3
<1>. QED BY <1>1, <1>2

\* A call with a deadline has succeeded and done what was asked, or failed.
LEMMA BeforeIs ==
  ASSUME NEW late \in BOOLEAN, NEW o \in Before(late)
  PROVE  o.ok \in BOOLEAN /\ o.done \in BOOLEAN /\ o.late \in BOOLEAN /\ (o.ok => o.done)
<1>1. \/ o = [ok |-> FALSE, done |-> FALSE, late |-> TRUE]
      \/ o = [ok |-> TRUE, done |-> TRUE, late |-> FALSE]
      \/ o \in [ok : {FALSE}, done : BOOLEAN, late : BOOLEAN]
  BY DEF Before
<1>2. CASE o = [ok |-> FALSE, done |-> FALSE, late |-> TRUE] BY <1>2
<1>3. CASE o = [ok |-> TRUE, done |-> TRUE, late |-> FALSE] BY <1>3
<1>4. CASE o \in [ok : {FALSE}, done : BOOLEAN, late : BOOLEAN] BY <1>4
<1>. QED BY <1>1, <1>2, <1>3, <1>4

LEMMA CancelEffect ==
  ASSUME TypeInv, NEW e \in Event, CancelOne(e)
  PROVE  \E o \in Outcome :
           /\ pmset' = IF o.done THEN pmset \ {e.at} ELSE pmset
           /\ o.ok => IF proc = "up" THEN loose' = loose \ {e} /\ stuck' = stuck \ {e}
                                     ELSE loose' = loose /\ stuck' = stuck
           /\ ~o.ok => stuck' = stuck \cup {e}
           /\ ~o.ok => loose' = loose \/ loose' = loose \cup {e}
           /\ rc' \in RcRecord /\ rc'.at = "cancel" /\ rc'.todo = rc.todo \ {e}
           /\ rc'.adds = rc.adds /\ rc'.want = rc.want
           /\ \/ rc'.gone = rc.gone \cup {e} /\ rc'.kept = rc.kept
                 /\ (~o.ok => loose' = loose \cup {e})
              \/ ~o.ok /\ rc'.gone = rc.gone /\ rc'.kept = rc.kept \cup {e}
<1>1. PICK o \in Outcome :
        /\ pmset' = IF o.done THEN pmset \ {e.at} ELSE pmset
        /\ stuck' = IF o.ok THEN (IF Settles(o) THEN stuck \ {e} ELSE stuck)
                    ELSE stuck \cup {e}
        /\ loose' = CASE Settles(o)           -> loose \ {e}
                      [] ~o.ok /\ Evicted(e) -> loose \cup {e}
                      [] OTHER               -> loose
        /\ rc' = [rc EXCEPT !.todo = @ \ {e}, !.inflight = FALSE,
                            !.gone = IF o.ok \/ Evicted(e) THEN @ \cup {e} ELSE @,
                            !.kept = IF o.ok \/ Evicted(e) THEN @ ELSE @ \cup {e}]
  BY DEF CancelOne
<1>2. rc \in RcRecord /\ rc.at = "cancel"
  BY DEF TypeInv, CancelOne
<1>o. o.ok \in BOOLEAN
  BY OutcomeIs
<1>3. o.ok => IF proc = "up" THEN loose' = loose \ {e} /\ stuck' = stuck \ {e}
                             ELSE loose' = loose /\ stuck' = stuck
  BY <1>1, <1>o DEF Settles
<1>4. ~o.ok => /\ stuck' = stuck \cup {e}
               /\ loose' = IF Evicted(e) THEN loose \cup {e} ELSE loose
  BY <1>1, <1>o DEF Settles
<1>5. CASE o.ok \/ Evicted(e)
  <2>1. rc' = [rc EXCEPT !.todo = rc.todo \ {e}, !.inflight = FALSE,
                         !.gone = rc.gone \cup {e}, !.kept = rc.kept]
    BY <1>1, <1>5
  <2>2. /\ rc' \in RcRecord /\ rc'.at = "cancel" /\ rc'.todo = rc.todo \ {e}
        /\ rc'.adds = rc.adds /\ rc'.want = rc.want
        /\ rc'.gone = rc.gone \cup {e} /\ rc'.kept = rc.kept
    BY <1>2, <2>1 DEF RcRecord
  <2>. QED BY <1>1, <1>3, <1>4, <1>5, <2>2
<1>6. CASE ~(o.ok \/ Evicted(e))
  <2>1. rc' = [rc EXCEPT !.todo = rc.todo \ {e}, !.inflight = FALSE,
                         !.gone = rc.gone, !.kept = rc.kept \cup {e}]
    BY <1>1, <1>6
  <2>2. /\ rc' \in RcRecord /\ rc'.at = "cancel" /\ rc'.todo = rc.todo \ {e}
        /\ rc'.adds = rc.adds /\ rc'.want = rc.want
        /\ rc'.gone = rc.gone /\ rc'.kept = rc.kept \cup {e}
    BY <1>2, <2>1 DEF RcRecord
  <2>. QED BY <1>1, <1>4, <1>6, <2>2
<1>. QED BY <1>5, <1>6

LEMMA StartAddingEffect ==
  ASSUME TypeInv, StartAdding
  PROVE  /\ rc' \in RcRecord /\ rc'.at = "add" /\ rc'.todo = rc.adds /\ rc'.kept = KeepOwned
         /\ rc'.want = rc.want /\ rc'.adds = rc.adds
<1>1. /\ rc \in RcRecord /\ KeepOwned \in SUBSET Event
      /\ rc' = [rc EXCEPT !.at = "add", !.todo = rc.adds, !.kept = KeepOwned]
  BY DEF TypeInv, StartAdding, KeepOwned, RcRecord
<1>. QED BY <1>1 DEF RcRecord

LEMMA ScheduleEffect ==
  ASSUME TypeInv, NEW e \in Event, ScheduleOne(e)
  PROVE  \E o \in Outcome :
           /\ pmset' = IF o.done /\ e.at > now THEN pmset \cup {e.at} ELSE pmset
           /\ IF o.ok /\ proc = "up" THEN loose' = loose \ {e} /\ stuck' = stuck \ {e}
                                     ELSE loose' = loose /\ stuck' = stuck
           /\ rc' \in RcRecord /\ rc'.at = "add" /\ rc'.todo = rc.todo \ {e}
           /\ rc'.want = rc.want /\ rc'.adds = rc.adds
           /\ rc'.kept = IF o.ok THEN rc.kept \cup {e} ELSE rc.kept
<1>1. PICK o \in Outcome :
        /\ pmset' = IF o.done /\ e.at > now THEN pmset \cup {e.at} ELSE pmset
        /\ loose' = IF Settles(o) THEN loose \ {e} ELSE loose
        /\ stuck' = IF Settles(o) THEN stuck \ {e} ELSE stuck
        /\ rc' = [rc EXCEPT !.todo = @ \ {e}, !.inflight = FALSE,
                            !.kept = IF o.ok THEN @ \cup {e} ELSE @]
  BY DEF ScheduleOne, Recorded
<1>2. rc \in RcRecord /\ rc.at = "add"
  BY DEF TypeInv, ScheduleOne
<1> DEFINE k == IF o.ok THEN rc.kept \cup {e} ELSE rc.kept
<1>3. k \in SUBSET Event
  BY <1>2 DEF RcRecord
<1>4. rc' = [rc EXCEPT !.todo = rc.todo \ {e}, !.inflight = FALSE, !.kept = k]
  BY <1>1
<1> HIDE DEF k
<1>5. /\ rc' \in RcRecord /\ rc'.at = "add" /\ rc'.todo = rc.todo \ {e}
      /\ rc'.want = rc.want /\ rc'.adds = rc.adds /\ rc'.kept = k
  BY <1>2, <1>3, <1>4 DEF RcRecord
<1>. QED BY <1>1, <1>5 DEF k, Settles

LEMMA CancelOfAllEffect ==
  ASSUME TypeInv, NEW e \in Event, CancelOneOfAll(e)
  PROVE  \E o \in Outcome :
           /\ pmset' = IF o.done THEN pmset \ {e.at} ELSE pmset
           /\ o.ok => IF proc = "up" THEN loose' = loose \ {e} /\ stuck' = stuck \ {e}
                                     ELSE loose' = loose /\ stuck' = stuck
           /\ ~o.ok => loose' = loose /\ stuck' = stuck \cup {e}
           /\ rc' \in RcRecord /\ rc'.at = "all" /\ rc'.todo = rc.todo \ {e}
           /\ rc'.want = rc.want /\ rc'.adds = rc.adds
           /\ rc'.kept = IF o.ok THEN rc.kept ELSE rc.kept \cup {e}
<1>1. PICK o \in Outcome :
        /\ pmset' = IF o.done THEN pmset \ {e.at} ELSE pmset
        /\ stuck' = IF o.ok THEN (IF Settles(o) THEN stuck \ {e} ELSE stuck)
                    ELSE stuck \cup {e}
        /\ loose' = IF Settles(o) THEN loose \ {e} ELSE loose
        /\ rc' = [rc EXCEPT !.todo = @ \ {e}, !.inflight = FALSE,
                            !.kept = IF o.ok THEN @ ELSE @ \cup {e}]
  BY DEF CancelOneOfAll
<1>2. rc \in RcRecord /\ rc.at = "all"
  BY DEF TypeInv, CancelOneOfAll
<1> DEFINE k == IF o.ok THEN rc.kept ELSE rc.kept \cup {e}
<1>3. k \in SUBSET Event
  BY <1>2 DEF RcRecord
<1>4. rc' = [rc EXCEPT !.todo = rc.todo \ {e}, !.inflight = FALSE, !.kept = k]
  BY <1>1
<1> HIDE DEF k
<1>5. /\ rc' \in RcRecord /\ rc'.at = "all" /\ rc'.todo = rc.todo \ {e}
      /\ rc'.want = rc.want /\ rc'.adds = rc.adds /\ rc'.kept = k
  BY <1>2, <1>3, <1>4 DEF RcRecord
<1>. QED BY <1>1, <1>5 DEF k, Settles

\* A reconcile that begins knows what is wanted: a part of what may be owned.
LEMMA ReconcileEffect ==
  ASSUME TypeInv, Reconcile
  PROVE  /\ rc.at = "idle" /\ proc \in {"up", "stopping"}
         /\ loose' = IF proc = "stopping" /\ rc' # Idle THEN loose \cup mem \cup InWork' ELSE loose
         /\ \/ rc' = rc
            \/ rc' = Idle
            \/ /\ rc' # Idle /\ rc' \in RcRecord /\ rc'.at = "all" /\ rc'.todo = mem
               /\ rc'.kept = {} /\ rc'.want = {}
            \/ /\ rc' # Idle /\ rc' \in RcRecord /\ rc'.at = "cancel" /\ rc'.kept = {}
               /\ rc'.gone = {} /\ rc'.want \in Capped(Upcoming) /\ rc'.todo = mem \ rc'.want
               /\ rc'.adds = rc'.want \ mem
<1>1. CASE ~cfg /\ mem = {} /\ UNCHANGED rc
  BY <1>1 DEF Reconcile, Reconciling
<1>2. CASE ~cfg /\ mem # {} /\ rc' = [Idle EXCEPT !.at = "all", !.todo = mem]
  <2>1. mem \in SUBSET Event
    BY DEF TypeInv
  <2>2. /\ rc' \in RcRecord /\ rc'.at = "all" /\ rc'.todo = mem /\ rc'.kept = {} /\ rc'.want = {}
    BY <1>2, <2>1, RestIs DEF RcRecord
  <2>3. rc' # Idle
    BY <2>2, RestIs
  <2>. QED BY <2>2, <2>3 DEF Reconcile, Reconciling
<1>3. ASSUME NEW want \in Capped(Upcoming),
             rc' = IF mem = want THEN Idle
                   ELSE [Idle EXCEPT !.at = "cancel", !.todo = mem \ want,
                                     !.adds = want \ mem, !.want = want]
      PROVE  \/ rc' = Idle
             \/ /\ rc' # Idle /\ rc' \in RcRecord /\ rc'.at = "cancel" /\ rc'.kept = {}
                /\ rc'.gone = {} /\ rc'.want \in Capped(Upcoming) /\ rc'.todo = mem \ rc'.want
                /\ rc'.adds = rc'.want \ mem
  <2>1. mem \in SUBSET Event /\ want \in SUBSET Event
    BY DEF TypeInv, Capped, Upcoming
  <2>2. CASE mem # want
    <3>1. /\ rc' \in RcRecord /\ rc'.at = "cancel" /\ rc'.kept = {} /\ rc'.gone = {}
          /\ rc'.want = want /\ rc'.todo = mem \ want /\ rc'.adds = want \ mem
      BY <1>3, <2>1, <2>2, RestIs DEF RcRecord
    <3>. QED BY <1>3, <3>1, RestIs
  <2>. QED BY <1>3, <2>2
<1>4. \/ ~cfg /\ mem = {} /\ UNCHANGED rc
      \/ ~cfg /\ mem # {} /\ rc' = [Idle EXCEPT !.at = "all", !.todo = mem]
      \/ \E want \in Capped(Upcoming) :
           rc' = IF mem = want THEN Idle
                 ELSE [Idle EXCEPT !.at = "cancel", !.todo = mem \ want,
                                   !.adds = want \ mem, !.want = want]
  BY DEF Reconcile
<1>5. /\ rc.at = "idle" /\ proc \in {"up", "stopping"}
      /\ loose' = IF proc = "stopping" /\ rc' # Idle THEN loose \cup mem \cup InWork' ELSE loose
  BY DEF Reconcile, Reconciling
<1>. QED BY <1>1, <1>2, <1>3, <1>4, <1>5

LEMMA StopEffect ==
  ASSUME TypeInv, Stop
  PROVE  \/ proc = "parked" /\ proc' = "down" /\ UNCHANGED << rc, main, loose >>
         \/ /\ proc = "up" /\ proc' = "stopping"
            /\ main' \in MainRecord /\ main'.at = "cancel" /\ main'.todo = mem /\ main'.kept = {}
            /\ rc' \in RcRecord /\ rc'.at = rc.at /\ rc'.todo = rc.todo /\ rc'.adds = rc.adds
            /\ rc'.want = rc.want /\ rc'.kept = rc.kept /\ rc'.gone = rc.gone
            /\ loose' = IF rc.at # "idle" THEN loose \cup mem \cup InWork ELSE loose
<1>1. CASE proc = "up"
  <2>1. /\ rc \in RcRecord /\ mem \in SUBSET Event
    BY DEF TypeInv
  <2>2. PICK b \in BOOLEAN : rc' = [rc EXCEPT !.inflight = b]
    BY <1>1 DEF Stop, Reconciling
  <2>3. /\ rc' \in RcRecord /\ rc'.at = rc.at /\ rc'.todo = rc.todo /\ rc'.adds = rc.adds
        /\ rc'.want = rc.want /\ rc'.kept = rc.kept /\ rc'.gone = rc.gone
    BY <2>1, <2>2 DEF RcRecord
  <2>4. main' = [NoStop EXCEPT !.at = "cancel", !.todo = mem] /\ proc' = "stopping"
        /\ loose' = IF rc.at # "idle" THEN loose \cup mem \cup InWork ELSE loose
    BY <1>1 DEF Stop, Reconciling
  <2>5. main' \in MainRecord /\ main'.at = "cancel" /\ main'.todo = mem /\ main'.kept = {}
    BY <2>1, <2>4, RestIs DEF MainRecord
  <2>. QED BY <1>1, <2>3, <2>4, <2>5
<1>. QED BY <1>1 DEF Stop

\* One call of cancelAll, of the process and of `clear`.
LEMMA CancelAtStopEffect ==
  ASSUME TypeInv, NEW e \in Event, CancelAtStop(e)
  PROVE  /\ main.at = "cancel" /\ e \in main.todo
         /\ main' \in MainRecord /\ main'.at = "cancel" /\ main'.todo = main.todo \ {e}
         /\ \/ /\ pmset' = pmset \ {e.at} /\ main'.kept = main.kept
               /\ stuck' = stuck /\ loose' = loose
            \/ /\ main'.kept = main.kept \cup {e} /\ stuck' = stuck \cup {e}
               /\ \/ pmset' = pmset /\ loose' = loose
                  \/ pmset' = pmset \ {e.at} /\ loose' = loose \cup {e}
<1>1. main \in MainRecord /\ main.at = "cancel" /\ e \in main.todo /\ main.late \in BOOLEAN
  BY DEF TypeInv, CancelAtStop, First, MainRecord
<1>2. PICK o \in Before(main.late) :
       /\ pmset' = IF o.done THEN pmset \ {e.at} ELSE pmset
       /\ main' = [main EXCEPT !.todo = @ \ {e}, !.late = o.late,
                               !.kept = IF o.ok THEN @ ELSE @ \cup {e}]
       /\ stuck' = IF o.ok THEN stuck ELSE stuck \cup {e}
       /\ loose' = IF o.done /\ ~o.ok THEN loose \cup {e} ELSE loose
  BY DEF CancelAtStop
<1>3. o.ok \in BOOLEAN /\ o.done \in BOOLEAN /\ o.late \in BOOLEAN /\ (o.ok => o.done)
  BY <1>1, BeforeIs
<1> DEFINE k == IF o.ok THEN main.kept ELSE main.kept \cup {e}
<1>4. k \in SUBSET Event
  BY <1>1 DEF MainRecord
<1>5. main' = [main EXCEPT !.todo = main.todo \ {e}, !.late = o.late, !.kept = k]
  BY <1>2
<1> HIDE DEF k
<1>6. /\ main' \in MainRecord /\ main'.at = "cancel" /\ main'.todo = main.todo \ {e}
      /\ main'.kept = k
  BY <1>1, <1>3, <1>4, <1>5 DEF MainRecord
<1>. QED BY <1>1, <1>2, <1>3, <1>6 DEF k

LEMMA ClearOneEffect ==
  ASSUME TypeInv, NEW e \in Event, ClearOne(e)
  PROVE  /\ clear.at = "cancel" /\ e \in clear.todo
         /\ clear' \in ClearRecord /\ clear'.at = "cancel" /\ clear'.alone = clear.alone
         /\ clear'.todo = clear.todo \ {e}
         /\ \/ /\ pmset' = pmset \ {e.at} /\ clear'.kept = clear.kept /\ stuck' = stuck
               /\ loose' = IF clear.alone THEN loose ELSE loose \cup {e}
            \/ /\ clear'.kept = clear.kept \cup {e} /\ stuck' = stuck \cup {e}
               /\ \/ pmset' = pmset /\ loose' = loose
                  \/ pmset' = pmset \ {e.at} /\ loose' = loose \cup {e}
<1>1. clear \in ClearRecord /\ clear.at = "cancel" /\ e \in clear.todo /\ clear.late \in BOOLEAN
  BY DEF TypeInv, ClearOne, First, ClearRecord
<1>2. PICK o \in Before(clear.late) :
       /\ pmset' = IF o.done THEN pmset \ {e.at} ELSE pmset
       /\ clear' = [clear EXCEPT !.todo = @ \ {e}, !.late = o.late,
                                 !.kept = IF o.ok THEN @ ELSE @ \cup {e}]
       /\ stuck' = IF o.ok THEN stuck ELSE stuck \cup {e}
       /\ loose' = IF o.done /\ ~(o.ok /\ clear.alone) THEN loose \cup {e} ELSE loose
  BY DEF ClearOne
<1>3. o.ok \in BOOLEAN /\ o.done \in BOOLEAN /\ o.late \in BOOLEAN /\ (o.ok => o.done)
  BY <1>1, BeforeIs
<1> DEFINE k == IF o.ok THEN clear.kept ELSE clear.kept \cup {e}
<1>4. k \in SUBSET Event
  BY <1>1 DEF ClearRecord
<1>5. clear' = [clear EXCEPT !.todo = clear.todo \ {e}, !.late = o.late, !.kept = k]
  BY <1>2
<1> HIDE DEF k
<1>6. /\ clear' \in ClearRecord /\ clear'.at = "cancel" /\ clear'.alone = clear.alone
      /\ clear'.todo = clear.todo \ {e} /\ clear'.kept = k
  BY <1>1, <1>3, <1>4, <1>5 DEF ClearRecord
<1>7. CASE o.ok
  BY <1>1, <1>2, <1>3, <1>6, <1>7 DEF k
<1>8. CASE ~o.ok
  BY <1>1, <1>2, <1>3, <1>6, <1>8 DEF k
<1>. QED BY <1>7, <1>8, <1>3

LEMMA ClearLoadEffect ==
  ASSUME TypeInv, ClearLoad
  PROVE  /\ clear.at = "no" /\ clear' \in ClearRecord /\ clear'.at = "cancel"
         /\ clear'.todo = disk /\ clear'.kept = {} /\ clear'.alone = (proc \in {"down", "parked"})
<1> DEFINE a == proc \in {"down", "parked"}
<1>1. clear' = [NoClear EXCEPT !.at = "cancel", !.todo = disk, !.alone = a] /\ disk \in SUBSET Event
      /\ clear.at = "no" /\ a \in BOOLEAN
  BY DEF ClearLoad, TypeInv
<1> HIDE DEF a
<1>2. /\ clear' \in ClearRecord /\ clear'.at = "cancel" /\ clear'.todo = disk
      /\ clear'.kept = {} /\ clear'.alone = a
  BY <1>1, RestIs DEF ClearRecord
<1>. QED BY <1>1, <1>2 DEF a

\* A save of the ledger by `clear` puts in doubt what it takes from another.
LEMMA ClearSaveEffect ==
  ASSUME TypeInv, ClearSave
  PROVE  /\ clear.todo = {} /\ clear' = NoClear /\ (disk' = disk \/ disk' = clear.kept)
         /\ disk' \subseteq Event /\ loose \subseteq loose' /\ loose' \subseteq Event
         /\ clear.alone => loose' = loose \cup (disk' \ clear.kept)
         /\ ~clear.alone /\ proc \in {"down", "parked"} =>
              loose' = loose \cup (disk \ disk') \cup (disk' \ disk)
         /\ ~clear.alone /\ proc \notin {"down", "parked"} => loose' = loose
<1>1. clear \in ClearRecord /\ disk \subseteq Event /\ loose \subseteq Event
  BY DEF TypeInv
<1>2. clear.alone \in BOOLEAN /\ clear.kept \subseteq Event
  BY <1>1 DEF ClearRecord
<1>3. clear.todo = {} /\ clear' = NoClear /\ (disk' = disk \/ disk' = clear.kept)
  BY DEF ClearSave
<1>4. loose' = CASE clear.alone -> loose \cup (disk' \ clear.kept)
                 [] ~clear.alone /\ proc \in {"down", "parked"}
                      -> loose \cup (disk \ disk') \cup (disk' \ disk)
                 [] OTHER -> loose
  BY DEF ClearSave
<1>5. CASE clear.alone
  BY <1>1, <1>2, <1>3, <1>4, <1>5
<1>6. CASE ~clear.alone /\ proc \in {"down", "parked"}
  BY <1>1, <1>2, <1>3, <1>4, <1>6
<1>7. CASE ~clear.alone /\ proc \notin {"down", "parked"}
  BY <1>1, <1>2, <1>3, <1>4, <1>7
<1>. QED BY <1>2, <1>5, <1>6, <1>7

\* What is held changes by whole steps of the timers.
LEMMA HoldEffect ==
  ASSUME TypeInv, WakeDetected \/ Timer \/ ReleaseAtStop
  PROVE  hold' \in HoldRecord
<1>1. hold \in HoldRecord
  BY DEF TypeInv
<1>2. /\ hold.held \in BOOLEAN /\ hold.armed \in BOOLEAN /\ hold.stray \in Nat
      /\ hold.waiting \in Nat /\ hold.lost \in Nat
  BY <1>1 DEF HoldRecord
<1>3. ASSUME NEW h \in HoldRecord PROVE [h EXCEPT !.lost = h.lost + 1] \in HoldRecord
  <2>1. PICK n \in Nat : n = h.lost + 1
    BY <1>3 DEF HoldRecord
  <2>2. [h EXCEPT !.lost = n] \in HoldRecord
    BY <1>3 DEF HoldRecord
  <2>. QED BY <2>1, <2>2
<1>4. ASSUME NEW h \in HoldRecord, Released(h) PROVE hold' \in HoldRecord
  BY <1>3, <1>4 DEF Released
<1>5. CASE WakeDetected
  <2>1. [hold EXCEPT !.held = TRUE, !.armed = TRUE] \in HoldRecord
    BY <1>1 DEF HoldRecord
  <2>. QED BY <1>1, <1>5, <2>1 DEF WakeDetected, HoldFor
<1>6. CASE TimerFires
  <2>1. PICK n \in Nat : n = hold.waiting + 1
    BY <1>2
  <2>2. CASE hold.armed /\ hold' = [hold EXCEPT !.armed = FALSE, !.waiting = n]
    BY <1>1, <2>2 DEF HoldRecord
  <2>3. CASE hold.stray > 0 /\ hold' = [hold EXCEPT !.stray = hold.stray - 1, !.waiting = n]
    <3>1. PICK m \in Nat : m = hold.stray - 1
      BY <1>2, <2>3
    <3>2. hold' = [hold EXCEPT !.stray = m, !.waiting = n]
      BY <2>3, <3>1
    <3>. QED BY <1>1, <3>2 DEF HoldRecord
  <2>. QED BY <1>6, <2>1, <2>2, <2>3 DEF TimerFires
<1>7. CASE ReleaseFromTimer
  <2>1. PICK n \in Nat : hold.waiting > 0 /\ n = hold.waiting - 1
    BY <1>2, <1>7 DEF ReleaseFromTimer
  <2>2. PICK m \in Nat : m = IF hold.armed THEN hold.stray + 1 ELSE hold.stray
    BY <1>2
  <2>3. Released([hold EXCEPT !.waiting = n, !.held = FALSE, !.armed = FALSE, !.stray = m])
    BY <1>7, <2>1, <2>2 DEF ReleaseFromTimer
  <2>4. [hold EXCEPT !.waiting = n, !.held = FALSE, !.armed = FALSE, !.stray = m] \in HoldRecord
    BY <1>1 DEF HoldRecord
  <2>. QED BY <1>4, <2>3, <2>4
<1>8. CASE ReleaseAtStop
  <2>1. [hold EXCEPT !.held = FALSE, !.armed = FALSE] \in HoldRecord
    BY <1>1 DEF HoldRecord
  <2>. QED BY <1>4, <1>8, <2>1 DEF ReleaseAtStop
<1>. QED BY <1>5, <1>6, <1>7, <1>8 DEF Timer

-----------------------------------------------------------------------------
(* Types, and who is at work.                                               *)

LEMMA Types == ASSUME TypeInv, Next PROVE TypeInv'
<1> USE DEF TypeInv, world, file, ledger, history
<1> USE WakeAssumption DEF WakeAssumption
<1>1. CASE TimePasses BY <1>1 DEF TimePasses
<1>2. CASE \E j \in Job : Reschedule(j)
  BY <1>2 DEF Reschedule
<1>3. CASE EditConfig
  <2>1. conf' \in {"on", "off", "broken", "none"} /\ reload' \in BOOLEAN
        /\ watch' \in {"none", "there", "gone", "lost"} /\ unseen' \in BOOLEAN
    BY <1>3 DEF EditConfig
  <2>. QED BY <1>3, <2>1 DEF EditConfig
<1>4. CASE Watcher BY <1>4 DEF Watcher, StartWatch, WatchAgain, WatchFile, Reload
<1>5. CASE Start
  <2>1. fails' \in [Event -> 0..(MaxCancelFailures - 1)]
    BY <1>5 DEF Start, Clean
  <2>2. proc' \in {"down", "parked", "up", "stopping"} /\ cfg' \in BOOLEAN /\ due' \in BOOLEAN
    BY <1>5 DEF Start
  <2>3. clear' \in ClearRecord
    BY <1>5 DEF Start, ClearRecord
  <2>4. mem' \subseteq Event /\ loose' \subseteq Event
    BY <1>5 DEF Start
  <2>. QED BY <1>5, <2>1, <2>2, <2>3, <2>4 DEF Start
<1>6. CASE Kick BY <1>6 DEF Kick
<1>7. CASE Reconcile
  <2>1. rc' \in RcRecord
    BY <1>7, RestIs, ReconcileEffect
  <2>2. InWork' \subseteq Event
    BY <2>1 DEF InWork, RcRecord
  <2>3. loose' \subseteq Event
    BY <1>7, <2>2, ReconcileEffect
  <2>. QED BY <1>7, <2>1, <2>3 DEF Reconcile
<1>8. CASE StatusFails BY <1>8 DEF StatusFails
<1>9. ASSUME NEW e \in Event, CancelOne(e) PROVE TypeInv'
  <2>1. /\ rc' \in RcRecord /\ pmset' \subseteq pmset /\ stuck' \subseteq Event
        /\ loose' \subseteq Event
    BY <1>9, CancelEffect
  <2>2. fails' \in [Event -> 0..(MaxCancelFailures - 1)]
    <3>1. \A o \in Outcome :
            (IF o.ok \/ Evicted(e) THEN 0 ELSE fails[e] + 1) \in 0..(MaxCancelFailures - 1)
      BY DEF Evicted
    <3>. QED BY <1>9, <3>1 DEF CancelOne
  <2>. QED BY <1>9, <2>1, <2>2 DEF CancelOne
<1>10. CASE StartAdding BY <1>10, StartAddingEffect DEF StartAdding
<1>11. ASSUME NEW e \in Event, ScheduleOne(e) PROVE TypeInv'
  <2>1. /\ rc' \in RcRecord /\ pmset' \subseteq (now + 1)..MaxTime
        /\ loose' \subseteq Event /\ stuck' \subseteq Event
    <3>1. PICK o \in Outcome :
            /\ pmset' = IF o.done /\ e.at > now THEN pmset \cup {e.at} ELSE pmset
            /\ rc' \in RcRecord
      BY <1>11, ScheduleEffect
    <3>2. e.at \in 1..MaxTime
      BY EventIs
    <3>3. e.at > now => e.at \in (now + 1)..MaxTime
      BY <3>2
    <3>4. pmset \subseteq (now + 1)..MaxTime
      OBVIOUS
    <3>5. pmset' \subseteq pmset \cup {x \in {e.at} : x > now}
      BY <3>1
    <3>6. pmset' \subseteq (now + 1)..MaxTime
      BY <3>3, <3>4, <3>5, Zenon
    <3>7. loose' \subseteq Event /\ stuck' \subseteq Event
      BY <1>11, ScheduleEffect
    <3>. QED BY <3>1, <3>6, <3>7
  <2>. QED BY <1>11, <2>1 DEF ScheduleOne
<1>12. ASSUME NEW e \in Event, CancelOneOfAll(e) PROVE TypeInv'
  <2>1. /\ rc' \in RcRecord /\ pmset' \subseteq pmset /\ stuck' \subseteq Event
        /\ loose' \subseteq Event
    BY <1>12, CancelOfAllEffect
  <2>. QED BY <1>12, <2>1 DEF CancelOneOfAll
<1>13. CASE Record
  <2>1. rc' \in RcRecord /\ mem' \subseteq Event /\ disk' \subseteq Event
    BY <1>13, RestIs DEF Record, Save, RcRecord
  <2>. QED BY <1>13, <2>1 DEF Record
<1>14. CASE Stop
  <2>1. InWork \subseteq Event
    BY DEF InWork, RcRecord
  <2>2. /\ rc' \in RcRecord /\ main' \in MainRecord /\ loose' \subseteq Event
        /\ proc' \in {"down", "parked", "up", "stopping"}
    BY <1>14, <2>1, StopEffect
  <2>. QED BY <1>14, <2>2 DEF Stop
<1>15. ASSUME NEW e \in Event, CancelAtStop(e) PROVE TypeInv'
  <2>1. /\ main' \in MainRecord /\ pmset' \subseteq pmset /\ stuck' \subseteq Event
        /\ loose' \subseteq Event
    BY <1>15, CancelAtStopEffect
  <2>. QED BY <1>15, <2>1 DEF CancelAtStop
<1>16. CASE RecordAtStop
  <2>1. main' \in MainRecord /\ mem' \subseteq Event /\ disk' \subseteq Event
    BY <1>16, RestIs DEF RecordAtStop, Save, MainRecord
  <2>. QED BY <1>16, <2>1 DEF RecordAtStop
<1>17. CASE Exit \/ Crash
  <2>1. loose' \subseteq Event
    <3>1. InHand \subseteq Event
      BY DEF InHand, RcRecord
    <3>. QED BY <1>17, <3>1 DEF Exit, Crash
  <2>. QED BY <1>17, <2>1, RestIs DEF Exit, Crash, Ended
<1>18. CASE ClearLoad
  BY <1>18, ClearLoadEffect DEF ClearLoad
<1>19. ASSUME NEW e \in Event, ClearOne(e) PROVE TypeInv'
  <2>1. /\ clear' \in ClearRecord /\ pmset' \subseteq pmset /\ stuck' \subseteq Event
        /\ loose' \subseteq Event
    BY <1>19, ClearOneEffect
  <2>. QED BY <1>19, <2>1 DEF ClearOne
<1>20. CASE ClearSave
  <2>1. clear' \in ClearRecord /\ disk' \subseteq Event /\ loose' \subseteq Event
    BY <1>20, RestIs, ClearSaveEffect
  <2>. QED BY <1>20, <2>1 DEF ClearSave
<1>21. CASE WakeDetected BY <1>21, HoldEffect DEF WakeDetected
<1>22. CASE Timer BY <1>22, HoldEffect DEF Timer, TimerFires, ReleaseFromTimer
<1>23. CASE ReleaseAtStop
  <2>1. main' \in MainRecord
    BY <1>23, RestIs DEF ReleaseAtStop, MainRecord
  <2>. QED BY <1>23, <2>1, HoldEffect DEF ReleaseAtStop
<1>. QED
  BY <1>1, <1>2, <1>3, <1>4, <1>5, <1>6, <1>7, <1>8, <1>9, <1>10, <1>11, <1>12, <1>13,
     <1>14, <1>15, <1>16, <1>17, <1>18, <1>19, <1>20, <1>21, <1>22, <1>23
  DEF Next, Reconciler, Main, Command

\* The steps that leave the ledger and its workers alone.
Elsewhere ==
  \/ EditConfig \/ Watcher \/ Kick \/ StatusFails \/ WakeDetected \/ Timer
  \/ \E j \in Job : Reschedule(j)

LEMMA ElsewhereIs ==
  ASSUME Elsewhere
  PROVE  UNCHANGED << now, pmset, disk, mem, proc, rc, main, clear, loose, stuck >>
BY DEF Elsewhere, EditConfig, Watcher, StartWatch, WatchAgain, Reload, Kick, StatusFails,
       WakeDetected, Timer, TimerFires, ReleaseFromTimer, Reschedule, world, ledger, history

LEMMA NextIs ==
  ASSUME Next
  PROVE  \/ Elsewhere \/ TimePasses \/ Start \/ Reconcile \/ StartAdding \/ Record
         \/ Stop \/ RecordAtStop \/ ReleaseAtStop \/ Exit \/ Crash \/ ClearLoad \/ ClearSave
         \/ \E e \in Event : \/ CancelOne(e) \/ ScheduleOne(e) \/ CancelOneOfAll(e)
                             \/ CancelAtStop(e) \/ ClearOne(e)
BY DEF Next, Elsewhere, Reconciler, Main, Command

\* What a step of the reconcile does beside its own record.
LEMMA CallIs ==
  ASSUME TypeInv, NEW e \in Event, CancelOne(e) \/ ScheduleOne(e) \/ CancelOneOfAll(e)
  PROVE  /\ UNCHANGED << now, mem, disk, proc, main, clear >>
         /\ e \in rc.todo /\ rc.at # "idle" /\ rc'.at = rc.at /\ rc' \in RcRecord
         /\ InWork' \subseteq InWork
         /\ proc # "up" => loose \subseteq loose' /\ stuck \subseteq stuck'
<1>1. UNCHANGED << now, mem, disk, proc, main, clear >> /\ e \in rc.todo /\ rc.at # "idle"
  BY DEF CancelOne, ScheduleOne, CancelOneOfAll, First, world
<1>2. CASE CancelOne(e)
  <2>1. rc.at = "cancel"
    BY <1>2 DEF CancelOne
  <2>2. PICK o \in Outcome :
          /\ o.ok => IF proc = "up" THEN loose' = loose \ {e} /\ stuck' = stuck \ {e}
                                    ELSE loose' = loose /\ stuck' = stuck
          /\ ~o.ok => stuck' = stuck \cup {e}
          /\ ~o.ok => loose' = loose \/ loose' = loose \cup {e}
          /\ rc' \in RcRecord /\ rc'.at = "cancel" /\ rc'.todo = rc.todo \ {e}
          /\ rc'.adds = rc.adds /\ rc'.want = rc.want
          /\ (rc'.kept = rc.kept \/ rc'.kept = rc.kept \cup {e})
    BY <1>2, CancelEffect
  <2>3. o.ok \in BOOLEAN
    BY OutcomeIs
  <2>. QED BY <1>1, <2>1, <2>2, <2>3 DEF InWork
<1>3. CASE ScheduleOne(e)
  <2>1. rc.at = "add"
    BY <1>3 DEF ScheduleOne
  <2>2. PICK o \in Outcome :
          /\ IF o.ok /\ proc = "up" THEN loose' = loose \ {e} /\ stuck' = stuck \ {e}
                                    ELSE loose' = loose /\ stuck' = stuck
          /\ rc' \in RcRecord /\ rc'.at = "add" /\ rc'.todo = rc.todo \ {e}
          /\ rc'.adds = rc.adds /\ rc'.want = rc.want
          /\ rc'.kept = IF o.ok THEN rc.kept \cup {e} ELSE rc.kept
    BY <1>3, ScheduleEffect
  <2>. QED BY <1>1, <2>1, <2>2 DEF InWork
<1>4. CASE CancelOneOfAll(e)
  <2>1. rc.at = "all"
    BY <1>4 DEF CancelOneOfAll
  <2>2. PICK o \in Outcome :
          /\ o.ok => IF proc = "up" THEN loose' = loose \ {e} /\ stuck' = stuck \ {e}
                                    ELSE loose' = loose /\ stuck' = stuck
          /\ ~o.ok => loose' = loose /\ stuck' = stuck \cup {e}
          /\ rc' \in RcRecord /\ rc'.at = "all" /\ rc'.todo = rc.todo \ {e}
          /\ rc'.want = rc.want /\ rc'.adds = rc.adds
          /\ rc'.kept = IF o.ok THEN rc.kept ELSE rc.kept \cup {e}
    BY <1>4, CancelOfAllEffect
  <2>3. o.ok \in BOOLEAN
    BY OutcomeIs
  <2>. QED BY <1>1, <2>1, <2>2, <2>3 DEF InWork
<1>. QED BY <1>2, <1>3, <1>4

\* What the steps of the two other workers, and of the process, do to all three.
LEMMA RecordIs ==
  ASSUME Record
  PROVE  /\ rc.at \in {"add", "all"} /\ rc.todo = {} /\ mem' = rc.kept /\ rc' = Idle
         /\ UNCHANGED << now, main, clear, proc, pmset, loose, stuck >>
BY DEF Record, Save, world, history

LEMMA RecordAtStopIs ==
  ASSUME TypeInv, RecordAtStop
  PROVE  /\ main.at = "cancel" /\ main.todo = {} /\ mem' = main.kept
         /\ main'.at = "release" /\ main'.todo = {} /\ main'.kept = {}
         /\ UNCHANGED << now, rc, clear, proc, pmset, loose, stuck >>
<1>1. main' = [NoStop EXCEPT !.at = "release"]
  BY DEF RecordAtStop
<1>2. main'.at = "release" /\ main'.todo = {} /\ main'.kept = {}
  BY <1>1, RestIs DEF MainRecord
<1>. QED BY <1>2 DEF RecordAtStop, Save, world, history

LEMMA ReleaseAtStopIs ==
  ASSUME ReleaseAtStop
  PROVE  /\ main.at = "release" /\ main'.at = "wait" /\ main'.todo = {} /\ main'.kept = {}
         /\ UNCHANGED << now, mem, disk, rc, clear, proc, pmset, loose, stuck >>
<1>1. main' = [NoStop EXCEPT !.at = "wait"]
  BY DEF ReleaseAtStop
<1>2. main'.at = "wait" /\ main'.todo = {} /\ main'.kept = {}
  BY <1>1, RestIs DEF MainRecord
<1>. QED BY <1>2 DEF ReleaseAtStop, world, ledger, history

LEMMA EndIs ==
  ASSUME Exit \/ Crash
  PROVE  /\ proc' = "down" /\ rc' = Idle /\ main' = NoStop /\ loose' = loose \cup InHand
         /\ UNCHANGED << now, mem, disk, clear, pmset, stuck >>
BY DEF Exit, Crash, Ended, world, ledger

LEMMA StartIs ==
  ASSUME TypeInv, Start
  PROVE  /\ proc = "down" /\ UNCHANGED << now, disk, rc, main, pmset, stuck >>
         /\ loose \subseteq loose'
         /\ \/ proc' = "parked" /\ UNCHANGED << mem, clear, loose >>
            \/ /\ proc' = "up" /\ clear'.alone = FALSE
               /\ \/ /\ mem' = disk
                     /\ loose' = IF clear.alone
                                   THEN loose \cup (disk \ (clear.todo \cup clear.kept)) ELSE loose
                  \/ mem' = {} /\ loose' = loose \cup disk
<1>1. clear \in ClearRecord
  BY DEF TypeInv
<1>2. [clear EXCEPT !.alone = FALSE].alone = FALSE
  BY <1>1 DEF ClearRecord
<1>3. /\ proc = "down" /\ UNCHANGED << now, disk, rc, main, pmset, stuck >>
      /\ \/ proc' = "parked" /\ UNCHANGED << mem, clear, loose >>
         \/ /\ proc' = "up" /\ clear' = [clear EXCEPT !.alone = FALSE]
            /\ \/ /\ mem' = disk
                  /\ loose' = IF clear.alone
                                THEN loose \cup (disk \ (clear.todo \cup clear.kept)) ELSE loose
               \/ mem' = {} /\ loose' = loose \cup disk
  BY DEF Start
<1>. QED BY <1>2, <1>3

LEMMA Works == ASSUME TypeInv, WorkInv, Next PROVE WorkInv'
<1> USE DEF WorkInv
<1>0. rc \in RcRecord /\ main \in MainRecord /\ clear \in ClearRecord
      /\ proc \in {"down", "parked", "up", "stopping"}
  BY DEF TypeInv
<1>1. CASE Elsewhere \/ TimePasses
  BY <1>1, ElsewhereIs DEF TimePasses
<1>2. CASE Start
  <2>1. clear'.alone => clear'.at = "cancel" /\ proc' \in {"down", "parked"}
    BY <1>2, StartIs
  <2>. QED BY <1>2, <2>1, StartIs
<1>3. CASE Reconcile
  <2>1. proc \in {"up", "stopping"} /\ UNCHANGED << proc, main, clear >>
    BY <1>3 DEF Reconcile
  <2>. QED BY <2>1
<1>4. ASSUME NEW e \in Event, CancelOne(e) \/ ScheduleOne(e) \/ CancelOneOfAll(e)
      PROVE  WorkInv'
  BY <1>4, CallIs
<1>5. CASE StartAdding
  <2>1. rc.at = "cancel" /\ UNCHANGED << proc, main, clear >>
    BY <1>5 DEF StartAdding
  <2>. QED BY <1>0, <2>1
<1>6. CASE Record BY <1>6, RecordIs, RestIs
<1>7. CASE Stop
  <2>1. clear' = clear
    BY <1>7 DEF Stop
  <2>2. CASE proc = "parked" /\ proc' = "down" /\ UNCHANGED << rc, main >>
    BY <2>1, <2>2
  <2>3. CASE proc = "up" /\ proc' = "stopping"
    BY <2>1, <2>3
  <2>. QED BY <1>7, <2>2, <2>3, StopEffect
<1>8. ASSUME NEW e \in Event, CancelAtStop(e) PROVE WorkInv'
  <2>1. main.at = "cancel" /\ main'.at = "cancel" /\ UNCHANGED << proc, rc, clear >>
    BY <1>8, CancelAtStopEffect DEF CancelAtStop
  <2>. QED BY <2>1
<1>9. CASE RecordAtStop BY <1>9, RecordAtStopIs
<1>10. CASE ReleaseAtStop BY <1>10, ReleaseAtStopIs
<1>11. CASE Exit \/ Crash
  BY <1>11, EndIs, RestIs
<1>12. CASE ClearLoad
  BY <1>12, ClearLoadEffect DEF ClearLoad
<1>13. ASSUME NEW e \in Event, ClearOne(e) PROVE WorkInv'
  <2>1. clear'.at = "cancel" /\ clear'.alone = clear.alone /\ UNCHANGED << proc, rc, main >>
    BY <1>13, ClearOneEffect DEF ClearOne
  <2>. QED BY <2>1
<1>14. CASE ClearSave
  <2>1. clear' = NoClear /\ UNCHANGED << proc, rc, main >>
    BY <1>14 DEF ClearSave
  <2>. QED BY <2>1, RestIs
<1>. QED
  BY <1>1, <1>2, <1>3, <1>4, <1>5, <1>6, <1>7, <1>8, <1>9, <1>10, <1>11, <1>12, <1>13, <1>14,
     NextIs

LEMMA Clears == ASSUME TypeInv, WorkInv, ClearInv, Next PROVE ClearInv'
<1> USE DEF ClearInv
<1>1. CASE Elsewhere \/ TimePasses
  BY <1>1, ElsewhereIs DEF TimePasses
<1>2. CASE Start BY <1>2, StartIs
<1>3. CASE Reconcile \/ StartAdding \/ Stop
  BY <1>3 DEF Reconcile, StartAdding, Stop, ledger
<1>4. ASSUME NEW e \in Event, CancelOne(e) \/ ScheduleOne(e) \/ CancelOneOfAll(e)
      PROVE  ClearInv'
  BY <1>4, CallIs
<1>5. CASE Record
  <2>1. ~clear.alone
    BY <1>5, RecordIs DEF WorkInv
  <2>. QED BY <1>5, <2>1, RecordIs
<1>6. CASE RecordAtStop
  <2>1. ~clear.alone
    BY <1>6, RecordAtStopIs DEF WorkInv
  <2>. QED BY <1>6, <2>1, RecordAtStopIs
<1>7. ASSUME NEW e \in Event, CancelAtStop(e) PROVE ClearInv'
  BY <1>7 DEF CancelAtStop
<1>8. CASE ReleaseAtStop \/ Exit \/ Crash
  BY <1>8, ReleaseAtStopIs, EndIs
<1>9. CASE ClearLoad
  BY <1>9, ClearLoadEffect DEF ClearLoad, ledger
<1>10. ASSUME NEW e \in Event, ClearOne(e) PROVE ClearInv'
  <2>1. disk' = disk
    BY <1>10 DEF ClearOne
  <2>2. /\ e \in clear.todo /\ clear'.alone = clear.alone /\ clear'.todo = clear.todo \ {e}
        /\ clear'.kept = clear.kept \/ clear'.kept = clear.kept \cup {e}
    BY <1>10, ClearOneEffect
  <2>. QED BY <2>1, <2>2
<1>11. CASE ClearSave
  BY <1>11, ClearSaveEffect, RestIs
<1>. QED
  BY <1>1, <1>2, <1>3, <1>4, <1>5, <1>6, <1>7, <1>8, <1>9, <1>10, <1>11, NextIs

LEMMA Mains == ASSUME TypeInv, WorkInv, MainInv, Next PROVE MainInv'
<1> USE DEF MainInv
<1>1. CASE Elsewhere \/ TimePasses
  <2>1. UNCHANGED << mem, proc, rc, main, loose >>
    BY <1>1, ElsewhereIs DEF TimePasses, history
  <2>. QED BY <2>1 DEF InWork
<1>2. CASE Start
  <2>1. main.at = "no" /\ main' = main /\ proc' # "stopping"
    BY <1>2, StartIs DEF WorkInv
  <2>. QED BY <2>1
<1>3. CASE Reconcile
  <2>1. UNCHANGED << mem, proc, main >> /\ rc.at = "idle" /\ loose \subseteq loose'
    BY <1>3, ReconcileEffect DEF Reconcile, ledger
  <2>2. ASSUME proc = "stopping", rc'.at # "idle"
        PROVE  mem \cup InWork' \cup main.todo \cup main.kept \subseteq loose'
    <3>1. rc' # Idle
      BY <2>2, RestIs
    <3>2. loose' = loose \cup mem \cup InWork'
      BY <1>3, <2>2, <3>1, ReconcileEffect
    <3>. QED BY <3>2
  <2>. QED BY <2>1, <2>2
<1>4. ASSUME NEW e \in Event, CancelOne(e) \/ ScheduleOne(e) \/ CancelOneOfAll(e)
      PROVE  MainInv'
  <2>1. /\ UNCHANGED << mem, proc, main >> /\ rc.at # "idle" /\ rc'.at = rc.at
        /\ InWork' \subseteq InWork /\ (proc # "up" => loose \subseteq loose')
    BY <1>4, CallIs
  <2>2. CASE proc = "up"
    <3>1. main.at = "no"
      BY <2>2 DEF WorkInv
    <3>. QED BY <2>1, <2>2, <3>1
  <2>3. CASE proc # "up"
    BY <2>1, <2>3
  <2>. QED BY <2>2, <2>3
<1>5. CASE StartAdding
  <2>1. rc.at = "cancel" /\ UNCHANGED << mem, proc, main, loose >>
    BY <1>5 DEF StartAdding, ledger, history
  <2>2. InWork' \subseteq InWork \cup mem
    BY <1>5, StartAddingEffect DEF InWork, KeepOwned
  <2>. QED BY <2>1, <2>2
<1>6. CASE Record
  <2>1. rc.kept \subseteq InWork
    BY DEF InWork
  <2>2. proc = "up" \/ proc = "stopping"
    BY <1>6, RecordIs DEF WorkInv, TypeInv
  <2>3. main.todo \cup main.kept \subseteq loose
    <3>1. CASE proc = "up"
      BY <3>1 DEF WorkInv
    <3>2. CASE proc = "stopping"
      BY <1>6, <3>2, RecordIs
    <3>. QED BY <2>2, <3>1, <3>2
  <2>. QED BY <1>6, <2>1, <2>3, RecordIs, RestIs
<1>7. CASE Stop
  <2>0. mem' = mem
    BY <1>7 DEF Stop, ledger
  <2>1. CASE proc = "parked" /\ proc' = "down" /\ UNCHANGED << rc, main, loose >>
    BY <2>0, <2>1
  <2>2. CASE /\ proc = "up" /\ proc' = "stopping" /\ main'.at = "cancel" /\ main'.todo = mem
             /\ main'.kept = {} /\ rc'.at = rc.at /\ InWork' = InWork
             /\ loose' = IF rc.at # "idle" THEN loose \cup mem \cup InWork ELSE loose
    BY <2>0, <2>2
  <2>. QED BY <1>7, <2>1, <2>2, StopEffect DEF InWork
<1>8. ASSUME NEW e \in Event, CancelAtStop(e) PROVE MainInv'
  <2>1. UNCHANGED << mem, proc, rc >> /\ InWork' = InWork
    BY <1>8 DEF CancelAtStop, InWork
  <2>2. /\ e \in main.todo /\ main'.at = "cancel" /\ main'.todo = main.todo \ {e}
        /\ main'.kept = main.kept \/ main'.kept = main.kept \cup {e}
        /\ loose \subseteq loose'
    BY <1>8, CancelAtStopEffect
  <2>. QED BY <2>1, <2>2
<1>9. CASE RecordAtStop
  <2>1. InWork' = InWork
    BY <1>9, RecordAtStopIs DEF InWork
  <2>. QED BY <1>9, <2>1, RecordAtStopIs
<1>10. CASE ReleaseAtStop
  <2>1. InWork' = InWork
    BY <1>10, ReleaseAtStopIs DEF InWork
  <2>. QED BY <1>10, <2>1, ReleaseAtStopIs
<1>11. CASE Exit \/ Crash
  BY <1>11, EndIs, RestIs
<1>12. CASE ClearLoad
  <2>1. UNCHANGED << mem, proc, rc, main, loose >>
    BY <1>12 DEF ClearLoad, ledger, history
  <2>. QED BY <2>1 DEF InWork
<1>13. ASSUME NEW e \in Event, ClearOne(e) PROVE MainInv'
  <2>1. UNCHANGED << mem, proc, rc, main >> /\ InWork' = InWork /\ loose \subseteq loose'
    BY <1>13, ClearOneEffect DEF ClearOne, InWork
  <2>. QED BY <2>1
<1>14. CASE ClearSave
  <2>1. UNCHANGED << mem, proc, rc, main >> /\ InWork' = InWork /\ loose \subseteq loose'
    BY <1>14, ClearSaveEffect DEF ClearSave, InWork
  <2>. QED BY <2>1
<1>. QED
  BY <1>1, <1>2, <1>3, <1>4, <1>5, <1>6, <1>7, <1>8, <1>9, <1>10, <1>11, <1>12, <1>13, <1>14,
     NextIs


-----------------------------------------------------------------------------
(* The account, by who is at work.                                          *)

LEMMA AccountedIs ==
  ASSUME TypeInv
  PROVE  /\ rc.at = "cancel" => Accounted = mem \ rc.gone
         /\ rc.at = "add" => Accounted = rc.kept
         /\ rc.at = "all" => Accounted = rc.todo \cup rc.kept
         /\ rc.at = "idle" /\ main.at = "cancel" => Accounted = main.todo \cup main.kept
         /\ rc.at = "idle" /\ main.at # "cancel" /\ clear.alone =>
              Accounted = clear.todo \cup clear.kept
         /\ rc.at = "idle" /\ main.at # "cancel" /\ ~clear.alone => Accounted = Owned
<1>1. rc.at \in {"idle", "cancel", "add", "all"} /\ clear.alone \in BOOLEAN
  BY DEF TypeInv, RcRecord, ClearRecord
<1>2. CASE rc.at = "idle"
  BY <1>1, <1>2 DEF Accounted
<1>3. CASE rc.at # "idle"
  BY <1>1, <1>3 DEF Accounted
<1>. QED BY <1>2, <1>3

LEMMA AccountedThen ==
  ASSUME TypeInv'
  PROVE  /\ rc'.at = "cancel" => Accounted' = mem' \ rc'.gone
         /\ rc'.at = "add" => Accounted' = rc'.kept
         /\ rc'.at = "all" => Accounted' = rc'.todo \cup rc'.kept
         /\ rc'.at = "idle" /\ main'.at = "cancel" => Accounted' = main'.todo \cup main'.kept
         /\ rc'.at = "idle" /\ main'.at # "cancel" /\ clear'.alone =>
              Accounted' = clear'.todo \cup clear'.kept
         /\ rc'.at = "idle" /\ main'.at # "cancel" /\ ~clear'.alone => Accounted' = Owned'
<1>1. rc'.at \in {"idle", "cancel", "add", "all"} /\ clear'.alone \in BOOLEAN
  BY DEF TypeInv, RcRecord, ClearRecord
<1>2. CASE rc'.at = "idle"
  BY <1>1, <1>2 DEF Accounted
<1>3. CASE rc'.at # "idle"
  BY <1>1, <1>3 DEF Accounted
<1>. QED BY <1>2, <1>3

LEMMA AccountedType == ASSUME TypeInv PROVE Accounted \subseteq Event
<1>1. /\ rc.at \in {"idle", "cancel", "add", "all"}
      /\ rc.todo \cup rc.kept \cup rc.gone \subseteq Event
  BY DEF TypeInv, RcRecord
<1>2. main.todo \cup main.kept \subseteq Event
  BY DEF TypeInv, MainRecord
<1>3. clear.todo \cup clear.kept \subseteq Event /\ clear.alone \in BOOLEAN
  BY DEF TypeInv, ClearRecord
<1>4. Owned \subseteq Event /\ mem \subseteq Event
  BY DEF TypeInv, Owned
<1>. QED BY <1>1, <1>2, <1>3, <1>4, AccountedIs

\* A reconcile at work beside cancelAll accounts for nothing that is not in doubt.
LEMMA OverlapIs ==
  ASSUME TypeInv, MainInv, proc = "stopping", rc.at # "idle"
  PROVE  Accounted \subseteq loose
<1>1. rc.at \in {"idle", "cancel", "add", "all"}
  BY DEF TypeInv, RcRecord
<1>2. mem \cup InWork \subseteq loose
  BY DEF MainInv
<1>3. rc.todo \cup rc.kept \subseteq InWork
  BY DEF InWork
<1>. QED BY <1>1, <1>2, <1>3, AccountedIs

LEMMA OverlapThen ==
  ASSUME TypeInv', MainInv', proc' = "stopping", rc'.at # "idle"
  PROVE  Accounted' \subseteq loose'
<1>1. rc'.at \in {"idle", "cancel", "add", "all"}
  BY DEF TypeInv, RcRecord
<1>2. mem' \cup InWork' \subseteq loose'
  BY DEF MainInv
<1>3. rc'.todo \cup rc'.kept \subseteq InWork'
  BY DEF InWork
<1>. QED BY <1>1, <1>2, <1>3, AccountedThen

\* Steps that change nothing but what is in doubt.
LEMMA QuietIs ==
  ASSUME now' = now, pmset' = pmset, stuck \subseteq stuck', Accounted' = Accounted,
         loose \subseteq loose'
  PROVE  AccountStep
BY DEF AccountStep, Quiet, Covered, Certain

LEMMA DoubtIs ==
  ASSUME Accounted \subseteq loose, loose \subseteq loose', Accounted' \subseteq loose'
  PROVE  Covered({}) /\ Certain({})
BY DEF Covered, Certain

-----------------------------------------------------------------------------
(* What a step does to the account.                                         *)

\* A reconcile begins.
LEMMA ReconcileAccount ==
  ASSUME TypeInv, WorkInv, MainInv, TypeInv', MainInv', Reconcile
  PROVE  AccountStep
<1>1. /\ rc.at = "idle" /\ proc \in {"up", "stopping"}
      /\ UNCHANGED << now, pmset, disk, mem, proc, main, clear, stuck >>
  BY ReconcileEffect DEF Reconcile, world, ledger
<1>2. loose' = IF proc = "stopping" /\ rc' # Idle THEN loose \cup mem \cup InWork' ELSE loose
  BY ReconcileEffect
<1>3. ~clear.alone
  BY <1>1 DEF WorkInv
<1>4. CASE rc'.at = "idle"
  <2>1. Accounted' = Accounted
    BY <1>1, <1>3, <1>4, AccountedIs, AccountedThen DEF Owned
  <2>. QED BY <1>1, <1>2, <2>1, QuietIs
<1>5. CASE rc'.at # "idle"
  <2>1. rc' # Idle
    BY <1>5, RestIs
  <2>2. CASE proc = "up"
    <3>1. Accounted = mem
      BY <1>1, <1>3, <2>2, AccountedIs DEF WorkInv, Owned
    <3>2. \/ rc'.at = "all" /\ rc'.todo = mem /\ rc'.kept = {}
          \/ rc'.at = "cancel" /\ rc'.gone = {}
      BY <1>1, <1>5, <2>1, ReconcileEffect
    <3>3. Accounted' = mem
      BY <1>1, <3>2, AccountedThen
    <3>. QED BY <1>1, <1>2, <3>1, <3>3, QuietIs
  <2>3. CASE proc = "stopping"
    <3>1. loose' = loose \cup mem \cup InWork'
      BY <1>2, <2>1, <2>3
    <3>2. Accounted' \subseteq loose'
      BY <1>1, <1>5, <2>3, OverlapThen
    <3>3. Accounted \subseteq mem \cup loose
      BY <1>1, <1>3, <2>3, AccountedIs DEF MainInv, Owned
    <3>4. Covered({}) /\ Certain({})
      BY <3>1, <3>2, <3>3 DEF Covered, Certain
    <3>. QED BY <1>1, <3>4 DEF AccountStep, Quiet
  <2>. QED BY <1>1, <2>2, <2>3
<1>. QED BY <1>4, <1>5

\* A call of the reconcile beside cancelAll.
LEMMA CallInDoubt ==
  ASSUME TypeInv, MainInv, TypeInv', MainInv', proc # "up", WorkInv,
         NEW e \in Event, CancelOne(e) \/ ScheduleOne(e) \/ CancelOneOfAll(e)
  PROVE  AccountStep
<1>1. /\ UNCHANGED << now, mem, disk, proc, main, clear >>
      /\ e \in rc.todo /\ rc.at # "idle" /\ rc'.at = rc.at
      /\ loose \subseteq loose' /\ stuck \subseteq stuck'
  BY CallIs
<1>2. proc = "stopping"
  BY <1>1 DEF WorkInv, TypeInv
<1>3. Accounted \subseteq loose /\ Accounted' \subseteq loose'
  BY <1>1, <1>2, OverlapIs, OverlapThen
<1>4. Covered({}) /\ Certain({})
  BY <1>1, <1>3, DoubtIs
<1>5. e \in loose'
  BY <1>1, <1>2 DEF MainInv, InWork
<1>6. CASE CancelOne(e) \/ CancelOneOfAll(e)
  <2>1. pmset' = pmset \/ pmset' = pmset \ {e.at}
    BY <1>6 DEF CancelOne, CancelOneOfAll
  <2>2. CASE pmset' = pmset
    BY <1>1, <1>4, <2>2 DEF AccountStep, Quiet
  <2>3. CASE pmset' = pmset \ {e.at}
    <3>1. Dropped(e)
      BY <1>1, <1>4, <1>5, <2>3 DEF Dropped, Covered
    <3>. QED BY <3>1 DEF AccountStep
  <2>. QED BY <2>1, <2>2, <2>3
<1>7. CASE ScheduleOne(e)
  <2>1. pmset' = pmset \/ pmset' = pmset \cup {e.at}
    BY <1>7 DEF ScheduleOne
  <2>2. AddedLate(e)
    BY <1>1, <1>4, <1>5, <2>1 DEF AddedLate
  <2>. QED BY <2>2 DEF AccountStep
<1>. QED BY <1>6, <1>7

LEMMA CancelAccount ==
  ASSUME TypeInv, RcInv, TypeInv', proc = "up", NEW e \in Event, CancelOne(e)
  PROVE  AccountStep
<1>1. PICK o \in Outcome :
        /\ pmset' = IF o.done THEN pmset \ {e.at} ELSE pmset
        /\ o.ok => IF proc = "up" THEN loose' = loose \ {e} /\ stuck' = stuck \ {e}
                                  ELSE loose' = loose /\ stuck' = stuck
        /\ ~o.ok => stuck' = stuck \cup {e}
        /\ ~o.ok => loose' = loose \/ loose' = loose \cup {e}
        /\ rc'.at = "cancel"
        /\ \/ rc'.gone = rc.gone \cup {e} /\ (~o.ok => loose' = loose \cup {e})
           \/ ~o.ok /\ rc'.gone = rc.gone
  BY CancelEffect
<1>2. rc.at = "cancel" /\ UNCHANGED << now, mem >>
  BY CallIs DEF CancelOne
<1>3. o.ok \in BOOLEAN /\ o.done = o.ok
  BY OutcomeIs
<1>4. Accounted = mem \ rc.gone /\ Accounted' = mem \ rc'.gone
  BY <1>1, <1>2, AccountedIs, AccountedThen
<1>5. CASE o.ok
  <2>1. /\ pmset' = pmset \ {e.at} /\ loose' = loose \ {e} /\ stuck' = stuck \ {e}
        /\ Accounted' = Accounted \ {e}
    BY <1>1, <1>3, <1>4, <1>5
  <2>2. Dropped(e)
    BY <1>2, <2>1 DEF Dropped, Covered, Certain
  <2>. QED BY <2>2 DEF AccountStep
<1>6. CASE ~o.ok
  <2>1. /\ pmset' = pmset /\ stuck \subseteq stuck' /\ loose \subseteq loose'
        /\ \/ Accounted' = Accounted
           \/ Accounted' = Accounted \ {e} /\ e \in loose'
    BY <1>1, <1>3, <1>4, <1>6
  <2>2. Quiet
    BY <1>2, <2>1 DEF Quiet, Covered, Certain
  <2>. QED BY <2>2 DEF AccountStep
<1>. QED BY <1>3, <1>5, <1>6

LEMMA ScheduleAccount ==
  ASSUME TypeInv, RcInv, TypeInv', proc = "up", NEW e \in Event, ScheduleOne(e)
  PROVE  AccountStep
<1>1. PICK o \in Outcome :
        /\ pmset' = IF o.done /\ e.at > now THEN pmset \cup {e.at} ELSE pmset
        /\ IF o.ok /\ proc = "up" THEN loose' = loose \ {e} /\ stuck' = stuck \ {e}
                                  ELSE loose' = loose /\ stuck' = stuck
        /\ rc'.at = "add"
        /\ rc'.kept = IF o.ok THEN rc.kept \cup {e} ELSE rc.kept
  BY ScheduleEffect
<1>2. rc.at = "add" /\ e \in rc.todo /\ now' = now
  BY CallIs DEF ScheduleOne
<1>3. o.ok \in BOOLEAN /\ o.done = o.ok
  BY OutcomeIs
<1>4. Accounted = rc.kept /\ Accounted' = rc'.kept
  BY <1>1, <1>2, AccountedIs, AccountedThen
<1>5. e \in rc.want
  BY <1>2 DEF RcInv
<1>6. CASE o.ok
  <2>1. /\ pmset' = (IF e.at > now THEN pmset \cup {e.at} ELSE pmset)
        /\ loose' = loose \ {e} /\ stuck' = stuck \ {e} /\ Accounted' = Accounted \cup {e}
    BY <1>1, <1>3, <1>4, <1>6
  <2>2. Covered({}) /\ Certain({e})
    BY <2>1 DEF Covered, Certain
  <2>3. Added(e)
    BY <1>2, <1>5, <2>1, <2>2 DEF Added
  <2>. QED BY <2>3 DEF AccountStep
<1>7. CASE ~o.ok
  <2>1. pmset' = pmset /\ stuck' = stuck /\ loose' = loose /\ Accounted' = Accounted
    BY <1>1, <1>3, <1>4, <1>7
  <2>. QED BY <1>2, <2>1, QuietIs
<1>. QED BY <1>3, <1>6, <1>7

LEMMA CancelOfAllAccount ==
  ASSUME TypeInv, RcInv, TypeInv', proc = "up", NEW e \in Event, CancelOneOfAll(e)
  PROVE  AccountStep
<1>1. PICK o \in Outcome :
        /\ pmset' = IF o.done THEN pmset \ {e.at} ELSE pmset
        /\ o.ok => IF proc = "up" THEN loose' = loose \ {e} /\ stuck' = stuck \ {e}
                                  ELSE loose' = loose /\ stuck' = stuck
        /\ ~o.ok => loose' = loose /\ stuck' = stuck \cup {e}
        /\ rc'.at = "all" /\ rc'.todo = rc.todo \ {e}
        /\ rc'.kept = IF o.ok THEN rc.kept ELSE rc.kept \cup {e}
  BY CancelOfAllEffect
<1>2. rc.at = "all" /\ e \in rc.todo /\ now' = now
  BY CallIs DEF CancelOneOfAll
<1>3. o.ok \in BOOLEAN /\ o.done = o.ok
  BY OutcomeIs
<1>4. Accounted = rc.todo \cup rc.kept /\ Accounted' = rc'.todo \cup rc'.kept
  BY <1>1, <1>2, AccountedIs, AccountedThen
<1>5. rc.todo \cap rc.kept = {}
  BY <1>2 DEF RcInv
<1>6. CASE o.ok
  <2>1. /\ pmset' = pmset \ {e.at} /\ loose' = loose \ {e} /\ stuck' = stuck \ {e}
        /\ Accounted' = Accounted \ {e}
    BY <1>1, <1>2, <1>3, <1>4, <1>5, <1>6
  <2>2. Dropped(e)
    BY <1>2, <2>1 DEF Dropped, Covered, Certain
  <2>. QED BY <2>2 DEF AccountStep
<1>7. CASE ~o.ok
  <2>1. pmset' = pmset /\ stuck \subseteq stuck' /\ loose' = loose /\ Accounted' = Accounted
    BY <1>1, <1>2, <1>3, <1>4, <1>7
  <2>. QED BY <1>2, <2>1, QuietIs
<1>. QED BY <1>3, <1>6, <1>7

LEMMA StartAddingAccount ==
  ASSUME TypeInv, WorkInv, RcInv, MainInv, TypeInv', MainInv', StartAdding
  PROVE  AccountStep
<1>1. /\ rc.at = "cancel" /\ rc.todo = {}
      /\ UNCHANGED << now, pmset, mem, proc, loose, stuck >>
  BY DEF StartAdding, world, ledger, history
<1>2. rc'.at = "add" /\ rc'.kept = KeepOwned
  BY StartAddingEffect
<1>3. CASE proc = "up"
  <2>1. /\ mem \subseteq rc.want \cup rc.gone \cup rc.kept
        /\ rc.kept \subseteq mem \ rc.gone /\ rc.gone \cap rc.want = {}
    BY <1>1, <1>3 DEF RcInv
  <2>2. Accounted = mem \ rc.gone /\ Accounted' = KeepOwned
    BY <1>1, <1>2, AccountedIs, AccountedThen
  <2>3. KeepOwned = mem \ rc.gone
    BY <2>1 DEF KeepOwned
  <2>. QED BY <1>1, <2>2, <2>3, QuietIs
<1>4. CASE proc = "stopping"
  <2>1. Accounted \subseteq loose /\ Accounted' \subseteq loose'
    BY <1>1, <1>2, <1>4, OverlapIs, OverlapThen
  <2>. QED BY <1>1, <2>1, DoubtIs DEF AccountStep, Quiet
<1>. QED BY <1>1, <1>3, <1>4 DEF WorkInv, TypeInv

LEMMA RecordAccount ==
  ASSUME TypeInv, WorkInv, MainInv, TypeInv', Record
  PROVE  AccountStep
<1>1. /\ rc.at \in {"add", "all"} /\ rc.todo = {} /\ mem' = rc.kept /\ rc' = Idle
      /\ UNCHANGED << now, main, clear, proc, pmset, loose, stuck >>
  BY RecordIs
<1>2. ~clear.alone /\ proc \in {"up", "stopping"} /\ rc'.at = "idle"
  BY <1>1, RestIs DEF WorkInv, TypeInv
<1>3. Accounted = rc.kept
  BY <1>1, AccountedIs
<1>4. CASE main.at # "cancel"
  <2>1. Accounted' = rc.kept
    BY <1>1, <1>2, <1>4, AccountedThen DEF Owned
  <2>. QED BY <1>1, <1>3, <2>1, QuietIs
<1>5. CASE main.at = "cancel"
  <2>1. proc = "stopping"
    BY <1>2, <1>5 DEF WorkInv
  <2>2. Accounted \subseteq loose
    BY <1>1, <2>1, OverlapIs
  <2>3. Accounted' = main.todo \cup main.kept
    BY <1>1, <1>2, <1>5, AccountedThen
  <2>4. main.todo \cup main.kept \subseteq loose
    BY <1>1, <2>1 DEF MainInv
  <2>. QED BY <1>1, <2>2, <2>3, <2>4, DoubtIs DEF AccountStep, Quiet
<1>. QED BY <1>4, <1>5

LEMMA StartAccount ==
  ASSUME TypeInv, WorkInv, ClearInv, TypeInv', Start
  PROVE  AccountStep
<1>1. /\ proc = "down" /\ UNCHANGED << now, disk, rc, main, pmset, stuck >>
      /\ loose \subseteq loose'
      /\ \/ proc' = "parked" /\ UNCHANGED << mem, clear, loose >>
         \/ /\ proc' = "up" /\ clear'.alone = FALSE
            /\ \/ /\ mem' = disk
                  /\ loose' = IF clear.alone
                                THEN loose \cup (disk \ (clear.todo \cup clear.kept)) ELSE loose
               \/ mem' = {} /\ loose' = loose \cup disk
  BY StartIs
<1>2. rc.at = "idle" /\ main.at = "no" /\ clear.alone \in BOOLEAN
  BY <1>1 DEF WorkInv, TypeInv, ClearRecord
<1>3. Accounted = IF clear.alone THEN clear.todo \cup clear.kept ELSE disk
  BY <1>1, <1>2, AccountedIs DEF Owned
<1>4. CASE proc' = "parked" /\ UNCHANGED << mem, clear, loose >>
  <2>1. Accounted' = Accounted
    BY <1>1, <1>2, <1>3, <1>4, AccountedThen DEF Owned
  <2>. QED BY <1>1, <2>1, QuietIs
<1>5. CASE proc' = "up" /\ clear'.alone = FALSE
  <2>1. Accounted' = mem'
    BY <1>1, <1>2, <1>5, AccountedThen DEF Owned
  <2>2. clear.alone => clear.todo \cup clear.kept \subseteq disk
    BY DEF ClearInv
  <2>3. Covered({}) /\ Certain({})
    <3>1. CASE mem' = {} /\ loose' = loose \cup disk
      BY <1>3, <2>1, <2>2, <3>1 DEF Covered, Certain
    <3>2. CASE /\ mem' = disk
               /\ loose' = IF clear.alone
                             THEN loose \cup (disk \ (clear.todo \cup clear.kept)) ELSE loose
      <4>1. CASE clear.alone
        BY <1>3, <2>1, <2>2, <3>2, <4>1 DEF Covered, Certain
      <4>2. CASE ~clear.alone
        BY <1>3, <2>1, <3>2, <4>2 DEF Covered, Certain
      <4>. QED BY <4>1, <4>2
    <3>. QED BY <1>1, <1>5, <3>1, <3>2
  <2>. QED BY <1>1, <2>3 DEF AccountStep, Quiet
<1>. QED BY <1>1, <1>4, <1>5

LEMMA StopAccount ==
  ASSUME TypeInv, WorkInv, TypeInv', Stop
  PROVE  AccountStep
<1>1. UNCHANGED << now, pmset, disk, mem, clear, stuck >>
  BY DEF Stop, world, ledger
<1>2. CASE proc = "parked" /\ proc' = "down" /\ UNCHANGED << rc, main, loose >>
  <2>1. Accounted' = Accounted
    BY <1>1, <1>2 DEF Accounted, Owned
  <2>. QED BY <1>1, <1>2, <2>1, QuietIs
<1>3. CASE /\ proc = "up" /\ proc' = "stopping"
           /\ main'.at = "cancel" /\ main'.todo = mem /\ main'.kept = {}
           /\ rc'.at = rc.at /\ rc'.todo = rc.todo /\ rc'.kept = rc.kept /\ rc'.gone = rc.gone
           /\ loose \subseteq loose'
  <2>1. main.at = "no" /\ ~clear.alone
    BY <1>3 DEF WorkInv
  <2>2. CASE rc.at = "idle"
    <3>1. Accounted = mem /\ Accounted' = mem
      BY <1>1, <1>3, <2>1, <2>2, AccountedIs, AccountedThen DEF Owned
    <3>. QED BY <1>1, <1>3, <3>1, QuietIs
  <2>3. CASE rc.at # "idle"
    <3>1. rc.at \in {"cancel", "add", "all"}
      BY <2>3 DEF TypeInv, RcRecord
    <3>2. Accounted' = Accounted
      BY <1>1, <1>3, <3>1, AccountedIs, AccountedThen
    <3>. QED BY <1>1, <1>3, <3>2, QuietIs
  <2>. QED BY <2>2, <2>3
<1>4. loose \subseteq loose'
  BY StopEffect
<1>. QED BY <1>2, <1>3, <1>4, StopEffect

LEMMA CancelAtStopAccount ==
  ASSUME TypeInv, WorkInv, MainInv, TypeInv', NEW e \in Event, CancelAtStop(e)
  PROVE  AccountStep
<1>1. /\ main.at = "cancel" /\ e \in main.todo
      /\ main'.at = "cancel" /\ main'.todo = main.todo \ {e}
      /\ UNCHANGED << now, mem, disk, proc, rc, clear >>
  BY CancelAtStopEffect DEF CancelAtStop, world
<1>2. proc = "stopping"
  BY <1>1 DEF WorkInv, TypeInv
<1>3. \/ /\ pmset' = pmset \ {e.at} /\ main'.kept = main.kept
         /\ stuck' = stuck /\ loose' = loose
      \/ /\ main'.kept = main.kept \cup {e} /\ stuck' = stuck \cup {e}
         /\ \/ pmset' = pmset /\ loose' = loose
            \/ pmset' = pmset \ {e.at} /\ loose' = loose \cup {e}
  BY CancelAtStopEffect
<1>4. CASE rc.at = "idle"
  <2>1. Accounted = main.todo \cup main.kept /\ Accounted' = main'.todo \cup main'.kept
    BY <1>1, <1>4, AccountedIs, AccountedThen
  <2>2. main.todo \cap main.kept = {}
    BY DEF MainInv
  <2>3. CASE pmset' = pmset \ {e.at} /\ main'.kept = main.kept /\ stuck' = stuck /\ loose' = loose
    <3>1. Accounted' = Accounted \ {e}
      BY <1>1, <2>1, <2>2, <2>3
    <3>2. Dropped(e)
      BY <1>1, <2>3, <3>1 DEF Dropped, Covered, Certain
    <3>. QED BY <3>2 DEF AccountStep
  <2>4. CASE main'.kept = main.kept \cup {e} /\ stuck' = stuck \cup {e}
    <3>1. Accounted' = Accounted
      BY <1>1, <2>1, <2>4
    <3>2. CASE pmset' = pmset /\ loose' = loose
      BY <1>1, <2>4, <3>1, <3>2, QuietIs
    <3>3. CASE pmset' = pmset \ {e.at} /\ loose' = loose \cup {e}
      <4>1. Dropped(e)
        BY <1>1, <2>4, <3>1, <3>3 DEF Dropped, Covered, Certain
      <4>. QED BY <4>1 DEF AccountStep
    <3>. QED BY <1>3, <1>1, <2>3, <2>4, <3>2, <3>3
  <2>. QED BY <1>3, <2>3, <2>4
<1>5. CASE rc.at # "idle"
  <2>1. rc.at \in {"cancel", "add", "all"}
    BY <1>5 DEF TypeInv, RcRecord
  <2>2. Accounted' = Accounted
    BY <1>1, <2>1, AccountedIs, AccountedThen
  <2>3. Accounted \subseteq loose /\ e \in loose /\ loose \subseteq loose' /\ stuck \subseteq stuck'
    BY <1>1, <1>2, <1>3, <1>5, OverlapIs DEF MainInv
  <2>4. CASE pmset' = pmset
    BY <1>1, <2>2, <2>3, <2>4, QuietIs
  <2>5. CASE pmset' = pmset \ {e.at}
    <3>1. Dropped(e)
      BY <1>1, <2>2, <2>3, <2>5 DEF Dropped, Covered, Certain
    <3>. QED BY <3>1 DEF AccountStep
  <2>. QED BY <1>3, <2>4, <2>5
<1>. QED BY <1>4, <1>5

LEMMA RecordAtStopAccount ==
  ASSUME TypeInv, WorkInv, MainInv, TypeInv', MainInv', RecordAtStop \/ ReleaseAtStop
  PROVE  AccountStep
<1>1. CASE RecordAtStop
  <2>1. /\ main.at = "cancel" /\ main.todo = {} /\ mem' = main.kept /\ main'.at = "release"
        /\ UNCHANGED << now, rc, clear, proc, pmset, loose, stuck >>
    BY <1>1, RecordAtStopIs
  <2>2. proc = "stopping" /\ ~clear.alone
    BY <2>1 DEF WorkInv, TypeInv
  <2>3. CASE rc.at = "idle"
    <3>1. Accounted = main.kept /\ Accounted' = main.kept
      BY <2>1, <2>2, <2>3, AccountedIs, AccountedThen DEF Owned
    <3>. QED BY <2>1, <3>1, QuietIs
  <2>4. CASE rc.at # "idle"
    <3>1. Accounted \subseteq loose /\ Accounted' \subseteq loose'
      BY <2>1, <2>2, <2>4, OverlapIs, OverlapThen
    <3>. QED BY <2>1, <3>1, DoubtIs DEF AccountStep, Quiet
  <2>. QED BY <2>3, <2>4
<1>2. CASE ReleaseAtStop
  <2>1. /\ main.at = "release" /\ main'.at = "wait"
        /\ UNCHANGED << now, mem, disk, rc, clear, proc, pmset, loose, stuck >>
    BY <1>2, ReleaseAtStopIs
  <2>2. Accounted' = Accounted
    BY <2>1 DEF Accounted, Owned
  <2>. QED BY <2>1, <2>2, QuietIs
<1>. QED BY <1>1, <1>2

LEMMA EndAccount ==
  ASSUME TypeInv, WorkInv, MainInv, RcInv, TypeInv', Exit \/ Crash
  PROVE  AccountStep
<1>1. /\ proc' = "down" /\ rc' = Idle /\ main' = NoStop /\ loose' = loose \cup InHand
      /\ UNCHANGED << now, mem, disk, clear, pmset, stuck >>
  BY EndIs
<1>2. rc'.at = "idle" /\ main'.at = "no"
  BY <1>1, RestIs
<1>3. SUFFICES Covered({}) /\ Certain({})
  BY <1>1 DEF AccountStep, Quiet
<1>4. CASE proc \in {"down", "parked"}
  <2>1. rc.at = "idle" /\ main.at = "no" /\ clear.alone \in BOOLEAN
    BY <1>4 DEF WorkInv, TypeInv, ClearRecord
  <2>2. Accounted' = Accounted
    BY <1>1, <1>2, <1>4, <2>1, AccountedIs, AccountedThen DEF Owned
  <2>. QED BY <1>1, <2>2 DEF Covered, Certain
<1>5. CASE proc \in {"up", "stopping"}
  <2>1. ~clear.alone
    BY <1>5 DEF WorkInv
  <2>2. Accounted' = disk
    BY <1>1, <1>2, <2>1, AccountedThen DEF Owned
  <2>3. /\ (mem \ disk) \cup (disk \ mem) \subseteq InHand
        /\ main.at = "cancel" => mem \subseteq InHand
        /\ rc.at # "idle" => (mem \ rc.want) \cup rc.adds \subseteq InHand
    BY <1>5 DEF InHand, Reconciling
  <2>4. CASE rc.at = "idle" /\ main.at # "cancel"
    <3>1. Accounted = mem
      BY <1>5, <2>1, <2>4, AccountedIs DEF Owned
    <3>. QED BY <1>1, <2>2, <2>3, <3>1 DEF Covered, Certain
  <2>5. CASE rc.at = "idle" /\ main.at = "cancel"
    <3>1. Accounted \subseteq mem \cup loose
      BY <2>5, AccountedIs DEF MainInv
    <3>. QED BY <1>1, <2>2, <2>3, <2>5, <3>1 DEF Covered, Certain
  <2>6. CASE rc.at # "idle" /\ proc = "stopping"
    <3>1. Accounted \subseteq loose /\ mem \subseteq loose
      BY <2>6, OverlapIs DEF MainInv
    <3>. QED BY <1>1, <2>2, <2>3, <3>1 DEF Covered, Certain
  <2>7. CASE rc.at = "cancel" /\ proc = "up"
    <3>1. Accounted = mem \ rc.gone /\ rc.gone \cap rc.want = {}
      BY <2>7, AccountedIs DEF RcInv
    <3>. QED BY <1>1, <2>2, <2>3, <2>7, <3>1 DEF Covered, Certain
  <2>8. CASE rc.at = "add" /\ proc = "up"
    <3>1. Accounted = rc.kept /\ mem \cap rc.want \subseteq rc.kept /\ rc.kept \subseteq mem \cup rc.adds
      BY <2>8, AccountedIs DEF RcInv
    <3>. QED BY <1>1, <2>2, <2>3, <2>8, <3>1 DEF Covered, Certain
  <2>9. CASE rc.at = "all" /\ proc = "up"
    <3>1. Accounted \subseteq mem /\ rc.want = {}
      BY <2>9, AccountedIs DEF RcInv
    <3>. QED BY <1>1, <2>2, <2>3, <2>9, <3>1 DEF Covered, Certain
  <2>10. rc.at \in {"idle", "cancel", "add", "all"}
    BY DEF TypeInv, RcRecord
  <2>. QED BY <1>5, <2>4, <2>5, <2>6, <2>7, <2>8, <2>9, <2>10
<1>. QED BY <1>4, <1>5 DEF TypeInv

\* `clear`, alone or behind the back of a process.
LEMMA ClearLoadAccount ==
  ASSUME TypeInv, WorkInv, TypeInv', ClearLoad
  PROVE  AccountStep
<1>1. /\ clear.at = "no" /\ clear'.todo = disk /\ clear'.kept = {}
      /\ clear'.alone = (proc \in {"down", "parked"})
      /\ UNCHANGED << now, pmset, disk, mem, proc, rc, main, loose, stuck >>
  BY ClearLoadEffect DEF ClearLoad, world, ledger, history
<1>2. ~clear.alone
  BY <1>1 DEF WorkInv
<1>3. CASE proc \in {"down", "parked"}
  <2>1. rc.at = "idle" /\ main.at = "no"
    BY <1>3 DEF WorkInv
  <2>2. Accounted = disk /\ Accounted' = disk
    BY <1>1, <1>2, <1>3, <2>1, AccountedIs, AccountedThen DEF Owned
  <2>. QED BY <1>1, <2>2, QuietIs
<1>4. CASE proc \notin {"down", "parked"}
  <2>1. ~clear'.alone
    BY <1>1, <1>4
  <2>2. Accounted' = Accounted
    BY <1>1, <1>2, <2>1 DEF Accounted, Owned
  <2>. QED BY <1>1, <2>2, QuietIs
<1>. QED BY <1>3, <1>4

LEMMA ClearOneAccount ==
  ASSUME TypeInv, WorkInv, ClearInv, TypeInv', NEW e \in Event, ClearOne(e)
  PROVE  AccountStep
<1>1. /\ e \in clear.todo /\ clear'.todo = clear.todo \ {e} /\ clear'.alone = clear.alone
      /\ UNCHANGED << now, mem, disk, proc, rc, main >>
  BY ClearOneEffect DEF ClearOne, world
<1>2. \/ /\ pmset' = pmset \ {e.at} /\ clear'.kept = clear.kept /\ stuck' = stuck
         /\ loose' = IF clear.alone THEN loose ELSE loose \cup {e}
      \/ /\ clear'.kept = clear.kept \cup {e} /\ stuck' = stuck \cup {e}
         /\ \/ pmset' = pmset /\ loose' = loose
            \/ pmset' = pmset \ {e.at} /\ loose' = loose \cup {e}
  BY ClearOneEffect
<1>3. CASE clear.alone
  <2>1. rc.at = "idle" /\ main.at = "no"
    BY <1>3 DEF WorkInv
  <2>2. Accounted = clear.todo \cup clear.kept /\ Accounted' = clear'.todo \cup clear'.kept
    BY <1>1, <1>3, <2>1, AccountedIs, AccountedThen
  <2>3. clear.todo \cap clear.kept = {}
    BY <1>3 DEF ClearInv
  <2>4. CASE pmset' = pmset \ {e.at} /\ clear'.kept = clear.kept /\ stuck' = stuck /\ loose' = loose
    <3>1. Accounted' = Accounted \ {e}
      BY <1>1, <2>2, <2>3, <2>4
    <3>2. Dropped(e)
      BY <1>1, <2>4, <3>1 DEF Dropped, Covered, Certain
    <3>. QED BY <3>2 DEF AccountStep
  <2>5. CASE clear'.kept = clear.kept \cup {e} /\ stuck' = stuck \cup {e} /\ pmset' = pmset /\ loose' = loose
    <3>1. Accounted' = Accounted
      BY <1>1, <2>2, <2>5
    <3>. QED BY <1>1, <2>5, <3>1, QuietIs
  <2>6. CASE /\ clear'.kept = clear.kept \cup {e} /\ stuck' = stuck \cup {e}
             /\ pmset' = pmset \ {e.at} /\ loose' = loose \cup {e}
    <3>1. Accounted' = Accounted
      BY <1>1, <2>2, <2>6
    <3>2. Dropped(e)
      BY <1>1, <2>6, <3>1 DEF Dropped, Covered, Certain
    <3>. QED BY <3>2 DEF AccountStep
  <2>. QED BY <1>2, <1>3, <2>4, <2>5, <2>6
<1>4. CASE ~clear.alone
  <2>1. Accounted' = Accounted
    BY <1>1, <1>4 DEF Accounted, Owned
  <2>2. CASE pmset' = pmset /\ loose' = loose /\ stuck' = stuck \cup {e}
    BY <1>1, <2>1, <2>2, QuietIs
  <2>3. CASE pmset' = pmset \ {e.at} /\ loose' = loose \cup {e} /\ stuck \subseteq stuck'
    <3>1. Dropped(e)
      BY <1>1, <2>1, <2>3 DEF Dropped, Covered, Certain
    <3>. QED BY <3>1 DEF AccountStep
  <2>. QED BY <1>2, <1>4, <2>2, <2>3
<1>5. clear.alone \in BOOLEAN
  BY DEF TypeInv, ClearRecord
<1>. QED BY <1>3, <1>4, <1>5

LEMMA ClearSaveAccount ==
  ASSUME TypeInv, WorkInv, ClearInv, TypeInv', ClearSave
  PROVE  AccountStep
<1>1. /\ clear.todo = {} /\ clear' = NoClear /\ (disk' = disk \/ disk' = clear.kept)
      /\ loose \subseteq loose'
      /\ clear.alone => loose' = loose \cup (disk' \ clear.kept)
      /\ ~clear.alone /\ proc \in {"down", "parked"} =>
           loose' = loose \cup (disk \ disk') \cup (disk' \ disk)
      /\ UNCHANGED << now, pmset, mem, proc, rc, main, stuck >>
  BY ClearSaveEffect DEF ClearSave, world
<1>2. clear'.alone = FALSE /\ clear.alone \in BOOLEAN
  BY <1>1, RestIs DEF TypeInv, ClearRecord
<1>3. CASE proc \in {"down", "parked"}
  <2>1. rc.at = "idle" /\ main.at = "no"
    BY <1>3 DEF WorkInv
  <2>2. Accounted' = disk'
    BY <1>1, <1>2, <1>3, <2>1, AccountedThen DEF Owned
  <2>3. Accounted = IF clear.alone THEN clear.kept ELSE disk
    BY <1>1, <1>2, <1>3, <2>1, AccountedIs DEF Owned
  <2>4. clear.alone => clear.kept \subseteq disk
    BY DEF ClearInv
  <2>5. Covered({}) /\ Certain({})
    <3>1. CASE clear.alone
      BY <1>1, <2>2, <2>3, <2>4, <3>1 DEF Covered, Certain
    <3>2. CASE ~clear.alone
      BY <1>1, <1>3, <2>2, <2>3, <3>2 DEF Covered, Certain
    <3>. QED BY <1>2, <3>1, <3>2
  <2>. QED BY <1>1, <2>5 DEF AccountStep, Quiet
<1>4. CASE proc \notin {"down", "parked"}
  <2>1. ~clear.alone /\ proc \in {"up", "stopping"}
    BY <1>4 DEF WorkInv, TypeInv
  <2>2. Accounted' = Accounted
    BY <1>1, <1>2, <2>1 DEF Accounted, Owned
  <2>. QED BY <1>1, <2>2, QuietIs
<1>. QED BY <1>3, <1>4

LEMMA Accounts ==
  ASSUME TypeInv, WorkInv, MainInv, ClearInv, RcInv, TypeInv', MainInv', Next
  PROVE  AccountStep
<1>1. CASE Elsewhere
  <2>1. UNCHANGED << now, pmset, disk, mem, proc, rc, main, clear, loose, stuck >>
    BY <1>1, ElsewhereIs
  <2>2. Accounted' = Accounted
    BY <2>1 DEF Accounted, Owned
  <2>. QED BY <2>1, <2>2, QuietIs
<1>2. CASE TimePasses
  <2>1. /\ UNCHANGED << disk, mem, proc, rc, main, clear, loose, stuck >>
        /\ now' = now + 1 /\ pmset' = pmset \ {now + 1}
    BY <1>2 DEF TimePasses, history
  <2>2. Accounted' = Accounted
    BY <2>1 DEF Accounted, Owned
  <2>. QED BY <2>1, <2>2 DEF AccountStep, Elapsed
<1>3. CASE Start \/ Stop \/ Exit \/ Crash
  BY <1>3, StartAccount, StopAccount, EndAccount
<1>4. CASE Reconcile \/ StartAdding \/ Record
  BY <1>4, ReconcileAccount, StartAddingAccount, RecordAccount
<1>5. ASSUME NEW e \in Event, CancelOne(e) \/ ScheduleOne(e) \/ CancelOneOfAll(e)
      PROVE  AccountStep
  <2>1. CASE proc = "up"
    BY <1>5, <2>1, CancelAccount, ScheduleAccount, CancelOfAllAccount
  <2>2. CASE proc # "up"
    BY <1>5, <2>2, CallInDoubt
  <2>. QED BY <2>1, <2>2
<1>6. ASSUME NEW e \in Event, CancelAtStop(e) PROVE AccountStep
  BY <1>6, CancelAtStopAccount
<1>7. CASE RecordAtStop \/ ReleaseAtStop
  BY <1>7, RecordAtStopAccount
<1>8. CASE ClearLoad \/ ClearSave
  BY <1>8, ClearLoadAccount, ClearSaveAccount
<1>9. ASSUME NEW e \in Event, ClearOne(e) PROVE AccountStep
  BY <1>9, ClearOneAccount
<1>. QED BY <1>1, <1>2, <1>3, <1>4, <1>5, <1>6, <1>7, <1>8, <1>9, NextIs

\* The wakes that are wanted are not more than may be owned.
LEMMA EventsFinite == IsFiniteSet(Event)
<1>1. IsFiniteSet(Job) /\ IsFiniteSet(1..MaxTime)
  BY FS_Interval, WakeAssumption DEF WakeAssumption
<1> DEFINE P == Job \X (1..MaxTime)
           R == [job : Job, at : 1..MaxTime]
           f == [p \in P |-> [job |-> p[1], at |-> p[2]]]
<1>2. IsFiniteSet(P)
  BY <1>1, FS_Product
<1>3. \A r \in R : \E p \in P : f[p] = r
  <2>1. TAKE r \in R
  <2>2. << r.job, r.at >> \in P
    OBVIOUS
  <2>3. f[<< r.job, r.at >>] = [job |-> r.job, at |-> r.at]
    BY <2>2
  <2>4. [job |-> r.job, at |-> r.at] = r
    OBVIOUS
  <2>. QED BY <2>2, <2>3, <2>4
<1>4. f \in Surjection(P, R)
  <2>1. f \in [P -> R]
    OBVIOUS
  <2>. QED BY <1>3, <2>1 DEF Surjection
<1>5. IsFiniteSet(R)
  <2> HIDE DEF P, R, f
  <2>. QED BY <1>2, <1>4, FS_Surjection
<1>6. Event \subseteq R
  BY DEF Event
<1>. QED BY <1>5, <1>6, FS_Subset

LEMMA Wanted == ASSUME NEW W \in Capped(Upcoming) PROVE Capable(W)
<1>1. IsFiniteSet(Upcoming)
  BY EventsFinite, FS_Subset DEF Upcoming
<1>2. W \subseteq Upcoming
  BY DEF Capped
<1>3. IsFiniteSet(W)
  BY <1>1, <1>2, FS_Subset
<1>4. Cardinality(Upcoming) \in Nat
  BY <1>1, FS_CardinalityType
<1>5. Cardinality(W) <= MaxEvents
  BY <1>4, WakeAssumption DEF Capped, WakeAssumption
<1>. QED BY <1>2, <1>3, <1>5 DEF Capable, Upcoming

LEMMA RcSteps == ASSUME TypeInv, WorkInv, RcInv, Next PROVE RcInv'
<1> SUFFICES ASSUME proc' = "up" PROVE RcInv'
  BY DEF RcInv
<1>1. ASSUME UNCHANGED << mem, rc, proc >>, stuck \subseteq stuck' PROVE RcInv'
  <2>1. Capable(rc.want)' = Capable(rc.want)
    BY <1>1 DEF Capable
  <2>. QED BY <1>1, <2>1 DEF RcInv
<1>2. CASE Start
  <2>1. rc'.at = "idle"
    BY <1>2, StartIs DEF WorkInv
  <2>. QED BY <2>1 DEF RcInv
<1>3. CASE Elsewhere \/ TimePasses
  BY <1>1, <1>3, ElsewhereIs DEF TimePasses, history
<1>4. CASE Reconcile
  <2>1. /\ UNCHANGED << mem, proc, stuck >> /\ rc.at = "idle"
    BY <1>4, ReconcileEffect DEF Reconcile, ledger
  <2>2. CASE rc' = rc \/ rc' = Idle
    BY <2>1, <2>2, RestIs DEF RcInv
  <2>3. CASE rc'.at = "all" /\ rc'.todo = mem /\ rc'.kept = {} /\ rc'.want = {}
    BY <2>1, <2>3 DEF RcInv
  <2>4. CASE /\ rc'.at = "cancel" /\ rc'.kept = {} /\ rc'.gone = {}
             /\ rc'.want \in Capped(Upcoming) /\ rc'.todo = mem \ rc'.want
             /\ rc'.adds = rc'.want \ mem
    <3>1. Capable(rc'.want)
      BY <2>4, Wanted
    <3>2. Capable(rc.want)'
      BY <3>1 DEF Capable
    <3>. QED BY <2>1, <2>4, <3>2 DEF RcInv
  <2>. QED BY <1>4, <2>2, <2>3, <2>4, ReconcileEffect
<1>5. ASSUME NEW e \in Event, CancelOne(e) PROVE RcInv'
  <2>1. PICK o \in Outcome :
          /\ o.ok => IF proc = "up" THEN loose' = loose \ {e} /\ stuck' = stuck \ {e}
                                    ELSE loose' = loose /\ stuck' = stuck
          /\ ~o.ok => stuck' = stuck \cup {e}
          /\ rc'.at = "cancel" /\ rc'.todo = rc.todo \ {e}
          /\ rc'.adds = rc.adds /\ rc'.want = rc.want
          /\ \/ rc'.gone = rc.gone \cup {e} /\ rc'.kept = rc.kept
             \/ ~o.ok /\ rc'.gone = rc.gone /\ rc'.kept = rc.kept \cup {e}
    BY <1>5, CancelEffect
  <2>2. rc.at = "cancel" /\ e \in rc.todo /\ mem' = mem /\ proc = "up"
    BY <1>5, CallIs DEF CancelOne
  <2>3. /\ Capable(rc.want) /\ rc.adds \subseteq rc.want
        /\ rc.todo \subseteq mem \ rc.want /\ rc.gone \cap rc.want = {}
        /\ rc.kept \subseteq mem \ rc.gone /\ rc.todo \cap (rc.gone \cup rc.kept) = {}
        /\ mem \subseteq rc.want \cup rc.todo \cup rc.gone \cup rc.kept
        /\ rc.kept \subseteq stuck
    BY <2>2 DEF RcInv
  <2>4. Capable(rc.want)'
    BY <2>1, <2>3 DEF Capable
  <2>5. o.ok \in BOOLEAN
    BY OutcomeIs
  <2>6. rc'.kept \subseteq stuck'
    <3>1. CASE o.ok
      BY <2>1, <2>2, <2>3, <3>1
    <3>2. CASE ~o.ok
      BY <2>1, <2>2, <2>3, <3>2
    <3>. QED BY <2>5, <3>1, <3>2
  <2>7. /\ rc'.adds \subseteq rc'.want
        /\ rc'.todo \subseteq mem' \ rc'.want /\ rc'.gone \cap rc'.want = {}
        /\ rc'.kept \subseteq mem' \ rc'.gone /\ rc'.todo \cap (rc'.gone \cup rc'.kept) = {}
        /\ mem' \subseteq rc'.want \cup rc'.todo \cup rc'.gone \cup rc'.kept
    <3>1. CASE rc'.gone = rc.gone \cup {e} /\ rc'.kept = rc.kept
      BY <2>1, <2>2, <2>3, <3>1
    <3>2. CASE rc'.gone = rc.gone /\ rc'.kept = rc.kept \cup {e}
      BY <2>1, <2>2, <2>3, <3>2
    <3>. QED BY <2>1, <3>1, <3>2
  <2>. QED BY <2>1, <2>4, <2>6, <2>7 DEF RcInv
<1>6. CASE StartAdding
  <2>1. /\ rc.at = "cancel" /\ rc.todo = {} /\ UNCHANGED << mem, proc, stuck >>
    BY <1>6 DEF StartAdding, ledger, history
  <2>2. /\ rc'.at = "add" /\ rc'.todo = rc.adds /\ rc'.kept = KeepOwned
        /\ rc'.want = rc.want /\ rc'.adds = rc.adds
    BY <1>6, StartAddingEffect
  <2>3. /\ Capable(rc.want) /\ rc.adds \subseteq rc.want /\ rc.gone \cap rc.want = {}
        /\ rc.kept \subseteq mem \ rc.gone /\ rc.kept \subseteq stuck
    BY <2>1 DEF RcInv
  <2>4. Capable(rc.want)'
    BY <2>2, <2>3 DEF Capable
  <2>5. /\ KeepOwned \subseteq stuck \cup rc.want /\ mem \cap rc.want \subseteq KeepOwned
        /\ KeepOwned \subseteq mem
    BY <2>3 DEF KeepOwned
  <2>. QED BY <2>1, <2>2, <2>3, <2>4, <2>5 DEF RcInv
<1>7. ASSUME NEW e \in Event, ScheduleOne(e) PROVE RcInv'
  <2>1. PICK o \in Outcome :
          /\ IF o.ok /\ proc = "up" THEN loose' = loose \ {e} /\ stuck' = stuck \ {e}
                                    ELSE loose' = loose /\ stuck' = stuck
          /\ rc'.at = "add" /\ rc'.todo = rc.todo \ {e}
          /\ rc'.want = rc.want /\ rc'.adds = rc.adds
          /\ rc'.kept = IF o.ok THEN rc.kept \cup {e} ELSE rc.kept
    BY <1>7, ScheduleEffect
  <2>2. rc.at = "add" /\ e \in rc.todo /\ mem' = mem /\ proc = "up"
    BY <1>7, CallIs DEF ScheduleOne
  <2>3. /\ Capable(rc.want) /\ rc.adds \subseteq rc.want /\ rc.todo \subseteq rc.adds
        /\ rc.kept \subseteq stuck \cup rc.want
        /\ mem \cap rc.want \subseteq rc.kept /\ rc.kept \subseteq mem \cup rc.adds
    BY <2>2 DEF RcInv
  <2>4. Capable(rc.want)'
    BY <2>1, <2>3 DEF Capable
  <2>5. o.ok \in BOOLEAN
    BY OutcomeIs
  <2>6. CASE o.ok
    <3>1. rc'.kept = rc.kept \cup {e} /\ stuck' = stuck \ {e} /\ e \in rc.want /\ e \in rc.adds
      BY <2>1, <2>2, <2>3, <2>6
    <3>2. rc'.kept \subseteq stuck' \cup rc'.want
      BY <2>1, <2>3, <3>1
    <3>. QED BY <2>1, <2>2, <2>3, <2>4, <3>1, <3>2 DEF RcInv
  <2>7. CASE ~o.ok
    <3>1. rc'.kept = rc.kept /\ stuck' = stuck
      BY <2>1, <2>7
    <3>. QED BY <2>1, <2>2, <2>3, <2>4, <3>1 DEF RcInv
  <2>. QED BY <2>5, <2>6, <2>7
<1>8. ASSUME NEW e \in Event, CancelOneOfAll(e) PROVE RcInv'
  <2>1. PICK o \in Outcome :
          /\ rc'.at = "all" /\ rc'.todo = rc.todo \ {e} /\ rc'.want = rc.want
          /\ rc'.kept = IF o.ok THEN rc.kept ELSE rc.kept \cup {e}
    BY <1>8, CancelOfAllEffect
  <2>2. rc.at = "all" /\ e \in rc.todo /\ mem' = mem /\ proc = "up"
    BY <1>8, CallIs DEF CancelOneOfAll
  <2>3. rc.want = {} /\ rc.todo \cap rc.kept = {} /\ rc.todo \cup rc.kept \subseteq mem
    BY <2>2 DEF RcInv
  <2>. QED BY <2>1, <2>2, <2>3 DEF RcInv
<1>9. CASE Record
  BY <1>9, RecordIs, RestIs DEF RcInv
<1>10. CASE Stop \/ Exit \/ Crash
  <2>1. proc' # "up"
    BY <1>10, StopEffect, EndIs
  <2>. QED BY <2>1
<1>11. ASSUME NEW e \in Event, CancelAtStop(e) PROVE RcInv'
  <2>1. stuck \subseteq stuck'
    BY <1>11, CancelAtStopEffect
  <2>. QED BY <1>1, <1>11, <2>1 DEF CancelAtStop
<1>12. CASE RecordAtStop
  <2>1. main.at = "cancel" /\ proc' = proc
    BY <1>12, RecordAtStopIs
  <2>. QED BY <2>1 DEF WorkInv
<1>13. CASE ReleaseAtStop
  BY <1>1, <1>13, ReleaseAtStopIs
<1>14. CASE ClearLoad
  BY <1>1, <1>14 DEF ClearLoad, ledger, history
<1>15. ASSUME NEW e \in Event, ClearOne(e) PROVE RcInv'
  <2>1. stuck \subseteq stuck'
    BY <1>15, ClearOneEffect
  <2>. QED BY <1>1, <1>15, <2>1 DEF ClearOne
<1>16. CASE ClearSave
  BY <1>1, <1>16 DEF ClearSave
<1>. QED
  BY <1>2, <1>3, <1>4, <1>5, <1>6, <1>7, <1>8, <1>9, <1>10, <1>11, <1>12, <1>13, <1>14,
     <1>15, <1>16, NextIs

-----------------------------------------------------------------------------
(* The account is kept.                                                     *)

LEMMA OwnersKept == ASSUME OwnerInv, AccountStep PROVE OwnerInv'
<1>1. SUFFICES ASSUME NEW t \in pmset' PROVE \E e \in Accounted' \cup loose' : e.at = t
  BY DEF OwnerInv
<1>2. \A s \in pmset : \E e \in Accounted \cup loose : e.at = s
  BY DEF OwnerInv
<1>3. CASE Quiet
  BY <1>1, <1>2, <1>3 DEF Quiet, Covered
<1>4. CASE Elapsed
  BY <1>1, <1>2, <1>4 DEF Elapsed
<1>5. ASSUME NEW e \in Event, Dropped(e) PROVE \E x \in Accounted' \cup loose' : x.at = t
  <2>1. t \in pmset /\ t # e.at
    BY <1>1, <1>5 DEF Dropped
  <2>2. PICK x \in Accounted \cup loose : x.at = t
    BY <1>2, <2>1
  <2>. QED BY <1>5, <2>1, <2>2 DEF Dropped, Covered
<1>6. ASSUME NEW e \in Event, Added(e) PROVE \E x \in Accounted' \cup loose' : x.at = t
  BY <1>1, <1>2, <1>6 DEF Added, Covered
<1>7. ASSUME NEW e \in Event, AddedLate(e) PROVE \E x \in Accounted' \cup loose' : x.at = t
  BY <1>1, <1>2, <1>7 DEF AddedLate, Covered
<1>. QED BY <1>3, <1>4, <1>5, <1>6, <1>7 DEF AccountStep

LEMMA CapKept == ASSUME TypeInv, RcInv, CapInv, AccountStep PROVE CapInv'
<1>1. PICK W \in SUBSET Event : Capable(W) /\ Accounted \subseteq W \cup stuck \cup loose
  BY DEF CapInv
<1>2. ASSUME NEW V \in SUBSET Event, Capable(V),
             Accounted' \subseteq V \cup stuck' \cup loose'
      PROVE  CapInv'
  BY <1>2 DEF CapInv, Capable
<1>3. CASE Quiet
  <2>1. Accounted' \subseteq W \cup stuck' \cup loose'
    BY <1>1, <1>3 DEF Quiet, Certain
  <2>. QED BY <1>1, <1>2, <2>1
<1>4. CASE Elapsed
  <2>1. Accounted' \subseteq W \cup stuck' \cup loose'
    BY <1>1, <1>4 DEF Elapsed
  <2>. QED BY <1>1, <1>2, <2>1
<1>5. ASSUME NEW e \in Event, Dropped(e) PROVE CapInv'
  <2>1. Accounted' \subseteq W \cup stuck' \cup loose'
    BY <1>1, <1>5 DEF Dropped, Certain
  <2>. QED BY <1>1, <1>2, <2>1
<1>6. ASSUME NEW e \in Event, Added(e) PROVE CapInv'
  <2>1. rc.at = "add" /\ proc = "up" /\ e \in rc.want
    BY <1>6 DEF Added
  <2>2. Capable(rc.want) /\ rc.kept \subseteq stuck \cup rc.want /\ Accounted = rc.kept
    BY <2>1, AccountedIs DEF RcInv
  <2>3. Accounted' \subseteq rc.want \cup stuck' \cup loose'
    BY <1>6, <2>1, <2>2 DEF Added, Certain
  <2>4. rc.want \in SUBSET Event
    BY <2>2 DEF Capable
  <2>. QED BY <1>2, <2>2, <2>3, <2>4
<1>7. ASSUME NEW e \in Event, AddedLate(e) PROVE CapInv'
  <2>1. Accounted' \subseteq W \cup stuck' \cup loose'
    BY <1>1, <1>7 DEF AddedLate, Certain
  <2>. QED BY <1>1, <1>2, <2>1
<1>. QED BY <1>3, <1>4, <1>5, <1>6, <1>7 DEF AccountStep

\* When no two jobs are due at the same time, an event is known by its time.
LEMMA KnownByTime ==
  ASSUME TimesApart, NEW e \in Event, NEW x \in Event, e.at = x.at
  PROVE  e = x
<1>1. /\ e.job \in Job /\ x.job \in Job /\ e.at \in At[e.job] /\ x.at \in At[x.job]
  BY EventIs
<1>2. e.job = x.job
  BY <1>1 DEF TimesApart
<1>3. e \in [job : Job, at : 1..MaxTime] /\ x \in [job : Job, at : 1..MaxTime]
  BY DEF Event
<1>. QED BY <1>2, <1>3

LEMMA WakesKept ==
  ASSUME TimesApart, TypeInv, TypeInv', WakeInv, AccountStep
  PROVE  WakeInv'
<1>1. SUFFICES ASSUME NEW x \in Accounted' \ loose', x.at > now' PROVE x.at \in pmset'
  BY DEF WakeInv
<1>2. \A y \in Accounted \ loose : y.at > now => y.at \in pmset
  BY DEF WakeInv
<1>3. Accounted \subseteq Event /\ now \in Nat
  BY AccountedType DEF TypeInv
<1>4. CASE Quiet
  BY <1>1, <1>2, <1>4 DEF Quiet, Certain
<1>5. CASE Elapsed
  <2>1. x \in Accounted \ loose /\ x.at > now + 1
    BY <1>1, <1>5 DEF Elapsed
  <2>2. x.at \in Nat
    BY <1>3, <2>1, EventIs
  <2>3. x.at > now /\ x.at # now + 1
    BY <1>3, <2>1, <2>2
  <2>. QED BY <1>2, <1>5, <2>1, <2>3 DEF Elapsed
<1>6. ASSUME NEW e \in Event, Dropped(e) PROVE x.at \in pmset'
  <2>1. x \in Accounted \ loose /\ x # e /\ x.at > now
    BY <1>1, <1>6 DEF Dropped, Certain
  <2>2. x.at \in pmset /\ x \in Event
    BY <1>2, <1>3, <2>1
  <2>3. e.at # x.at
    BY <2>1, <2>2, KnownByTime
  <2>. QED BY <1>6, <2>2, <2>3 DEF Dropped
<1>7. ASSUME NEW e \in Event, Added(e) PROVE x.at \in pmset'
  BY <1>1, <1>2, <1>7 DEF Added, Certain
<1>8. ASSUME NEW e \in Event, AddedLate(e) PROVE x.at \in pmset'
  BY <1>1, <1>2, <1>8 DEF AddedLate, Certain
<1>. QED BY <1>4, <1>5, <1>6, <1>7, <1>8 DEF AccountStep

-----------------------------------------------------------------------------
(* The invariant.                                                           *)

LEMMA Initially == ASSUME Init PROVE IInv
<1>1. TypeInv
  <2>1. now \in 0..MaxTime /\ next \in [Job -> 0..MaxTime]
    BY WakeAssumption DEF Init, WakeAssumption
  <2>2. fails \in [Event -> 0..(MaxCancelFailures - 1)]
    BY WakeAssumption DEF Init, Clean, WakeAssumption
  <2>. QED BY <2>1, <2>2, RestIs DEF Init, TypeInv
<1>2. Accounted = {}
  BY <1>1, RestIs, AccountedIs DEF Init, Owned
<1>3. WorkInv /\ MainInv /\ ClearInv
  BY RestIs DEF Init, WorkInv, MainInv, ClearInv
<1>4. OwnerInv /\ WakeInv
  BY <1>2 DEF Init, OwnerInv, WakeInv
<1>5. CapInv
  <2>1. IsFiniteSet({}) /\ Cardinality({}) = 0
    BY FS_EmptySet
  <2>2. Capable({})
    BY <2>1, WakeAssumption DEF Capable, WakeAssumption
  <2>. QED BY <1>2, <2>2 DEF CapInv
<1>6. RcInv
  BY RestIs DEF Init, RcInv
<1>. QED BY <1>1, <1>3, <1>4, <1>5, <1>6 DEF IInv, CoreInv

LEMMA Unchanged == ASSUME UNCHANGED vars PROVE (CoreInv => CoreInv') /\ (WakeInv => WakeInv')
<1>1. /\ UNCHANGED << now, next, conf, cfg, watch, reload, unseen >>
      /\ UNCHANGED << pmset, disk, mem, fails, proc, due, rc, main, clear, hold, loose, stuck >>
  BY DEF vars, world, file, ledger, history
<1>2. Accounted' = Accounted /\ InWork' = InWork
  BY <1>1 DEF Accounted, Owned, InWork
<1>3. TypeInv => TypeInv'
  BY <1>1 DEF TypeInv
<1>4. (WorkInv => WorkInv') /\ (MainInv => MainInv') /\ (ClearInv => ClearInv')
  BY <1>1, <1>2 DEF WorkInv, MainInv, ClearInv
<1>5. (OwnerInv => OwnerInv') /\ (WakeInv => WakeInv')
  BY <1>1, <1>2 DEF OwnerInv, WakeInv
<1>6. (CapInv => CapInv') /\ (RcInv => RcInv')
  BY <1>1, <1>2 DEF CapInv, RcInv, Capable
<1>. QED BY <1>3, <1>4, <1>5, <1>6 DEF CoreInv

LEMMA CoreNext == ASSUME CoreInv, Next PROVE CoreInv' /\ AccountStep
<1>1. /\ TypeInv /\ WorkInv /\ MainInv /\ ClearInv /\ OwnerInv /\ CapInv /\ RcInv
  BY DEF CoreInv
<1>2. TypeInv' /\ WorkInv' /\ MainInv' /\ ClearInv' /\ RcInv'
  BY <1>1, Types, Works, Mains, Clears, RcSteps
<1>3. AccountStep
  BY <1>1, <1>2, Accounts
<1>4. OwnerInv' /\ CapInv'
  BY <1>1, <1>3, OwnersKept, CapKept
<1>. QED BY <1>2, <1>3, <1>4 DEF CoreInv

-----------------------------------------------------------------------------
(* Theorems.                                                                *)

\* At every point of every behaviour the wakes of pmset and the ledger are related
\* by the work in progress, but for those in doubt: what each reconcile, retry,
\* eviction, edit, failed load, restart, `clear` and cancelAll leaves
\* (daemon.go:466-516, 571-584, init.go:190-213).
THEOREM Invariance == Spec => []CoreInv
<1>1. Init => CoreInv
  BY Initially DEF IInv
<1>2. CoreInv /\ [Next]_vars => CoreInv'
  BY CoreNext, Unchanged
<1>. QED BY <1>1, <1>2, PTL DEF Spec

\* The variables have their types, and no wake is scheduled that is due.
THEOREM TypeCorrect == Spec => []TypeOK
<1>1. CoreInv => TypeOK
  <2> SUFFICES ASSUME TypeInv PROVE TypeOK
    BY DEF CoreInv
  <2>1. /\ rc.at \in {"idle", "cancel", "add", "all"}
        /\ rc.todo \cup rc.adds \cup rc.want \cup rc.kept \cup rc.gone \subseteq Event
    BY DEF TypeInv, RcRecord
  <2>2. /\ main.at \in {"no", "cancel", "release", "wait"}
        /\ main.todo \cup main.kept \subseteq Event
    BY DEF TypeInv, MainRecord
  <2>3. clear.at \in {"no", "cancel"} /\ clear.todo \cup clear.kept \subseteq Event
    BY DEF TypeInv, ClearRecord
  <2>4. InWork \cup rc.gone \subseteq Event
    BY <2>1 DEF InWork
  <2>5. hold \in [held : BOOLEAN, armed : BOOLEAN, stray : Nat, waiting : Nat, lost : Nat]
    BY DEF TypeInv, HoldRecord
  <2>. QED BY <2>1, <2>2, <2>3, <2>4, <2>5 DEF TypeInv, TypeOK
<1>. QED BY <1>1, Invariance, PTL

\* The wakes of pmset are never more than may be owned, at no point between two calls,
\* whatever the times of the jobs, because a reconcile cancels first and adds after
\* (daemon.go:467).  Not counted are the wakes a cancel of which failed, and those of
\* which a call and its record were torn apart: by the end of the process, by a stop
\* within a reconcile, by `clear`, by a ledger that could not be read.
THEOREM NeverAboveMaxHolds == Spec => []NeverAboveMax
<1>1. CoreInv => NeverAboveMax
  <2> SUFFICES ASSUME CoreInv PROVE Cardinality(pmset \ Times(stuck \cup loose)) <= MaxEvents
    BY DEF NeverAboveMax
  <2>1. PICK W \in SUBSET Event : Capable(W) /\ Accounted \subseteq W \cup stuck \cup loose
    BY DEF CoreInv, CapInv
  <2> DEFINE T == {e.at : e \in W}
             f == [e \in W |-> e.at]
             P == pmset \ Times(stuck \cup loose)
  <2>2. f \in Surjection(W, T)
    BY DEF Surjection
  <2>3. IsFiniteSet(W) /\ Cardinality(W) <= MaxEvents
    BY <2>1 DEF Capable
  <2>4. IsFiniteSet(T) /\ Cardinality(T) <= Cardinality(W)
    <3> HIDE DEF T, f
    <3>. QED BY <2>2, <2>3, FS_Surjection
  <2>5. P \subseteq T
    <3>1. SUFFICES ASSUME NEW t \in pmset, t \notin Times(stuck \cup loose) PROVE t \in T
      OBVIOUS
    <3>2. PICK e \in Accounted \cup loose : e.at = t
      BY DEF CoreInv, OwnerInv
    <3>3. e \notin stuck \cup loose
      BY <3>1, <3>2 DEF Times
    <3>. QED BY <2>1, <3>2, <3>3
  <2>6. IsFiniteSet(P) /\ Cardinality(P) <= Cardinality(T)
    <3> HIDE DEF T, P
    <3>. QED BY <2>4, <2>5, FS_Subset
  <2>7. Cardinality(T) \in Nat /\ Cardinality(W) \in Nat /\ Cardinality(P) \in Nat
    <3> HIDE DEF T, P
    <3>. QED BY <2>3, <2>4, <2>6, FS_CardinalityType
  <2>8. Cardinality(P) <= MaxEvents
    <3> HIDE DEF T, P
    <3>. QED BY <2>3, <2>4, <2>6, <2>7, WakeAssumption DEF WakeAssumption
  <2>. QED BY <2>8
<1>. QED BY <1>1, Invariance, PTL

\* Whenever nobody is between a call and its record, the ledger and pmset agree on
\* every wake that is not in doubt, through retries, edits, restarts, failed loads of
\* the ledger and `clear`; the cap holds at every point, and the types are right
\* (daemon.go:83-86, 466-516, 571-584).  No two jobs may have to be woken for at the
\* same time: pmset would cancel a wake that another job still needs
\* (pmset_darwin.go:37-40).
THEOREM LedgerSoundHolds == ASSUME TimesApart PROVE Spec => []LedgerSound
<1>1. Init => WakeInv
  BY Initially DEF IInv
<1>2. CoreInv /\ CoreInv' /\ WakeInv /\ [Next]_vars => WakeInv'
  <2> SUFFICES ASSUME CoreInv, CoreInv', WakeInv, [Next]_vars PROVE WakeInv'
    OBVIOUS
  <2>1. CASE Next
    BY <2>1, CoreNext, WakesKept DEF CoreInv
  <2>2. CASE UNCHANGED vars
    BY <2>2, Unchanged
  <2>. QED BY <2>1, <2>2
<1>3. CoreInv /\ WakeInv => LedgerTrue
  <2> SUFFICES ASSUME CoreInv, WakeInv, Settled
               PROVE  /\ \A e \in Owned \ loose : e.at > now => e.at \in pmset
                      /\ pmset \subseteq Times(Owned \cup loose)
    BY DEF LedgerTrue
  <2>1. rc.at = "idle" /\ main.at # "cancel" /\ ~clear.alone
    BY RestIs DEF Settled
  <2>2. Accounted = Owned
    BY <2>1, AccountedIs DEF CoreInv
  <2>3. pmset \subseteq Times(Owned \cup loose)
    BY <2>2 DEF CoreInv, OwnerInv, Times
  <2>. QED BY <2>2, <2>3 DEF WakeInv
<1>4. Spec => []LedgerTrue
  BY <1>1, <1>2, <1>3, Invariance, PTL DEF Spec
<1>5. TypeOK /\ LedgerTrue /\ NeverAboveMax => LedgerSound
  BY DEF LedgerSound
<1>. QED BY <1>4, <1>5, TypeCorrect, NeverAboveMaxHolds, PTL

===============================================================================
