------------------------- MODULE SlackThreadsProofs -------------------------
(***************************************************************************)
(* What holds of SlackThreads for any number of runs, messages, mentions,    *)
(* events on their way and faults.                                           *)
(***************************************************************************)
EXTENDS SlackThreads, SequenceTheorems, TLAPS

-----------------------------------------------------------------------------
(* Types.                                                                   *)

RunRecord == [job : Job, from : {0} \cup Ts, resumes : 0..MaxRuns, folder : Place,
              tree : BOOLEAN, stage : {"started", "resolved", "session", "done", "skipped"}]
MapRecord == [job : {0} \cup Job, thread : {0} \cup Ts]
JobRecord == [thread : {0} \cup Ts, session : 0..MaxRuns, folder : Place, tree : 0..Cron]
ThreadRecord == [job : {0} \cup Job, session : 0..MaxRuns, folder : Place,
                 tree : 0..Cron, replies : BOOLEAN]
StoreRecord == [runs : [Run -> MapRecord], jobs : [Job -> JobRecord],
                threads : [Ts -> ThreadRecord]]
Message   == [ts : 0..MaxMessages, thread : {0} \cup Ts]
SubRecord == [up : BOOLEAN, pos : Nat, last : Nat, seen : SUBSET Nat,
              missed : BOOLEAN, restarted : BOOLEAN, again : BOOLEAN]
EvRecord  == [at : {"idle", "worktree", "session", "completed", "set session", "post", "link"},
              event : Event \cup {NoEvent}, mapping : MapRecord, replies : BOOLEAN]
SmRecord  == [at : {"idle", "submit", "link", "meta"}, msg : Message, run : 0..MaxRuns,
              snap : ThreadRecord]
PostRecord == [run : Run, thread : {0} \cup Ts]

TypeInv ==
  /\ runs \in Seq(RunRecord) /\ Len(runs) <= MaxRuns
  /\ log \in Seq(Event)
  /\ inbox \subseteq Message /\ (\A m \in inbox : m.ts # 0) /\ written \in 0..MaxMessages
  /\ posts \in Seq(PostRecord)
  /\ store \in StoreRecord /\ old \subseteq Entries
  /\ sub \in SubRecord /\ ev \in EvRecord /\ sm \in SmRecord
  /\ sub.pos <= Len(log) /\ sub.last <= Len(log) /\ sub.seen \subseteq DOMAIN log

-----------------------------------------------------------------------------
(* The runs and their events.                                               *)

\* A message that starts a run, and the run it starts.
Root(x) == x \in DOMAIN runs /\ runs[x].from # 0 /\ runs[x].resumes = 0
RootOf(x, t) == Root(x) /\ runs[x].from = t

\* The thread of a post that reports a run of the schedule.
Cronish(t) == \E c \in DOMAIN runs : t = PostTs(c) /\ runs[c].from = 0

\* The threads in which users can write.
Addressed(t) == (\E x \in DOMAIN runs : RootOf(x, t)) \/ Cronish(t)

RunInv ==
  \A r \in DOMAIN runs :
    /\ runs[r].from = 0 => runs[r].job = Cron
    /\ runs[r].from # 0 => runs[r].job \in DOMAIN runs /\ runs[runs[r].job].job = runs[r].job
    /\ Root(r) => /\ runs[r].from <= MaxMessages /\ runs[r].folder # 0
                  /\ runs[r].job = r => runs[r].folder = Repo
    /\ runs[r].from # 0 /\ ~Root(r) => ~runs[r].tree
    /\ runs[r].from # 0 => Addressed(runs[r].from)
    /\ runs[r].resumes # 0 => runs[r].from # 0

\* Only a run that shares its job is skipped.
SkipInv ==
  \A r \in DOMAIN runs : runs[r].stage = "skipped" => ~Alone(r)

IsEvent(n, kind, r) == n \in DOMAIN log /\ log[n].kind = kind /\ log[n].run = r
Announced(r) == \E n \in DOMAIN log : IsEvent(n, "worktree", r)

\* A run announces its worktree, if it has one, then its session, then its end.
EventSound(n) ==
  LET r == log[n].run IN
  /\ r \in DOMAIN runs
  /\ log[n].kind = "worktree" =>
       runs[r].tree /\ log[n].tree = runs[r].job /\ runs[r].stage # "started"
  /\ log[n].kind = "session" =>
       /\ log[n].session = r
       /\ runs[r].tree => \E k \in 1..n : IsEvent(k, "worktree", r)
  /\ log[n].kind = "completed" =>
       /\ runs[r].stage = "done" /\ log[n].session \in {0, r}
       /\ log[n].tree # 0 => runs[r].tree /\ log[n].tree = runs[r].job
       /\ log[n].session # 0 /\ runs[r].tree => \E k \in 1..n : IsEvent(k, "worktree", r)
       /\ Announced(r) => log[n].tree = runs[r].job
       /\ \A m \in DOMAIN log : log[m].run = r /\ m # n => m < n

StageAnnounced(r) ==
  /\ runs[r].tree /\ runs[r].stage \in {"resolved", "session"} => Announced(r)
  /\ runs[r].stage = "resolved" => runs[r].tree
  /\ runs[r].stage = "done" => \E n \in DOMAIN log : IsEvent(n, "completed", r)

LogInv ==
  /\ \A n \in DOMAIN log : EventSound(n)
  /\ \A r \in DOMAIN runs : StageAnnounced(r)

\* The stream: as long as no event was missed what was seen is a prefix of the log,
\* and the event that is handled is its last.
SubInv ==
  /\ ~sub.missed => sub.seen = 1..sub.last /\ sub.pos <= sub.last
  /\ sub.last = 0 => sub.seen = {}
  /\ ~sub.up => ev = Idle
  /\ \/ ev.at = "idle" \/ ev.at = ev.event.kind
     \/ ev.at \in {"set session", "post", "link"} /\ ev.event.kind = "completed"
  /\ ev.at # "idle" => \E n \in sub.seen : log[n] = ev.event
  /\ ev.at # "idle" /\ ~sub.missed => sub.last # 0 /\ log[sub.last] = ev.event

-----------------------------------------------------------------------------
(* Who owns a thread.                                                       *)

RootJob(j, t) == \E x \in DOMAIN runs : RootOf(x, t) /\ runs[x].job = j
Owns(j, t) == IF t <= MaxMessages THEN RootJob(j, t) ELSE j = Cron

\* What the mapping of a run may be.
Maps(r, m) ==
  /\ m.job = 0 <=> m.thread = 0
  /\ m.job # 0 => IF runs[r].from = 0 THEN m.job = Cron ELSE Owns(m.job, runs[r].from)

RunsOwned ==
  \A r \in Run : store.runs[r] # NoRun => r \in DOMAIN runs /\ Maps(r, store.runs[r])

EvOwned ==
  /\ ev.at # "idle" => Maps(ev.event.run, ev.mapping)
  /\ ev.at \in {"post", "link"} /\ ev.mapping.job = 0 => runs[ev.event.run].from = 0

ThreadOwned(t) ==
  /\ store.threads[t].job # 0 /\ (t <= MaxMessages \/ Cronish(t)) => Owns(store.threads[t].job, t)
  /\ store.threads[t].job # 0 /\ t > MaxMessages => t - MaxMessages \in DOMAIN runs
  /\ store.threads[t] # NoThread /\ t <= MaxMessages => \E x \in DOMAIN runs : RootOf(x, t)

JobOwned(j) ==
  /\ store.jobs[j].thread \in 1..MaxMessages => RootJob(j, store.jobs[j].thread)
  /\ store.jobs[j] # NoJob => j = Cron \/ j \in DOMAIN runs

PostsOwned ==
  \A i \in DOMAIN posts :
    posts[i].run \in DOMAIN runs /\ (posts[i].thread = 0 => runs[posts[i].run].from = 0)

OwnInv ==
  /\ RunsOwned /\ EvOwned /\ PostsOwned
  /\ \A t \in Ts : ThreadOwned(t)
  /\ \A j \in Job : JobOwned(j)

\* What the socket loop knows of the message, the thread and the run.
SmInv ==
  /\ \A m \in inbox : m.thread # 0 => Addressed(m.thread)
  /\ sm.at # "idle" => sm.msg.ts # 0
  /\ sm.at \in {"submit", "link"} /\ sm.msg.thread # 0 =>
       Addressed(sm.msg.thread) /\ Owns(sm.snap.job, sm.msg.thread) /\ Routable(sm.snap)
  /\ sm.at \in {"link", "meta"} =>
       /\ sm.run \in DOMAIN runs
       /\ IF sm.msg.thread = 0 THEN RootOf(sm.run, sm.msg.ts)
          ELSE runs[sm.run].from = sm.msg.thread
  /\ sm.at = "meta" => sm.msg.thread = 0

-----------------------------------------------------------------------------
(* Routes and answers.                                                      *)

\* Retention never takes the snapshot before the mapping.
RouteInv ==
  \A r \in Run : store.runs[r].thread # 0 =>
    /\ store.threads[store.runs[r].thread].job # 0
    /\ Entry("thread", store.runs[r].thread) \in old => Entry("run", r) \in old

IsPosted(r) == \E i \in DOMAIN posts : posts[i].run = r

\* An event that will not be received again before the stream breaks after a restart.
Past(n) == n \in sub.seen \/ (sub.restarted /\ (sub.up => n <= sub.pos))

PostInv ==
  /\ ev.at = "link" => IsPosted(ev.event.run)
  /\ ~sub.again =>
      /\ AnsweredOnce /\ AnswersInThread
      /\ \A i \in DOMAIN posts :
           \E n \in DOMAIN log : IsEvent(n, "completed", posts[i].run) /\ Past(n)
      /\ ev.at \in {"completed", "set session", "post"} => ~IsPosted(ev.event.run)
      /\ \A r \in DOMAIN runs :
           runs[r].from # 0 /\ store.runs[r].thread \notin {0, runs[r].from} => IsPosted(r)
      /\ ev.at \in {"completed", "set session", "post"} /\ runs[ev.event.run].from # 0 =>
           ev.mapping.thread \in {0, runs[ev.event.run].from}

-----------------------------------------------------------------------------
(* Where a session runs.                                                    *)

Open == sub.up \/ sub.last # 0

\* An event of the run is still to be handled.
Handling(x) == ev.at # "idle" /\ ev.event.run = x
Pending(x) ==
  \/ runs[x].stage # "done" \/ Handling(x)
  \/ \E n \in DOMAIN log : n > sub.last /\ log[n].run = x

\* The run is being linked.
Linking(x) == sm.at \in {"link", "meta"} /\ sm.run = x

\* The worktree of the run was announced, and that was handled.
TreeTaken(x) ==
  /\ \E n \in 1..sub.last : IsEvent(n, "worktree", x)
  /\ ~(ev.at = "worktree" /\ ev.event.run = x)

Replying(t) == sm.at \in {"submit", "link"} /\ sm.msg.thread = t

Busy(x)  == runs[x].stage # "done" \/ Linking(x) \/ (Open /\ Pending(x))
Due(x)   == Open /\ Pending(x) /\ TreeTaken(x)
Ended(x) == \E n \in DOMAIN log : IsEvent(n, "completed", x) /\ (Open => n <= sub.last)

\* The runs of the thread t, that of the root x.
ThreadRuns(x, t) ==
  \A r \in DOMAIN runs : runs[r].from = t =>
    /\ Cwd(r) = Cwd(x)
    /\ runs[r].resumes # 0 =>
         runs[r].resumes \in DOMAIN runs /\ runs[runs[r].resumes].from = t

\* What a job, a thread or a snapshot may say of the thread.
Sound(c, x, t) ==
  /\ c.session # 0 => c.session \in DOMAIN runs /\ runs[c.session].from = t
  /\ c.tree # 0 => c.tree = x /\ runs[x].tree
  /\ c.folder \in {0, Repo, Cwd(x)}

Placed(c, x) == Folder(c) \in {0, Cwd(x)}

SnapSound(x, t) == Replying(t) => Sound(sm.snap, x, t) /\ Placed(sm.snap, x)

\* A session of the thread is known: from the row J of its job, from its own row T,
\* from a run or a message that follows up.
Resumable(J, T, x, t) ==
  \/ J.session # 0 \/ T.session # 0
  \/ \E r \in DOMAIN runs : r # x /\ runs[r].from = t
  \/ Replying(t)

\* When it is, its place is as well.
Known(J, T, x, t) ==
  Resumable(J, T, x, t) => /\ runs[x].tree => Announced(x)
                           /\ Placed(J, x) /\ Placed(T, x)

\* Between the worktree and the end of the run the job has the place of the run.
Located(J, T, x) == Due(x) => Folder(J) = Cwd(x) /\ Placed(T, x)

\* Retention does not come while the run is busy.
Guarded(x, t) == Busy(x) => Entry("job", x) \notin old /\ Entry("thread", t) \notin old

\* What the thread says is still to be set right by the events of the run, or the job
\* was linked elsewhere since, and that is when the run had ended.
Latest(J, T, x, t) == ~Placed(T, x) => J.thread = t \/ Ended(x)

PlaceAs(J, T, x, t) ==
  /\ ThreadRuns(x, t) /\ Sound(J, x, t) /\ Sound(T, x, t) /\ SnapSound(x, t)
  /\ Known(J, T, x, t) /\ Located(J, T, x) /\ Guarded(x, t) /\ Latest(J, T, x, t)

\* The link may come before or after any event of the run.
LinkSafe(J, T, x, t) ==
  Linking(x) =>
    /\ \A r \in DOMAIN runs : runs[r].from = t => r = x
    /\ J.folder \in {0, Repo}
    /\ (J.session # 0 \/ T.session # 0) /\ runs[x].tree => J.tree = x
    /\ sm.at = "link" => J.thread # t /\ T = NoThread
    /\ sm.at = "meta" /\ J.thread = t => T.tree = J.tree /\ T.job # 0

PlaceOf(x, t) ==
  LET J == store.jobs[x]
      T == store.threads[t]
  IN PlaceAs(J, T, x, t) /\ LinkSafe(J, T, x, t)

\* The thread t is that of the root x, and of no other, and x has its job for itself.
Sole(x, t) == RootOf(x, t) /\ Alone(x) /\ \A y \in DOMAIN runs : RootOf(y, t) => y = x

\* A message that started one run of a job of its own, as long as no event was missed.
PlaceInv ==
  ~sub.missed => \A x \in DOMAIN runs : Sole(x, runs[x].from) => PlaceOf(x, runs[x].from)

CoreInv == TypeInv /\ RunInv /\ SkipInv /\ LogInv /\ SubInv /\ OwnInv /\ SmInv

-----------------------------------------------------------------------------
(* The operations of the store.                                             *)

\* An operation of the store changes the row of a job and that of a thread.
Rest(j, t) ==
  /\ \A k \in Job \ {j} : store'.jobs[k] = store.jobs[k]
  /\ \A u \in Ts \ {t} : store'.threads[u] = store.threads[u]
  /\ old' \subseteq old

LEMMA Sizes ==
  /\ MaxRuns \in Nat /\ MaxMessages \in Nat /\ Cron = MaxRuns + 1 /\ Repo = MaxRuns + 2
  /\ Run \subseteq Job /\ Cron \in Job /\ Cron \notin Run /\ Repo \in Place /\ Repo \notin Job
  /\ 0 \notin Job /\ 0 \notin Ts /\ Repo # 0 /\ 0 \in Place /\ Other \in Place /\ Other # 0
BY SlackAssumption DEF SlackAssumption, Cron, Repo, Other, Run, Job, Place, Ts

LEMMA StoreParts ==
  ASSUME store \in StoreRecord
  PROVE  /\ store.runs \in [Run -> MapRecord] /\ store.jobs \in [Job -> JobRecord]
         /\ store.threads \in [Ts -> ThreadRecord]
BY DEF StoreRecord

LEMMA LinkRunEffect ==
  ASSUME store \in StoreRecord, NEW r \in Run, NEW j \in Job, NEW t \in Ts,
         NEW s \in 0..MaxRuns, NEW replies \in BOOLEAN, LinkRun(r, j, t, s, replies)
  PROVE  /\ store' \in StoreRecord /\ Rest(j, t) /\ old' = old \ Stamped(r, j, t)
         /\ store'.runs = [store.runs EXCEPT ![r] = [job |-> j, thread |-> t]]
         /\ store'.jobs[j].thread = t
         /\ store'.jobs[j].session = IF s # 0 THEN s ELSE store.jobs[j].session
         /\ store'.jobs[j].folder = store.jobs[j].folder /\ store'.jobs[j].tree = store.jobs[j].tree
         /\ store'.threads[t].job = j
         /\ store'.threads[t].session = IF s # 0 THEN s
                                        ELSE IF store.threads[t].session # 0
                                             THEN store.threads[t].session
                                             ELSE store.jobs[j].session
         /\ store'.threads[t].folder = IF store.jobs[j].folder # 0 THEN store.jobs[j].folder
                                       ELSE store.threads[t].folder
         /\ store'.threads[t].tree = IF store.jobs[j].tree # 0 THEN store.jobs[j].tree
                                     ELSE store.threads[t].tree
<1> DEFINE J == store.jobs[j]
           T == store.threads[t]
           staged == [J EXCEPT !.thread = t, !.session = IF s # 0 THEN s ELSE @]
           P == Promote(T, staged, j, s, replies)
<1>1. /\ store.runs \in [Run -> MapRecord] /\ store.jobs \in [Job -> JobRecord]
      /\ store.threads \in [Ts -> ThreadRecord]
  BY StoreParts
<1>2. J \in JobRecord /\ T \in ThreadRecord
  BY <1>1
<1>3. store' = [runs    |-> [store.runs EXCEPT ![r] = [job |-> j, thread |-> t]],
                jobs    |-> [store.jobs EXCEPT ![j] = staged],
                threads |-> [store.threads EXCEPT ![t] = P]]
  BY DEF LinkRun
<1> HIDE DEF J, T
<1>4. PICK s1 \in 0..MaxRuns : s1 = IF s # 0 THEN s ELSE J.session
  BY <1>2 DEF JobRecord
<1>5. staged = [J EXCEPT !.thread = t, !.session = s1]
  BY <1>4
<1>6. /\ staged \in JobRecord /\ staged.thread = t /\ staged.session = s1
      /\ staged.folder = J.folder /\ staged.tree = J.tree
  <2> HIDE DEF staged
  <2>. QED BY <1>2, <1>4, <1>5 DEF JobRecord
<1> HIDE DEF staged
<1>7. /\ P.job = j
      /\ P.session = IF s # 0 THEN s ELSE IF T.session # 0 THEN T.session ELSE J.session
      /\ P.folder = IF J.folder # 0 THEN J.folder ELSE T.folder
      /\ P.tree = IF J.tree # 0 THEN J.tree ELSE T.tree
  BY <1>4, <1>6 DEF Promote, TreeOf
<1>8. P \in ThreadRecord
  <2>1. /\ P.session \in 0..MaxRuns /\ P.folder \in Place /\ P.tree \in 0..Cron
    BY <1>2, <1>4, <1>6, <1>7 DEF ThreadRecord, JobRecord
  <2>. QED BY <2>1 DEF Promote, ThreadRecord
<1> HIDE DEF P
<1>9. [job |-> j, thread |-> t] \in MapRecord
  BY DEF MapRecord
<1>10. /\ [store.runs EXCEPT ![r] = [job |-> j, thread |-> t]] \in [Run -> MapRecord]
       /\ [store.jobs EXCEPT ![j] = staged] \in [Job -> JobRecord]
       /\ [store.threads EXCEPT ![t] = P] \in [Ts -> ThreadRecord]
  BY <1>1, <1>6, <1>8, <1>9
<1>11. store' \in StoreRecord
  BY <1>3, <1>10 DEF StoreRecord
<1>12. /\ store'.runs = [store.runs EXCEPT ![r] = [job |-> j, thread |-> t]]
       /\ store'.jobs = [store.jobs EXCEPT ![j] = staged]
       /\ store'.threads = [store.threads EXCEPT ![t] = P]
  BY <1>3
<1>13. store'.jobs[j] = staged /\ store'.threads[t] = P
  BY <1>1, <1>12
<1>14. old' = old \ Stamped(r, j, t)
  BY DEF LinkRun
<1>15. Rest(j, t)
  BY <1>1, <1>12, <1>14 DEF Rest
<1>. QED
  BY <1>4, <1>6, <1>7, <1>11, <1>12, <1>13, <1>14, <1>15 DEF J, T

LEMMA SetSessionEffect ==
  ASSUME store \in StoreRecord, NEW j \in Job, NEW s \in (0..MaxRuns) \ {0}, SetJobSessionID(j, s)
  PROVE  LET t == store.jobs[j].thread IN
         /\ store' \in StoreRecord /\ Rest(j, t)
         /\ old' = old \ {Entry("job", j), Entry("thread", t)}
         /\ store'.runs = store.runs
         /\ store'.jobs[j].thread = t /\ store'.jobs[j].session = s
         /\ store'.jobs[j].folder = store.jobs[j].folder /\ store'.jobs[j].tree = store.jobs[j].tree
         /\ t # 0 =>
              /\ store'.threads[t].job = store.threads[t].job /\ store'.threads[t].session = s
              /\ store'.threads[t].folder = store.threads[t].folder
              /\ store'.threads[t].tree = store.threads[t].tree
<1> DEFINE J == store.jobs[j]
           t == J.thread
<1>1. /\ store.runs \in [Run -> MapRecord] /\ store.jobs \in [Job -> JobRecord]
      /\ store.threads \in [Ts -> ThreadRecord]
  BY StoreParts
<1>2. J \in JobRecord
  BY <1>1
<1>3. t \in {0} \cup Ts
  BY <1>2 DEF JobRecord
<1> DEFINE J2 == [J EXCEPT !.session = s]
<1>4. /\ J2 \in JobRecord /\ J2.thread = t /\ J2.session = s /\ J2.folder = J.folder
      /\ J2.tree = J.tree
  <2> HIDE DEF J
  <2>. QED BY <1>2 DEF JobRecord
<1>5. /\ store' = [store EXCEPT !.jobs[j].session = s,
                                !.threads = IF t = 0 THEN @ ELSE [@ EXCEPT ![t].session = s]]
      /\ old' = old \ {Entry("job", j), Entry("thread", t)}
  BY DEF SetJobSessionID, StampBoth
<1>6. CASE t = 0
  <2>1. store' = [store EXCEPT !.jobs = [store.jobs EXCEPT ![j] = J2], !.threads = store.threads]
    BY <1>5, <1>6
  <2> HIDE DEF J2, J
  <2>2. PICK jb \in [Job -> JobRecord] : jb = [store.jobs EXCEPT ![j] = J2]
    BY <1>1, <1>4
  <2>3. /\ store' \in StoreRecord /\ store'.runs = store.runs
        /\ store'.jobs = jb /\ store'.threads = store.threads
    BY <1>1, <2>1, <2>2 DEF StoreRecord
  <2>4. store'.jobs[j] = J2 /\ \A k \in Job \ {j} : store'.jobs[k] = store.jobs[k]
    BY <1>1, <2>2, <2>3
  <2>5. Rest(j, t)
    BY <1>5, <2>3, <2>4 DEF Rest
  <2>. QED BY <1>4, <1>5, <1>6, <2>3, <2>4, <2>5 DEF J
<1>7. CASE t # 0
  <2> DEFINE T == store.threads[t]
             T2 == [T EXCEPT !.session = s]
  <2>1. t \in Ts /\ T \in ThreadRecord
    BY <1>1, <1>3, <1>7
  <2>2. /\ T2 \in ThreadRecord /\ T2.job = T.job /\ T2.session = s /\ T2.folder = T.folder
        /\ T2.tree = T.tree
    <3> HIDE DEF T
    <3>. QED BY <2>1 DEF ThreadRecord
  <2>3. store' = [store EXCEPT !.jobs = [store.jobs EXCEPT ![j] = J2],
                               !.threads = [store.threads EXCEPT ![t] = T2]]
    BY <1>5, <1>7
  <2> HIDE DEF J2, J, T, T2
  <2>4. PICK jb \in [Job -> JobRecord] : jb = [store.jobs EXCEPT ![j] = J2]
    BY <1>1, <1>4
  <2>5. PICK th \in [Ts -> ThreadRecord] : th = [store.threads EXCEPT ![t] = T2]
    BY <1>1, <2>1, <2>2
  <2>6. /\ store' \in StoreRecord /\ store'.runs = store.runs
        /\ store'.jobs = jb /\ store'.threads = th
    BY <1>1, <2>3, <2>4, <2>5 DEF StoreRecord
  <2>7. store'.jobs[j] = J2 /\ \A k \in Job \ {j} : store'.jobs[k] = store.jobs[k]
    BY <1>1, <2>4, <2>6
  <2>8. store'.threads[t] = T2 /\ \A u \in Ts \ {t} : store'.threads[u] = store.threads[u]
    BY <1>1, <2>1, <2>5, <2>6
  <2>9. Rest(j, t)
    BY <1>5, <2>7, <2>8 DEF Rest
  <2>. QED BY <1>4, <1>5, <2>2, <2>6, <2>7, <2>8, <2>9 DEF J, T
<1>. QED BY <1>6, <1>7

LEMMA LinkMetaEffect ==
  ASSUME store \in StoreRecord, NEW j \in Job, NEW f \in Place, NEW w \in 0..Cron,
         f # 0 \/ w # 0, LinkJobMeta(j, f, w)
  PROVE  LET t == store.jobs[j].thread IN
         /\ store' \in StoreRecord /\ Rest(j, t)
         /\ old' = old \ {Entry("job", j)} \/ old' = old \ {Entry("job", j), Entry("thread", t)}
         /\ t # 0 => Entry("thread", t) \notin old'
         /\ store'.runs = store.runs
         /\ store'.jobs[j].thread = t /\ store'.jobs[j].session = store.jobs[j].session
         /\ store'.jobs[j].folder = IF f # 0 THEN f ELSE store.jobs[j].folder
         /\ store'.jobs[j].tree = IF w # 0 THEN w ELSE store.jobs[j].tree
         /\ t # 0 =>
              /\ store'.threads[t].job = store.threads[t].job
              /\ store'.threads[t].session = store.threads[t].session
              /\ store'.threads[t].folder = IF f # 0 THEN f ELSE store.threads[t].folder
              /\ store'.threads[t].tree = IF w # 0 THEN w ELSE store.threads[t].tree
<1> DEFINE J == store.jobs[j]
           t == J.thread
           J2 == [J EXCEPT !.folder = IF f # 0 THEN f ELSE @, !.tree = IF w # 0 THEN w ELSE @]
<1>1. /\ store.runs \in [Run -> MapRecord] /\ store.jobs \in [Job -> JobRecord]
      /\ store.threads \in [Ts -> ThreadRecord]
  BY StoreParts
<1>2. J \in JobRecord
  BY <1>1
<1>3. t \in {0} \cup Ts
  BY <1>2 DEF JobRecord
<1>4. /\ J2 \in JobRecord /\ J2.thread = t /\ J2.session = J.session
      /\ J2.folder = (IF f # 0 THEN f ELSE J.folder) /\ J2.tree = IF w # 0 THEN w ELSE J.tree
  <2> HIDE DEF J
  <2>1. PICK f1 \in Place : f1 = IF f # 0 THEN f ELSE J.folder
    BY <1>2 DEF JobRecord
  <2>2. PICK w1 \in 0..Cron : w1 = IF w # 0 THEN w ELSE J.tree
    BY <1>2 DEF JobRecord
  <2>3. J2 = [J EXCEPT !.folder = f1, !.tree = w1]
    BY <2>1, <2>2
  <2> HIDE DEF J2
  <2>4. J2 \in JobRecord /\ J2.thread = t /\ J2.session = J.session /\ J2.folder = f1 /\ J2.tree = w1
    BY <1>2, <2>3 DEF JobRecord
  <2>. QED BY <2>1, <2>2, <2>4
<1> DEFINE T == store.threads[t]
           T2 == [T EXCEPT !.folder = IF f # 0 THEN f ELSE @, !.tree = IF w # 0 THEN w ELSE @]
<1>5. store' = [runs |-> store.runs, jobs |-> [store.jobs EXCEPT ![j] = J2],
                threads |-> IF t = 0 THEN store.threads ELSE [store.threads EXCEPT ![t] = T2]]
  BY DEF LinkJobMeta
<1>6. /\ t = 0 => old' = old \ {Entry("job", j)}
      /\ t # 0 => old' = old \ {Entry("job", j), Entry("thread", t)}
  BY DEF LinkJobMeta, Stamp, StampBoth
<1>7. CASE t = 0
  <2> HIDE DEF J2, T2
  <2>1. store' = [runs |-> store.runs, jobs |-> [store.jobs EXCEPT ![j] = J2],
                  threads |-> store.threads]
    BY <1>5, <1>7
  <2> HIDE DEF J
  <2>2. PICK jb \in [Job -> JobRecord] : jb = [store.jobs EXCEPT ![j] = J2]
    BY <1>1, <1>4
  <2>3. /\ store' \in StoreRecord /\ store'.runs = store.runs
        /\ store'.jobs = jb /\ store'.threads = store.threads
    BY <1>1, <2>1, <2>2 DEF StoreRecord
  <2>4. store'.jobs[j] = J2 /\ \A k \in Job \ {j} : store'.jobs[k] = store.jobs[k]
    BY <1>1, <2>2, <2>3
  <2>5. Rest(j, t)
    BY <1>6, <1>7, <2>3, <2>4 DEF Rest
  <2>. QED BY <1>4, <1>6, <1>7, <2>3, <2>4, <2>5 DEF J
<1>8. CASE t # 0
  <2>1. t \in Ts /\ T \in ThreadRecord
    BY <1>1, <1>3, <1>8
  <2>2. /\ T2 \in ThreadRecord /\ T2.job = T.job /\ T2.session = T.session
        /\ T2.folder = (IF f # 0 THEN f ELSE T.folder) /\ T2.tree = IF w # 0 THEN w ELSE T.tree
    <3> HIDE DEF T
    <3>1. PICK f1 \in Place : f1 = IF f # 0 THEN f ELSE T.folder
      BY <2>1 DEF ThreadRecord
    <3>2. PICK w1 \in 0..Cron : w1 = IF w # 0 THEN w ELSE T.tree
      BY <2>1 DEF ThreadRecord
    <3>3. T2 = [T EXCEPT !.folder = f1, !.tree = w1]
      BY <3>1, <3>2
    <3> HIDE DEF T2
    <3>4. T2 \in ThreadRecord /\ T2.job = T.job /\ T2.session = T.session /\ T2.folder = f1
          /\ T2.tree = w1
      BY <2>1, <3>3 DEF ThreadRecord
    <3>. QED BY <3>1, <3>2, <3>4
  <2> HIDE DEF J2, T2
  <2>3. store' = [runs |-> store.runs, jobs |-> [store.jobs EXCEPT ![j] = J2],
                  threads |-> [store.threads EXCEPT ![t] = T2]]
    BY <1>5, <1>8
  <2> HIDE DEF J, T
  <2>4. PICK jb \in [Job -> JobRecord] : jb = [store.jobs EXCEPT ![j] = J2]
    BY <1>1, <1>4
  <2>5. PICK th \in [Ts -> ThreadRecord] : th = [store.threads EXCEPT ![t] = T2]
    BY <1>1, <2>1, <2>2
  <2>6. /\ store' \in StoreRecord /\ store'.runs = store.runs
        /\ store'.jobs = jb /\ store'.threads = th
    BY <1>1, <2>3, <2>4, <2>5 DEF StoreRecord
  <2>7. store'.jobs[j] = J2 /\ \A k \in Job \ {j} : store'.jobs[k] = store.jobs[k]
    BY <1>1, <2>4, <2>6
  <2>8. store'.threads[t] = T2 /\ \A u \in Ts \ {t} : store'.threads[u] = store.threads[u]
    BY <1>1, <2>1, <2>5, <2>6
  <2>9. Rest(j, t)
    BY <1>6, <1>8, <2>7, <2>8 DEF Rest
  <2>. QED BY <1>4, <1>6, <1>8, <2>2, <2>6, <2>7, <2>8, <2>9 DEF J, T
<1>. QED BY <1>7, <1>8

LEMMA SetFolderEffect ==
  ASSUME store \in StoreRecord, NEW j \in Job, NEW f \in Place, NEW w \in 0..Cron,
         SetJobFolderWorktree(j, f, w)
  PROVE  LET t == store.jobs[j].thread IN
         /\ store' \in StoreRecord /\ Rest(j, t)
         /\ old' = old \ {Entry("job", j)} \/ old' = old \ {Entry("job", j), Entry("thread", t)}
         /\ store'.runs = store.runs
         /\ store'.jobs[j].thread = t /\ store'.jobs[j].session = store.jobs[j].session
         /\ store'.jobs[j].folder = f /\ store'.jobs[j].tree = w
         /\ t # 0 /\ store.threads[t] = NoThread => store'.threads[t] = NoThread
         /\ t # 0 /\ store.threads[t] # NoThread =>
              /\ Entry("thread", t) \notin old'
              /\ store'.threads[t].job = store.threads[t].job
              /\ store'.threads[t].session = store.threads[t].session
              /\ store'.threads[t].folder = f /\ store'.threads[t].tree = w
<1> DEFINE J == store.jobs[j]
           t == J.thread
           J2 == [J EXCEPT !.folder = f, !.tree = w]
<1>1. /\ store.runs \in [Run -> MapRecord] /\ store.jobs \in [Job -> JobRecord]
      /\ store.threads \in [Ts -> ThreadRecord]
  BY StoreParts
<1>2. J \in JobRecord
  BY <1>1
<1>3. t \in {0} \cup Ts
  BY <1>2 DEF JobRecord
<1>4. /\ J2 \in JobRecord /\ J2.thread = t /\ J2.session = J.session /\ J2.folder = f
      /\ J2.tree = w
  <2> HIDE DEF J
  <2>. QED BY <1>2 DEF JobRecord
<1> DEFINE T == store.threads[t]
           T2 == [T EXCEPT !.folder = f, !.tree = w]
<1>5. store' = [runs |-> store.runs, jobs |-> [store.jobs EXCEPT ![j] = J2],
                threads |-> IF t # 0 /\ T # NoThread THEN [store.threads EXCEPT ![t] = T2]
                            ELSE store.threads]
  BY DEF SetJobFolderWorktree
<1>6. /\ t = 0 \/ store.threads[t] = NoThread => old' = old \ {Entry("job", j)}
      /\ t # 0 /\ store.threads[t] # NoThread => old' = old \ {Entry("job", j), Entry("thread", t)}
  BY DEF SetJobFolderWorktree, Stamp, StampBoth
<1>7. CASE t = 0 \/ store.threads[t] = NoThread
  <2> HIDE DEF J2, T2
  <2>1. store' = [runs |-> store.runs, jobs |-> [store.jobs EXCEPT ![j] = J2],
                  threads |-> store.threads]
    BY <1>5, <1>7
  <2> HIDE DEF J
  <2>2. PICK jb \in [Job -> JobRecord] : jb = [store.jobs EXCEPT ![j] = J2]
    BY <1>1, <1>4
  <2>3. /\ store' \in StoreRecord /\ store'.runs = store.runs
        /\ store'.jobs = jb /\ store'.threads = store.threads
    BY <1>1, <2>1, <2>2 DEF StoreRecord
  <2>4. store'.jobs[j] = J2 /\ \A k \in Job \ {j} : store'.jobs[k] = store.jobs[k]
    BY <1>1, <2>2, <2>3
  <2>5. Rest(j, t)
    BY <1>6, <1>7, <2>3, <2>4 DEF Rest
  <2>. QED BY <1>4, <1>6, <1>7, <2>3, <2>4, <2>5 DEF J
<1>8. CASE t # 0 /\ store.threads[t] # NoThread
  <2>1. t \in Ts /\ T \in ThreadRecord
    BY <1>1, <1>3, <1>8
  <2>2. /\ T2 \in ThreadRecord /\ T2.job = T.job /\ T2.session = T.session
        /\ T2.folder = f /\ T2.tree = w
    <3> HIDE DEF T
    <3>. QED BY <2>1 DEF ThreadRecord
  <2> HIDE DEF J2, T2
  <2>3. store' = [runs |-> store.runs, jobs |-> [store.jobs EXCEPT ![j] = J2],
                  threads |-> [store.threads EXCEPT ![t] = T2]]
    BY <1>5, <1>8
  <2> HIDE DEF J, T
  <2>4. PICK jb \in [Job -> JobRecord] : jb = [store.jobs EXCEPT ![j] = J2]
    BY <1>1, <1>4
  <2>5. PICK th \in [Ts -> ThreadRecord] : th = [store.threads EXCEPT ![t] = T2]
    BY <1>1, <2>1, <2>2
  <2>6. /\ store' \in StoreRecord /\ store'.runs = store.runs
        /\ store'.jobs = jb /\ store'.threads = th
    BY <1>1, <2>3, <2>4, <2>5 DEF StoreRecord
  <2>7. store'.jobs[j] = J2 /\ \A k \in Job \ {j} : store'.jobs[k] = store.jobs[k]
    BY <1>1, <2>4, <2>6
  <2>8. store'.threads[t] = T2 /\ \A u \in Ts \ {t} : store'.threads[u] = store.threads[u]
    BY <1>1, <2>1, <2>5, <2>6
  <2>9. Rest(j, t)
    BY <1>6, <1>8, <2>7, <2>8 DEF Rest
  <2>. QED BY <1>4, <1>6, <1>8, <2>2, <2>6, <2>7, <2>8, <2>9 DEF J, T
<1>. QED BY <1>7, <1>8


\* Every operation of the store stamps what it changes, so retention lets nothing
\* go that was written since.
LEMMA EntriesKept ==
  ASSUME old \subseteq Entries, old' \subseteq old,
         \A r \in Run : Entry("run", r) \in old' => store'.runs[r] = store.runs[r],
         \A j \in Job : Entry("job", j) \in old' => store'.jobs[j] = store.jobs[j],
         \A t \in Ts : Entry("thread", t) \in old' => store'.threads[t] = store.threads[t]
  PROVE  old' \subseteq Entries'
<1> SUFFICES ASSUME NEW e \in old' PROVE e \in Entries'
  OBVIOUS
<1>1. e \in Entries
  OBVIOUS
<1>2. CASE \E r \in Run : store.runs[r] # NoRun /\ e = Entry("run", r)
  BY <1>2 DEF Entries
<1>3. CASE \E j \in Job : store.jobs[j] # NoJob /\ e = Entry("job", j)
  BY <1>3 DEF Entries
<1>4. CASE \E t \in Ts : store.threads[t] # NoThread /\ e = Entry("thread", t)
  BY <1>4 DEF Entries
<1>. QED BY <1>1, <1>2, <1>3, <1>4 DEF Entries

\* What is written to a job and to the thread it was last linked to: links stay.
Quiet(j) ==
  /\ store' \in StoreRecord /\ old' \subseteq Entries'
  /\ store'.runs = store.runs /\ Rest(j, store.jobs[j].thread)
  /\ \A r : Entry("run", r) \in old => Entry("run", r) \in old'
  /\ \A k \in Job : store'.jobs[k].thread = store.jobs[k].thread
  /\ \A u \in Ts : store'.threads[u].job = store.threads[u].job

\* A run is linked to a job and a thread.
Linked(r, j, t) ==
  /\ store' \in StoreRecord /\ old' \subseteq Entries'
  /\ store'.runs = [store.runs EXCEPT ![r] = [job |-> j, thread |-> t]]
  /\ Rest(j, t) /\ old' = old \ Stamped(r, j, t)
  /\ store'.jobs[j].thread = t /\ store'.threads[t].job = j

LEMMA QuietSession ==
  ASSUME store \in StoreRecord, old \subseteq Entries, NEW j \in Job, NEW s \in 0..MaxRuns,
         SetJobSessionID(j, s)
  PROVE  Quiet(j)
<1>1. CASE s = 0
  BY <1>1 DEF SetJobSessionID, Quiet, Rest, Entries, Entry
<1>2. CASE s # 0
  <2> DEFINE t == store.jobs[j].thread
  <2>1. /\ store' \in StoreRecord /\ Rest(j, t)
        /\ old' = old \ {Entry("job", j), Entry("thread", t)}
        /\ store'.runs = store.runs /\ store'.jobs[j].thread = t
        /\ t # 0 => store'.threads[t].job = store.threads[t].job
    BY <1>2, SetSessionEffect
  <2> HIDE DEF t
  <2>2. t \in {0} \cup Ts
    BY StoreParts DEF JobRecord, t
  <2>3. /\ \A k \in Job : store'.jobs[k].thread = store.jobs[k].thread
        /\ \A u \in Ts : store'.threads[u].job = store.threads[u].job
    BY <2>1, <2>2, Sizes DEF Rest, t
  <2>4. old' \subseteq Entries'
    BY <2>1, EntriesKept DEF Rest
  <2>5. \A r : Entry("run", r) \in old => Entry("run", r) \in old'
    BY <2>1 DEF Entry
  <2>. QED BY <2>1, <2>3, <2>4, <2>5 DEF Quiet, t
<1>. QED BY <1>1, <1>2

LEMMA QuietMeta ==
  ASSUME store \in StoreRecord, old \subseteq Entries, NEW j \in Job, NEW f \in Place,
         NEW w \in 0..Cron, f # 0 \/ w # 0, LinkJobMeta(j, f, w)
  PROVE  Quiet(j)
<1> DEFINE t == store.jobs[j].thread
<1>1. /\ store' \in StoreRecord /\ Rest(j, t) /\ Entry("job", j) \notin old'
      /\ t # 0 => Entry("thread", t) \notin old'
      /\ store'.runs = store.runs /\ store'.jobs[j].thread = t
      /\ t # 0 => store'.threads[t].job = store.threads[t].job
  BY LinkMetaEffect
<1>a. \A r : Entry("run", r) \in old => Entry("run", r) \in old'
  BY LinkMetaEffect DEF Entry
<1> HIDE DEF t
<1>2. t \in {0} \cup Ts
  BY StoreParts DEF JobRecord, t
<1>3. /\ \A k \in Job : store'.jobs[k].thread = store.jobs[k].thread
      /\ \A u \in Ts : store'.threads[u].job = store.threads[u].job
  BY <1>1, <1>2, Sizes DEF Rest, t
<1>4. old' \subseteq Entries'
  BY <1>1, <1>2, Sizes, EntriesKept DEF Rest
<1>. QED BY <1>1, <1>a, <1>3, <1>4 DEF Quiet, t

LEMMA QuietFolder ==
  ASSUME store \in StoreRecord, old \subseteq Entries, NEW j \in Job, NEW f \in Place,
         NEW w \in 0..Cron, SetJobFolderWorktree(j, f, w)
  PROVE  Quiet(j)
<1> DEFINE t == store.jobs[j].thread
<1>1. /\ store' \in StoreRecord /\ Rest(j, t) /\ Entry("job", j) \notin old'
      /\ store'.runs = store.runs /\ store'.jobs[j].thread = t
      /\ t # 0 /\ store.threads[t] = NoThread => store'.threads[t] = NoThread
      /\ t # 0 /\ store.threads[t] # NoThread =>
           /\ Entry("thread", t) \notin old'
           /\ store'.threads[t].job = store.threads[t].job
  BY SetFolderEffect
<1>a. \A r : Entry("run", r) \in old => Entry("run", r) \in old'
  BY SetFolderEffect DEF Entry
<1> HIDE DEF t
<1>2. t \in {0} \cup Ts
  BY StoreParts DEF JobRecord, t
<1>3. /\ \A k \in Job : store'.jobs[k].thread = store.jobs[k].thread
      /\ \A u \in Ts : store'.threads[u].job = store.threads[u].job
  BY <1>1, <1>2, Sizes DEF Rest, t
<1>4. \A u \in Ts : Entry("thread", u) \in old' => store'.threads[u] = store.threads[u]
  BY <1>1, <1>2, Sizes DEF Rest
<1>5. old' \subseteq Entries'
  BY <1>1, <1>4, EntriesKept DEF Rest
<1>. QED BY <1>1, <1>a, <1>3, <1>5 DEF Quiet, t

LEMMA LinkedBy ==
  ASSUME store \in StoreRecord, old \subseteq Entries, NEW r \in Run, NEW j \in Job, NEW t \in Ts,
         NEW s \in 0..MaxRuns, NEW replies \in BOOLEAN, LinkRun(r, j, t, s, replies)
  PROVE  Linked(r, j, t)
<1>1. /\ store' \in StoreRecord /\ Rest(j, t) /\ old' = old \ Stamped(r, j, t)
      /\ store'.runs = [store.runs EXCEPT ![r] = [job |-> j, thread |-> t]]
      /\ store'.jobs[j].thread = t /\ store'.threads[t].job = j
  BY LinkRunEffect
<1>2. \A x \in Run \ {r} : store'.runs[x] = store.runs[x]
  BY <1>1, StoreParts
<1>3. old' \subseteq Entries'
  BY <1>1, <1>2, EntriesKept DEF Rest, Stamped
<1>. QED BY <1>1, <1>3 DEF Linked

-----------------------------------------------------------------------------
(* What is known while an event or a message is handled.                    *)

LEMMA EvFacts ==
  ASSUME TypeInv, LogInv, SubInv, ev.at # "idle"
  PROVE  /\ ev.event \in Event /\ ev.event.run \in DOMAIN runs /\ ev.event.run \in Run
         /\ runs[ev.event.run] \in RunRecord /\ runs[ev.event.run].job \in Job
         /\ Parent \in Job
         /\ \E n \in DOMAIN log : n \in sub.seen /\ log[n] = ev.event
<1>1. PICK n \in sub.seen : log[n] = ev.event
  BY DEF SubInv
<1>2. n \in DOMAIN log
  BY DEF TypeInv
<1>3. ev.event \in Event /\ ev.event.run \in DOMAIN runs
  BY <1>1, <1>2 DEF TypeInv, LogInv, EventSound
<1>4. ev.event.run \in Run
  BY <1>3 DEF Event
<1>5. runs[ev.event.run] \in RunRecord /\ runs[ev.event.run].job \in Job
  <2>1. \A r \in DOMAIN runs : runs[r] \in RunRecord
    BY DEF TypeInv
  <2>. QED BY <1>3, <2>1 DEF RunRecord
<1>6. Parent \in Job
  BY <1>5 DEF Parent, TypeInv, EvRecord, MapRecord
<1>. QED BY <1>1, <1>2, <1>3, <1>4, <1>5, <1>6

LEMMA SmFacts ==
  ASSUME TypeInv, SmInv, sm.at \in {"link", "meta"}
  PROVE  /\ sm.run \in Run /\ sm.run \in DOMAIN runs
         /\ runs[sm.run].job \in Job /\ runs[sm.run].folder \in Place
         /\ sm.msg.ts \in Ts
         /\ sm.msg.thread # 0 => sm.msg.thread \in Ts /\ (sm.at = "link" => sm.snap.job \in Job)
         /\ sm.snap.session \in 0..MaxRuns /\ sm.snap.replies \in BOOLEAN
<1>1. sm.run \in Run
  BY Sizes DEF TypeInv, SmInv, Run
<1>2. sm.msg \in Message /\ sm.msg.ts # 0 /\ sm.snap \in ThreadRecord
  BY DEF TypeInv, SmInv, SmRecord
<1>3. sm.msg.ts \in Ts
  BY <1>2, Sizes DEF Message, Ts
<1>4. sm.msg.thread # 0 /\ sm.at = "link" => sm.snap.job \in Job
  BY <1>2 DEF SmInv, Routable, ThreadRecord
<1>5. sm.run \in DOMAIN runs /\ runs[sm.run] \in RunRecord
  BY DEF TypeInv, SmInv
<1>6. runs[sm.run].job \in Job /\ runs[sm.run].folder \in Place
  BY <1>5 DEF RunRecord
<1>. QED BY <1>1, <1>2, <1>3, <1>4, <1>5, <1>6, Sizes DEF Message, ThreadRecord

-----------------------------------------------------------------------------
(* What a step does to the records of the subscription and of the handlers. *)

LEMMA ConnectEffect ==
  ASSUME TypeInv, NEW p \in ReplayFrom(sub), NEW gap \in BOOLEAN, NEW more \in BOOLEAN,
         sub' = [sub EXCEPT !.up = TRUE, !.pos = p, !.missed = @ \/ gap, !.again = @ \/ more]
  PROVE  /\ sub' \in SubRecord /\ p \in 0..Len(log) /\ sub'.up /\ sub'.pos = p
         /\ sub'.last = sub.last /\ sub'.seen = sub.seen /\ sub'.restarted = sub.restarted
         /\ sub'.missed <=> sub.missed \/ gap
         /\ sub'.again <=> sub.again \/ more
<1>1. sub \in SubRecord /\ sub.last <= Len(log) /\ Len(log) \in Nat
  BY DEF TypeInv
<1>2. p \in 0..Len(log)
  BY <1>1 DEF ReplayFrom, SubRecord
<1>3. PICK m \in BOOLEAN : m = (sub.missed \/ gap)
  OBVIOUS
<1>4. PICK a \in BOOLEAN : a = (sub.again \/ more)
  OBVIOUS
<1>5. sub' = [sub EXCEPT !.up = TRUE, !.pos = p, !.missed = m, !.again = a] /\ p \in Nat
  BY <1>1, <1>2, <1>3, <1>4
<1>6. /\ sub' \in SubRecord /\ sub'.up /\ sub'.pos = p
      /\ sub'.last = sub.last /\ sub'.seen = sub.seen /\ sub'.restarted = sub.restarted
      /\ sub'.missed = m /\ sub'.again = a
  BY <1>1, <1>5 DEF SubRecord
<1>. QED BY <1>2, <1>3, <1>4, <1>6

LEMMA DisconnectEffect ==
  ASSUME TypeInv, Disconnect
  PROVE  /\ sub' \in SubRecord /\ ~sub'.up /\ sub'.pos = sub.pos /\ sub'.last = sub.last
         /\ sub'.seen = sub.seen /\ sub'.missed = sub.missed
         /\ sub'.restarted = sub.restarted /\ sub'.again = sub.again
BY DEF TypeInv, Disconnect, SubRecord

LEMMA SkipEffect ==
  ASSUME TypeInv, Skip
  PROVE  /\ sub' \in SubRecord /\ sub'.up = sub.up /\ sub'.pos = sub.pos + 1 /\ sub'.last = sub.last
         /\ sub'.seen = sub.seen /\ sub'.missed = sub.missed
         /\ sub'.restarted = sub.restarted /\ sub'.again = sub.again
<1>1. sub \in SubRecord
  BY DEF TypeInv
<1>2. PICK n \in Nat : n = sub.pos + 1
  BY <1>1 DEF SubRecord
<1>3. sub' = [sub EXCEPT !.pos = n]
  BY <1>2 DEF Skip
<1>. QED BY <1>1, <1>2, <1>3 DEF SubRecord

LEMMA ReceiveEffect ==
  ASSUME TypeInv, LogInv, Receive
  PROVE  LET n == sub.pos + 1 IN
         /\ n \in DOMAIN log /\ n \notin sub.seen /\ sub.up /\ ev.at = "idle"
         /\ sub' \in SubRecord /\ sub'.up = sub.up /\ sub'.pos = n
         /\ sub'.last = (IF n > sub.last THEN n ELSE sub.last)
         /\ sub'.seen = sub.seen \cup {n} /\ sub'.missed = sub.missed
         /\ sub'.restarted = sub.restarted /\ sub'.again = sub.again
         /\ ev' \in EvRecord /\ ev'.event = log[n] /\ ev'.at = log[n].kind
         /\ ev'.mapping = store.runs[log[n].run]
<1>1. sub \in SubRecord /\ Len(log) \in Nat
  BY DEF TypeInv
<1>2. PICK n \in Nat : n = sub.pos + 1
  BY <1>1 DEF SubRecord
<1>3. n \in DOMAIN log /\ n \notin sub.seen /\ sub.up /\ ev.at = "idle"
  BY <1>1, <1>2 DEF Receive, Duplicate, Idle, TypeInv, SubRecord
<1>4. PICK l \in Nat : l = IF n > sub.last THEN n ELSE sub.last
  BY <1>1 DEF SubRecord
<1>5. PICK q \in SUBSET Nat : q = sub.seen \cup {n}
  BY <1>1 DEF SubRecord
<1>6. sub' = [sub EXCEPT !.pos = n, !.seen = q, !.last = l]
  BY <1>2, <1>4, <1>5 DEF Receive
<1>7. /\ sub' \in SubRecord /\ sub'.up = sub.up /\ sub'.pos = n /\ sub'.last = l
      /\ sub'.seen = q /\ sub'.missed = sub.missed
      /\ sub'.restarted = sub.restarted /\ sub'.again = sub.again
  BY <1>1, <1>6 DEF SubRecord
<1>8. ev' = [at |-> log[n].kind, event |-> log[n], mapping |-> store.runs[log[n].run],
             replies |-> FALSE]
  BY <1>2 DEF Receive
<1>9. log[n] \in Event /\ store.runs \in [Run -> MapRecord]
  BY <1>3 DEF TypeInv, StoreRecord
<1>10. ev' \in EvRecord
  BY <1>8, <1>9 DEF Event, EvRecord
<1>. QED BY <1>2, <1>3, <1>4, <1>5, <1>7, <1>8, <1>10

LEMMA RestartEffect ==
  ASSUME TypeInv, Restart
  PROVE  /\ sub' \in SubRecord /\ ~sub'.up /\ sub'.pos = 0 /\ sub'.last = 0
         /\ sub'.seen = {} /\ sub'.missed = sub.missed
         /\ sub'.restarted /\ sub'.again = sub.again
BY DEF TypeInv, Restart, SubRecord

LEMMA IdleFree == Idle \in EvRecord /\ Free \in SmRecord /\ Idle.at = "idle" /\ Free.at = "idle"
<1>1. NoRun \in MapRecord /\ NoThread \in ThreadRecord /\ Free.msg \in Message
  BY Sizes DEF NoRun, MapRecord, NoThread, ThreadRecord, Free, Message, Cron, Repo
<1>. QED BY <1>1, Sizes DEF Idle, Free, EvRecord, SmRecord

\* The handler of an event goes on with the same event.
EvNext(at) == /\ ev' \in EvRecord /\ ev'.at = at /\ ev'.event = ev.event
              /\ ev'.mapping = ev.mapping

LEMMA HandlerEffect ==
  ASSUME TypeInv
  PROVE  /\ CompletedFolder => EvNext("set session")
         /\ CompletedSession => \/ ev' = Idle
                                \/ EvNext("post") /\ (Originated \/ Parent = Cron)
         /\ Post => EvNext("link") /\ ev'.replies = ev.replies
<1>1. ev \in EvRecord
  BY DEF TypeInv
<1>2. CompletedFolder => EvNext("set session")
  BY <1>1 DEF CompletedFolder, EvNext, EvRecord
<1>3. Post => EvNext("link") /\ ev'.replies = ev.replies
  BY <1>1 DEF Post, EvNext, EvRecord
<1>4. ASSUME NEW b \in BOOLEAN, ev' = [ev EXCEPT !.at = "post", !.replies = b]
      PROVE  EvNext("post")
  BY <1>1, <1>4 DEF EvNext, EvRecord
<1>5. ASSUME CompletedSession PROVE ev' = Idle \/ (EvNext("post") /\ (Originated \/ Parent = Cron))
  <2>1. CASE ev' = Idle
    BY <2>1
  <2>2. CASE \E b \in BOOLEAN : Posted(b) /\ ev' = [ev EXCEPT !.at = "post", !.replies = b]
    <3>1. PICK b \in BOOLEAN : Posted(b) /\ ev' = [ev EXCEPT !.at = "post", !.replies = b]
      BY <2>2
    <3>2. EvNext("post")
      BY <1>4, <3>1
    <3>3. Originated \/ Parent = Cron
      BY <3>1 DEF Posted
    <3>. QED BY <3>2, <3>3
  <2>. QED BY <1>5, <2>1, <2>2 DEF CompletedSession
<1>. QED BY <1>2, <1>3, <1>5

\* The handler of a message goes on with the same message.
SmNext(at, r) == /\ sm' \in SmRecord /\ sm'.at = at /\ sm'.run = r
                 /\ sm'.msg = sm.msg /\ sm'.snap = sm.snap

LEMMA MessageEffect ==
  ASSUME TypeInv
  PROVE  /\ Submit => SmNext("link", Len(runs) + 1)
         /\ LinkSubmitted => sm' = Free \/ SmNext("meta", sm.run)
<1>1. sm \in SmRecord
  BY DEF TypeInv
<1>2. ASSUME Submit PROVE SmNext("link", Len(runs) + 1)
  <2>1. PICK r \in 0..MaxRuns : r = Len(runs) + 1
    BY <1>2, Sizes DEF TypeInv, Submit, CanStart
  <2>2. sm' = [sm EXCEPT !.at = "link", !.run = r]
    BY <1>2, <2>1 DEF Submit
  <2>. QED BY <1>1, <2>1, <2>2 DEF SmNext, SmRecord
<1>3. ASSUME sm' = [sm EXCEPT !.at = "meta"] PROVE SmNext("meta", sm.run)
  BY <1>1, <1>3 DEF SmNext, SmRecord
<1>. QED BY <1>2, <1>3 DEF LinkSubmitted

\* A message is handled: either it starts a run, or it is a reply to a known thread.
LEMMA TakeEffect ==
  ASSUME TypeInv, NEW m \in Message, Take(m)
  PROVE  \/ sm' = Free
         \/ /\ sm' \in SmRecord /\ sm'.at = "submit" /\ sm'.msg = m
            /\ m.thread # 0 => sm'.snap = store.threads[m.thread] /\ Routable(sm'.snap)
<1> DEFINE snap == IF m.thread = 0 THEN NoThread ELSE store.threads[m.thread]
<1>1. snap \in ThreadRecord
  BY StoreParts, IdleFree DEF TypeInv, Message, Free, SmRecord
<1>2. \/ sm' = Free
      \/ /\ sm' = [at |-> "submit", msg |-> m, run |-> 0, snap |-> snap]
         /\ m.thread = 0 \/ Routable(snap)
  BY DEF Take
<1>3. sm' = [at |-> "submit", msg |-> m, run |-> 0, snap |-> snap] => sm' \in SmRecord
  BY <1>1, Sizes DEF SmRecord
<1>. QED BY <1>2, <1>3

-----------------------------------------------------------------------------
(* What a step does to the runs and to the log.                             *)

Stage == {"started", "resolved", "session", "done", "skipped"}

\* A run goes on.
StageSet(r, g) ==
  /\ runs' \in Seq(RunRecord) /\ Len(runs') = Len(runs) /\ DOMAIN runs' = DOMAIN runs
  /\ \A x \in DOMAIN runs :
       /\ runs'[x].job = runs[x].job /\ runs'[x].from = runs[x].from
       /\ runs'[x].resumes = runs[x].resumes /\ runs'[x].folder = runs[x].folder
       /\ runs'[x].tree = runs[x].tree
       /\ runs'[x].stage = IF x = r THEN g ELSE runs[x].stage

\* A run starts.
Begins(rec) ==
  /\ runs' \in Seq(RunRecord) /\ Len(runs') = Len(runs) + 1 /\ Len(runs') <= MaxRuns
  /\ DOMAIN runs' = DOMAIN runs \cup {Len(runs) + 1} /\ Len(runs) + 1 \notin DOMAIN runs
  /\ \A x \in DOMAIN runs : runs'[x] = runs[x]
  /\ runs'[Len(runs) + 1] = rec

\* An event is published.
Published(e) ==
  /\ log' \in Seq(Event) /\ Len(log') = Len(log) + 1
  /\ DOMAIN log' = DOMAIN log \cup {Len(log) + 1} /\ Len(log) + 1 \notin DOMAIN log
  /\ \A n \in DOMAIN log : log'[n] = log[n]
  /\ log'[Len(log) + 1] = e

LEMMA StageEffect ==
  ASSUME TypeInv, NEW r \in DOMAIN runs, NEW g \in Stage, runs' = [runs EXCEPT ![r].stage = g]
  PROVE  StageSet(r, g)
<1>1. runs \in Seq(RunRecord) /\ runs[r] \in RunRecord
  BY DEF TypeInv
<1> DEFINE new == [runs[r] EXCEPT !.stage = g]
<1>2. /\ new \in RunRecord /\ new.job = runs[r].job /\ new.from = runs[r].from
      /\ new.resumes = runs[r].resumes /\ new.folder = runs[r].folder
      /\ new.tree = runs[r].tree /\ new.stage = g
  BY <1>1 DEF RunRecord, Stage
<1>3. runs' = [runs EXCEPT ![r] = new]
  OBVIOUS
<1> HIDE DEF new
<1>4. /\ runs' \in Seq(RunRecord) /\ Len(runs') = Len(runs) /\ DOMAIN runs' = DOMAIN runs
      /\ \A x \in DOMAIN runs : runs'[x] = IF x = r THEN new ELSE runs[x]
  BY <1>1, <1>2, <1>3
<1>. QED BY <1>2, <1>4 DEF StageSet

LEMMA StartEffect ==
  ASSUME TypeInv, CanStart, NEW rec \in RunRecord, runs' = Append(runs, rec)
  PROVE  Begins(rec)
<1>1. runs \in Seq(RunRecord) /\ Len(runs) < MaxRuns /\ Len(runs) \in Nat /\ MaxRuns \in Nat
  BY Sizes DEF TypeInv, CanStart
<1>. QED BY <1>1 DEF Begins

LEMMA PublishEffect ==
  ASSUME TypeInv, NEW e \in Event, log' = Append(log, e)
  PROVE  Published(e)
<1>1. log \in Seq(Event) /\ Len(log) \in Nat
  BY DEF TypeInv
<1>. QED BY <1>1 DEF Published

\* What the daemon does.
MakeTreeStep(r) ==
  /\ runs[r].stage = "started" /\ runs[r].tree /\ StageSet(r, "resolved")
  /\ Published([kind |-> "worktree", run |-> r, session |-> 0, tree |-> runs[r].job])
SessionStep(r) ==
  /\ runs[r].stage = (IF runs[r].tree THEN "resolved" ELSE "started") /\ StageSet(r, "session")
  /\ Published([kind |-> "session", run |-> r, session |-> r, tree |-> 0])
CompleteStep(r) ==
  /\ runs[r].stage # "done" /\ StageSet(r, "done")
  /\ Published([kind |-> "completed", run |-> r,
                session |-> IF runs[r].stage = "session" THEN r ELSE 0,
                tree |-> IF runs[r].stage # "started" /\ runs[r].tree THEN runs[r].job ELSE 0])
SkipStep(r) ==
  /\ runs[r].stage = "started" /\ StageSet(r, "skipped") /\ log' = log
  /\ ~Alone(r)
CronStep == log' = log /\ \E tree \in BOOLEAN : Begins(NewRun(Cron, 0, 0, Repo, tree))
RootStep ==
  /\ log' = log /\ sm.msg.thread = 0
  /\ \E tree \in BOOLEAN, j \in Job, folder \in Place :
       /\ Begins(NewRun(j, sm.msg.ts, 0, folder, tree)) /\ folder # 0
       /\ j \in Named \/ (j = Len(runs) + 1 /\ folder = Repo)
ReplyStep ==
  /\ log' = log /\ sm.msg.thread # 0
  /\ Begins(NewRun(Len(runs) + 1, sm.msg.thread, sm.snap.session, Folder(sm.snap), FALSE))

LEMMA DaemonEffect ==
  ASSUME TypeInv
  PROVE  /\ \A r \in DOMAIN runs : /\ MakeTree(r) => MakeTreeStep(r)
                                   /\ AnnounceSession(r) => SessionStep(r)
                                   /\ Complete(r) => CompleteStep(r)
                                   /\ SkipRun(r) => SkipStep(r)
         /\ CronFires => CronStep
<1>0. /\ \A r \in DOMAIN runs : runs[r] \in RunRecord /\ r \in Run
      /\ 0 \in 0..MaxRuns /\ 0 \in 0..Cron
  BY Sizes DEF TypeInv, Run
<1>1. ASSUME NEW r \in DOMAIN runs, MakeTree(r) PROVE MakeTreeStep(r)
  <2>1. [kind |-> "worktree", run |-> r, session |-> 0, tree |-> runs[r].job] \in Event
    BY <1>0, Sizes DEF Event, RunRecord, Job
  <2>. QED BY <1>1, <2>1, StageEffect, PublishEffect DEF MakeTree, MakeTreeStep, Publish, Stage
<1>2. ASSUME NEW r \in DOMAIN runs, AnnounceSession(r) PROVE SessionStep(r)
  <2>1. [kind |-> "session", run |-> r, session |-> r, tree |-> 0] \in Event
    BY <1>0 DEF Event, Run
  <2>. QED BY <1>2, <2>1, StageEffect, PublishEffect
           DEF AnnounceSession, SessionStep, Publish, Stage
<1>3. ASSUME NEW r \in DOMAIN runs, Complete(r) PROVE CompleteStep(r)
  <2>1. PICK s \in 0..MaxRuns : s = IF runs[r].stage = "session" THEN r ELSE 0
    BY <1>0 DEF Run
  <2>2. PICK t \in 0..Cron : t = IF runs[r].stage # "started" /\ runs[r].tree THEN runs[r].job ELSE 0
    BY <1>0 DEF RunRecord, Job
  <2>3. [kind |-> "completed", run |-> r, session |-> s, tree |-> t] \in Event
    BY <1>0 DEF Event
  <2>4. StageSet(r, "done") /\ runs[r].stage # "done"
    BY <1>3, StageEffect DEF Complete, Stage, Over
  <2>5. Published([kind |-> "completed", run |-> r, session |-> s, tree |-> t])
    BY <1>3, <2>1, <2>2, <2>3, PublishEffect DEF Complete, Publish
  <2>. QED BY <1>3, <2>1, <2>2, <2>4, <2>5 DEF Complete, CompleteStep
<1>4. ASSUME CronFires PROVE CronStep
  <2>1. PICK tree \in BOOLEAN : runs' = Append(runs, NewRun(Cron, 0, 0, Repo, tree))
    BY <1>4 DEF CronFires
  <2>2. NewRun(Cron, 0, 0, Repo, tree) \in RunRecord
    BY Sizes DEF NewRun, RunRecord
  <2>. QED BY <1>4, <2>1, <2>2, StartEffect DEF CronFires, CronStep
<1>5. ASSUME NEW r \in DOMAIN runs, SkipRun(r) PROVE SkipStep(r)
  <2>1. StageSet(r, "skipped") /\ runs[r].stage = "started" /\ log' = log
    BY <1>5, StageEffect DEF SkipRun, Stage
  <2>2. ~Alone(r)
    BY <1>5 DEF SkipRun, Alone
  <2>. QED BY <2>1, <2>2 DEF SkipStep
<1>. QED BY <1>1, <1>2, <1>3, <1>4, <1>5

LEMMA SubmitEffect ==
  ASSUME TypeInv, SmInv, Submit
  PROVE  RootStep \/ ReplyStep
<1>1. sm.msg \in Message /\ sm.snap \in ThreadRecord /\ sm.msg.ts # 0 /\ Len(runs) + 1 \in Run
  <2>1. sm.msg \in Message /\ sm.snap \in ThreadRecord /\ sm.msg.ts # 0
    BY DEF TypeInv, SmRecord, SmInv, Submit
  <2>. QED BY <2>1, Sizes DEF TypeInv, Submit, CanStart, Run
<1>2. CASE sm.msg.thread = 0
  <2>1. PICK tree \in BOOLEAN :
          \E j, folder : /\ runs' = Append(runs, NewRun(j, sm.msg.ts, 0, folder, tree))
                         /\ \/ j = Len(runs) + 1 /\ folder = Repo
                            \/ j \in Named /\ folder \in {Repo, Other}
    BY <1>2 DEF Submit
  <2>1a. PICK j, folder : /\ runs' = Append(runs, NewRun(j, sm.msg.ts, 0, folder, tree))
                          /\ \/ j = Len(runs) + 1 /\ folder = Repo
                             \/ j \in Named /\ folder \in {Repo, Other}
    BY <2>1
  <2>2. folder \in Place /\ folder # 0 /\ j \in Job
    <3>0. \A i \in DOMAIN runs : runs[i] \in RunRecord
      BY DEF TypeInv
    <3>1. \A i \in DOMAIN runs : runs[i].job \in Job
      BY <3>0 DEF RunRecord
    <3>2. Named \subseteq Job
      BY <3>1 DEF Named, Range
    <3>. QED BY <1>1, <2>1a, <3>2, Sizes
  <2>3. NewRun(j, sm.msg.ts, 0, folder, tree) \in RunRecord
    BY <1>1, <2>2, Sizes DEF NewRun, RunRecord, Message, Ts
  <2>4. Begins(NewRun(j, sm.msg.ts, 0, folder, tree))
    BY <2>1a, <2>3, StartEffect DEF Submit
  <2>. QED BY <1>2, <2>1a, <2>2, <2>4 DEF Submit, RootStep
<1>3. CASE sm.msg.thread # 0
  <2>1. Folder(sm.snap) \in Place
    BY <1>1, Sizes DEF Folder, ThreadRecord, Place, Job, Other
  <2>2. NewRun(Len(runs) + 1, sm.msg.thread, sm.snap.session, Folder(sm.snap), FALSE) \in RunRecord
    BY <1>1, <1>3, <2>1, Sizes DEF NewRun, RunRecord, Message, ThreadRecord
  <2>. QED BY <1>3, <2>2, StartEffect DEF Submit, ReplyStep
<1>. QED BY <1>2, <1>3

-----------------------------------------------------------------------------
(* What a step does to the store.                                           *)

LEMMA EventStoreEffect ==
  ASSUME TypeInv, LogInv, SubInv
  PROVE  /\ HandleSession => Quiet(runs[ev.event.run].job)
         /\ HandleWorktree => Quiet(runs[ev.event.run].job)
         /\ CompletedFolder => Quiet(Parent)
         /\ CompletedSession => Quiet(Parent)
         /\ LinkPosted => Linked(ev.event.run, Parent, PostTs(ev.event.run))
<1>0. store \in StoreRecord /\ old \subseteq Entries /\ ev \in EvRecord
  BY DEF TypeInv
<1>1. ASSUME ev.at # "idle"
      PROVE  /\ runs[ev.event.run].job \in Job /\ Parent \in Job /\ ev.event.session \in 0..MaxRuns
             /\ runs[ev.event.run].folder \in Place /\ ev.event.tree \in 0..Cron
             /\ ev.event.run \in Run
             /\ ev.at = "worktree" => ev.event.tree # 0
  <2>1. PICK n \in DOMAIN log : n \in sub.seen /\ log[n] = ev.event
    BY <1>1, EvFacts
  <2>2. ev.at = "worktree" => log[n].kind = "worktree"
    BY <2>1 DEF SubInv
  <2>3. ev.at = "worktree" => ev.event.tree = runs[ev.event.run].job
    BY <2>1, <2>2 DEF LogInv, EventSound
  <2>4. ev.at = "worktree" => ev.event.tree # 0
    BY <1>1, <2>3, EvFacts, Sizes
  <2>. QED BY <1>1, <2>4, EvFacts DEF Event, RunRecord
<1>2. HandleSession => Quiet(runs[ev.event.run].job)
  BY <1>0, <1>1, QuietSession DEF HandleSession
<1>3. ASSUME HandleWorktree PROVE Quiet(runs[ev.event.run].job)
  <2>1. /\ LinkJobMeta(runs[ev.event.run].job, 0, ev.event.tree) /\ 0 \in Place
        /\ runs[ev.event.run].job \in Job /\ ev.event.tree \in (0..Cron) \ {0}
    BY <1>1, <1>3, Sizes DEF HandleWorktree
  <2>. QED BY <1>0, <2>1, QuietMeta
<1>4. CompletedFolder => Quiet(Parent)
  BY <1>0, <1>1, QuietFolder DEF CompletedFolder
<1>5. CompletedSession => Quiet(Parent)
  BY <1>0, <1>1, QuietSession DEF CompletedSession
<1>6. ASSUME LinkPosted PROVE Linked(ev.event.run, Parent, PostTs(ev.event.run))
  <2>1. PostTs(ev.event.run) \in Ts
    BY <1>1, <1>6, Sizes DEF PostTs, Ts, Run, LinkPosted
  <2>2. ev.replies \in BOOLEAN
    BY <1>0 DEF EvRecord
  <2>3. LinkRun(ev.event.run, Parent, PostTs(ev.event.run), ev.event.session, ev.replies)
    BY <1>6 DEF LinkPosted
  <2>. QED BY <1>0, <1>1, <1>6, <2>1, <2>2, <2>3, LinkedBy DEF LinkPosted
<1>. QED BY <1>2, <1>3, <1>4, <1>5, <1>6

LEMMA MessageStoreEffect ==
  ASSUME TypeInv, RunInv, SmInv
  PROVE  /\ LinkSubmitted =>
              IF sm.msg.thread = 0 THEN Linked(sm.run, runs[sm.run].job, sm.msg.ts)
              ELSE Linked(sm.run, sm.snap.job, sm.msg.thread)
         /\ LinkFolder => Quiet(runs[sm.run].job)
<1>0. store \in StoreRecord /\ old \subseteq Entries
  BY DEF TypeInv
<1>1. ASSUME LinkSubmitted, sm.msg.thread = 0
      PROVE  Linked(sm.run, runs[sm.run].job, sm.msg.ts)
  <2>1. LinkRun(sm.run, runs[sm.run].job, sm.msg.ts, 0, TRUE)
    BY <1>1 DEF LinkSubmitted
  <2>2. /\ sm.run \in Run /\ runs[sm.run].job \in Job /\ sm.msg.ts \in Ts
        /\ 0 \in 0..MaxRuns /\ TRUE \in BOOLEAN
    BY <1>1, SmFacts, Sizes DEF LinkSubmitted
  <2>. QED BY <1>0, <2>1, <2>2, LinkedBy
<1>2. ASSUME LinkSubmitted, sm.msg.thread # 0 PROVE Linked(sm.run, sm.snap.job, sm.msg.thread)
  <2>1. LinkRun(sm.run, sm.snap.job, sm.msg.thread, sm.snap.session, sm.snap.replies)
    BY <1>2 DEF LinkSubmitted
  <2>2. /\ sm.run \in Run /\ sm.snap.job \in Job /\ sm.msg.thread \in Ts
        /\ sm.snap.session \in 0..MaxRuns /\ sm.snap.replies \in BOOLEAN
    BY <1>2, SmFacts DEF LinkSubmitted
  <2>. QED BY <1>0, <2>1, <2>2, LinkedBy
<1>3. ASSUME LinkFolder PROVE Quiet(runs[sm.run].job)
  <2>1. /\ LinkJobMeta(runs[sm.run].job, runs[sm.run].folder, 0)
        /\ runs[sm.run].job \in Job /\ 0 \in 0..Cron
        /\ runs[sm.run].folder # 0 /\ runs[sm.run].folder \in Place
    <3>1. RootOf(sm.run, sm.msg.ts)
      BY <1>3 DEF LinkFolder, SmInv
    <3>2. runs[sm.run].folder # 0
      BY <3>1 DEF RootOf, Root, RunInv
    <3>. QED BY <1>3, <3>2, SmFacts, Sizes DEF LinkFolder
  <2>. QED BY <1>0, <2>1, QuietMeta
<1>. QED BY <1>1, <1>2, <1>3

LEMMA PruneEffect ==
  ASSUME TypeInv, Prune
  PROVE  /\ store' \in StoreRecord /\ old' = {}
         /\ \A r \in Run : store'.runs[r] =
              IF Entry("run", r) \in old THEN NoRun ELSE store.runs[r]
         /\ \A j \in Job : store'.jobs[j] =
              IF Entry("job", j) \in old THEN NoJob ELSE store.jobs[j]
         /\ \A t \in Ts : store'.threads[t] =
              IF Entry("thread", t) \in old THEN NoThread ELSE store.threads[t]
<1> DEFINE A == [r \in Run |-> IF Entry("run", r) \in old THEN NoRun ELSE store.runs[r]]
           B == [j \in Job |-> IF Entry("job", j) \in old THEN NoJob ELSE store.jobs[j]]
           C == [t \in Ts |-> IF Entry("thread", t) \in old THEN NoThread ELSE store.threads[t]]
<1>1. store' = [runs |-> A, jobs |-> B, threads |-> C] /\ old' = {}
  BY DEF Prune
<1>2. NoRun \in MapRecord /\ NoJob \in JobRecord /\ NoThread \in ThreadRecord
  BY Sizes DEF NoRun, MapRecord, NoThread, ThreadRecord, NoJob, JobRecord, Cron, Repo
<1>3. A \in [Run -> MapRecord] /\ B \in [Job -> JobRecord] /\ C \in [Ts -> ThreadRecord]
  BY <1>2, StoreParts DEF TypeInv
<1>4. store' \in StoreRecord /\ store'.runs = A /\ store'.jobs = B /\ store'.threads = C
  <2> HIDE DEF A, B, C
  <2>. QED BY <1>1, <1>3 DEF StoreRecord
<1>. QED BY <1>1, <1>4

\* The store in every step: it stays, a job and the thread it was last linked to are
\* written, a run is linked, or retention lets entries go.
StoreStep ==
  \/ UNCHANGED << store, old >>
  \/ (HandleSession \/ HandleWorktree) /\ Quiet(runs[ev.event.run].job)
  \/ (CompletedFolder \/ CompletedSession) /\ Quiet(Parent)
  \/ LinkFolder /\ Quiet(runs[sm.run].job)
  \/ LinkPosted /\ Linked(ev.event.run, Parent, PostTs(ev.event.run))
  \/ LinkSubmitted /\ sm.msg.thread = 0 /\ Linked(sm.run, runs[sm.run].job, sm.msg.ts)
  \/ LinkSubmitted /\ sm.msg.thread # 0 /\ Linked(sm.run, sm.snap.job, sm.msg.thread)
  \/ TimePasses
  \/ Prune

LEMMA StoreEffect ==
  ASSUME TypeInv, RunInv, LogInv, SubInv, SmInv, [Next]_vars
  PROVE  StoreStep
<1>1. CASE Daemon
  BY <1>1 DEF Daemon, CronFires, SkipRun, MakeTree, AnnounceSession, Complete, StoreStep
<1>2. CASE Subscriber
  <2>1. CASE Connect \/ Skip \/ Receive \/ Post
    BY <2>1 DEF Connect, Skip, Receive, Post, StoreStep
  <2>2. CASE HandleSession \/ HandleWorktree
    BY <2>2, EventStoreEffect DEF StoreStep
  <2>3. CASE CompletedFolder \/ CompletedSession
    BY <2>3, EventStoreEffect DEF StoreStep
  <2>4. CASE LinkPosted
    BY <2>4, EventStoreEffect DEF StoreStep
  <2>. QED BY <1>2, <2>1, <2>2, <2>3, <2>4 DEF Subscriber
<1>3. CASE Messages
  <2>1. CASE HandleMessage \/ HandleMention \/ Submit \/ Refused
    BY <2>1 DEF HandleMessage, HandleMention, Submit, Refused, StoreStep
  <2>2. CASE LinkSubmitted
    BY <2>2, MessageStoreEffect DEF StoreStep
  <2>3. CASE LinkFolder
    BY <2>3, MessageStoreEffect DEF StoreStep
  <2>. QED BY <1>3, <2>1, <2>2, <2>3 DEF Messages
<1>4. CASE Disconnect \/ PostFails \/ SubmitFails \/ Restart
  BY <1>4 DEF Disconnect, PostFails, SubmitFails, Refused, Restart, StoreStep
<1>5. CASE TimePasses \/ Prune
  BY <1>5 DEF StoreStep
<1>6. CASE UNCHANGED vars
  BY <1>6 DEF vars, StoreStep
<1>. QED BY <1>1, <1>2, <1>3, <1>4, <1>5, <1>6 DEF Next

LEMMA StoreTypes ==
  ASSUME TypeInv, StoreStep
  PROVE  store' \in StoreRecord /\ old' \subseteq Entries'
<1>1. CASE UNCHANGED << store, old >>
  BY <1>1 DEF TypeInv, Entries
<1>2. CASE TimePasses
  BY <1>2 DEF TimePasses, TypeInv, Entries
<1>3. CASE Prune
  BY <1>3, PruneEffect
<1>. QED BY <1>1, <1>2, <1>3 DEF StoreStep, Quiet, Linked

-----------------------------------------------------------------------------
(* The type invariant.                                                      *)

\* The runs and the log in every step.
DaemonStep ==
  \/ UNCHANGED daemon
  \/ \E r \in DOMAIN runs : MakeTreeStep(r) \/ SessionStep(r) \/ CompleteStep(r) \/ SkipStep(r)
  \/ CronStep
  \/ Submit /\ (RootStep \/ ReplyStep)

LEMMA DaemonSteps ==
  ASSUME TypeInv, SmInv, [Next]_vars
  PROVE  DaemonStep
<1>1. CASE Daemon
  <2>1. CASE CronFires
    BY <2>1, DaemonEffect DEF DaemonStep
  <2>2. CASE \E r \in DOMAIN runs : MakeTree(r) \/ AnnounceSession(r) \/ Complete(r) \/ SkipRun(r)
    <3>1. PICK r \in DOMAIN runs : MakeTree(r) \/ AnnounceSession(r) \/ Complete(r) \/ SkipRun(r)
      BY <2>2
    <3>2. MakeTreeStep(r) \/ SessionStep(r) \/ CompleteStep(r) \/ SkipStep(r)
      BY <3>1, DaemonEffect
    <3>. QED BY <3>2 DEF DaemonStep
  <2>. QED BY <1>1, <2>1, <2>2 DEF Daemon
<1>2. CASE Submit
  BY <1>2, SubmitEffect DEF DaemonStep
<1>3. CASE Subscriber \/ HandleMessage \/ HandleMention \/ Refused \/ LinkSubmitted \/ LinkFolder
  BY <1>3 DEF Subscriber, Connect, Skip, Receive, Post, HandleSession, HandleWorktree,
    CompletedFolder, CompletedSession, LinkPosted, EventStep, HandleMessage, HandleMention,
    Refused, LinkSubmitted, LinkFolder, DaemonStep, daemon
<1>4. CASE Disconnect \/ PostFails \/ SubmitFails \/ Restart \/ TimePasses \/ Prune
  BY <1>4 DEF Disconnect, PostFails, SubmitFails, Refused, Restart, TimePasses, Prune, DaemonStep, daemon
<1>5. CASE UNCHANGED vars
  BY <1>5 DEF vars, DaemonStep
<1>. QED BY <1>1, <1>2, <1>3, <1>4, <1>5 DEF Next, Messages

\* Runs and events stay what they are.
Grows ==
  /\ runs' \in Seq(RunRecord) /\ Len(runs') <= MaxRuns /\ DOMAIN runs \subseteq DOMAIN runs'
  /\ \A x \in DOMAIN runs :
       /\ runs'[x].job = runs[x].job /\ runs'[x].from = runs[x].from
       /\ runs'[x].resumes = runs[x].resumes /\ runs'[x].folder = runs[x].folder
       /\ runs'[x].tree = runs[x].tree
  /\ log' \in Seq(Event) /\ Len(log) <= Len(log') /\ DOMAIN log \subseteq DOMAIN log'
  /\ \A n \in DOMAIN log : log'[n] = log[n]

LEMMA RunsGrow ==
  ASSUME TypeInv, DaemonStep
  PROVE  Grows
<1>0. /\ runs \in Seq(RunRecord) /\ Len(runs) <= MaxRuns /\ log \in Seq(Event)
      /\ Len(log) \in Nat /\ Len(runs) \in Nat
  BY DEF TypeInv
<1>1. CASE UNCHANGED daemon
  BY <1>0, <1>1 DEF daemon, Grows
<1>2. CASE \E r \in DOMAIN runs : MakeTreeStep(r) \/ SessionStep(r) \/ CompleteStep(r) \/ SkipStep(r)
  BY <1>0, <1>2 DEF SkipStep, MakeTreeStep, SessionStep, CompleteStep, StageSet, Published, Grows
<1>3. CASE log' = log /\ \E rec : Begins(rec)
  BY <1>0, <1>3 DEF Begins, Grows
<1>. QED BY <1>1, <1>2, <1>3 DEF DaemonStep, CronStep, RootStep, ReplyStep

LEMMA RootsAddressed ==
  ASSUME TypeInv, RunInv, OwnInv, NEW t \in Roots
  PROVE  t \in Ts /\ Addressed(t)
<1>1. CASE \E r \in DOMAIN runs : runs[r].from # 0 /\ t = runs[r].from
  <2>1. \A r \in DOMAIN runs : runs[r] \in RunRecord
    BY DEF TypeInv
  <2>. QED BY <1>1, <2>1 DEF RunRecord, RunInv
<1>2. CASE \E i \in DOMAIN posts : posts[i].thread = 0 /\ t = PostTs(posts[i].run)
  <2>1. PICK i \in DOMAIN posts : posts[i].thread = 0 /\ t = PostTs(posts[i].run)
    BY <1>2
  <2>2. posts[i] \in PostRecord
    BY DEF TypeInv
  <2>3. posts[i].run \in Run
    BY <2>2 DEF PostRecord
  <2>4. t \in Ts
    BY <2>1, <2>3, Sizes DEF PostTs, Run, Ts
  <2>5. posts[i].run \in DOMAIN runs /\ runs[posts[i].run].from = 0
    BY <2>1 DEF OwnInv, PostsOwned
  <2>. QED BY <2>1, <2>4, <2>5 DEF Addressed, Cronish
<1>. QED BY <1>1, <1>2 DEF Roots, Range

\* A message is taken: one that was just written, or one that is delivered again.
Taken(m) ==
  /\ m \in Message /\ m.ts # 0 /\ (m.thread # 0 => Addressed(m.thread))
  /\ Take(m) /\ sm.at = "idle" /\ inbox' \subseteq inbox \cup {m}
  /\ written' \in 0..MaxMessages

LEMMA TakenEffect ==
  ASSUME TypeInv, RunInv, OwnInv, SmInv, HandleMessage \/ HandleMention
  PROVE  \E m : Taken(m)
<1>1. CASE HandleMessage
  <2>1. PICK t \in {0} \cup Roots :
          /\ Take([ts |-> written + 1, thread |-> t])
          /\ inbox' = inbox \cup ({[ts |-> written + 1, thread |-> t]} \cap Mention)
    BY <1>1 DEF HandleMessage
  <2> DEFINE m == [ts |-> written + 1, thread |-> t]
  <2>2. written \in Nat /\ written + 1 <= MaxMessages /\ MaxMessages \in Nat
    BY <1>1, Sizes DEF TypeInv, HandleMessage
  <2>3. m \in Message /\ m.ts # 0
    BY <2>2, RootsAddressed DEF Message
  <2>4. m.thread # 0 => Addressed(m.thread)
    BY RootsAddressed
  <2>5. Take(m) /\ inbox' \subseteq inbox \cup {m}
    BY <2>1
  <2>6. sm.at = "idle" /\ written' \in 0..MaxMessages
    BY <1>1, <2>2 DEF HandleMessage
  <2> HIDE DEF m
  <2>. QED BY <2>3, <2>4, <2>5, <2>6 DEF Taken
<1>2. CASE HandleMention
  <2>1. PICK m \in inbox : Take(m) /\ inbox' = inbox \ {m}
    BY <1>2 DEF HandleMention
  <2>. QED BY <1>2, <2>1 DEF HandleMention, TypeInv, SmInv, Taken
<1>. QED BY <1>1, <1>2

LEMMA SubTypes ==
  ASSUME TypeInv, LogInv, [Next]_vars, Grows
  PROVE  sub' \in SubRecord /\ sub'.pos <= Len(log') /\ sub'.last <= Len(log')
           /\ sub'.seen \subseteq DOMAIN log'
<1>0. /\ sub \in SubRecord /\ sub.pos <= Len(log) /\ sub.last <= Len(log) /\ sub.seen \subseteq DOMAIN log
      /\ Len(log) \in Nat /\ Len(log') \in Nat /\ Len(log) <= Len(log') /\ DOMAIN log \subseteq DOMAIN log'
      /\ DOMAIN log = 1..Len(log) /\ sub.pos \in Nat /\ sub.last \in Nat
  BY DEF TypeInv, Grows, SubRecord
<1>1. CASE UNCHANGED sub
  BY <1>0, <1>1
<1>2. CASE Connect
  <2>1. PICK p \in ReplayFrom(sub) :
          sub' = [sub EXCEPT !.up = TRUE, !.pos = p,
                             !.missed = @ \/ \E e \in 1..p : e \notin sub.seen,
                             !.again = @ \/ (sub.restarted /\ sub.last # 0)]
    BY <1>2 DEF Connect
  <2> DEFINE gap == \E e \in 1..p : e \notin sub.seen
             more == sub.restarted /\ sub.last # 0
  <2>2. sub' = [sub EXCEPT !.up = TRUE, !.pos = p, !.missed = @ \/ gap, !.again = @ \/ more]
    BY <2>1
  <2>3. gap \in BOOLEAN /\ more \in BOOLEAN
    OBVIOUS
  <2> HIDE DEF gap, more
  <2>4. /\ sub' \in SubRecord /\ p \in 0..Len(log) /\ sub'.pos = p
        /\ sub'.last = sub.last /\ sub'.seen = sub.seen
    BY <2>2, <2>3, ConnectEffect
  <2>. QED BY <1>0, <2>4
<1>3. CASE Disconnect
  BY <1>0, <1>3, DisconnectEffect
<1>4. CASE Skip
  <2>1. /\ sub' \in SubRecord /\ sub'.pos = sub.pos + 1 /\ sub'.last = sub.last
        /\ sub'.seen = sub.seen /\ sub.pos < Len(log)
    BY <1>4, SkipEffect DEF Skip
  <2>. QED BY <1>0, <2>1
<1>5. CASE Receive
  <2>1. \E n : /\ n = sub.pos + 1 /\ n \in DOMAIN log /\ sub' \in SubRecord /\ sub'.pos = n
               /\ sub'.last \in {n, sub.last} /\ sub'.seen = sub.seen \cup {n}
    BY <1>5, ReceiveEffect
  <2>. QED BY <1>0, <2>1
<1>6. CASE Restart
  BY <1>0, <1>6, RestartEffect
<1>. QED
  BY <1>1, <1>2, <1>3, <1>4, <1>5, <1>6 DEF Next, Daemon, Subscriber, Messages, CronFires, SkipRun, MakeTree,
    AnnounceSession, Complete, Post, HandleSession, HandleWorktree, CompletedFolder,
    CompletedSession, LinkPosted, EventStep, HandleMessage, HandleMention, Submit, LinkSubmitted,
    LinkFolder, PostFails, SubmitFails, Refused, TimePasses, Prune, vars

LEMMA EvTypes ==
  ASSUME TypeInv, LogInv, SubInv, [Next]_vars
  PROVE  ev' \in EvRecord
<1>1. CASE UNCHANGED ev
  BY <1>1 DEF TypeInv
<1>2. CASE ev' = Idle
  BY <1>2, IdleFree
<1>3. CASE Receive
  BY <1>3, ReceiveEffect
<1>4. CASE CompletedFolder \/ CompletedSession \/ Post
  BY <1>2, <1>4, HandlerEffect DEF EvNext
<1>. QED
  BY <1>1, <1>2, <1>3, <1>4 DEF Next, Daemon, Subscriber, Messages, CronFires, SkipRun, MakeTree,
    AnnounceSession, Complete, HandleSession, HandleWorktree, Connect, Skip, Disconnect, Restart,
    LinkPosted, EventStep, HandleMessage, HandleMention, Submit, LinkSubmitted,
    LinkFolder, PostFails, SubmitFails, Refused, TimePasses, Prune, vars

LEMMA SmTypes ==
  ASSUME TypeInv, RunInv, OwnInv, SmInv, [Next]_vars
  PROVE  sm' \in SmRecord
<1>1. CASE UNCHANGED sm
  BY <1>1 DEF TypeInv
<1>2. CASE sm' = Free
  BY <1>2, IdleFree
<1>3. CASE HandleMessage \/ HandleMention
  <2>1. PICK m : Taken(m)
    BY <1>3, TakenEffect
  <2>. QED BY <1>2, <2>1, TakeEffect DEF Taken
<1>4. CASE Submit \/ LinkSubmitted
  BY <1>2, <1>4, MessageEffect DEF SmNext
<1>. QED
  BY <1>1, <1>2, <1>3, <1>4 DEF Next, Daemon, Subscriber, Messages, CronFires, SkipRun, MakeTree,
    AnnounceSession, Complete, Post, HandleSession, HandleWorktree, CompletedFolder,
    CompletedSession, LinkPosted, EventStep, Connect, Skip, Receive, Disconnect, Restart,
    LinkFolder, PostFails, SubmitFails, Refused, TimePasses, Prune, vars

LEMMA WorldTypes ==
  ASSUME TypeInv, RunInv, OwnInv, SmInv, LogInv, SubInv, [Next]_vars
  PROVE  /\ inbox' \subseteq Message /\ (\A m \in inbox' : m.ts # 0) /\ written' \in 0..MaxMessages
         /\ posts' \in Seq(PostRecord)
<1>1. CASE UNCHANGED world
  BY <1>1 DEF TypeInv, world
<1>2. CASE HandleMessage \/ HandleMention
  <2>1. PICK m : Taken(m)
    BY <1>2, TakenEffect
  <2>2. posts' = posts
    BY <1>2 DEF HandleMessage, HandleMention
  <2>. QED BY <2>1, <2>2 DEF Taken, TypeInv
<1>3. CASE Post
  <2> DEFINE p == [run |-> ev.event.run, thread |-> PostThread]
  <2>1. p \in PostRecord
    BY <1>3, EvFacts DEF Post, PostThread, PostRecord, TypeInv, EvRecord, MapRecord
  <2>2. posts' = Append(posts, p) /\ UNCHANGED << inbox, written >>
    BY <1>3 DEF Post
  <2> HIDE DEF p
  <2>3. posts' \in Seq(PostRecord)
    BY <2>1, <2>2 DEF TypeInv
  <2>. QED BY <2>2, <2>3 DEF TypeInv
<1>4. CASE Submit
  BY <1>4 DEF Submit, TypeInv
<1>. QED
  BY <1>1, <1>2, <1>3, <1>4 DEF Next, Daemon, Subscriber, Messages, CronFires, SkipRun, MakeTree,
    AnnounceSession, Complete, HandleSession, HandleWorktree, CompletedFolder,
    CompletedSession, LinkPosted, NoPost, Connect, Skip, Receive, Disconnect, Restart,
    LinkSubmitted, LinkFolder, PostFails, SubmitFails, Refused, TimePasses, Prune, vars

LEMMA Types ==
  ASSUME CoreInv, [Next]_vars
  PROVE  TypeInv'
<1>1. Grows /\ StoreStep
  BY DaemonSteps, RunsGrow, StoreEffect DEF CoreInv
<1>2. store' \in StoreRecord /\ old' \subseteq Entries'
  BY <1>1, StoreTypes DEF CoreInv
<1>3. /\ sub' \in SubRecord /\ sub'.pos <= Len(log') /\ sub'.last <= Len(log')
      /\ sub'.seen \subseteq DOMAIN log'
  BY <1>1, SubTypes DEF CoreInv
<1>4. ev' \in EvRecord /\ sm' \in SmRecord
  BY EvTypes, SmTypes DEF CoreInv
<1>5. /\ inbox' \subseteq Message /\ (\A m \in inbox' : m.ts # 0) /\ written' \in 0..MaxMessages
      /\ posts' \in Seq(PostRecord)
  BY WorldTypes DEF CoreInv
<1>. QED BY <1>1, <1>2, <1>3, <1>4, <1>5 DEF TypeInv, Grows

-----------------------------------------------------------------------------
(* Runs and their events.                                                   *)

LEMMA Stays ==
  ASSUME Grows
  PROVE  /\ \A x \in DOMAIN runs : (Root(x)' <=> Root(x)) /\ \A t : RootOf(x, t)' <=> RootOf(x, t)
         /\ \A t : Cronish(t) => Cronish(t)'
         /\ \A t : Addressed(t) => Addressed(t)'
         /\ \A x \in DOMAIN runs : Alone(x)' => Alone(x)
<1>1. ASSUME NEW x \in DOMAIN runs, NEW t
      PROVE  (Root(x)' <=> Root(x)) /\ (RootOf(x, t)' <=> RootOf(x, t))
  BY <1>1 DEF Grows, Root, RootOf
<1>2. ASSUME NEW t, Cronish(t) PROVE Cronish(t)'
  BY <1>2 DEF Grows, Cronish, PostTs
<1>3. ASSUME NEW t, Addressed(t) PROVE Addressed(t)'
  <2>1. CASE \E x \in DOMAIN runs : RootOf(x, t)
    <3>1. PICK x \in DOMAIN runs : RootOf(x, t)
      BY <2>1
    <3>2. x \in DOMAIN runs' /\ RootOf(x, t)'
      BY <1>1, <3>1 DEF Grows
    <3>. QED BY <3>2 DEF Addressed
  <2>2. CASE Cronish(t)
    BY <1>2, <2>2 DEF Addressed
  <2>. QED BY <1>3, <2>1, <2>2 DEF Addressed
<1>4. ASSUME NEW x \in DOMAIN runs, Alone(x)' PROVE Alone(x)
  BY <1>4 DEF Alone, Grows
<1>. QED BY <1>1, <1>2, <1>3, <1>4

\* What RunInv says of a run.
RunSound(r) ==
  /\ runs[r].from = 0 => runs[r].job = Cron
  /\ runs[r].from # 0 => runs[r].job \in DOMAIN runs /\ runs[runs[r].job].job = runs[r].job
  /\ Root(r) => /\ runs[r].from <= MaxMessages /\ runs[r].folder # 0
                /\ runs[r].job = r => runs[r].folder = Repo
  /\ runs[r].from # 0 /\ ~Root(r) => ~runs[r].tree
  /\ runs[r].from # 0 => Addressed(runs[r].from)
  /\ runs[r].resumes # 0 => runs[r].from # 0

LEMMA RunStays ==
  ASSUME Grows, NEW r \in DOMAIN runs, RunSound(r)
  PROVE  RunSound(r)'
<1>1. /\ runs'[r].job = runs[r].job /\ runs'[r].from = runs[r].from
      /\ runs'[r].folder = runs[r].folder /\ runs'[r].tree = runs[r].tree
      /\ runs'[r].resumes = runs[r].resumes
  BY DEF Grows
<1>2. Root(r)' <=> Root(r)
  BY Stays
<1>3. runs[r].from # 0 => Addressed(runs[r].from)'
  <2>1. PICK t : t = runs[r].from
    OBVIOUS
  <2>2. runs[r].from # 0 => Addressed(t)'
    BY <2>1, Stays DEF RunSound
  <2>. QED BY <1>1, <2>1, <2>2 DEF Addressed, Cronish, RootOf, Root, PostTs
<1>4. runs[r].from # 0 => runs[r].job \in DOMAIN runs' /\ runs'[runs[r].job].job = runs[r].job
  BY DEF RunSound, Grows
<1>. QED BY <1>1, <1>2, <1>3, <1>4 DEF RunSound

LEMMA Runs ==
  ASSUME CoreInv, DaemonStep, Grows
  PROVE  RunInv'
<1>0. \A r \in DOMAIN runs : RunSound(r)
  BY DEF CoreInv, RunInv, RunSound
<1>1. \A r \in DOMAIN runs : RunSound(r)'
  BY <1>0, RunStays
<1>2. CASE DOMAIN runs' = DOMAIN runs
  BY <1>1, <1>2 DEF RunInv, RunSound
<1>x. PICK x : x = Len(runs) + 1
  OBVIOUS
<1>3. ASSUME NEW rec, Begins(rec), RunSound(x)'
      PROVE  RunInv'
  <2>1. DOMAIN runs' = DOMAIN runs \cup {x}
    BY <1>3, <1>x DEF Begins
  <2>2. \A r \in DOMAIN runs' : RunSound(r)'
    BY <1>1, <1>3, <2>1
  <2>. QED BY <2>2 DEF RunInv, RunSound
<1>4. CASE CronStep
  <2>1. PICK tree \in BOOLEAN : Begins(NewRun(Cron, 0, 0, Repo, tree))
    BY <1>4, <1>x DEF CronStep
  <2>2. runs'[x].job = Cron /\ runs'[x].from = 0 /\ runs'[x].resumes = 0
    BY <2>1, <1>x DEF Begins, NewRun
  <2>3. RunSound(x)'
    BY <2>2 DEF RunSound, Root
  <2>. QED BY <1>3, <2>1, <2>3
<1>5. CASE Submit /\ RootStep
  <2>1. PICK tree \in BOOLEAN, j \in Job, folder \in Place :
          /\ Begins(NewRun(j, sm.msg.ts, 0, folder, tree)) /\ folder # 0
          /\ j \in Named \/ (j = x /\ folder = Repo)
    BY <1>5, <1>x DEF RootStep
  <2>2. /\ runs'[x].job = j /\ runs'[x].from = sm.msg.ts /\ runs'[x].resumes = 0
        /\ runs'[x].folder = folder /\ x \in DOMAIN runs' /\ x \notin DOMAIN runs
    BY <2>1, <1>x DEF Begins, NewRun
  <2>3. sm.msg.ts # 0 /\ sm.msg.ts <= MaxMessages
    BY <1>5, Sizes DEF CoreInv, TypeInv, SmInv, Submit, SmRecord, Message
  <2>4. Root(x)' /\ RootOf(x, runs[x].from)'
    BY <2>2, <2>3 DEF Root, RootOf
  <2>5. Addressed(runs[x].from)'
    BY <2>2, <2>4 DEF Addressed
  <2>6. j \in Named => j \in DOMAIN runs /\ runs[j].job = j
    BY <1>0 DEF Named, Range, RunSound
  <2>7. j \in DOMAIN runs' /\ runs'[j].job = j /\ (j = x => folder = Repo)
    BY <2>1, <2>2, <2>6 DEF Grows
  <2>8. RunSound(x)'
    BY <2>1, <2>2, <2>3, <2>4, <2>5, <2>7 DEF RunSound
  <2>. QED BY <1>3, <2>1, <2>8
<1>6. CASE Submit /\ ReplyStep
  <2>1. Begins(NewRun(x, sm.msg.thread, sm.snap.session, Folder(sm.snap), FALSE))
    BY <1>6, <1>x DEF ReplyStep
  <2>2. /\ runs'[x].job = x /\ runs'[x].from = sm.msg.thread /\ runs'[x].resumes = sm.snap.session
        /\ runs'[x].tree = FALSE /\ x \in DOMAIN runs'
    BY <2>1, <1>x DEF Begins, NewRun
  <2>3. sm.msg.thread # 0 /\ sm.snap.session # 0 /\ Addressed(sm.msg.thread)
    BY <1>6 DEF CoreInv, SmInv, Submit, ReplyStep, Routable
  <2>4. ~Root(x)'
    BY <2>2, <2>3 DEF Root
  <2>5. Addressed(runs[x].from)'
    <3>1. PICK t : t = sm.msg.thread
      OBVIOUS
    <3>2. Addressed(t)'
      BY <2>3, <3>1, Stays
    <3>. QED BY <2>2, <3>1, <3>2 DEF Addressed, Cronish, RootOf, Root, PostTs
  <2>6. RunSound(x)'
    BY <2>2, <2>3, <2>4, <2>5 DEF RunSound
  <2>. QED BY <1>3, <2>1, <2>6
<1>7. CASE UNCHANGED daemon
            \/ \E r \in DOMAIN runs :
                 MakeTreeStep(r) \/ SessionStep(r) \/ CompleteStep(r) \/ SkipStep(r)
  BY <1>2, <1>7 DEF daemon, SkipStep, MakeTreeStep, SessionStep, CompleteStep, StageSet
<1>. QED BY <1>4, <1>5, <1>6, <1>7 DEF DaemonStep

\* What is published stays published.
LEMMA EventStays ==
  ASSUME TypeInv, Grows
  PROVE  /\ \A n \in DOMAIN log, kind \in STRING, r \in Run :
              IsEvent(n, kind, r)' <=> IsEvent(n, kind, r)
         /\ \A r \in Run : Announced(r) => Announced(r)'
         /\ DOMAIN log = 1..Len(log) /\ DOMAIN log' = 1..Len(log') /\ Len(log) \in Nat
         /\ Len(log') \in Nat /\ Len(log) <= Len(log')
<1>1. \A n \in DOMAIN log, kind \in STRING, r \in Run :
        IsEvent(n, kind, r)' <=> IsEvent(n, kind, r)
  BY DEF Grows, IsEvent
<1>2. ASSUME NEW r \in Run, Announced(r) PROVE Announced(r)'
  BY <1>2 DEF Announced, IsEvent, Grows
<1>. QED BY <1>1, <1>2 DEF TypeInv, Grows

\* A run never goes back, and what is published is about one that goes on.
StagesGo ==
  /\ \A r \in DOMAIN runs :
       /\ runs[r].stage # "started" => runs'[r].stage # "started"
       /\ runs[r].stage = "done" => runs'[r].stage = "done"
  /\ \A m \in DOMAIN log' \ DOMAIN log :
       log'[m].run \in DOMAIN runs /\ runs[log'[m].run].stage # "done"

LEMMA StagesGoOn ==
  ASSUME DaemonStep
  PROVE  StagesGo
<1>1. CASE UNCHANGED daemon
  BY <1>1 DEF daemon, StagesGo
<1>2. ASSUME NEW r \in DOMAIN runs, MakeTreeStep(r) \/ SessionStep(r) \/ CompleteStep(r)
      PROVE  StagesGo
  <2>1. PICK g : g \in {"resolved", "session", "done"} /\ StageSet(r, g)
    BY <1>2 DEF MakeTreeStep, SessionStep, CompleteStep
  <2>2. runs[r].stage # "done"
    BY <1>2 DEF MakeTreeStep, SessionStep, CompleteStep
  <2>3. PICK e : Published(e) /\ e.run = r
    BY <1>2 DEF MakeTreeStep, SessionStep, CompleteStep
  <2>. QED BY <2>1, <2>2, <2>3 DEF StageSet, Published, StagesGo
<1>3. ASSUME NEW rec, Begins(rec), log' = log PROVE StagesGo
  BY <1>3 DEF Begins, StagesGo
<1>4. ASSUME NEW r \in DOMAIN runs, SkipStep(r) PROVE StagesGo
  BY <1>4 DEF SkipStep, StageSet, StagesGo
<1>. QED BY <1>1, <1>2, <1>3, <1>4 DEF DaemonStep, CronStep, RootStep, ReplyStep

LEMMA EventKept ==
  ASSUME CoreInv, Grows, StagesGo, NEW n \in DOMAIN log
  PROVE  EventSound(n)'
<1>1. PICK r : r = log[n].run
  OBVIOUS
<1>2. EventSound(n) /\ r \in DOMAIN runs /\ r \in Run
  <2>1. log[n] \in Event
    BY DEF CoreInv, TypeInv
  <2>. QED BY <1>1, <2>1 DEF CoreInv, LogInv, EventSound, Event
<1>3. /\ log'[n] = log[n] /\ n \in DOMAIN log' /\ r \in DOMAIN runs'
      /\ runs'[r].tree = runs[r].tree /\ runs'[r].job = runs[r].job
  BY <1>2 DEF Grows
<1>4. log[n].kind = "worktree" =>
        runs'[r].tree /\ log'[n].tree = runs'[r].job /\ runs'[r].stage # "started"
  BY <1>1, <1>2, <1>3 DEF StagesGo, EventSound
<1>5. (\E k \in 1..n : IsEvent(k, "worktree", r)) => (\E k \in 1..n : IsEvent(k, "worktree", r)')
  BY DEF IsEvent, Grows
<1>6. ASSUME log[n].kind = "completed"
      PROVE  /\ runs'[r].stage = "done"
             /\ Announced(r)' => log'[n].tree = runs'[r].job
             /\ \A m \in DOMAIN log' : log'[m].run = r /\ m # n => m < n
  <2>1. runs[r].stage = "done"
    BY <1>1, <1>2, <1>6 DEF EventSound
  <2>2. \A m \in DOMAIN log' : log'[m].run = r => m \in DOMAIN log /\ log[m].run = r
    BY <2>1 DEF StagesGo, Grows
  <2>3. Announced(r)' => Announced(r)
    BY <2>2 DEF Announced, IsEvent, Grows
  <2>. QED BY <1>1, <1>2, <1>3, <1>6, <2>1, <2>2, <2>3 DEF EventSound, StagesGo
<1>. QED BY <1>1, <1>2, <1>3, <1>4, <1>5, <1>6 DEF EventSound

LEMMA StageKept ==
  ASSUME CoreInv, Grows, NEW r \in DOMAIN runs, runs'[r].stage = runs[r].stage
  PROVE  StageAnnounced(r)'
<1>1. StageAnnounced(r) /\ r \in Run
  BY Sizes DEF CoreInv, LogInv, TypeInv, Run
<1>2. Announced(r) => Announced(r)'
  BY <1>1, EventStays DEF CoreInv
<1>3. (\E n \in DOMAIN log : IsEvent(n, "completed", r)) =>
        \E n \in DOMAIN log' : IsEvent(n, "completed", r)'
  BY DEF IsEvent, Grows
<1>. QED BY <1>1, <1>2, <1>3 DEF StageAnnounced, Grows

LEMMA Logs ==
  ASSUME CoreInv, DaemonStep, Grows
  PROVE  LogInv'
<1>1. \A n \in DOMAIN log : EventSound(n)'
  BY EventKept, StagesGoOn
<1>2. \A r \in DOMAIN runs : runs'[r].stage = runs[r].stage => StageAnnounced(r)'
  BY StageKept
<1>3. CASE UNCHANGED daemon
  <2>1. DOMAIN log' = DOMAIN log /\ DOMAIN runs' = DOMAIN runs /\ runs' = runs
    BY <1>3 DEF daemon
  <2>. QED BY <1>1, <1>2, <2>1 DEF LogInv
<1>4. ASSUME NEW rec, Begins(rec), log' = log, rec.stage = "started"
      PROVE  LogInv'
  <2>1. PICK x : x = Len(runs) + 1
    OBVIOUS
  <2>2. DOMAIN runs' = DOMAIN runs \cup {x} /\ runs'[x].stage = "started"
    BY <1>4, <2>1 DEF Begins
  <2>3. StageAnnounced(x)'
    BY <2>2 DEF StageAnnounced
  <2>4. \A r \in DOMAIN runs : runs'[r].stage = runs[r].stage
    BY <1>4 DEF Begins
  <2>. QED BY <1>1, <1>2, <1>4, <2>2, <2>3, <2>4 DEF LogInv
<1>5. ASSUME NEW r \in DOMAIN runs, NEW e, NEW g, NEW x, x = Len(log) + 1, StageSet(r, g),
             Published(e), EventSound(x)', StageAnnounced(r)'
      PROVE  LogInv'
  <2>1. DOMAIN log' = DOMAIN log \cup {x} /\ DOMAIN runs' = DOMAIN runs
    BY <1>5 DEF Published, StageSet
  <2>2. \A q \in DOMAIN runs : q # r => runs'[q].stage = runs[q].stage
    BY <1>5 DEF StageSet
  <2>3. \A q \in DOMAIN runs : StageAnnounced(q)'
    BY <1>2, <1>5, <2>2
  <2>4. \A n \in DOMAIN log' : EventSound(n)'
    BY <1>1, <1>5, <2>1
  <2>. QED BY <2>1, <2>3, <2>4 DEF LogInv
<1>6. PICK x : x = Len(log) + 1
  OBVIOUS
<1>7. x \in Nat /\ \A m \in DOMAIN log : m < x /\ m \in 1..x
  BY <1>6, EventStays DEF CoreInv
<1>8. ASSUME NEW r \in DOMAIN runs, MakeTreeStep(r) PROVE LogInv'
  <2>1. /\ Published([kind |-> "worktree", run |-> r, session |-> 0, tree |-> runs[r].job])
        /\ StageSet(r, "resolved") /\ runs[r].tree
    BY <1>8 DEF MakeTreeStep
  <2>2. /\ x \in DOMAIN log'
        /\ log'[x] = [kind |-> "worktree", run |-> r, session |-> 0, tree |-> runs[r].job]
        /\ r \in DOMAIN runs' /\ runs'[r].stage = "resolved" /\ runs'[r].tree
        /\ runs'[r].job = runs[r].job
    BY <1>6, <2>1 DEF Published, StageSet
  <2>3. EventSound(x)'
    BY <2>2 DEF EventSound
  <2>4. StageAnnounced(r)'
    BY <2>2 DEF StageAnnounced, Announced, IsEvent
  <2>. QED BY <1>5, <1>6, <2>1, <2>3, <2>4
<1>9. ASSUME NEW r \in DOMAIN runs, SessionStep(r) PROVE LogInv'
  <2>1. /\ Published([kind |-> "session", run |-> r, session |-> r, tree |-> 0])
        /\ StageSet(r, "session") /\ runs[r].stage = IF runs[r].tree THEN "resolved" ELSE "started"
    BY <1>9 DEF SessionStep
  <2>2. /\ x \in DOMAIN log' /\ log'[x] = [kind |-> "session", run |-> r, session |-> r, tree |-> 0]
        /\ r \in DOMAIN runs' /\ runs'[r].stage = "session" /\ runs'[r].tree = runs[r].tree
    BY <1>6, <2>1 DEF Published, StageSet
  <2>3. runs[r].tree => Announced(r)
    BY <2>1 DEF CoreInv, LogInv, StageAnnounced
  <2>4. runs'[r].tree => \E k \in 1..x : IsEvent(k, "worktree", r)'
    BY <1>7, <2>2, <2>3 DEF Announced, IsEvent, Grows
  <2>5. EventSound(x)'
    BY <2>2, <2>4 DEF EventSound
  <2>6. StageAnnounced(r)'
    BY <2>2, <2>4 DEF StageAnnounced, Announced, IsEvent
  <2>. QED BY <1>5, <1>6, <2>1, <2>5, <2>6
<1>10. ASSUME NEW r \in DOMAIN runs, CompleteStep(r) PROVE LogInv'
  <2>1. PICK s, t :
          /\ s = (IF runs[r].stage = "session" THEN r ELSE 0)
          /\ t = IF runs[r].stage # "started" /\ runs[r].tree THEN runs[r].job ELSE 0
    OBVIOUS
  <2>2. /\ Published([kind |-> "completed", run |-> r, session |-> s, tree |-> t])
        /\ StageSet(r, "done") /\ runs[r].stage # "done"
    BY <1>10, <2>1 DEF CompleteStep
  <2>3. /\ x \in DOMAIN log' /\ log'[x] = [kind |-> "completed", run |-> r, session |-> s, tree |-> t]
        /\ r \in DOMAIN runs' /\ runs'[r].stage = "done" /\ runs'[r].tree = runs[r].tree
        /\ runs'[r].job = runs[r].job /\ DOMAIN log' = DOMAIN log \cup {x}
    BY <1>6, <2>2 DEF Published, StageSet
  <2>4. s # 0 /\ runs[r].tree => Announced(r)
    BY <2>1 DEF CoreInv, LogInv, StageAnnounced
  <2>5. s # 0 /\ runs[r].tree => \E k \in 1..x : IsEvent(k, "worktree", r)'
    BY <1>7, <2>3, <2>4 DEF Announced, IsEvent, Grows
  <2>6. Announced(r)' => Announced(r)
    BY <2>3 DEF Announced, IsEvent, Grows
  <2>7. Announced(r) => runs[r].tree /\ runs[r].stage # "started"
    BY DEF Announced, IsEvent, CoreInv, LogInv, EventSound
  <2>8. \A m \in DOMAIN log' : m # x => m < x
    BY <1>7, <2>3
  <2>9. EventSound(x)'
    BY <2>1, <2>3, <2>5, <2>6, <2>7, <2>8 DEF EventSound
  <2>10. StageAnnounced(r)'
    BY <2>3 DEF StageAnnounced, IsEvent
  <2>. QED BY <1>5, <1>6, <2>2, <2>9, <2>10
<1>11. ASSUME NEW r \in DOMAIN runs, SkipStep(r) PROVE LogInv'
  <2>1. StageSet(r, "skipped") /\ log' = log
    BY <1>11 DEF SkipStep
  <2>2. /\ DOMAIN log' = DOMAIN log /\ DOMAIN runs' = DOMAIN runs
        /\ runs'[r].stage = "skipped"
        /\ \A q \in DOMAIN runs : q # r => runs'[q].stage = runs[q].stage
    BY <2>1 DEF StageSet
  <2>3. StageAnnounced(r)'
    BY <2>2 DEF StageAnnounced
  <2>. QED BY <1>1, <1>2, <2>2, <2>3 DEF LogInv
<1>. QED
  BY <1>3, <1>4, <1>8, <1>9, <1>10, <1>11
  DEF DaemonStep, CronStep, RootStep, ReplyStep, NewRun

LEMMA Skips ==
  ASSUME CoreInv, DaemonStep, Grows
  PROVE  SkipInv'
<1>1. \A r \in DOMAIN runs : ~Alone(r) => ~Alone(r)'
  BY Stays
<1>2. ASSUME NEW rec, Begins(rec), rec.stage = "started" PROVE SkipInv'
  BY <1>1, <1>2 DEF Begins, SkipInv, CoreInv
<1>3. ASSUME NEW r \in DOMAIN runs, NEW g, StageSet(r, g), g = "skipped" => ~Alone(r)
      PROVE  SkipInv'
  BY <1>1, <1>3 DEF StageSet, SkipInv, CoreInv
<1>4. CASE UNCHANGED daemon
  BY <1>4 DEF daemon, SkipInv, CoreInv, Alone
<1>. QED
  BY <1>2, <1>3, <1>4 DEF DaemonStep, CronStep, RootStep, ReplyStep, NewRun, MakeTreeStep,
    SessionStep, CompleteStep, SkipStep

-----------------------------------------------------------------------------
(* The stream and the event that is handled.                                *)

\* The subscription is resumed at p.
ConnectTo(p) ==
  /\ ~sub.up /\ ev = Idle /\ p \in ReplayFrom(sub) /\ p \in 0..Len(log)
  /\ sub'.up /\ sub'.pos = p
  /\ sub'.last = sub.last /\ sub'.seen = sub.seen /\ sub'.restarted = sub.restarted
  /\ sub'.missed <=> sub.missed \/ \E e \in 1..p : e \notin sub.seen
  /\ sub'.again <=> sub.again \/ (sub.restarted /\ sub.last # 0)

\* What the subscription does to its state, and what the handler does to its own.
StreamStep ==
  \/ UNCHANGED << sub, ev >>
  \/ ev' = ev /\ \E p \in Nat : ConnectTo(p)
  \/ /\ Disconnect
  \/ /\ Skip
  \/ /\ Receive
  \/ /\ sub' = sub /\ ev' = Idle
  \/ /\ sub' = sub /\ ev.at = "completed" /\ CompletedFolder /\ EvNext("set session")
  \/ /\ sub' = sub /\ ev.at = "set session" /\ CompletedSession /\ EvNext("post")
     /\ Originated \/ Parent = Cron
  \/ /\ sub' = sub /\ ev.at = "post" /\ Post /\ EvNext("link")
  \/ Restart

LEMMA StreamSteps ==
  ASSUME TypeInv, [Next]_vars
  PROVE  StreamStep
<1>1. CASE Connect
  <2>1. PICK p \in ReplayFrom(sub) :
          sub' = [sub EXCEPT !.up = TRUE, !.pos = p,
                             !.missed = @ \/ \E e \in 1..p : e \notin sub.seen,
                             !.again = @ \/ (sub.restarted /\ sub.last # 0)]
    BY <1>1 DEF Connect
  <2> DEFINE gap == \E e \in 1..p : e \notin sub.seen
             more == sub.restarted /\ sub.last # 0
  <2>2. sub' = [sub EXCEPT !.up = TRUE, !.pos = p, !.missed = @ \/ gap, !.again = @ \/ more]
    BY <2>1
  <2>3. gap \in BOOLEAN /\ more \in BOOLEAN
    OBVIOUS
  <2> HIDE DEF gap, more
  <2>4. /\ p \in 0..Len(log) /\ sub'.up /\ sub'.pos = p
        /\ sub'.last = sub.last /\ sub'.seen = sub.seen /\ sub'.restarted = sub.restarted
        /\ sub'.missed <=> sub.missed \/ gap
        /\ sub'.again <=> sub.again \/ more
    BY <2>2, <2>3, ConnectEffect
  <2>5. ConnectTo(p)
    BY <1>1, <2>4 DEF ConnectTo, Connect, gap, more
  <2>6. p \in Nat
    BY <2>4 DEF TypeInv
  <2>. QED BY <1>1, <2>5, <2>6 DEF Connect, StreamStep
<1>2. CASE Disconnect \/ Skip \/ Receive \/ Restart
  BY <1>2 DEF StreamStep
<1>3. CASE CompletedFolder
  <2>1. EvNext("set session")
    BY <1>3, HandlerEffect
  <2>. QED BY <1>3, <2>1 DEF CompletedFolder, EventStep, StreamStep
<1>4. CASE CompletedSession
  <2>1. \/ ev' = Idle
        \/ EvNext("post") /\ (Originated \/ Parent = Cron)
    BY <1>4, HandlerEffect
  <2>2. ev.at = "set session" /\ sub' = sub
    BY <1>4 DEF CompletedSession, EventStep
  <2>. QED BY <1>4, <2>1, <2>2 DEF StreamStep
<1>5. CASE Post
  <2>1. EvNext("link")
    BY <1>5, HandlerEffect
  <2>. QED BY <1>5, <2>1 DEF Post, EventStep, StreamStep
<1>. QED
  BY <1>1, <1>2, <1>3, <1>4, <1>5 DEF Next, Daemon, Subscriber, Messages, CronFires, SkipRun, MakeTree,
    AnnounceSession, Complete, HandleSession, HandleWorktree, LinkPosted, EventStep,
    HandleMessage, HandleMention, Submit, Refused, LinkSubmitted, LinkFolder, PostFails, SubmitFails,
    TimePasses, Prune, vars, StreamStep

LEMMA Subs ==
  ASSUME CoreInv, StreamStep, Grows
  PROVE  SubInv'
<1>0. /\ sub \in SubRecord /\ sub.seen \subseteq DOMAIN log /\ sub.last <= Len(log)
      /\ DOMAIN log = 1..Len(log) /\ Len(log) \in Nat
  BY DEF CoreInv, TypeInv
<1>1. /\ sub.last \in Nat /\ sub.pos \in Nat /\ sub.seen \subseteq Nat
  BY <1>0 DEF SubRecord
<1>2. SubInv
  BY DEF CoreInv
<1>2a. ~sub.missed => sub.seen = 1..sub.last /\ sub.pos <= sub.last
  BY <1>2 DEF SubInv
<1>3. \A n \in sub.seen : log'[n] = log[n]
  BY <1>0 DEF Grows
<1>4. ~sub.missed /\ sub.last # 0 => log'[sub.last] = log[sub.last]
  BY <1>0, <1>1 DEF Grows
<1>5. CASE UNCHANGED << sub, ev >>
  BY <1>2, <1>3, <1>4, <1>5 DEF SubInv
<1>6. ASSUME ev' = ev, NEW p \in Nat, ConnectTo(p) PROVE SubInv'
  <2>1. ev' = ev /\ ev.at = "idle"
    BY <1>6, IdleFree DEF ConnectTo
  <2>2. ~sub'.missed => sub'.seen = 1..sub'.last
    BY <1>2, <1>6 DEF ConnectTo, SubInv
  <2>3. ~sub'.missed => p <= sub.last
    <3>1. CASE sub.last = 0
      <4>1. p = Len(log) /\ sub.seen = {}
        BY <1>2, <1>6, <3>1 DEF ConnectTo, SubInv, ReplayFrom
      <4>2. p # 0 => 1 \in 1..p /\ 1 \notin sub.seen
        BY <4>1
      <4>. QED BY <1>6, <3>1, <4>2 DEF ConnectTo
    <3>2. CASE sub.last # 0
      BY <1>0, <1>1, <1>6, <3>2 DEF ConnectTo, ReplayFrom
    <3>. QED BY <3>1, <3>2
  <2>4. ~sub'.missed => sub'.pos <= sub'.last
    BY <1>6, <2>3 DEF ConnectTo
  <2>5. sub'.last = 0 => sub'.seen = {}
    BY <1>2, <1>6 DEF ConnectTo, SubInv
  <2>. QED BY <1>6, <2>1, <2>2, <2>4, <2>5 DEF SubInv, ConnectTo
<1>7. CASE Disconnect
  <2>1. /\ ~sub'.up /\ sub'.pos = sub.pos /\ sub'.last = sub.last
        /\ sub'.seen = sub.seen /\ sub'.missed = sub.missed
    BY <1>7, DisconnectEffect DEF CoreInv
  <2>2. ev' = Idle /\ Idle.at = "idle"
    BY <1>7, IdleFree DEF Disconnect
  <2>. QED BY <1>2, <2>1, <2>2 DEF SubInv
<1>8. CASE Skip
  <2>1. /\ sub'.pos = sub.pos + 1 /\ sub'.last = sub.last
        /\ sub'.seen = sub.seen /\ sub'.missed = sub.missed
    BY <1>8, SkipEffect DEF CoreInv
  <2>2. ev' = Idle /\ Idle.at = "idle" /\ sub.pos + 1 \in sub.seen
    BY <1>8, IdleFree DEF Skip, Duplicate
  <2>3. ~sub'.missed => sub'.seen = 1..sub'.last /\ sub'.pos <= sub'.last
    BY <1>1, <1>2a, <2>1, <2>2
  <2>. QED BY <1>2, <2>1, <2>2, <2>3 DEF SubInv
<1>9. CASE Receive
  <2>1. PICK n : n = sub.pos + 1
    OBVIOUS
  <2>2. /\ n \in DOMAIN log /\ n \notin sub.seen /\ sub.up
        /\ sub'.up = sub.up /\ sub'.pos = n
        /\ sub'.last = (IF n > sub.last THEN n ELSE sub.last)
        /\ sub'.seen = sub.seen \cup {n} /\ sub'.missed = sub.missed
        /\ ev'.event = log[n] /\ ev'.at = log[n].kind
    BY <1>9, <2>1, ReceiveEffect DEF CoreInv
  <2>3. log'[n] = log[n] /\ n \in Nat /\ n >= 1
    BY <1>0, <2>2 DEF Grows
  <2>4. ~sub.missed => n = sub.last + 1 /\ sub'.last = n
    BY <1>1, <1>2a, <2>1, <2>2, <2>3
  <2>5. ~sub'.missed => sub'.seen = 1..sub'.last /\ sub'.pos <= sub'.last
    BY <1>1, <1>2a, <2>2, <2>3, <2>4
  <2>6. sub'.last # 0
    BY <1>1, <2>2, <2>3
  <2>7. sub'.up /\ n \in sub'.seen /\ log'[n] = ev'.event /\ ev'.at = ev'.event.kind
    BY <2>2, <2>3
  <2>8. ~sub'.missed => log'[sub'.last] = ev'.event
    BY <2>2, <2>4, <2>7
  <2>. QED BY <2>5, <2>6, <2>7, <2>8 DEF SubInv
<1>10. CASE sub' = sub /\ ev' = Idle
  BY <1>2, <1>10, IdleFree DEF SubInv
<1>11. ASSUME sub' = sub, ev.at \in {"completed", "set session", "post"},
              NEW at \in {"set session", "post", "link"}, EvNext(at)
       PROVE  SubInv'
  <2>1. ev'.at = at /\ ev'.event = ev.event
    BY <1>11 DEF EvNext
  <2>a. ev.at # "idle" /\ ev # Idle
    BY <1>11, IdleFree
  <2>2. ev.event.kind = "completed" /\ ev.at # "idle" /\ sub.up
    <3>1. \/ ev.at = ev.event.kind
          \/ ev.at \in {"set session", "post", "link"} /\ ev.event.kind = "completed"
      BY <1>2, <2>a DEF SubInv
    <3>2. sub.up
      BY <1>2, <2>a DEF SubInv
    <3>3. ev.event.kind \in {"worktree", "session", "completed"}
      BY <2>a, EvFacts DEF CoreInv, Event
    <3>4. ev.at \in {"completed", "set session", "post"}
      BY <1>11
    <3>. QED BY <2>a, <3>1, <3>2, <3>3, <3>4
  <2>3. \E n \in sub.seen : log'[n] = ev.event
    BY <1>2, <1>3, <2>2 DEF SubInv
  <2>4. ~sub.missed => sub.last # 0 /\ log'[sub.last] = ev.event
    BY <1>2, <1>4, <2>2 DEF SubInv
  <2>. QED BY <1>2, <1>11, <2>1, <2>2, <2>3, <2>4 DEF SubInv
<1>12. CASE Restart
  <2>1. ~sub'.up /\ sub'.pos = 0 /\ sub'.last = 0 /\ sub'.seen = {}
    BY <1>12, RestartEffect DEF CoreInv
  <2>2. ev' = Idle /\ Idle.at = "idle"
    BY <1>12, IdleFree DEF Restart
  <2>. QED BY <2>1, <2>2 DEF SubInv
<1>. QED
  BY <1>5, <1>6, <1>7, <1>8, <1>9, <1>10, <1>11, <1>12 DEF StreamStep

-----------------------------------------------------------------------------
(* Who owns a thread.                                                       *)

LEMMA OwnsStays ==
  ASSUME Grows
  PROVE  /\ \A j, t : Owns(j, t) => Owns(j, t)'
         /\ \A r \in DOMAIN runs : \A m : Maps(r, m) => Maps(r, m)'
<1>1. ASSUME NEW j, NEW t, Owns(j, t) PROVE Owns(j, t)'
  BY <1>1 DEF Owns, RootJob, RootOf, Root, Grows
<1>2. ASSUME NEW r \in DOMAIN runs, NEW m, Maps(r, m) PROVE Maps(r, m)'
  <2>1. runs'[r].from = runs[r].from
    BY DEF Grows
  <2>2. Owns(m.job, runs[r].from) => Owns(m.job, runs'[r].from)
    BY <2>1
  <2>3. PICK j, t : j = m.job /\ t = runs[r].from
    OBVIOUS
  <2>4. Owns(j, t) => Owns(j, t)'
    BY <1>1
  <2>. QED BY <1>2, <2>1, <2>3, <2>4 DEF Maps, Owns, RootJob, RootOf, Root
<1>. QED BY <1>1, <1>2

\* A thread in which users can write is that of a message or reports the schedule.
LEMMA AddressedThread ==
  ASSUME RunInv, NEW t, Addressed(t)
  PROVE  t <= MaxMessages \/ Cronish(t)
<1>1. CASE Cronish(t)
  BY <1>1
<1>2. CASE \E x \in DOMAIN runs : RootOf(x, t)
  BY <1>2 DEF RunInv, RootOf
<1>. QED BY <1>1, <1>2 DEF Addressed

LEMMA OwnsRun ==
  ASSUME RunInv, NEW j, NEW t, Owns(j, t)
  PROVE  j = Cron \/ j \in DOMAIN runs
BY DEF Owns, RootJob, RootOf, Root, RunInv

\* What the code links is what belongs together.
LinkSound(r, j, t) ==
  /\ r \in DOMAIN runs /\ r \in Run /\ j \in Job /\ t \in Ts
  /\ Maps(r, [job |-> j, thread |-> t])
  /\ t <= MaxMessages => RootJob(j, t)
  /\ t > MaxMessages => t - MaxMessages \in DOMAIN runs /\ (Cronish(t) => j = Cron)
  /\ j = Cron \/ j \in DOMAIN runs

LEMMA PostedLinkSound ==
  ASSUME CoreInv, LinkPosted
  PROVE  LinkSound(ev.event.run, Parent, PostTs(ev.event.run))
<1>1. PICK r : r = ev.event.run
  OBVIOUS
<1>2. PICK t : t = PostTs(r)
  OBVIOUS
<1>3. PICK j : j = Parent
  OBVIOUS
<1>4. ev.at = "link" /\ r \in DOMAIN runs /\ r \in Run /\ j \in Job
  BY <1>1, <1>3, EvFacts DEF LinkPosted, CoreInv
<1>5. t \in Ts /\ t > MaxMessages /\ t - MaxMessages = r
  BY <1>2, <1>4, Sizes DEF PostTs, Ts, Run
<1>6. Maps(r, ev.mapping) /\ (ev.mapping.job = 0 => runs[r].from = 0)
  BY <1>1, <1>4 DEF CoreInv, OwnInv, EvOwned
<1>7. runs[r].from = 0 => runs[r].job = Cron
  BY <1>4 DEF CoreInv, RunInv
<1>8. IF runs[r].from = 0 THEN j = Cron ELSE Owns(j, runs[r].from)
  <2>1. CASE ev.mapping.job = 0
    BY <1>1, <1>3, <1>6, <1>7, <2>1 DEF Parent
  <2>2. CASE ev.mapping.job # 0
    BY <1>3, <1>6, <2>2 DEF Parent, Maps
  <2>. QED BY <2>1, <2>2
<1>9. Maps(r, [job |-> j, thread |-> t])
  BY <1>4, <1>5, <1>8, Sizes DEF Maps
<1>10. Cronish(t) => j = Cron
  <2>1. ASSUME NEW c \in DOMAIN runs, t = PostTs(c), runs[c].from = 0 PROVE j = Cron
    <3>1. c \in Nat
      BY DEF CoreInv, TypeInv
    <3>2. c = r
      BY <1>5, <2>1, <3>1, Sizes DEF PostTs
    <3>. QED BY <1>8, <2>1, <3>2
  <2>. QED BY <2>1 DEF Cronish
<1>11. j = Cron \/ j \in DOMAIN runs
  BY <1>8, OwnsRun DEF CoreInv
<1>12. ~(t <= MaxMessages)
  BY <1>5, Sizes DEF Ts
<1>. QED BY <1>1, <1>2, <1>3, <1>4, <1>5, <1>9, <1>10, <1>11, <1>12 DEF LinkSound

LEMMA SubmittedLinkSound ==
  ASSUME CoreInv, LinkSubmitted
  PROVE  IF sm.msg.thread = 0 THEN LinkSound(sm.run, runs[sm.run].job, sm.msg.ts)
         ELSE LinkSound(sm.run, sm.snap.job, sm.msg.thread)
<1>1. PICK r : r = sm.run
  OBVIOUS
<1>2. /\ r \in DOMAIN runs /\ r \in Run /\ sm.msg \in Message
      /\ sm.msg.ts # 0 /\ sm.msg.ts \in Ts /\ sm.at = "link"
  BY <1>1, SmFacts DEF CoreInv, SmInv, LinkSubmitted, TypeInv, SmRecord
<1>3. CASE sm.msg.thread = 0
  <2>1. PICK t : t = sm.msg.ts
    OBVIOUS
  <2>2. RootOf(r, t) /\ t <= MaxMessages /\ t \in Ts /\ ~(t > MaxMessages)
    BY <1>1, <1>2, <1>3, <2>1, Sizes DEF CoreInv, SmInv, Message, Ts
  <2>3. PICK j : j = runs[r].job
    OBVIOUS
  <2>4. RootJob(j, t) /\ runs[r].from = t /\ t # 0
    BY <1>2, <2>2, <2>3 DEF RootJob, RootOf, Root
  <2>5. j \in DOMAIN runs /\ j \in Job
    <3>1. runs[r] \in RunRecord
      BY <1>2 DEF CoreInv, TypeInv
    <3>. QED BY <1>2, <2>3, <2>4, <3>1 DEF CoreInv, RunInv, RunRecord
  <2>6. Maps(r, [job |-> j, thread |-> t])
    BY <2>2, <2>4, <2>5, Sizes DEF Maps, Owns
  <2>. QED BY <1>1, <1>2, <1>3, <2>1, <2>2, <2>3, <2>4, <2>5, <2>6 DEF LinkSound
<1>4. CASE sm.msg.thread # 0
  <2>1. PICK t : t = sm.msg.thread
    OBVIOUS
  <2>2. PICK j : j = sm.snap.job
    OBVIOUS
  <2>3. /\ t \in Ts /\ t # 0 /\ j \in Job /\ runs[r].from = t /\ Addressed(t) /\ Owns(j, t)
    BY <1>1, <1>2, <1>4, <2>1, <2>2, SmFacts DEF CoreInv, SmInv
  <2>4. Maps(r, [job |-> j, thread |-> t])
    BY <1>2, <2>3, Sizes DEF Maps
  <2>5. t > MaxMessages => t - MaxMessages \in DOMAIN runs
    <3>1. ASSUME t > MaxMessages PROVE Cronish(t)
      <4>1. ~(t <= MaxMessages)
        BY <2>3, <3>1, Sizes DEF Ts
      <4>. QED BY <2>3, <4>1, AddressedThread DEF CoreInv
    <3>2. ASSUME NEW c \in DOMAIN runs, t = PostTs(c) PROVE t - MaxMessages \in DOMAIN runs
      <4>1. c \in Nat
        BY DEF CoreInv, TypeInv
      <4>. QED BY <3>2, <4>1, Sizes DEF PostTs
    <3>. QED BY <3>1, <3>2 DEF Cronish
  <2>6. /\ t <= MaxMessages => RootJob(j, t)
        /\ t > MaxMessages => j = Cron
        /\ j = Cron \/ j \in DOMAIN runs
    BY <2>3, OwnsRun, Sizes DEF Owns, Ts, CoreInv
  <2>. QED BY <1>1, <1>2, <1>4, <2>1, <2>2, <2>3, <2>4, <2>5, <2>6 DEF LinkSound
<1>. QED BY <1>3, <1>4

\* The store in every step, without the names of the operations.
Written ==
  \/ store' = store /\ (old' = old \/ TimePasses)
  \/ \E j \in Job : Quiet(j) /\ (j = Cron \/ j \in DOMAIN runs)
  \/ \E r \in Run, j \in Job, t \in Ts : Linked(r, j, t) /\ LinkSound(r, j, t)
  \/ Prune

LEMMA EveryWrite ==
  ASSUME CoreInv, StoreStep
  PROVE  Written
<1>1. CASE (HandleSession \/ HandleWorktree) /\ Quiet(runs[ev.event.run].job)
  <2>1. ev.at # "idle"
    BY <1>1 DEF HandleSession, HandleWorktree
  <2>2. /\ ev.event.run \in DOMAIN runs /\ runs[ev.event.run].job \in Job
        /\ runs[ev.event.run].job \in {Cron} \cup DOMAIN runs
    BY <2>1, EvFacts DEF CoreInv, RunInv
  <2>. QED BY <1>1, <2>2 DEF Written
<1>2. CASE (CompletedFolder \/ CompletedSession) /\ Quiet(Parent)
  <2>1. ev.at # "idle"
    BY <1>2 DEF CompletedFolder, CompletedSession
  <2>2. /\ ev.event.run \in DOMAIN runs /\ Parent \in Job
        /\ runs[ev.event.run].job \in {Cron} \cup DOMAIN runs /\ Maps(ev.event.run, ev.mapping)
    BY <2>1, EvFacts DEF CoreInv, RunInv, OwnInv, EvOwned
  <2>3. Parent = Cron \/ Parent \in DOMAIN runs
    BY <2>2, OwnsRun DEF Parent, Maps, CoreInv
  <2>. QED BY <1>2, <2>2, <2>3 DEF Written
<1>3. CASE LinkFolder /\ Quiet(runs[sm.run].job)
  <2>1. sm.run \in DOMAIN runs /\ runs[sm.run].job \in Job
    BY <1>3, SmFacts DEF LinkFolder, CoreInv
  <2>2. runs[sm.run].job \in {Cron} \cup DOMAIN runs
    BY <2>1 DEF CoreInv, RunInv
  <2>. QED BY <1>3, <2>1, <2>2 DEF Written
<1>4. CASE LinkPosted /\ Linked(ev.event.run, Parent, PostTs(ev.event.run))
  BY <1>4, PostedLinkSound DEF LinkSound, Written
<1>5. CASE LinkSubmitted /\ sm.msg.thread = 0 /\ Linked(sm.run, runs[sm.run].job, sm.msg.ts)
  BY <1>5, SubmittedLinkSound DEF LinkSound, Written
<1>6. CASE LinkSubmitted /\ sm.msg.thread # 0 /\ Linked(sm.run, sm.snap.job, sm.msg.thread)
  BY <1>6, SubmittedLinkSound DEF LinkSound, Written
<1>. QED
  BY <1>1, <1>2, <1>3, <1>4, <1>5, <1>6 DEF StoreStep, Written, TimePasses

LEMMA RunsOwnedStep ==
  ASSUME CoreInv, Grows, Written
  PROVE  RunsOwned'
<1>0. RunsOwned
  BY DEF CoreInv, OwnInv
<1>1. \A r \in DOMAIN runs : \A m : Maps(r, m) => Maps(r, m)'
  BY OwnsStays
<1>2. ASSUME NEW r \in Run, store'.runs[r] \in {NoRun, store.runs[r]}, store'.runs[r] # NoRun
      PROVE  r \in DOMAIN runs' /\ Maps(r, store.runs[r])'
  <2>1. PICK m : m = store.runs[r]
    OBVIOUS
  <2>2. r \in DOMAIN runs /\ Maps(r, m) /\ store'.runs[r] = m
    BY <1>0, <1>2, <2>1 DEF RunsOwned
  <2>3. r \in DOMAIN runs' /\ Maps(r, m)'
    BY <1>1, <2>2 DEF Grows
  <2>. QED BY <2>2, <2>3 DEF Maps, Owns, RootJob, RootOf, Root
<1>3. CASE store' = store
  BY <1>2, <1>3 DEF RunsOwned
<1>4. CASE \E j \in Job : Quiet(j)
  BY <1>2, <1>4 DEF RunsOwned, Quiet
<1>5. CASE Prune
  BY <1>2, <1>5, PruneEffect DEF RunsOwned, CoreInv
<1>6. ASSUME NEW r \in Run, NEW j \in Job, NEW t \in Ts, Linked(r, j, t), LinkSound(r, j, t)
      PROVE  RunsOwned'
  <2>1. PICK m : m = [job |-> j, thread |-> t]
    OBVIOUS
  <2>2. store.runs \in [Run -> MapRecord]
    BY StoreParts DEF CoreInv, TypeInv
  <2>3. store'.runs[r] = m /\ \A q \in Run \ {r} : store'.runs[q] = store.runs[q]
    BY <1>6, <2>1, <2>2 DEF Linked
  <2>4. r \in DOMAIN runs' /\ Maps(r, m)'
    BY <1>1, <1>6, <2>1 DEF LinkSound, Grows
  <2>5. Maps(r, store.runs[r])'
    BY <2>3, <2>4 DEF Maps, Owns, RootJob, RootOf, Root
  <2>. QED BY <1>2, <2>3, <2>4, <2>5 DEF RunsOwned
<1>. QED BY <1>3, <1>4, <1>5, <1>6 DEF Written

LEMMA EvOwnedStep ==
  ASSUME CoreInv, Grows, StreamStep
  PROVE  EvOwned'
<1>0. EvOwned
  BY DEF CoreInv, OwnInv
<1>1. \A r \in DOMAIN runs : \A m : Maps(r, m) => Maps(r, m)'
  BY OwnsStays
<1>2. ASSUME ev.at # "idle", ev'.event = ev.event, ev'.mapping = ev.mapping
      PROVE  Maps(ev.event.run, ev.mapping)' /\ runs'[ev'.event.run].from = runs[ev.event.run].from
  <2>1. PICK m, r : m = ev.mapping /\ r = ev.event.run
    OBVIOUS
  <2>2. r \in DOMAIN runs /\ Maps(r, m)
    BY <1>0, <1>2, <2>1, EvFacts DEF EvOwned, CoreInv
  <2>3. Maps(r, m)' /\ runs'[r].from = runs[r].from
    BY <1>1, <2>2 DEF Grows
  <2>. QED BY <1>2, <2>1, <2>3 DEF Maps, Owns, RootJob, RootOf, Root
<1>3. CASE ev' = ev
  BY <1>0, <1>2, <1>3 DEF EvOwned
<1>4. CASE ev'.at = "idle"
  BY <1>4 DEF EvOwned
<1>5. CASE Disconnect \/ Skip \/ Restart \/ ev' = Idle
  BY <1>4, <1>5, IdleFree DEF Disconnect, Skip, Restart
<1>6. CASE Receive
  <2>1. PICK n \in DOMAIN log : /\ ev'.event = log[n] /\ ev'.at = log[n].kind
                                /\ ev'.mapping = store.runs[log[n].run]
    BY <1>6, ReceiveEffect DEF CoreInv
  <2>2. log[n] \in Event
    BY DEF CoreInv, TypeInv
  <2>3. PICK r, m : r = log[n].run /\ m = store.runs[r]
    OBVIOUS
  <2>4. r \in DOMAIN runs /\ r \in Run
    BY <2>2, <2>3 DEF CoreInv, LogInv, EventSound, Event
  <2>5. Maps(r, m)
    BY <2>3, <2>4 DEF CoreInv, OwnInv, RunsOwned, Maps, NoRun
  <2>6. Maps(r, m)'
    BY <1>1, <2>4, <2>5
  <2>7. Maps(ev.event.run, ev.mapping)'
    BY <2>1, <2>3, <2>6 DEF Maps, Owns, RootJob, RootOf, Root
  <2>8. ev'.at \notin {"post", "link"}
    BY <2>1, <2>2 DEF Event
  <2>. QED BY <2>7, <2>8 DEF EvOwned
<1>7. CASE ev.at = "completed" /\ EvNext("set session")
  BY <1>2, <1>7 DEF EvNext, EvOwned
<1>8. CASE ev.at = "set session" /\ EvNext("post") /\ (Originated \/ Parent = Cron)
  <2>1. Maps(ev.event.run, ev.mapping)' /\ runs'[ev'.event.run].from = runs[ev.event.run].from
    BY <1>2, <1>8 DEF EvNext
  <2>2. ASSUME ev.mapping.job = 0 PROVE runs[ev.event.run].from = 0
    <3>1. Maps(ev.event.run, ev.mapping)
      BY <1>0, <1>8 DEF EvOwned
    <3>2. ev.mapping.thread = 0
      BY <2>2, <3>1 DEF Maps
    <3>3. Parent = Cron /\ Parent = runs[ev.event.run].job
      BY <1>8, <2>2, <3>2 DEF Originated, Parent
    <3>4. ev.event.run \in DOMAIN runs
      BY <1>8, EvFacts DEF CoreInv
    <3>5. Cron \notin DOMAIN runs
      BY Sizes DEF CoreInv, TypeInv
    <3>. QED BY <3>3, <3>4, <3>5 DEF CoreInv, RunInv
  <2>. QED BY <1>8, <2>1, <2>2 DEF EvNext, EvOwned
<1>9. CASE ev.at = "post" /\ EvNext("link")
  BY <1>0, <1>2, <1>9 DEF EvNext, EvOwned
<1>. QED
  BY <1>3, <1>5, <1>6, <1>7, <1>8, <1>9 DEF StreamStep

LEMMA ThreadsOwnedStep ==
  ASSUME CoreInv, Grows, Written, NEW t \in Ts
  PROVE  ThreadOwned(t)'
<1>0. ThreadOwned(t) /\ t \in Nat
  BY Sizes DEF CoreInv, OwnInv, Ts
<1>1. \A j \in Job \cup {0} : Owns(j, t) => Owns(j, t)'
  BY OwnsStays
<1>2. (\E x \in DOMAIN runs : RootOf(x, t)) => \E x \in DOMAIN runs' : RootOf(x, t)'
  BY Stays DEF Grows
<1>3. t > MaxMessages /\ t - MaxMessages \in DOMAIN runs => (Cronish(t)' => Cronish(t))
  <2>1. ASSUME t - MaxMessages \in DOMAIN runs, Cronish(t)' PROVE Cronish(t)
    <3>1. PICK c \in DOMAIN runs' : t = PostTs(c) /\ runs'[c].from = 0
      BY <2>1 DEF Cronish, PostTs
    <3>2. c \in Nat
      BY DEF Grows
    <3>3. c = t - MaxMessages
      BY <3>1, <3>2, Sizes DEF PostTs
    <3>. QED BY <2>1, <3>1, <3>3 DEF Grows, Cronish
  <2>. QED BY <2>1
<1>4. PICK j0 : j0 = store.threads[t].job
  OBVIOUS
<1>5. j0 \in Job \cup {0}
  BY <1>4, StoreParts DEF CoreInv, TypeInv, ThreadRecord
<1>6. ASSUME store'.threads[t].job = j0,
             store'.threads[t] # NoThread /\ t <= MaxMessages =>
               \E x \in DOMAIN runs : RootOf(x, t)
      PROVE  ThreadOwned(t)'
  <2>1. j0 # 0 /\ t > MaxMessages => t - MaxMessages \in DOMAIN runs'
    BY <1>0, <1>4 DEF ThreadOwned, Grows
  <2>2. ASSUME j0 # 0, t <= MaxMessages \/ Cronish(t)' PROVE Owns(j0, t)'
    <3>1. t <= MaxMessages \/ Cronish(t)
      BY <1>0, <1>3, <1>4, <2>2, Sizes DEF ThreadOwned
    <3>2. Owns(j0, t)
      BY <1>0, <1>4, <2>2, <3>1 DEF ThreadOwned
    <3>. QED BY <1>1, <1>5, <3>2
  <2>. QED BY <1>2, <1>6, <2>1, <2>2 DEF ThreadOwned, Owns, RootJob, RootOf, Root
<1>7. CASE store'.threads[t] = store.threads[t]
  BY <1>0, <1>4, <1>6, <1>7 DEF ThreadOwned
<1>8. CASE store'.threads[t] = NoThread
  BY <1>8 DEF ThreadOwned, NoThread
<1>9. ASSUME NEW j \in Job, Quiet(j) PROVE ThreadOwned(t)'
  <2>1. CASE t # store.jobs[j].thread
    BY <1>7, <1>9, <2>1 DEF Quiet, Rest
  <2>2. CASE t = store.jobs[j].thread
    <3>1. store'.threads[t].job = j0
      BY <1>4, <1>9 DEF Quiet
    <3>2. t <= MaxMessages => RootJob(j, t)
      BY <2>2, Sizes DEF CoreInv, OwnInv, JobOwned, Ts
    <3>. QED BY <1>6, <3>1, <3>2 DEF RootJob
  <2>. QED BY <2>1, <2>2
<1>10. ASSUME NEW r \in Run, NEW j \in Job, NEW u \in Ts, Linked(r, j, u), LinkSound(r, j, u)
       PROVE  ThreadOwned(t)'
  <2>1. CASE u # t
    BY <1>7, <1>10, <2>1 DEF Linked, Rest
  <2>2. CASE u = t
    <3>1. store'.threads[t].job = j
      BY <1>10, <2>2 DEF Linked
    <3>2. t > MaxMessages => t - MaxMessages \in DOMAIN runs'
      BY <1>10, <2>2 DEF LinkSound, Grows
    <3>3. t <= MaxMessages => \E x \in DOMAIN runs : RootOf(x, t)
      BY <1>10, <2>2 DEF LinkSound, RootJob
    <3>4. ASSUME t <= MaxMessages \/ Cronish(t)' PROVE Owns(j, t)'
      <4>1. t <= MaxMessages \/ (t > MaxMessages /\ Cronish(t))
        BY <1>0, <1>3, <1>10, <2>2, <3>4, Sizes DEF LinkSound
      <4>2. Owns(j, t)
        BY <1>0, <1>10, <2>2, <4>1, Sizes DEF LinkSound, Owns
      <4>. QED BY <1>1, <4>2
    <3>. QED BY <1>2, <3>1, <3>2, <3>3, <3>4 DEF ThreadOwned, Owns, RootJob, RootOf, Root
  <2>. QED BY <2>1, <2>2
<1>11. CASE Prune
  BY <1>7, <1>8, <1>11, PruneEffect DEF CoreInv
<1>12. CASE store' = store
  BY <1>7, <1>12
<1>. QED BY <1>9, <1>10, <1>11, <1>12 DEF Written

LEMMA JobsOwnedStep ==
  ASSUME CoreInv, Grows, Written, NEW j \in Job
  PROVE  JobOwned(j)'
<1>0. JobOwned(j)
  BY DEF CoreInv, OwnInv
<1>1. \A t : RootJob(j, t) => RootJob(j, t)'
  BY DEF RootJob, RootOf, Root, Grows
<1>2. PICK t0 : t0 = store.jobs[j].thread
  OBVIOUS
<1>3. ASSUME store'.jobs[j].thread = t0,
             store'.jobs[j] # NoJob => j = Cron \/ j \in DOMAIN runs
      PROVE  JobOwned(j)'
  <2>1. t0 \in 1..MaxMessages => RootJob(j, t0)'
    BY <1>0, <1>1, <1>2 DEF JobOwned
  <2>2. store'.jobs[j] # NoJob => j = Cron \/ j \in DOMAIN runs'
    BY <1>3 DEF Grows
  <2>. QED BY <1>3, <2>1, <2>2 DEF JobOwned, RootJob, RootOf, Root
<1>4. CASE store'.jobs[j] = store.jobs[j]
  BY <1>0, <1>2, <1>3, <1>4 DEF JobOwned
<1>5. CASE store'.jobs[j] = NoJob
  BY <1>5, Sizes DEF JobOwned, NoJob
<1>6. ASSUME NEW k \in Job, Quiet(k), k = Cron \/ k \in DOMAIN runs PROVE JobOwned(j)'
  <2>1. CASE j # k
    BY <1>4, <1>6, <2>1 DEF Quiet, Rest
  <2>2. CASE j = k
    BY <1>2, <1>3, <1>6, <2>2 DEF Quiet
  <2>. QED BY <2>1, <2>2
<1>7. ASSUME NEW r \in Run, NEW k \in Job, NEW t \in Ts, Linked(r, k, t), LinkSound(r, k, t)
      PROVE  JobOwned(j)'
  <2>1. CASE j # k
    BY <1>4, <1>7, <2>1 DEF Linked, Rest
  <2>2. CASE j = k
    <3>1. store'.jobs[j].thread = t /\ (j = Cron \/ j \in DOMAIN runs')
      BY <1>7, <2>2 DEF Linked, LinkSound, Grows
    <3>2. t \in 1..MaxMessages => RootJob(j, t)'
      BY <1>1, <1>7, <2>2, Sizes DEF LinkSound
    <3>. QED BY <3>1, <3>2 DEF JobOwned, RootJob, RootOf, Root
  <2>. QED BY <2>1, <2>2
<1>8. CASE Prune
  BY <1>4, <1>5, <1>8, PruneEffect DEF CoreInv
<1>9. CASE store' = store
  BY <1>4, <1>9
<1>. QED BY <1>6, <1>7, <1>8, <1>9 DEF Written

LEMMA PostsStep ==
  ASSUME [Next]_vars
  PROVE  posts' = posts \/ Post
BY DEF Next, Daemon, Subscriber, Messages, CronFires, SkipRun, MakeTree, AnnounceSession, Complete,
  HandleSession, HandleWorktree, CompletedFolder, CompletedSession, LinkPosted, NoPost, Connect,
  Skip, Receive, Disconnect, Restart, HandleMessage, HandleMention, Submit, LinkSubmitted,
  LinkFolder, PostFails, SubmitFails, Refused, TimePasses, Prune, vars, world

LEMMA PostsOwnedStep ==
  ASSUME CoreInv, Grows, [Next]_vars
  PROVE  PostsOwned'
<1>0. PostsOwned
  BY DEF CoreInv, OwnInv
<1>1. CASE posts' = posts
  BY <1>0, <1>1 DEF PostsOwned, Grows
<1>2. CASE Post
  <2>1. PICK p : p = [run |-> ev.event.run, thread |-> PostThread] /\ posts' = Append(posts, p)
    BY <1>2 DEF Post
  <2>2. p.run \in DOMAIN runs
    BY <1>2, <2>1, EvFacts DEF CoreInv, Post
  <2>3. p.thread = 0 => runs[p.run].from = 0
    BY <1>2, <2>1 DEF CoreInv, OwnInv, EvOwned, Maps, Post, PostThread
  <2>4. DOMAIN posts' = DOMAIN posts \cup {Len(posts) + 1}
    BY <2>1 DEF CoreInv, TypeInv
  <2>5. \A i \in DOMAIN posts' :
          (i \in DOMAIN posts /\ posts'[i] = posts[i]) \/ posts'[i] = p
    BY <2>1, <2>4 DEF CoreInv, TypeInv
  <2>6. ASSUME NEW i \in DOMAIN posts'
        PROVE  posts'[i].run \in DOMAIN runs /\ (posts'[i].thread = 0 => runs[posts'[i].run].from = 0)
    BY <1>0, <2>2, <2>3, <2>5 DEF PostsOwned
  <2>. QED BY <2>6 DEF PostsOwned, Grows
<1>. QED BY <1>1, <1>2, PostsStep

LEMMA Ownership ==
  ASSUME CoreInv, Grows, StoreStep, StreamStep, [Next]_vars
  PROVE  OwnInv'
BY EveryWrite, RunsOwnedStep, EvOwnedStep, ThreadsOwnedStep, JobsOwnedStep, PostsOwnedStep
  DEF OwnInv

-----------------------------------------------------------------------------
(* The message that is handled.                                             *)

SameMessage == sm' = sm /\ inbox' = inbox

\* What the socket loop does to its state.
MessageStep ==
  \/ SameMessage
  \/ sm' = Free /\ inbox' = inbox
  \/ \E m : /\ Taken(m)
            /\ \/ sm' = Free
               \/ /\ sm'.at = "submit" /\ sm'.msg = m
                  /\ m.thread # 0 => sm'.snap = store.threads[m.thread] /\ Routable(sm'.snap)
  \/ Submit /\ SmNext("link", Len(runs) + 1) /\ inbox' = inbox
  \/ /\ LinkSubmitted /\ sm.msg.thread = 0 /\ SmNext("meta", sm.run) /\ inbox' = inbox

LEMMA MessageSteps ==
  ASSUME CoreInv, [Next]_vars
  PROVE  MessageStep
<1>1. CASE HandleMessage \/ HandleMention
  <2>1. PICK m : Taken(m)
    BY <1>1, TakenEffect DEF CoreInv
  <2>. QED BY <2>1, TakeEffect DEF Taken, MessageStep, CoreInv
<1>2. CASE Submit
  BY <1>2, MessageEffect DEF Submit, MessageStep, CoreInv
<1>3. CASE LinkSubmitted
  <2>1. CASE sm.msg.thread = 0
    <3>1. sm' = [sm EXCEPT !.at = "meta"]
      BY <1>3, <2>1 DEF LinkSubmitted
    <3>2. SmNext("meta", sm.run)
      BY <3>1 DEF SmNext, CoreInv, TypeInv, SmRecord
    <3>. QED BY <1>3, <2>1, <3>2 DEF LinkSubmitted, world, MessageStep
  <2>2. CASE sm.msg.thread # 0
    BY <1>3, <2>2 DEF LinkSubmitted, world, MessageStep
  <2>. QED BY <2>1, <2>2
<1>4. CASE LinkFolder \/ Refused \/ SubmitFails \/ Restart
  BY <1>4 DEF LinkFolder, SubmitFails, Refused, Restart, world, MessageStep
<1>5. CASE Daemon \/ Subscriber \/ Disconnect \/ PostFails \/ TimePasses \/ Prune \/ UNCHANGED vars
  BY <1>5 DEF Daemon, Subscriber, CronFires, SkipRun, MakeTree, AnnounceSession, Complete, HandleSession,
    HandleWorktree, CompletedFolder, CompletedSession, Post, LinkPosted, EventStep, NoPost,
    Connect, Skip, Receive, Disconnect, PostFails, TimePasses, Prune, vars, world,
    SameMessage, MessageStep
<1>. QED BY <1>1, <1>2, <1>3, <1>4, <1>5 DEF Next, Messages

LEMMA Sms ==
  ASSUME CoreInv, Grows, DaemonStep, MessageStep
  PROVE  SmInv'
<1>0. SmInv
  BY DEF CoreInv
<1>1. \A t : Addressed(t) => Addressed(t)'
  BY Stays
<1>2. \A j, t : Owns(j, t) => Owns(j, t)'
  BY OwnsStays
<1>3. ASSUME inbox' \subseteq inbox PROVE \A m \in inbox' : m.thread # 0 => Addressed(m.thread)'
  BY <1>0, <1>1, <1>3 DEF SmInv
<1>4. CASE SameMessage
  <2>1. \A m \in inbox' : m.thread # 0 => Addressed(m.thread)'
    BY <1>3, <1>4 DEF SameMessage
  <2>2. PICK t, j, r, ts : t = sm.msg.thread /\ j = sm.snap.job /\ r = sm.run /\ ts = sm.msg.ts
    OBVIOUS
  <2>3. sm.at \in {"submit", "link"} /\ t # 0 => Addressed(t)' /\ Owns(j, t)' /\ Routable(sm.snap)
    BY <1>0, <1>1, <1>2, <2>2 DEF SmInv
  <2>4. sm.at \in {"link", "meta"} =>
          /\ r \in DOMAIN runs'
          /\ IF t = 0 THEN RootOf(r, ts)' ELSE runs'[r].from = t
    BY <1>0, <2>2, Stays DEF SmInv, Grows
  <2>. QED BY <1>0, <1>4, <2>1, <2>2, <2>3, <2>4
           DEF SmInv, SameMessage, Addressed, Cronish, Owns, RootJob, RootOf, Root, PostTs, Routable, Folder
<1>5. CASE sm' = Free /\ inbox' = inbox
  BY <1>3, <1>5, IdleFree DEF SmInv
<1>6. ASSUME NEW m, Taken(m),
             \/ sm' = Free
             \/ /\ sm'.at = "submit" /\ sm'.msg = m
                /\ m.thread # 0 => sm'.snap = store.threads[m.thread] /\ Routable(sm'.snap)
      PROVE  SmInv'
  <2>1. PICK t : t = m.thread
    OBVIOUS
  <2>2. t # 0 => Addressed(t) /\ Addressed(t)'
    BY <1>1, <1>6, <2>1 DEF Taken
  <2>3. \A q \in inbox' : q.thread # 0 => Addressed(q.thread)'
    <3>1. ASSUME NEW q \in inbox', q.thread # 0 PROVE Addressed(q.thread)'
      <4>1. CASE q \in inbox
        BY <1>0, <1>1, <3>1, <4>1 DEF SmInv
      <4>2. CASE q = m
        BY <2>1, <2>2, <3>1, <4>2
      <4>. QED BY <1>6, <4>1, <4>2 DEF Taken
    <3>. QED BY <3>1
  <2>4. CASE sm' = Free
    BY <2>3, <2>4, IdleFree DEF SmInv
  <2>5. CASE /\ sm'.at = "submit" /\ sm'.msg = m
             /\ m.thread # 0 => sm'.snap = store.threads[m.thread] /\ Routable(sm'.snap)
    <3>1. m.ts # 0
      BY <1>6 DEF Taken
    <3>2. ASSUME t # 0 PROVE Owns(sm'.snap.job, t)
      <4>1. t \in Ts
        BY <1>6, <2>1, <3>2 DEF Taken, Message
      <4>2. t <= MaxMessages \/ Cronish(t)
        BY <2>2, <3>2, AddressedThread DEF CoreInv
      <4>3. sm'.snap = store.threads[t] /\ sm'.snap.job # 0
        BY <2>1, <2>5, <3>2 DEF Routable
      <4>. QED BY <4>1, <4>2, <4>3 DEF CoreInv, OwnInv, ThreadOwned
    <3>3. PICK j : j = sm'.snap.job
      OBVIOUS
    <3>4. t # 0 => Owns(j, t)'
      BY <1>2, <3>2, <3>3
    <3>. QED BY <2>1, <2>2, <2>3, <2>5, <3>1, <3>3, <3>4
             DEF SmInv, Addressed, Cronish, Owns, RootJob, RootOf, Root, PostTs, Routable, Folder
  <2>. QED BY <1>6, <2>4, <2>5
<1>7. CASE Submit /\ SmNext("link", Len(runs) + 1) /\ inbox' = inbox
  <2>1. PICK r, t, j, ts : /\ r = Len(runs) + 1 /\ t = sm.msg.thread /\ j = sm.snap.job
                           /\ ts = sm.msg.ts
    OBVIOUS
  <2>2. sm.at = "submit" /\ sm.msg.ts # 0
    BY <1>0, <1>7 DEF Submit, SmInv
  <2>3. t # 0 => Addressed(t)' /\ Owns(j, t)' /\ Routable(sm.snap)
    BY <1>0, <1>1, <1>2, <2>1, <2>2 DEF SmInv
  <2>4. /\ r \in DOMAIN runs'
        /\ runs'[r].from = IF t = 0 THEN ts ELSE t
        /\ t = 0 => runs'[r].resumes = 0
    <3>1. RootStep \/ ReplyStep
      BY <1>7, SubmitEffect DEF CoreInv
    <3>2. CASE RootStep
      <4>1. PICK rec : Begins(rec) /\ rec.from = ts /\ rec.resumes = 0
        BY <2>1, <3>2 DEF RootStep, NewRun
      <4>. QED BY <2>1, <3>2, <4>1 DEF RootStep, Begins
    <3>3. CASE ReplyStep
      <4>1. PICK rec : Begins(rec) /\ rec.from = t
        BY <2>1, <3>3 DEF ReplyStep, NewRun
      <4>. QED BY <2>1, <3>3, <4>1 DEF ReplyStep, Begins
    <3>. QED BY <3>1, <3>2, <3>3
  <2>5. IF t = 0 THEN RootOf(r, ts)' ELSE runs'[r].from = t
    BY <2>1, <2>2, <2>4 DEF RootOf, Root
  <2>6. \A m \in inbox' : m.thread # 0 => Addressed(m.thread)'
    BY <1>3, <1>7
  <2>. QED BY <1>7, <2>1, <2>2, <2>3, <2>4, <2>5, <2>6
           DEF SmNext, SmInv, Addressed, Cronish, Owns, RootJob, RootOf, Root, PostTs, Routable, Folder
<1>8. CASE LinkSubmitted /\ sm.msg.thread = 0 /\ SmNext("meta", sm.run) /\ inbox' = inbox
  <2>1. PICK r, ts : r = sm.run /\ ts = sm.msg.ts
    OBVIOUS
  <2>2. sm.at = "link" /\ ts # 0
    BY <1>0, <1>8, <2>1 DEF LinkSubmitted, SmInv
  <2>3. r \in DOMAIN runs /\ RootOf(r, ts)
    BY <1>0, <1>8, <2>1, <2>2 DEF SmInv
  <2>4. r \in DOMAIN runs' /\ RootOf(r, ts)'
    BY <2>3, Stays DEF Grows
  <2>5. \A m \in inbox' : m.thread # 0 => Addressed(m.thread)'
    BY <1>3, <1>8
  <2>. QED BY <1>8, <2>1, <2>2, <2>4, <2>5 DEF SmNext, SmInv, RootOf, Root
<1>. QED BY <1>4, <1>5, <1>6, <1>7, <1>8 DEF MessageStep

-----------------------------------------------------------------------------
(* The core.                                                                *)

LEMMA CoreInit == Init => CoreInv
<1> SUFFICES ASSUME Init PROVE CoreInv
  OBVIOUS
<1>1. /\ NoRun \in MapRecord /\ NoJob \in JobRecord /\ NoThread \in ThreadRecord
      /\ NoRun = [job |-> 0, thread |-> 0] /\ NoThread.job = 0 /\ NoJob.thread = 0
  BY Sizes DEF NoRun, MapRecord, NoThread, ThreadRecord, NoJob, JobRecord, Cron, Repo
<1>2. Empty \in StoreRecord /\ Entries = {}
  <2>1. Empty \in StoreRecord
    BY <1>1 DEF Empty, StoreRecord
  <2>. QED BY <2>1 DEF Init, Empty, Entries
<1>3. sub \in SubRecord /\ sub.pos = 0 /\ sub.last = 0 /\ sub.seen = {} /\ sub.up
  BY DEF Init, SubRecord
<1>4. /\ runs = << >> /\ log = << >> /\ posts = << >> /\ Len(runs) = 0 /\ Len(log) = 0
      /\ DOMAIN runs = {} /\ DOMAIN log = {} /\ DOMAIN posts = {}
  BY DEF Init
<1>5. TypeInv
  BY <1>2, <1>3, <1>4, IdleFree, Sizes DEF Init, TypeInv
<1>6. RunInv /\ SkipInv /\ LogInv
  BY <1>4 DEF RunInv, SkipInv, LogInv
<1>7. SubInv
  BY <1>3, IdleFree DEF Init, SubInv
<1>8. OwnInv
  BY <1>1, <1>4, IdleFree DEF Init, Empty, OwnInv, RunsOwned, EvOwned, PostsOwned, ThreadOwned, JobOwned
<1>9. SmInv
  BY <1>4, IdleFree DEF Init, SmInv
<1>. QED BY <1>5, <1>6, <1>7, <1>8, <1>9 DEF CoreInv

\* The steps, by what they do to each part of the state.
LEMMA Parts ==
  ASSUME CoreInv, [Next]_vars
  PROVE  DaemonStep /\ Grows /\ StoreStep /\ StreamStep /\ MessageStep /\ Written
BY DaemonSteps, RunsGrow, StoreEffect, StreamSteps, MessageSteps, EveryWrite DEF CoreInv

LEMMA CoreStep == CoreInv /\ [Next]_vars => CoreInv'
BY Parts, Types, Runs, Skips, Logs, Subs, Ownership, Sms DEF CoreInv

-----------------------------------------------------------------------------
(* A run that is linked has a thread that takes replies.                    *)

LEMMA RouteStep ==
  ASSUME CoreInv, RouteInv, [Next]_vars
  PROVE  RouteInv'
<1>0. Written
  BY Parts
<1>a. \A r, u : Entry("run", r) # Entry("thread", u)
  BY DEF Entry
<1>1. CASE UNCHANGED << store, old >>
  BY <1>1 DEF RouteInv
<1>2. CASE TimePasses
  BY <1>2 DEF TimePasses, RouteInv, Entries, NoRun
<1>3. ASSUME NEW j \in Job, Quiet(j) PROVE RouteInv'
  <2>1. \A u \in Ts : store'.threads[u].job = store.threads[u].job
    BY <1>3 DEF Quiet
  <2>2. \A r \in Run : store.runs[r].thread \in {0} \cup Ts
    BY StoreParts DEF CoreInv, TypeInv, MapRecord
  <2>. QED BY <1>3, <2>1, <2>2 DEF Quiet, Rest, RouteInv
<1>4. ASSUME NEW q \in Run, NEW j \in Job, NEW t \in Ts, Linked(q, j, t) PROVE RouteInv'
  <2>1. store.runs \in [Run -> MapRecord]
    BY StoreParts DEF CoreInv, TypeInv
  <2>2. store'.runs[q].thread = t /\ \A r \in Run \ {q} : store'.runs[r] = store.runs[r]
    BY <1>4, <2>1 DEF Linked
  <2>3. /\ store'.threads[t].job # 0 /\ Entry("thread", t) \notin old'
        /\ \A u \in Ts \ {t} : store'.threads[u] = store.threads[u]
        /\ old' \subseteq old
        /\ \A r \in Run \ {q} : Entry("run", r) \in old => Entry("run", r) \in old'
    BY <1>4, Sizes DEF Linked, Rest, Stamped, Entry
  <2>4. ASSUME NEW r \in Run, store'.runs[r].thread # 0
        PROVE  /\ store'.threads[store'.runs[r].thread].job # 0
               /\ Entry("thread", store'.runs[r].thread) \in old' => Entry("run", r) \in old'
    <3>1. CASE store'.runs[r].thread = t
      BY <2>3, <3>1
    <3>2. CASE store'.runs[r].thread # t
      <4>1. r # q /\ store'.runs[r] = store.runs[r] /\ store.runs[r].thread \in Ts
        BY <2>1, <2>2, <2>4, <3>2 DEF MapRecord
      <4>. QED BY <2>3, <2>4, <3>2, <4>1 DEF RouteInv
    <3>. QED BY <3>1, <3>2
  <2>. QED BY <2>4 DEF RouteInv
<1>5. CASE Prune
  <2>1. /\ old' = {}
        /\ \A r \in Run : store'.runs[r] =
             IF Entry("run", r) \in old THEN NoRun ELSE store.runs[r]
        /\ \A t \in Ts : store'.threads[t] =
             IF Entry("thread", t) \in old THEN NoThread ELSE store.threads[t]
    BY <1>5, PruneEffect DEF CoreInv
  <2>2. \A r \in Run : store.runs[r].thread \in {0} \cup Ts
    BY StoreParts DEF CoreInv, TypeInv, MapRecord
  <2>. QED BY <2>1, <2>2 DEF RouteInv, NoRun
<1>6. CASE \E j \in Job : Quiet(j)
  BY <1>3, <1>6
<1>7. CASE \E r \in Run, j \in Job, t \in Ts : Linked(r, j, t)
  BY <1>4, <1>7
<1>. QED BY <1>0, <1>1, <1>2, <1>5, <1>6, <1>7 DEF Written

-----------------------------------------------------------------------------
(* A completion is posted once, and in the thread of its message.           *)

\* An event is not received a second time before the stream breaks after a restart.
LEMMA PastStays ==
  ASSUME CoreInv, Grows, StreamStep, ~sub'.again, NEW n \in DOMAIN log, Past(n)
  PROVE  Past(n)'
<1>0. /\ n \in Nat /\ n <= Len(log) /\ Len(log) \in Nat /\ sub.pos \in Nat
  BY DEF CoreInv, TypeInv, SubRecord
<1>1. CASE sub' = sub
  BY <1>1 DEF Past
<1>2. ASSUME NEW p \in Nat, ConnectTo(p) PROVE Past(n)'
  <2>1. CASE n \in sub.seen
    BY <1>2, <2>1 DEF ConnectTo, Past
  <2>2. CASE n \notin sub.seen
    <3>1. sub.restarted /\ sub.last = 0
      BY <1>2, <2>2 DEF ConnectTo, Past
    <3>2. p = Len(log)
      BY <1>2, <3>1 DEF ConnectTo, ReplayFrom
    <3>. QED BY <1>0, <1>2, <3>1, <3>2 DEF ConnectTo, Past
  <2>. QED BY <2>1, <2>2
<1>3. CASE Disconnect
  BY <1>3, DisconnectEffect DEF CoreInv, Past, Disconnect
<1>4. CASE Skip
  <2>1. /\ sub'.pos = sub.pos + 1 /\ sub'.seen = sub.seen /\ sub'.restarted = sub.restarted
        /\ sub.up /\ sub'.up = sub.up
    BY <1>4, SkipEffect DEF CoreInv, Skip
  <2>. QED BY <1>0, <2>1 DEF Past
<1>5. CASE Receive
  <2>1. /\ sub'.pos = sub.pos + 1 /\ sub.seen \subseteq sub'.seen /\ sub'.restarted = sub.restarted
        /\ sub.up /\ sub'.up = sub.up
    BY <1>5, ReceiveEffect DEF CoreInv
  <2>. QED BY <1>0, <2>1 DEF Past
<1>6. CASE Restart
  BY <1>6, RestartEffect DEF CoreInv, Past
<1>. QED BY <1>1, <1>2, <1>3, <1>4, <1>5, <1>6 DEF StreamStep

\* The completion that is received is that of a run that was not posted.
LEMMA FreshCompletion ==
  ASSUME CoreInv, PostInv, ~sub.again, Receive, ev'.at = "completed"
  PROVE  ev'.event.run \in DOMAIN runs /\ ~IsPosted(ev'.event.run)
<1>1. PICK n : n = sub.pos + 1
  OBVIOUS
<1>2. /\ n \in DOMAIN log /\ n \notin sub.seen /\ sub.up
      /\ ev'.event = log[n] /\ ev'.at = log[n].kind
  BY <1>1, ReceiveEffect DEF CoreInv
<1>3. EventSound(n) /\ log[n].kind = "completed"
  BY <1>2 DEF CoreInv, LogInv
<1>4. ASSUME NEW m \in DOMAIN log, IsEvent(m, "completed", log[n].run), Past(m) PROVE FALSE
  <2>1. EventSound(m) /\ log[m].run = log[n].run /\ log[m].kind = "completed"
    BY <1>4 DEF CoreInv, LogInv, IsEvent
  <2>2. m \in Nat /\ n \in Nat
    BY <1>2 DEF CoreInv, TypeInv
  <2>3. m # n => m < n /\ n < m
    BY <1>2, <1>3, <2>1 DEF EventSound
  <2>4. m = n
    BY <2>2, <2>3
  <2>5. sub.pos \in Nat
    BY DEF CoreInv, TypeInv, SubRecord
  <2>. QED BY <1>1, <1>2, <1>4, <2>4, <2>5 DEF Past
<1>5. ~IsPosted(log[n].run)
  BY <1>4 DEF PostInv, IsPosted
<1>. QED BY <1>2, <1>3, <1>5 DEF EventSound

\* What is posted in a step, if anything.
NewPost(p) ==
  /\ posts' = Append(posts, p) /\ DOMAIN posts' = DOMAIN posts \cup {Len(posts) + 1}
  /\ \A i \in DOMAIN posts' :
       posts'[i] = IF i \in DOMAIN posts THEN posts[i] ELSE p
  /\ ev.at = "post" /\ p.run = ev.event.run /\ p.thread = ev.mapping.thread
  /\ Len(posts) + 1 \notin DOMAIN posts

LEMMA NewPosts ==
  ASSUME CoreInv, [Next]_vars
  PROVE  posts' = posts \/ \E p : NewPost(p)
<1>1. CASE Post
  <2>1. PICK p : p = [run |-> ev.event.run, thread |-> PostThread] /\ posts' = Append(posts, p)
    BY <1>1 DEF Post
  <2>2. /\ DOMAIN posts' = DOMAIN posts \cup {Len(posts) + 1}
        /\ \A i \in DOMAIN posts' : posts'[i] = IF i \in DOMAIN posts THEN posts[i] ELSE p
        /\ Len(posts) + 1 \notin DOMAIN posts
    BY <2>1 DEF CoreInv, TypeInv
  <2>. QED BY <1>1, <2>1, <2>2 DEF Post, PostThread, NewPost
<1>. QED BY <1>1, PostsStep

LEMMA PostedStays ==
  ASSUME CoreInv, [Next]_vars, NEW r, IsPosted(r)
  PROVE  IsPosted(r)'
<1>1. CASE posts' = posts
  BY <1>1 DEF IsPosted
<1>2. ASSUME NEW p, NewPost(p) PROVE IsPosted(r)'
  BY <1>2 DEF NewPost, IsPosted
<1>. QED BY <1>1, <1>2, NewPosts

\* The mapping of a run that Slack asked for is to its thread, until it is posted.
LEMMA MappingKept ==
  ASSUME CoreInv, PostInv, ~sub.again, [Next]_vars, NEW r \in DOMAIN runs',
         runs'[r].from # 0, store'.runs[r].thread \notin {0, runs'[r].from}
  PROVE  IsPosted(r)'
<1>0. Grows /\ StoreStep
  BY Parts
<1>r. r \in Run
  BY <1>0, Sizes DEF Grows, Run
<1>1. ASSUME store'.runs[r] = store.runs[r] PROVE IsPosted(r)'
  <2>1. store.runs[r] # NoRun
    BY <1>1 DEF NoRun
  <2>2. r \in DOMAIN runs
    BY <1>r, <2>1 DEF CoreInv, OwnInv, RunsOwned
  <2>3. runs'[r].from = runs[r].from
    BY <1>0, <2>2 DEF Grows
  <2>. QED BY <1>1, <2>2, <2>3, PostedStays DEF PostInv
<1>2. ASSUME store'.runs = store.runs PROVE IsPosted(r)'
  BY <1>1, <1>2
<1>3. ASSUME NEW q, NEW j, NEW t, Linked(q, j, t), q # r PROVE IsPosted(r)'
  <2>1. store.runs \in [Run -> MapRecord]
    BY StoreParts DEF CoreInv, TypeInv
  <2>. QED BY <1>r, <1>1, <1>3, <2>1 DEF Linked
<1>4. ASSUME NEW j, NEW t, Linked(r, j, t) PROVE store'.runs[r].thread = t
  <2>1. store.runs \in [Run -> MapRecord]
    BY StoreParts DEF CoreInv, TypeInv
  <2>. QED BY <1>r, <1>4, <2>1 DEF Linked
<1>5. CASE LinkPosted /\ Linked(ev.event.run, Parent, PostTs(ev.event.run))
  <2>1. CASE ev.event.run # r
    BY <1>3, <1>5, <2>1
  <2>2. CASE ev.event.run = r
    BY <1>5, <2>2, PostedStays DEF LinkPosted, PostInv
  <2>. QED BY <2>1, <2>2
<1>6. CASE LinkSubmitted /\ sm.msg.thread = 0 /\ Linked(sm.run, runs[sm.run].job, sm.msg.ts)
  <2>1. CASE sm.run # r
    BY <1>3, <1>6, <2>1
  <2>2. CASE sm.run = r
    <3>1. sm.run \in DOMAIN runs /\ runs[sm.run].from = sm.msg.ts
      BY <1>6 DEF LinkSubmitted, CoreInv, SmInv, RootOf
    <3>. QED BY <1>0, <1>4, <1>6, <2>2, <3>1 DEF Grows
  <2>. QED BY <2>1, <2>2
<1>7. CASE LinkSubmitted /\ sm.msg.thread # 0 /\ Linked(sm.run, sm.snap.job, sm.msg.thread)
  <2>1. CASE sm.run # r
    BY <1>3, <1>7, <2>1
  <2>2. CASE sm.run = r
    <3>1. sm.run \in DOMAIN runs /\ runs[sm.run].from = sm.msg.thread
      BY <1>7 DEF LinkSubmitted, CoreInv, SmInv
    <3>. QED BY <1>0, <1>4, <1>7, <2>2, <3>1 DEF Grows
  <2>. QED BY <2>1, <2>2
<1>8. CASE Prune
  <2>1. store'.runs[r] \in {NoRun, store.runs[r]}
    BY <1>r, <1>8, PruneEffect DEF CoreInv
  <2>. QED BY <1>1, <2>1 DEF NoRun
<1>. QED
  BY <1>0, <1>2, <1>5, <1>6, <1>7, <1>8 DEF StoreStep, Quiet, TimePasses

LEMMA PostStep ==
  ASSUME CoreInv, PostInv, [Next]_vars
  PROVE  PostInv'
<1>0. Grows /\ StreamStep
  BY Parts
<1>1. ev'.at = "link" => IsPosted(ev.event.run)'
  <2>1. CASE ev' = ev
    BY <2>1, PostedStays DEF PostInv
  <2>2. CASE Disconnect \/ Skip \/ Restart \/ ev' = Idle
    BY <2>2, IdleFree DEF Disconnect, Skip, Restart
  <2>3. CASE Receive
    <3>1. PICK n \in DOMAIN log : ev'.at = log[n].kind
      BY <2>3, ReceiveEffect DEF CoreInv
    <3>2. log[n] \in Event
      BY DEF CoreInv, TypeInv
    <3>. QED BY <3>1, <3>2 DEF Event
  <2>4. CASE EvNext("set session") \/ EvNext("post")
    BY <2>4 DEF EvNext
  <2>5. CASE ev.at = "post" /\ Post /\ EvNext("link")
    <3>1. posts' # posts
      BY <2>5 DEF Post, CoreInv, TypeInv
    <3>2. PICK p : NewPost(p)
      BY <3>1, NewPosts
    <3>. QED BY <2>5, <3>2 DEF NewPost, EvNext, IsPosted
  <2>. QED BY <1>0, <2>1, <2>2, <2>3, <2>4, <2>5 DEF StreamStep
<1>2. SUFFICES ASSUME ~sub'.again
               PROVE  /\ AnsweredOnce' /\ AnswersInThread'
                      /\ \A i \in DOMAIN posts' :
                           \E n \in DOMAIN log' : IsEvent(n, "completed", posts[i].run)' /\ Past(n)'
                      /\ ev'.at \in {"completed", "set session", "post"} => ~IsPosted(ev.event.run)'
                      /\ \A r \in DOMAIN runs' :
                           runs'[r].from # 0 /\ store'.runs[r].thread \notin {0, runs'[r].from} =>
                             IsPosted(r)'
                      /\ ev'.at \in {"completed", "set session", "post"}
                           /\ runs'[ev'.event.run].from # 0 =>
                             ev'.mapping.thread \in {0, runs'[ev'.event.run].from}
  BY <1>1, <1>2 DEF PostInv
<1>3. ~sub.again
  BY <1>0, <1>2, DisconnectEffect, SkipEffect, ReceiveEffect, RestartEffect
     DEF StreamStep, ConnectTo, CoreInv
<1>4. /\ AnsweredOnce /\ AnswersInThread
      /\ \A i \in DOMAIN posts :
           \E n \in DOMAIN log : IsEvent(n, "completed", posts[i].run) /\ Past(n)
      /\ ev.at \in {"completed", "set session", "post"} => ~IsPosted(ev.event.run)
      /\ ev.at \in {"completed", "set session", "post"} /\ runs[ev.event.run].from # 0 =>
           ev.mapping.thread \in {0, runs[ev.event.run].from}
  BY <1>3 DEF PostInv
<1>5. \A r \in DOMAIN runs' :
        runs'[r].from # 0 /\ store'.runs[r].thread \notin {0, runs'[r].from} => IsPosted(r)'
  BY <1>3, MappingKept
<1>6. ASSUME NEW i \in DOMAIN posts'
      PROVE  /\ posts'[i].run \in DOMAIN runs
             /\ \E n \in DOMAIN log : IsEvent(n, "completed", posts'[i].run) /\ Past(n)
  <2>1. CASE posts' = posts
    BY <1>4, <2>1 DEF CoreInv, OwnInv, PostsOwned
  <2>2. ASSUME NEW p, NewPost(p)
        PROVE  /\ posts'[i].run \in DOMAIN runs
               /\ \E n \in DOMAIN log : IsEvent(n, "completed", posts'[i].run) /\ Past(n)
    <3>1. p.run = ev.event.run /\ ev.at = "post"
      BY <2>2 DEF NewPost
    <3>2. ev.event.kind = "completed"
      BY <3>1, EvFacts DEF CoreInv, SubInv, Event
    <3>3. PICK n \in DOMAIN log : n \in sub.seen /\ log[n] = ev.event
      BY <3>1, EvFacts DEF CoreInv
    <3>4. IsEvent(n, "completed", p.run) /\ Past(n) /\ p.run \in DOMAIN runs
      BY <3>1, <3>2, <3>3, EvFacts DEF IsEvent, Past, CoreInv
    <3>5. CASE i \in DOMAIN posts
      BY <1>4, <2>2, <3>5 DEF NewPost, CoreInv, OwnInv, PostsOwned
    <3>6. CASE i \notin DOMAIN posts
      BY <2>2, <3>4, <3>6 DEF NewPost
    <3>. QED BY <3>5, <3>6
  <2>. QED BY <2>1, <2>2, NewPosts
<1>7. ASSUME NEW i \in DOMAIN posts'
      PROVE  \E n \in DOMAIN log' : IsEvent(n, "completed", posts[i].run)' /\ Past(n)'
  <2>1. PICK r : r = posts'[i].run
    OBVIOUS
  <2>2. PICK n \in DOMAIN log : IsEvent(n, "completed", r) /\ Past(n)
    BY <1>6, <2>1
  <2>3. Past(n)'
    BY <1>0, <1>2, <2>2, PastStays
  <2>4. IsEvent(n, "completed", r)' /\ n \in DOMAIN log'
    BY <1>0, <2>2 DEF Grows, IsEvent
  <2>. QED BY <2>1, <2>3, <2>4 DEF IsEvent
<1>8. AnsweredOnce'
  <2>1. CASE posts' = posts
    BY <1>2, <1>3, <1>4, <2>1 DEF AnsweredOnce
  <2>2. ASSUME NEW p, NewPost(p) PROVE AnsweredOnce'
    <3>1. \A i \in DOMAIN posts : posts[i].run # p.run
      BY <1>4, <2>2 DEF NewPost, IsPosted
    <3>2. \A i, k \in DOMAIN posts : posts[i].run = posts[k].run => i = k
      BY <1>3, <1>4 DEF AnsweredOnce
    <3>3. ASSUME NEW i \in DOMAIN posts', NEW k \in DOMAIN posts', posts'[i].run = posts'[k].run
          PROVE  i = k
      BY <2>2, <3>1, <3>2, <3>3 DEF NewPost
    <3>. QED BY <3>3 DEF AnsweredOnce
  <2>. QED BY <2>1, <2>2, NewPosts
<1>9. AnswersInThread'
  <2>1. ASSUME NEW i \in DOMAIN posts', runs'[posts'[i].run].from # 0
        PROVE  posts'[i].thread = runs'[posts'[i].run].from
    <3>1. posts'[i].run \in DOMAIN runs /\ runs'[posts'[i].run].from = runs[posts'[i].run].from
      BY <1>0, <1>6 DEF Grows
    <3>2. ASSUME i \in DOMAIN posts, posts'[i] = posts[i] PROVE posts'[i].thread = runs'[posts'[i].run].from
      BY <1>3, <1>4, <2>1, <3>1, <3>2 DEF AnswersInThread
    <3>3. ASSUME NEW p, NewPost(p), posts'[i] = p PROVE posts'[i].thread = runs'[posts'[i].run].from
      <4>1. ev.at = "post" /\ p.run = ev.event.run /\ p.thread = ev.mapping.thread
        BY <3>3 DEF NewPost
      <4>2. runs[ev.event.run].from # 0
        BY <2>1, <3>1, <3>3, <4>1
      <4>3. ev.mapping.thread \in {0, runs[ev.event.run].from}
        BY <1>4, <4>1, <4>2
      <4>4. ev.mapping.thread # 0
        BY <4>1, <4>2 DEF CoreInv, OwnInv, EvOwned, Maps
      <4>. QED BY <3>1, <3>3, <4>1, <4>3, <4>4
    <3>. QED BY <3>2, <3>3, NewPosts DEF NewPost
  <2>. QED BY <2>1 DEF AnswersInThread
<1>10. ASSUME ev'.at \in {"completed", "set session", "post"}
       PROVE  /\ ~IsPosted(ev.event.run)'
              /\ runs'[ev'.event.run].from # 0 =>
                   ev'.mapping.thread \in {0, runs'[ev'.event.run].from}
  <2>1. ev'.at # "idle" /\ ~(ev' = Idle)
    BY <1>10, IdleFree
  <2>2. ASSUME NEW r \in DOMAIN runs, r = ev'.event.run, ~IsPosted(r), posts' = posts,
               runs[r].from # 0 => ev'.mapping.thread \in {0, runs[r].from}
        PROVE  /\ ~IsPosted(ev.event.run)'
               /\ runs'[ev'.event.run].from # 0 =>
                    ev'.mapping.thread \in {0, runs'[ev'.event.run].from}
    BY <1>0, <2>2 DEF IsPosted, Grows
  <2>3. ASSUME ev.at \in {"completed", "set session", "post"}, ev'.event = ev.event,
               ev'.mapping = ev.mapping, posts' = posts
        PROVE  /\ ~IsPosted(ev.event.run)'
               /\ runs'[ev'.event.run].from # 0 =>
                    ev'.mapping.thread \in {0, runs'[ev'.event.run].from}
    <3>1. ev.event.run \in DOMAIN runs
      BY <2>3, EvFacts DEF CoreInv
    <3>. QED BY <1>4, <2>2, <2>3, <3>1
  <2>4. CASE Receive
    <3>1. PICK n \in DOMAIN log : /\ ev'.event = log[n] /\ ev'.at = log[n].kind
                                  /\ ev'.mapping = store.runs[log[n].run]
      BY <2>4, ReceiveEffect DEF CoreInv
    <3>2. log[n] \in Event
      BY DEF CoreInv, TypeInv
    <3>3. ev'.at = "completed"
      BY <1>10, <3>1, <3>2 DEF Event
    <3>4. ev'.event.run \in DOMAIN runs /\ ~IsPosted(ev'.event.run)
      BY <1>3, <2>4, <3>3, FreshCompletion
    <3>5. runs[log[n].run].from # 0 => store.runs[log[n].run].thread \in {0, runs[log[n].run].from}
      BY <1>3, <3>1, <3>4 DEF PostInv
    <3>6. posts' = posts
      BY <2>4 DEF Receive, world
    <3>. QED BY <2>2, <3>1, <3>4, <3>5, <3>6
  <2>5. CASE posts' # posts
    <3>1. PICK p : NewPost(p)
      BY <2>5, NewPosts
    <3>2. Post
      BY <2>5, PostsStep
    <3>3. ev' = [ev EXCEPT !.at = "link"]
      BY <3>2 DEF Post
    <3>4. ev'.at = "link"
      BY <3>3 DEF CoreInv, TypeInv, EvRecord
    <3>. QED BY <1>10, <3>4
  <2>6. CASE ev' = ev /\ posts' = posts
    BY <1>10, <2>3, <2>6
  <2>7. CASE /\ posts' = posts
             /\ \/ EvNext("set session") /\ ev.at = "completed"
                \/ EvNext("post") /\ ev.at = "set session"
    BY <2>3, <2>7 DEF EvNext
  <2>8. CASE Disconnect \/ Skip \/ Restart
    BY <2>1, <2>6, <2>8, <2>5 DEF Disconnect, Skip, Restart
  <2>9. CASE EvNext("link")
    BY <1>10, <2>9 DEF EvNext
  <2>. QED BY <1>0, <2>1, <2>4, <2>5, <2>6, <2>7, <2>8, <2>9 DEF StreamStep
<1>. QED BY <1>5, <1>7, <1>8, <1>9, <1>10

-----------------------------------------------------------------------------
(* The place of a thread.                                                   *)

LEMMA CwdStays ==
  ASSUME Grows
  PROVE  \A r \in DOMAIN runs : Cwd(r)' = Cwd(r)
BY DEF Grows, Cwd

LEMMA SoundStays ==
  ASSUME Grows, NEW x \in DOMAIN runs, NEW t, NEW c
  PROVE  /\ Sound(c, x, t) => Sound(c, x, t)'
         /\ Placed(c, x)' <=> Placed(c, x)
<1>1. Cwd(x)' = Cwd(x)
  BY CwdStays
<1>2. Placed(c, x)' <=> Placed(c, x)
  BY <1>1 DEF Placed
<1>3. Sound(c, x, t) => Sound(c, x, t)'
  BY <1>1 DEF Sound, Grows
<1>. QED BY <1>2, <1>3

\* What is known of a thread that has one root.
LEMMA SoleFacts ==
  ASSUME CoreInv, NEW x, NEW t, Sole(x, t)
  PROVE  /\ x \in DOMAIN runs /\ x \in Run /\ x \in Job /\ x # Cron /\ x # Repo /\ x # 0
         /\ t \in Ts /\ t # 0 /\ t <= MaxMessages
         /\ runs[x].from = t /\ runs[x].resumes = 0 /\ runs[x].job = x /\ runs[x].folder = Repo
         /\ runs[x].tree => Cwd(x) = x
         /\ ~runs[x].tree => Cwd(x) = Repo
         /\ store.jobs[x] \in JobRecord /\ store.threads[t] \in ThreadRecord
<1>1. x \in DOMAIN runs /\ Root(x) /\ runs[x].from = t /\ t # 0
  BY DEF Sole, RootOf, Root
<1>2. x \in Run /\ runs[x] \in RunRecord
  BY <1>1, Sizes DEF CoreInv, TypeInv, Run
<1>3. t \in Ts /\ t <= MaxMessages /\ runs[x].job = x /\ runs[x].folder = Repo
  <2>1. t \in Ts /\ t <= MaxMessages
    BY <1>1, <1>2 DEF CoreInv, RunInv, RunRecord
  <2>2. runs[x].job \in DOMAIN runs /\ runs[runs[x].job].job = runs[x].job /\ Alone(x)
    BY <1>1 DEF CoreInv, RunInv, Sole
  <2>3. runs[x].job = x
    BY <2>2 DEF Alone
  <2>. QED BY <1>1, <2>1, <2>3 DEF CoreInv, RunInv
<1>4. x \in Job /\ x # Cron /\ x # Repo /\ x # 0
  BY <1>2, Sizes
<1>5. store.jobs[x] \in JobRecord /\ store.threads[t] \in ThreadRecord
  BY <1>3, <1>4, StoreParts DEF CoreInv, TypeInv
<1>. QED BY <1>1, <1>2, <1>3, <1>4, <1>5 DEF Cwd, Root

\* Only the root of a thread has a job that is linked to it, or owns it.
LEMMA SoleOwner ==
  ASSUME CoreInv, NEW x, NEW t, Sole(x, t)
  PROVE  /\ \A j \in Job : store.jobs[j].thread = t => j = x
         /\ \A j : Owns(j, t) => j = x
         /\ \A u \in Ts : Owns(x, u) => u = t
         /\ \A y : RootOf(y, t) => y = x
<1>1. \A y : RootOf(y, t) => y = x
  BY DEF Sole, RootOf, Root
<1>2. t \in 1..MaxMessages
  BY SoleFacts, Sizes DEF Ts
<1>2a. \A j : RootJob(j, t) => j = x
  BY <1>1, SoleFacts DEF RootJob
<1>3. \A j \in Job : store.jobs[j].thread = t => j = x
  BY <1>2, <1>2a DEF CoreInv, OwnInv, JobOwned
<1>4. \A j : Owns(j, t) => j = x
  BY <1>2, <1>2a DEF Owns
<1>5. \A u \in Ts : Owns(x, u) => u = t
  <2>1. \A y \in DOMAIN runs : runs[y].job = x => y = x
    BY SoleFacts DEF Sole, Alone
  <2>. QED BY <2>1, SoleFacts DEF Owns, RootJob, RootOf
<1>. QED BY <1>1, <1>3, <1>4, <1>5

LEMMA SoleJob ==
  ASSUME CoreInv, NEW x, NEW t, Sole(x, t)
  PROVE  \A q \in DOMAIN runs : runs[q].job = x => q = x
BY SoleFacts DEF Sole, Alone

\* A follow-up in the thread t starts where the sessions of the thread are.
Joins(r, x, t) ==
  /\ Replying(t) /\ Cwd(r)' = Cwd(x)
  /\ runs'[r].resumes \in DOMAIN runs /\ runs[runs'[r].resumes].from = t

\* A message is taken that answers in the thread.
Answers(T, x, t) ==
  /\ \E c : c = sm'.snap /\ Sound(c, x, t) /\ Placed(c, x)
  /\ T.session # 0

NoneNew(t) == \A r \in DOMAIN runs' : runs'[r].from = t => r \in DOMAIN runs

\* What a step leaves of what the place of a thread depends on, the rows J of its job
\* and T of its own apart.
Still(J, T, x, t) ==
  /\ Grows /\ (old' \subseteq old \/ ~Busy(x)')
  /\ \A r \in DOMAIN runs' : runs'[r].from = t => r \in DOMAIN runs \/ Joins(r, x, t)
  /\ Busy(x)' => Busy(x)
  /\ Due(x)' => Due(x) \/ (Folder(J) = Cwd(x) /\ Placed(T, x))
  /\ Ended(x) => Ended(x)'
  /\ Replying(t)' => (Replying(t) /\ sm'.snap = sm.snap) \/ Answers(T, x, t)

LEMMA PlaceKept ==
  ASSUME CoreInv, NEW x \in DOMAIN runs, NEW t, NEW J, NEW T,
         PlaceAs(J, T, x, t), Still(J, T, x, t)
  PROVE  PlaceAs(J, T, x, t)'
<1>0. Grows /\ Cwd(x)' = Cwd(x) /\ x \in Run
  BY CwdStays, Sizes DEF Still, CoreInv, TypeInv, Run
<1>1. ThreadRuns(x, t)'
  <2>1. \A r \in DOMAIN runs : Cwd(r)' = Cwd(r)
    BY <1>0, CwdStays
  <2>2. /\ ThreadRuns(x, t)
        /\ \A r \in DOMAIN runs' : runs'[r].from = t => r \in DOMAIN runs \/ Joins(r, x, t)
    BY DEF PlaceAs, Still
  <2>3. ASSUME NEW r \in DOMAIN runs', runs'[r].from = t
        PROVE  /\ Cwd(r)' = Cwd(x)'
               /\ runs'[r].resumes # 0 =>
                    runs'[r].resumes \in DOMAIN runs' /\ runs'[runs'[r].resumes].from = t
    <3>1. CASE r \in DOMAIN runs
      <4>1. runs[r].from = t /\ runs'[r].resumes = runs[r].resumes
        BY <1>0, <2>3, <3>1 DEF Grows
      <4>. QED BY <1>0, <2>1, <2>2, <3>1, <4>1 DEF ThreadRuns, Grows
    <3>2. CASE Joins(r, x, t)
      BY <1>0, <3>2 DEF Joins, Grows
    <3>. QED BY <2>2, <2>3, <3>1, <3>2
  <2>. QED BY <2>3 DEF ThreadRuns
<1>2. Sound(J, x, t)' /\ Sound(T, x, t)'
  BY <1>0, SoundStays DEF PlaceAs
<1>3. SnapSound(x, t)'
  <2>1. PICK c : c = sm'.snap
    OBVIOUS
  <2>2. Replying(t)' => Sound(c, x, t) /\ Placed(c, x)
    BY <2>1 DEF PlaceAs, SnapSound, Still, Answers
  <2>3. Replying(t)' => Sound(c, x, t)' /\ Placed(c, x)'
    BY <1>0, <2>2, SoundStays
  <2>. QED BY <2>1, <2>3 DEF SnapSound, Sound, Placed
<1>4. Known(J, T, x, t)'
  <2>1. Resumable(J, T, x, t)' => Resumable(J, T, x, t)
    <3>1. ASSUME NEW r \in DOMAIN runs', r # x, runs'[r].from = t
          PROVE  Resumable(J, T, x, t)
      BY <1>0, <3>1 DEF Resumable, Still, Grows, Joins
    <3>2. Replying(t)' => Replying(t) \/ T.session # 0
      BY DEF Still, Answers
    <3>. QED BY <3>1, <3>2 DEF Resumable
  <2>2. Announced(x) => Announced(x)'
    BY <1>0, EventStays DEF CoreInv
  <2>3. (Placed(J, x)' <=> Placed(J, x)) /\ (Placed(T, x)' <=> Placed(T, x))
    BY <1>0, SoundStays
  <2>. QED BY <1>0, <2>1, <2>2, <2>3 DEF PlaceAs, Known, Grows
<1>5. Located(J, T, x)'
  <2>1. Placed(T, x)' <=> Placed(T, x)
    BY <1>0, SoundStays
  <2>. QED BY <1>0, <2>1 DEF PlaceAs, Located, Still
<1>6. Guarded(x, t)'
  BY DEF PlaceAs, Guarded, Still
<1>7. Latest(J, T, x, t)'
  <2>1. Placed(T, x)' <=> Placed(T, x)
    BY <1>0, SoundStays
  <2>. QED BY <2>1 DEF PlaceAs, Latest, Still
<1>. QED BY <1>1, <1>2, <1>3, <1>4, <1>5, <1>6, <1>7 DEF PlaceAs

LEMMA LinkKept ==
  ASSUME Grows, NEW x \in DOMAIN runs, NEW t, NEW J, NEW T, LinkSafe(J, T, x, t),
         NoneNew(t), sm' = sm
  PROVE  LinkSafe(J, T, x, t)'
BY DEF LinkSafe, Linking, Grows, NoneNew

\* The step writes neither the job nor the thread.
LEMMA OtherRows ==
  ASSUME CoreInv, NEW x \in DOMAIN runs, NEW t, PlaceOf(x, t),
         store'.jobs[x] = store.jobs[x], store'.threads[t] = store.threads[t],
         Still(store.jobs[x], store.threads[t], x, t), Linking(x)' => sm' = sm /\ NoneNew(t)
  PROVE  PlaceOf(x, t)'
<1>1. PICK J, T : J = store.jobs[x] /\ T = store.threads[t]
  OBVIOUS
<1>2. PlaceAs(J, T, x, t) /\ LinkSafe(J, T, x, t) /\ Still(J, T, x, t)
  BY <1>1 DEF PlaceOf
<1>3. PlaceAs(J, T, x, t)'
  BY <1>2, PlaceKept
<1>4. LinkSafe(J, T, x, t)'
  <2>1. CASE sm' = sm /\ NoneNew(t)
    BY <1>2, <2>1, LinkKept DEF Still
  <2>2. CASE ~Linking(x)'
    BY <2>2 DEF LinkSafe
  <2>. QED BY <2>1, <2>2
<1>5. J = store'.jobs[x] /\ T = store'.threads[t]
  BY <1>1
<1>. QED BY <1>3, <1>4, <1>5
         DEF PlaceOf, PlaceAs, LinkSafe, ThreadRuns, Sound, SnapSound, Known, Located, Guarded,
             Latest, Placed, Resumable

-----------------------------------------------------------------------------
(* What holds of every run of the bot.                                      *)

\* The invariant of the types, the events, the owners, the routes and the answers
\* (start.go, router.go and store.go).
THEOREM Invariance == Spec => [](CoreInv /\ RouteInv /\ PostInv)
<1>1. Init => CoreInv /\ RouteInv /\ PostInv
  <2> SUFFICES ASSUME Init PROVE CoreInv /\ RouteInv /\ PostInv
    OBVIOUS
  <2>1. CoreInv
    BY CoreInit
  <2>2. RouteInv
    BY DEF RouteInv, Init, Empty, NoRun
  <2>3. posts = << >> /\ runs = << >> /\ DOMAIN posts = {} /\ DOMAIN runs = {} /\ ev.at = "idle"
    BY DEF Init, Idle
  <2>4. AnsweredOnce /\ AnswersInThread
    BY <2>3 DEF AnsweredOnce, AnswersInThread
  <2>5. PostInv
    BY <2>3, <2>4 DEF PostInv
  <2> QED
    BY <2>1, <2>2, <2>5
<1>2. CoreInv /\ RouteInv /\ PostInv /\ [Next]_vars => (CoreInv /\ RouteInv /\ PostInv)'
  BY CoreStep, RouteStep, PostStep
<1> QED
  BY <1>1, <1>2, PTL DEF Spec

\* The types of the model (types.go, store.go).
THEOREM TypeCorrect == Spec => []TypeOK
<1>1. CoreInv => TypeOK
  <2> SUFFICES ASSUME CoreInv PROVE TypeOK
    OBVIOUS
  <2>1. TypeInv
    BY DEF CoreInv
  <2>2. \A r \in DOMAIN runs : runs[r] \in RunRecord
    BY <2>1 DEF TypeInv
  <2>3. \A e \in DOMAIN log : log[e] \in Event
    BY <2>1 DEF TypeInv
  <2>4. inbox \subseteq [ts : Ts, thread : {0} \cup Ts]
    BY <2>1, Sizes DEF TypeInv, Message, Ts
  <2>5. sub.pos \in 0..Len(log) /\ sub.last \in 0..Len(log) /\ sub.seen \subseteq DOMAIN log
    BY <2>1 DEF TypeInv, SubRecord
  <2>6. /\ store.runs \in [Run -> MapRecord] /\ store.jobs \in [Job -> JobRecord]
        /\ store.threads \in [Ts -> ThreadRecord]
    BY <2>1, StoreParts DEF TypeInv
  <2>7. ev.at \in {"idle", "worktree", "session", "completed", "set session", "post", "link"}
        /\ sm.at \in {"idle", "submit", "link", "meta"}
    BY <2>1 DEF TypeInv, EvRecord, SmRecord
  <2>8. Len(runs) <= MaxRuns /\ written \in 0..MaxMessages /\ old \subseteq Entries
    BY <2>1 DEF TypeInv
  <2> QED
    BY <2>2, <2>3, <2>4, <2>5, <2>6, <2>7, <2>8
       DEF TypeOK, RunRecord, MapRecord, JobRecord, ThreadRecord
<1> QED
  BY <1>1, Invariance, PTL

\* Retention never leaves a run linked to a thread whose snapshot is gone
\* (store.go:92-139, 232-268).
THEOREM LinkedRunsRoutedHolds == Spec => []LinkedRunsRouted
<1>1. RouteInv => LinkedRunsRouted
  BY DEF RouteInv, LinkedRunsRouted
<1> QED
  BY <1>1, Invariance, PTL

\* A completion is posted once and in the thread of its message, whatever is replayed,
\* cut off or linked in between (start.go:206-210, 268-275; router.go:117-133).
THEOREM AnswersSoundHolds == Spec => []AnswersSound
<1>1. PostInv => AnsweredOnce /\ AnswersInThread
  BY DEF PostInv, AnsweredOnce, AnswersInThread
<1>2. TypeOK /\ PostInv => AnswersSound
  BY <1>1 DEF AnswersSound
<1> QED
  BY <1>2, Invariance, TypeCorrect, PTL

-----------------------------------------------------------------------------
(* The steps of a thread that has one root.                                 *)

\* A step that leaves x the only root of the thread t.
Scene(x, t) ==
  /\ CoreInv /\ [Next]_vars /\ ~sub.missed /\ ~sub'.missed
  /\ Sole(x, t) /\ Sole(x, t)' /\ PlaceOf(x, t)

LEMMA SceneFacts ==
  ASSUME NEW x, NEW t, Scene(x, t)
  PROVE  /\ CoreInv /\ TypeInv /\ Grows /\ StagesGo /\ DaemonStep /\ StreamStep /\ StoreStep
         /\ x \in DOMAIN runs /\ x \in Run /\ x \in Job /\ t \in Ts /\ t # 0
         /\ runs[x].from = t
         /\ \A y \in DOMAIN runs' : RootOf(y, t)' => y = x
         /\ PlaceAs(store.jobs[x], store.threads[t], x, t)
         /\ LinkSafe(store.jobs[x], store.threads[t], x, t)
<1>1. CoreInv /\ TypeInv /\ Grows /\ DaemonStep /\ StreamStep /\ StoreStep
  BY Parts DEF Scene, CoreInv
<1>2. StagesGo
  BY <1>1, StagesGoOn
<1>3. \A y \in DOMAIN runs' : RootOf(y, t)' => y = x
  BY DEF Scene, Sole
<1>4. PlaceAs(store.jobs[x], store.threads[t], x, t) /\ LinkSafe(store.jobs[x], store.threads[t], x, t)
  BY DEF Scene, PlaceOf
<1>. QED BY <1>1, <1>2, <1>3, <1>4, SoleFacts DEF Scene

\* The stream stays, or the handler comes to its next step, or to its end.
SameEvent ==
  /\ sub' = sub
  /\ \/ ev' = ev
     \/ ev'.at = "idle"
     \/ ev'.event = ev.event /\ ev.at # "idle" /\ ev.at # "worktree" /\ ev'.at # "worktree"

LEMMA StreamKept ==
  ASSUME NEW x, NEW t, Scene(x, t), SameEvent
  PROVE  /\ Pending(x)' => Pending(x)
         /\ TreeTaken(x)' => TreeTaken(x) \/ (ev.at = "worktree" /\ ev.event.run = x /\ ev'.at = "idle")
         /\ Ended(x) => Ended(x)'
         /\ Open' <=> Open
<1>0. CoreInv /\ TypeInv /\ Grows /\ StagesGo /\ x \in DOMAIN runs /\ x \in Run
  BY SceneFacts
<1>1. /\ \A n \in DOMAIN log : IsEvent(n, "worktree", x)' <=> IsEvent(n, "worktree", x)
      /\ \A n \in DOMAIN log : IsEvent(n, "completed", x)' <=> IsEvent(n, "completed", x)
      /\ DOMAIN log = 1..Len(log) /\ Len(log) \in Nat
  <2>1. \A n \in DOMAIN log : n \in DOMAIN log' /\ log'[n] = log[n]
    BY <1>0 DEF Grows
  <2>. QED BY <1>0, <2>1, EventStays DEF IsEvent
<1>2. sub' = sub /\ sub.last \in Nat /\ sub.last <= Len(log)
  BY <1>0 DEF SameEvent, TypeInv, SubRecord
<1>3. Handling(x)' => Handling(x)
  BY DEF Handling, SameEvent
<1>4. ASSUME NEW n \in DOMAIN log', n > sub.last, log'[n].run = x
      PROVE  Pending(x)
  <2>1. CASE n \in DOMAIN log
    BY <1>0, <1>4, <2>1 DEF Pending, Grows
  <2>2. CASE n \notin DOMAIN log
    BY <1>0, <1>4, <2>2 DEF Pending, StagesGo
  <2>. QED BY <2>1, <2>2
<1>5. Pending(x)' => Pending(x)
  <2>1. runs'[x].stage # "done" => Pending(x)
    BY <1>0 DEF Pending, StagesGo
  <2>2. Handling(x) => Pending(x)
    BY DEF Pending
  <2>. QED BY <1>2, <1>3, <1>4, <2>1, <2>2 DEF Pending
<1>6. (\E n \in 1..sub'.last : IsEvent(n, "worktree", x)') <=> (\E n \in 1..sub.last : IsEvent(n, "worktree", x))
  <2>1. \A n \in 1..sub.last : n \in DOMAIN log
    BY <1>1, <1>2
  <2>. QED BY <1>1, <1>2, <2>1
<1>7. TreeTaken(x)' => TreeTaken(x) \/ (ev.at = "worktree" /\ ev.event.run = x /\ ev'.at = "idle")
  BY <1>6 DEF TreeTaken, SameEvent
<1>8. Ended(x) => Ended(x)'
  <2>1. DOMAIN log \subseteq DOMAIN log' /\ (Open' <=> Open)
    BY <1>0, <1>2 DEF Grows, Open
  <2>. QED BY <1>1, <1>2, <2>1 DEF Ended
<1>. QED BY <1>2, <1>5, <1>7, <1>8 DEF Open

\* Neither the stream, the store nor the message changes.
LEMMA OnlyRuns ==
  ASSUME NEW x, NEW t, Scene(x, t), UNCHANGED << store, old, sub, ev >>,
         \A r \in DOMAIN runs' : runs'[r].from = t => r \in DOMAIN runs \/ Joins(r, x, t),
         Linking(x)' => sm' = sm /\ NoneNew(t),
         Replying(t)' => Replying(t) /\ sm'.snap = sm.snap
  PROVE  PlaceOf(x, t)'
<1>0. /\ CoreInv /\ TypeInv /\ Grows /\ StagesGo /\ x \in DOMAIN runs /\ PlaceOf(x, t)
      /\ \A r \in DOMAIN runs : runs'[r].stage # "done" => runs[r].stage # "done"
  BY SceneFacts DEF Scene, StagesGo
<1>1. SameEvent
  BY DEF SameEvent
<1>2. /\ Pending(x)' => Pending(x)
      /\ TreeTaken(x)' => TreeTaken(x) \/ (ev.at = "worktree" /\ ev.event.run = x /\ ev'.at = "idle")
      /\ Ended(x) => Ended(x)'
      /\ Open' <=> Open
  BY <1>1, StreamKept
<1>3. TreeTaken(x)' => TreeTaken(x)
  BY <1>2 DEF TreeTaken
<1>4. (Due(x)' => Due(x)) /\ (Busy(x)' => Busy(x))
  <2>1. Due(x)' => Due(x)
    BY <1>2, <1>3 DEF Due
  <2>2. Linking(x)' => Linking(x)
    BY DEF Linking
  <2>3. runs'[x].stage # "done" => runs[x].stage # "done"
    BY <1>0
  <2>. QED BY <1>2, <2>1, <2>2, <2>3 DEF Busy
<1>5. Still(store.jobs[x], store.threads[t], x, t)
  BY <1>0, <1>2, <1>4 DEF Still
<1>. QED BY <1>0, <1>5, OtherRows

LEMMA DaemonPlace ==
  ASSUME NEW x, NEW t, Scene(x, t), Daemon
  PROVE  PlaceOf(x, t)'
<1>0. TypeInv /\ t # 0
  BY SceneFacts
<1>1. UNCHANGED << store, old, sub, ev, sm >>
  BY DEF Daemon, CronFires, SkipRun, MakeTree, AnnounceSession, Complete
<1>2. NoneNew(t)
  <2>0. SUFFICES ASSUME NEW r \in DOMAIN runs', runs'[r].from = t
                 PROVE  r \in DOMAIN runs
    BY DEF NoneNew
  <2>1. CASE CronStep
    BY <1>0, <2>0, <2>1 DEF CronStep, Begins, NewRun
  <2>2. CASE \E q \in DOMAIN runs :
               MakeTreeStep(q) \/ SessionStep(q) \/ CompleteStep(q) \/ SkipStep(q)
    BY <2>2 DEF MakeTreeStep, SessionStep, CompleteStep, SkipStep, StageSet
  <2>. QED BY <1>0, <2>1, <2>2, DaemonEffect DEF Daemon
<1>. QED BY <1>1, <1>2, OnlyRuns DEF Linking, Replying, NoneNew

LEMMA SubmitPlace ==
  ASSUME NEW x, NEW t, Scene(x, t), Submit
  PROVE  PlaceOf(x, t)'
<1>0. /\ CoreInv /\ TypeInv /\ Grows /\ x \in DOMAIN runs /\ t # 0
      /\ \A y \in DOMAIN runs' : RootOf(y, t)' => y = x
      /\ PlaceAs(store.jobs[x], store.threads[t], x, t)
  BY SceneFacts
<1>1. UNCHANGED << store, old, sub, ev >> /\ sm.at = "submit"
  BY DEF Submit
<1>2. PICK n : n = Len(runs) + 1
  OBVIOUS
<1>3. SmNext("link", n) /\ (RootStep \/ ReplyStep)
  BY <1>0, <1>2, MessageEffect, SubmitEffect DEF CoreInv
<1>4. DOMAIN runs' = DOMAIN runs \cup {n} /\ n \notin DOMAIN runs
  BY <1>2, <1>3 DEF RootStep, ReplyStep, Begins
<1>5. ~Linking(x)'
  BY <1>0, <1>3, <1>4 DEF Linking, SmNext
<1>6. Replying(t)' => Replying(t) /\ sm'.snap = sm.snap
  BY <1>1, <1>3 DEF Replying, SmNext
<1>7. CASE RootStep
  <2>1. runs'[n].resumes = 0 /\ runs'[n].from = sm.msg.ts
    BY <1>2, <1>7 DEF RootStep, Begins, NewRun
  <2>2. runs'[n].from # t
    BY <1>0, <1>4, <2>1 DEF RootOf, Root
  <2>. QED BY <1>1, <1>4, <1>5, <1>6, <2>2, OnlyRuns
<1>8. CASE ReplyStep
  <2>1. /\ runs'[n].from = sm.msg.thread /\ runs'[n].resumes = sm.snap.session
        /\ runs'[n].folder = Folder(sm.snap) /\ runs'[n].tree = FALSE /\ sm.msg.thread # 0
    BY <1>2, <1>8 DEF ReplyStep, Begins, NewRun
  <2>2. CASE sm.msg.thread # t
    BY <1>1, <1>4, <1>5, <1>6, <2>1, <2>2, OnlyRuns
  <2>3. CASE sm.msg.thread = t
    <3>1. Replying(t) /\ Sound(sm.snap, x, t) /\ Placed(sm.snap, x)
      BY <1>0, <1>1, <2>3 DEF Replying, PlaceAs, SnapSound
    <3>2. Routable(sm.snap)
      BY <1>0, <1>1, <2>1 DEF CoreInv, SmInv
    <3>3. Joins(n, x, t)
      BY <2>1, <3>1, <3>2 DEF Joins, Routable, Sound, Placed, Cwd
    <3>. QED BY <1>1, <1>4, <1>5, <1>6, <3>3, OnlyRuns
  <2>. QED BY <2>2, <2>3
<1>. QED BY <1>3, <1>7, <1>8

\* Neither the runs nor the store changes.
LEMMA OnlyStream ==
  ASSUME NEW x, NEW t, Scene(x, t), UNCHANGED << daemon, store, old >>, sm' = sm \/ sm' = Free,
         Open' /\ Pending(x)' => Busy(x),
         Due(x)' => Due(x),
         Ended(x) => Ended(x)'
  PROVE  PlaceOf(x, t)'
<1>0. CoreInv /\ Grows /\ x \in DOMAIN runs /\ t # 0 /\ PlaceOf(x, t)
  BY SceneFacts DEF Scene
<1>1. runs' = runs /\ NoneNew(t)
  BY DEF daemon, NoneNew
<1>2. Linking(x)' => sm' = sm /\ Linking(x)
  BY IdleFree DEF Linking
<1>3. Busy(x)' => Busy(x)
  <2>1. runs'[x].stage # "done" => Busy(x)
    BY <1>1 DEF Busy
  <2>2. Linking(x)' => Busy(x)
    BY <1>2 DEF Busy
  <2>. QED BY <2>1, <2>2 DEF Busy
<1>4. Replying(t)' => Replying(t) /\ sm'.snap = sm.snap
  BY IdleFree DEF Replying
<1>5. Still(store.jobs[x], store.threads[t], x, t)
  BY <1>0, <1>1, <1>3, <1>4 DEF Still, NoneNew
<1>. QED BY <1>0, <1>1, <1>2, <1>5, OtherRows

\* The stream is cut, goes over what was seen, or is opened again.
LEMMA CutPlace ==
  ASSUME NEW x, NEW t, Scene(x, t), Disconnect \/ Skip \/ Connect
  PROVE  PlaceOf(x, t)'
<1>0. /\ CoreInv /\ TypeInv /\ SubInv /\ x \in DOMAIN runs /\ DOMAIN log = 1..Len(log)
      /\ sub.last \in Nat /\ ~sub.missed /\ ~sub'.missed
  BY SceneFacts DEF Scene, CoreInv, TypeInv, SubRecord
<1>1. UNCHANGED << daemon, store, old >> /\ sm' = sm /\ ev' = ev
  BY DEF Disconnect, Skip, Connect
<1>2. sub'.last = sub.last
  <2>1. CASE Connect
    BY <1>0, <2>1, ConnectEffect DEF Connect
  <2>. QED BY <1>0, <2>1, DisconnectEffect, SkipEffect
<1>3. (Pending(x)' <=> Pending(x)) /\ (TreeTaken(x)' <=> TreeTaken(x))
  BY <1>1, <1>2 DEF Pending, Handling, TreeTaken, IsEvent, daemon
<1>4. CASE Open' => Open
  <2>1. Open' /\ Pending(x)' => Busy(x)
    BY <1>3, <1>4 DEF Busy
  <2>2. Due(x)' => Due(x)
    BY <1>3, <1>4 DEF Due
  <2>3. Ended(x) => Ended(x)'
    BY <1>1, <1>2, <1>4 DEF Ended, IsEvent, daemon
  <2>. QED BY <1>1, <2>1, <2>2, <2>3, OnlyStream
<1>5. CASE Open' /\ ~Open
  <2>1. sub.last = 0 /\ ~sub.up
    BY <1>5 DEF Open
  <2>2. Connect
    BY <1>0, <1>2, <1>5, <2>1, DisconnectEffect, SkipEffect DEF Open
  <2>3. PICK p \in ReplayFrom(sub) :
          sub' = [sub EXCEPT !.up = TRUE, !.pos = p,
                             !.missed = @ \/ \E e \in 1..p : e \notin sub.seen,
                             !.again = @ \/ (sub.restarted /\ sub.last # 0)]
    BY <2>2 DEF Connect
  <2>4. sub.missed \/ (\E e \in 1..p : e \notin sub.seen) => sub'.missed
    BY <1>0, <2>3 DEF TypeInv, SubRecord
  <2>5. sub.seen = {} /\ p = Len(log)
    BY <1>0, <2>1 DEF SubInv, ReplayFrom
  <2>6. Len(log) = 0
    BY <1>0, <2>4, <2>5 DEF TypeInv
  <2>7. DOMAIN log = {} /\ ev.at = "idle"
    <3>1. ev.at = "idle"
      BY <2>2, IdleFree DEF Connect
    <3>2. \A n \in DOMAIN log : FALSE
      BY <1>0, <2>6
    <3>. QED BY <3>1, <3>2
  <2>8. Pending(x) => Busy(x)
    BY <2>7 DEF Pending, Handling, Busy
  <2>9. ~TreeTaken(x) /\ ~Ended(x)
    BY <2>7 DEF TreeTaken, Ended, IsEvent
  <2>10. ~Due(x)'
    BY <1>3, <2>9 DEF Due
  <2>11. Open' /\ Pending(x)' => Busy(x)
    BY <1>3, <2>8
  <2>. QED BY <1>1, <2>9, <2>10, <2>11, OnlyStream
<1>. QED BY <1>4, <1>5

LEMMA ReceivePlace ==
  ASSUME NEW x, NEW t, Scene(x, t), Receive
  PROVE  PlaceOf(x, t)'
<1>0. /\ CoreInv /\ TypeInv /\ LogInv /\ SubInv /\ x \in DOMAIN runs /\ DOMAIN log = 1..Len(log)
      /\ sub.last \in Nat /\ sub.pos \in Nat /\ ~sub.missed /\ Len(log) \in Nat
  BY SceneFacts DEF Scene, CoreInv, TypeInv, SubRecord
<1>1. UNCHANGED << daemon, store, old >> /\ sm' = sm
  BY DEF Receive
<1>2. PICK n \in DOMAIN log :
        /\ n = sub.pos + 1 /\ n \notin sub.seen /\ sub.up /\ ev.at = "idle" /\ sub'.up
        /\ sub'.last = (IF n > sub.last THEN n ELSE sub.last)
        /\ ev'.event = log[n] /\ ev'.at = log[n].kind
  BY <1>0, ReceiveEffect
<1>3. n = sub.last + 1 /\ sub'.last = n
  BY <1>0, <1>2 DEF SubInv
<1>4. Open /\ Open'
  BY <1>2 DEF Open
<1>5. Pending(x)' => Pending(x)
  <2>1. Handling(x)' => Pending(x)
    BY <1>0, <1>2, <1>3 DEF Handling, Pending
  <2>2. ASSUME NEW m \in DOMAIN log, m > sub'.last, log[m].run = x
        PROVE  Pending(x)
    BY <1>0, <1>3, <2>2 DEF Pending
  <2>3. runs' = runs /\ log' = log
    BY <1>1 DEF daemon
  <2>4. runs[x].stage # "done" => Pending(x)
    BY DEF Pending
  <2>. QED BY <2>1, <2>2, <2>3, <2>4 DEF Pending
<1>6. TreeTaken(x)' => TreeTaken(x)
  <2>1. ASSUME NEW k \in 1..n, IsEvent(k, "worktree", x)', k > sub.last
        PROVE  ev'.at = "worktree" /\ ev'.event.run = x
    <3>1. k = n
      BY <1>0, <1>3, <2>1
    <3>. QED BY <1>1, <1>2, <2>1, <3>1 DEF IsEvent, daemon
  <2>2. ASSUME NEW k \in 1..n, IsEvent(k, "worktree", x)', k <= sub.last
        PROVE  TreeTaken(x)
    <3>1. k \in 1..sub.last /\ IsEvent(k, "worktree", x)
      BY <1>0, <1>1, <2>2 DEF IsEvent, daemon
    <3>. QED BY <1>2, <3>1 DEF TreeTaken
  <2>3. \A k \in 1..n : k > sub.last \/ k <= sub.last
    BY <1>0
  <2>4. ASSUME TreeTaken(x)'
        PROVE  TreeTaken(x)
    <3>1. PICK k \in 1..n : IsEvent(k, "worktree", x)'
      BY <1>3, <2>4 DEF TreeTaken
    <3>. QED BY <2>1, <2>2, <2>3, <2>4, <3>1 DEF TreeTaken
  <2>. QED BY <2>4
<1>7. Open' /\ Pending(x)' => Busy(x)
  BY <1>4, <1>5 DEF Busy
<1>8. Due(x)' => Due(x)
  BY <1>4, <1>5, <1>6 DEF Due
<1>9. Ended(x) => Ended(x)'
  <2>1. \A k \in DOMAIN log : k <= sub.last => k <= sub'.last
    BY <1>0, <1>3
  <2>2. log' = log
    BY <1>1 DEF daemon
  <2>. QED BY <1>4, <2>1, <2>2 DEF Ended, IsEvent
<1>. QED BY <1>1, <1>7, <1>8, <1>9, OnlyStream

LEMMA RestartPlace ==
  ASSUME NEW x, NEW t, Scene(x, t), Restart
  PROVE  PlaceOf(x, t)'
<1>1. UNCHANGED << daemon, store, old >> /\ sm' = Free
  BY DEF Restart
<1>2. ~Open'
  <2>1. TypeInv
    BY SceneFacts
  <2>. QED BY <2>1, RestartEffect DEF Open
<1>3. ~Due(x)' /\ ~(Open' /\ Pending(x)')
  BY <1>2 DEF Due
<1>4. Ended(x) => Ended(x)'
  BY <1>1, <1>2 DEF Ended, IsEvent, daemon
<1>. QED BY <1>1, <1>3, <1>4, OnlyStream

\* Nothing is written and nothing is received.
LEMMA UnwrittenPlace ==
  ASSUME NEW x, NEW t, Scene(x, t), UNCHANGED << daemon, store, old >>, sm' = sm \/ sm' = Free,
         SameEvent, ev' = ev \/ ev.at # "worktree"
  PROVE  PlaceOf(x, t)'
<1>1. /\ Pending(x)' => Pending(x)
      /\ TreeTaken(x)' => TreeTaken(x) \/ (ev.at = "worktree" /\ ev.event.run = x /\ ev'.at = "idle")
      /\ Ended(x) => Ended(x)'
      /\ Open' <=> Open
  BY StreamKept
<1>2. TreeTaken(x)' => TreeTaken(x)
  BY <1>1
<1>3. Open' /\ Pending(x)' => Busy(x)
  BY <1>1 DEF Busy
<1>4. Due(x)' => Due(x)
  BY <1>1, <1>2 DEF Due
<1>. QED BY <1>1, <1>3, <1>4, OnlyStream

LEMMA PostPlace ==
  ASSUME NEW x, NEW t, Scene(x, t), Post \/ PostFails \/ SubmitFails
  PROVE  PlaceOf(x, t)'
<1>1. TypeInv
  BY SceneFacts
<1>2. CASE Post
  <2>1. EvNext("link")
    BY <1>1, <1>2, HandlerEffect
  <2>2. sub' = sub /\ ev.at = "post" /\ sm' = sm /\ UNCHANGED << daemon, store, old >>
    BY <1>2 DEF Post, EventStep
  <2>3. SameEvent
    BY <2>1, <2>2 DEF SameEvent, EvNext
  <2>. QED BY <2>2, <2>3, UnwrittenPlace
<1>3. CASE PostFails
  BY <1>3, UnwrittenPlace, IdleFree DEF PostFails, SameEvent
<1>4. CASE SubmitFails
  BY <1>4, UnwrittenPlace, IdleFree DEF SubmitFails, SameEvent
<1>. QED BY <1>2, <1>3, <1>4

\* A reply is routed by the snapshot of its thread.
LEMMA MessagePlace ==
  ASSUME NEW x, NEW t, Scene(x, t), HandleMessage \/ HandleMention
  PROVE  PlaceOf(x, t)'
<1>0. /\ CoreInv /\ TypeInv /\ RunInv /\ OwnInv /\ SmInv /\ Grows /\ x \in DOMAIN runs /\ t # 0
      /\ PlaceAs(store.jobs[x], store.threads[t], x, t) /\ PlaceOf(x, t)
  BY SceneFacts DEF CoreInv, Scene
<1>1. UNCHANGED << daemon, store, old, sub, ev >>
  BY DEF HandleMessage, HandleMention
<1>2. PICK m : Taken(m)
  BY <1>0, TakenEffect
<1>3. \/ sm' = Free
      \/ /\ sm'.at = "submit" /\ sm'.msg = m
         /\ m.thread # 0 => sm'.snap = store.threads[m.thread] /\ Routable(sm'.snap)
  BY <1>0, <1>2, TakeEffect DEF Taken
<1>4. CASE sm' = Free
  BY <1>1, <1>4, UnwrittenPlace DEF SameEvent
<1>5. CASE /\ sm'.at = "submit" /\ sm'.msg = m
           /\ m.thread # 0 => sm'.snap = store.threads[m.thread] /\ Routable(sm'.snap)
  <2>1. SameEvent
    BY <1>1 DEF SameEvent
  <2>2. /\ Pending(x)' => Pending(x)
        /\ TreeTaken(x)' => TreeTaken(x) \/ (ev.at = "worktree" /\ ev.event.run = x /\ ev'.at = "idle")
        /\ Ended(x) => Ended(x)'
        /\ Open' <=> Open
    BY <2>1, StreamKept
  <2>3. TreeTaken(x)' => TreeTaken(x)
    BY <1>1, <2>2 DEF TreeTaken
  <2>4. Due(x)' => Due(x)
    BY <2>2, <2>3 DEF Due
  <2>5. ~Linking(x)'
    BY <1>5 DEF Linking
  <2>6. runs' = runs /\ NoneNew(t)
    BY <1>1 DEF daemon, NoneNew
  <2>7. Busy(x)' => Busy(x)
    BY <2>2, <2>5, <2>6 DEF Busy
  <2>8. Replying(t)' => Answers(store.threads[t], x, t)
    <3>1. SUFFICES ASSUME Replying(t)' PROVE Answers(store.threads[t], x, t)
      OBVIOUS
    <3>2. m.thread = t
      BY <1>5, <3>1 DEF Replying
    <3>3. sm'.snap = store.threads[t] /\ Routable(sm'.snap)
      BY <1>0, <1>5, <3>2
    <3>4. PICK T : T = store.threads[t]
      OBVIOUS
    <3>5. T.session # 0 /\ sm'.snap = T
      BY <3>3, <3>4 DEF Routable
    <3>6. Sound(T, x, t) /\ Placed(T, x)
      BY <1>0, <3>4, <3>5 DEF PlaceAs, Known, Resumable
    <3>. QED BY <3>4, <3>5, <3>6 DEF Answers
  <2>9. Still(store.jobs[x], store.threads[t], x, t)
    BY <1>0, <1>1, <2>2, <2>4, <2>6, <2>7, <2>8 DEF Still, NoneNew
  <2>. QED BY <1>0, <1>1, <2>5, <2>9, OtherRows
<1>. QED BY <1>3, <1>4, <1>5

\* The rows of another job and another thread are written.
LEMMA OtherWrite ==
  ASSUME NEW x, NEW t, Scene(x, t), UNCHANGED daemon, old' \subseteq old,
         store'.jobs[x] = store.jobs[x], store'.threads[t] = store.threads[t],
         SameEvent, ev.at = "worktree" /\ ev.event.run = x => ev' = ev,
         Linking(x)' => sm' = sm, Replying(t)' => sm' = sm
  PROVE  PlaceOf(x, t)'
<1>0. CoreInv /\ TypeInv /\ Grows /\ x \in DOMAIN runs /\ t # 0 /\ PlaceOf(x, t)
  BY SceneFacts DEF Scene
<1>1. /\ Pending(x)' => Pending(x)
      /\ TreeTaken(x)' => TreeTaken(x) \/ (ev.at = "worktree" /\ ev.event.run = x /\ ev'.at = "idle")
      /\ Ended(x) => Ended(x)'
      /\ Open' <=> Open
  BY StreamKept
<1>2. TreeTaken(x)' => TreeTaken(x)
  BY <1>1
<1>3. Due(x)' => Due(x)
  BY <1>1, <1>2 DEF Due
<1>4. runs' = runs /\ NoneNew(t)
  BY DEF daemon, NoneNew
<1>5. Linking(x)' => Linking(x)
  BY DEF Linking
<1>6. Busy(x)' => Busy(x)
  <2>1. runs'[x].stage # "done" => Busy(x)
    BY <1>4 DEF Busy
  <2>. QED BY <1>1, <1>5, <2>1 DEF Busy
<1>7. Replying(t)' => Replying(t) /\ sm'.snap = sm.snap
  BY DEF Replying
<1>8. Still(store.jobs[x], store.threads[t], x, t)
  BY <1>0, <1>1, <1>3, <1>4, <1>6, <1>7 DEF Still, NoneNew
<1>. QED BY <1>0, <1>4, <1>8, OtherRows

LEMMA QuietElsewhere ==
  ASSUME NEW x, NEW t, Scene(x, t), NEW j \in Job, j # x, Quiet(j)
  PROVE  /\ old' \subseteq old /\ store'.jobs[x] = store.jobs[x]
         /\ store'.threads[t] = store.threads[t]
<1>1. x \in Job /\ t \in Ts /\ store.jobs[j].thread # t
  BY SceneFacts, SoleOwner DEF Scene
<1>. QED BY <1>1 DEF Quiet, Rest

LEMMA LinkedElsewhere ==
  ASSUME NEW x, NEW t, Scene(x, t), NEW r, NEW j \in Job, NEW u \in Ts, j # x, u # t, Linked(r, j, u)
  PROVE  /\ old' \subseteq old /\ store'.jobs[x] = store.jobs[x]
         /\ store'.threads[t] = store.threads[t]
BY SceneFacts DEF Linked, Rest

\* The handler of an event of another job.
LEMMA EventElsewhere ==
  ASSUME NEW x, NEW t, Scene(x, t),
         \/ (HandleSession \/ HandleWorktree) /\ runs[ev.event.run].job # x
         \/ (CompletedFolder \/ CompletedSession \/ LinkPosted) /\ Parent # x
  PROVE  PlaceOf(x, t)'
<1>0. /\ CoreInv /\ TypeInv /\ LogInv /\ SubInv /\ t \in Ts /\ t # 0 /\ t <= MaxMessages
      /\ runs[x].job = x
  BY SceneFacts, SoleFacts DEF Scene, CoreInv
<1>1. ev.at # "idle" /\ sub' = sub /\ sm' = sm /\ UNCHANGED daemon
  BY IdleFree DEF HandleSession, HandleWorktree, CompletedFolder, CompletedSession, LinkPosted, EventStep
<1>2. ev.event.run \in Run /\ ev.event.run \in DOMAIN runs /\ runs[ev.event.run].job \in Job /\ Parent \in Job
  BY <1>0, <1>1, EvFacts
<1>3. SameEvent /\ (ev.at = "worktree" /\ ev.event.run = x => ev' = ev)
  <2>1. CASE HandleSession \/ HandleWorktree
    BY <1>0, <1>1, <2>1, IdleFree DEF HandleSession, HandleWorktree, SameEvent, CompletedFolder,
       CompletedSession, LinkPosted
  <2>2. CASE CompletedFolder
    BY <1>0, <1>1, <2>2, HandlerEffect DEF SameEvent, EvNext, CompletedFolder
  <2>3. CASE CompletedSession
    BY <1>0, <1>1, <2>3, HandlerEffect, IdleFree DEF SameEvent, EvNext, CompletedSession
  <2>4. CASE LinkPosted
    BY <1>1, <2>4, IdleFree DEF SameEvent, LinkPosted
  <2>. QED BY <2>1, <2>2, <2>3, <2>4
<1>4. old' \subseteq old /\ store'.jobs[x] = store.jobs[x] /\ store'.threads[t] = store.threads[t]
  <2>1. CASE (HandleSession \/ HandleWorktree) /\ runs[ev.event.run].job # x
    BY <1>0, <1>2, <2>1, EventStoreEffect, QuietElsewhere
  <2>2. CASE (CompletedFolder \/ CompletedSession) /\ Parent # x
    BY <1>0, <1>2, <2>2, EventStoreEffect, QuietElsewhere
  <2>3. CASE LinkPosted /\ Parent # x
    <3>1. PICK u : u = PostTs(ev.event.run)
      OBVIOUS
    <3>2. u \in Ts /\ u # t
      BY <1>0, <1>2, <3>1, Sizes DEF PostTs, Ts, Run
    <3>. QED BY <1>0, <1>2, <2>3, <3>1, <3>2, EventStoreEffect, LinkedElsewhere
  <2>. QED BY <2>1, <2>2, <2>3
<1>. QED BY <1>1, <1>3, <1>4, OtherWrite

\* A run or a reply of another thread is linked.
LEMMA LinkElsewhere ==
  ASSUME NEW x, NEW t, Scene(x, t),
         \/ LinkFolder /\ sm.run # x
         \/ LinkSubmitted /\ sm.msg.thread = 0 /\ sm.run # x
         \/ LinkSubmitted /\ sm.msg.thread \notin {0, t}
  PROVE  PlaceOf(x, t)'
<1>0. /\ CoreInv /\ TypeInv /\ RunInv /\ SmInv /\ t \in Ts /\ t # 0 /\ x \in Job
      /\ \A u \in Ts : Owns(x, u) => u = t
      /\ \A y : RootOf(y, t) => y = x
  BY SceneFacts, SoleOwner DEF Scene, CoreInv
<1>1. sub' = sub /\ ev' = ev /\ UNCHANGED daemon /\ SameEvent /\ sm.at \in {"link", "meta"}
  BY DEF LinkFolder, LinkSubmitted, SameEvent
<1>2. sm.run \in DOMAIN runs /\ runs[sm.run].job \in Job /\ sm.msg.ts \in Ts
  BY <1>0, <1>1, SmFacts
<1>2a. sm.run # x => runs[sm.run].job # x
  BY <1>0, <1>2, SoleJob DEF Scene
<1>3. (Linking(x)' => sm' = sm) /\ (Replying(t)' => sm' = sm)
  <2>1. CASE sm' = Free
    BY <1>0, <2>1, IdleFree DEF Linking, Replying
  <2>2. CASE LinkSubmitted /\ sm.msg.thread = 0 /\ sm.run # x /\ sm' # Free
    BY <1>0, <2>2, MessageEffect DEF Linking, Replying, SmNext
  <2>. QED BY <2>1, <2>2 DEF LinkFolder, LinkSubmitted
<1>4. old' \subseteq old /\ store'.jobs[x] = store.jobs[x] /\ store'.threads[t] = store.threads[t]
  <2>1. CASE LinkFolder /\ sm.run # x
    BY <1>0, <1>2, <1>2a, <2>1, MessageStoreEffect, QuietElsewhere
  <2>2. CASE LinkSubmitted /\ sm.msg.thread = 0 /\ sm.run # x
    <3>1. RootOf(sm.run, sm.msg.ts)
      BY <1>0, <2>2 DEF SmInv, LinkSubmitted
    <3>2. sm.msg.ts # t
      BY <1>0, <2>2, <3>1
    <3>. QED BY <1>0, <1>2, <1>2a, <2>2, <3>2, MessageStoreEffect, LinkedElsewhere
  <2>3. CASE LinkSubmitted /\ sm.msg.thread \notin {0, t}
    <3>1. sm.at = "link" /\ sm.msg.thread \in Ts /\ sm.snap.job \in Job
      BY <1>0, <1>1, <2>3, SmFacts DEF LinkSubmitted
    <3>2. Owns(sm.snap.job, sm.msg.thread)
      BY <1>0, <2>3, <3>1 DEF SmInv
    <3>3. sm.snap.job # x
      BY <1>0, <2>3, <3>1, <3>2
    <3>. QED BY <1>0, <2>3, <3>1, <3>3, MessageStoreEffect, LinkedElsewhere
  <2>. QED BY <2>1, <2>2, <2>3
<1>. QED BY <1>1, <1>3, <1>4, OtherWrite

-----------------------------------------------------------------------------
(* The steps that write the rows of the thread.                             *)

\* The rows of the job and of the thread become J and T.
LEMMA NewRows ==
  ASSUME CoreInv, NEW x \in DOMAIN runs, NEW t, NEW J, NEW T,
         J = store'.jobs[x], T = store'.threads[t],
         PlaceAs(J, T, x, t), Still(J, T, x, t), LinkSafe(J, T, x, t)'
  PROVE  PlaceOf(x, t)'
<1>1. PlaceAs(J, T, x, t)'
  BY PlaceKept
<1>. QED BY <1>1
         DEF PlaceOf, PlaceAs, LinkSafe, ThreadRuns, Sound, SnapSound, Known, Located, Guarded,
             Latest, Placed, Resumable

LEMMA OwnWrite ==
  ASSUME NEW x, NEW t, Scene(x, t), NEW J, NEW T,
         J = store'.jobs[x], T = store'.threads[t],
         UNCHANGED daemon, old' \subseteq old, SameEvent,
         (ev.at = "worktree" /\ ev.event.run = x /\ ev' # ev /\ Due(x)')
           => Folder(J) = Cwd(x) /\ Placed(T, x),
         sm' = sm \/ ~Replying(t)', Linking(x)' => Linking(x),
         Sound(J, x, t), Sound(T, x, t), Known(J, T, x, t), Located(J, T, x), Latest(J, T, x, t),
         LinkSafe(J, T, x, t)'
  PROVE  PlaceOf(x, t)'
<1>0. /\ CoreInv /\ TypeInv /\ Grows /\ x \in DOMAIN runs
      /\ PlaceAs(store.jobs[x], store.threads[t], x, t)
  BY SceneFacts
<1>1. /\ Pending(x)' => Pending(x)
      /\ TreeTaken(x)' => TreeTaken(x) \/ (ev.at = "worktree" /\ ev.event.run = x /\ ev'.at = "idle")
      /\ Ended(x) => Ended(x)'
      /\ Open' <=> Open
  BY StreamKept
<1>2. Due(x)' => Due(x) \/ (Folder(J) = Cwd(x) /\ Placed(T, x))
  <2>1. ASSUME Due(x)', ~Due(x)
        PROVE  ev.at = "worktree" /\ ev.event.run = x /\ ev'.at = "idle"
    BY <1>1, <2>1 DEF Due
  <2>. QED BY <2>1
<1>3. runs' = runs /\ NoneNew(t)
  BY DEF daemon, NoneNew
<1>4. Busy(x)' => Busy(x)
  <2>1. runs'[x].stage # "done" => Busy(x)
    BY <1>3 DEF Busy
  <2>. QED BY <1>1, <2>1 DEF Busy
<1>5. Replying(t)' => Replying(t) /\ sm'.snap = sm.snap
  BY DEF Replying
<1>6. Still(J, T, x, t)
  BY <1>0, <1>1, <1>2, <1>3, <1>4, <1>5 DEF Still, NoneNew
<1>7. PlaceAs(J, T, x, t)
  BY <1>0 DEF PlaceAs
<1>. QED BY <1>0, <1>6, <1>7, NewRows

\* The event that is handled, when it is written to the job of the thread.
LEMMA ParentThread ==
  ASSUME NEW x, NEW t, Scene(x, t), ev.at # "idle", Parent = x
  PROVE  LET q == ev.event.run IN
         /\ q \in DOMAIN runs /\ q \in Run /\ runs[q].from = t
         /\ q # x => runs[q].resumes # 0 /\ ~runs[q].tree
<1>0. /\ CoreInv /\ TypeInv /\ LogInv /\ SubInv /\ RunInv /\ OwnInv /\ x # Cron /\ x # 0 /\ t # 0
      /\ runs[x].from = t
      /\ \A u \in Ts : Owns(x, u) => u = t
      /\ \A y : RootOf(y, t) => y = x
  BY SceneFacts, SoleFacts, SoleOwner DEF Scene, CoreInv
<1>1. PICK q : q = ev.event.run
  OBVIOUS
<1>2. q \in DOMAIN runs /\ q \in Run /\ runs[q] \in RunRecord
  BY <1>0, <1>1, EvFacts
<1>3. runs[q].from = t
  <2>1. Maps(q, ev.mapping)
    BY <1>0, <1>1 DEF OwnInv, EvOwned
  <2>2. CASE ev.mapping.job # 0
    <3>1. ev.mapping.job = x
      BY <2>2 DEF Parent
    <3>2. Owns(x, runs[q].from) /\ runs[q].from # 0
      BY <1>0, <2>1, <2>2, <3>1 DEF Maps
    <3>3. runs[q].from \in Ts
      BY <1>2, <3>2 DEF RunRecord
    <3>. QED BY <1>0, <3>2, <3>3
  <2>3. CASE ev.mapping.job = 0
    <3>1. runs[q].job = x
      BY <1>1, <2>3 DEF Parent
    <3>2. q = x
      BY <1>0, <1>2, <3>1, SoleJob DEF Scene
    <3>. QED BY <1>0, <3>2
  <2>. QED BY <2>2, <2>3
<1>4. q # x => runs[q].resumes # 0 /\ ~runs[q].tree
  BY <1>0, <1>2, <1>3 DEF RunInv, RootOf, Root
<1>. QED BY <1>1, <1>2, <1>3, <1>4

\* What is handled is the last that was received, and what it says is so.
LEMMA HandledEvent ==
  ASSUME NEW x, NEW t, Scene(x, t), ev.at # "idle"
  PROVE  /\ sub.last \in DOMAIN log /\ sub.last # 0 /\ log[sub.last] = ev.event
         /\ EventSound(sub.last) /\ Open /\ ev.event.kind \in {"worktree", "session", "completed"}
         /\ ev.at \in {"set session", "post", "link"} => ev.event.kind = "completed"
         /\ ev.at \in {"worktree", "session", "completed"} => ev.event.kind = ev.at
         /\ ev.event.kind = "completed" => Ended(ev.event.run)
<1>0. TypeInv /\ LogInv /\ SubInv /\ ~sub.missed /\ sub.last \in Nat /\ sub.last <= Len(log)
      /\ DOMAIN log = 1..Len(log) /\ Len(log) \in Nat
  BY SceneFacts DEF Scene, CoreInv, TypeInv, SubRecord
<1>1. sub.last \in DOMAIN log /\ sub.last # 0 /\ log[sub.last] = ev.event
  <2>1. sub.last # 0 /\ log[sub.last] = ev.event
    BY <1>0 DEF SubInv
  <2>2. sub.last \in 1..Len(log)
    BY <1>0, <2>1
  <2>. QED BY <1>0, <2>1, <2>2
<1>2. ev.event \in Event
  BY <1>0, EvFacts
<1>3. EventSound(sub.last)
  BY <1>0, <1>1 DEF LogInv
<1>4. ev.event.kind = "completed" => Ended(ev.event.run)
  <2>1. sub.last <= sub.last
    BY <1>0
  <2>. QED BY <1>1, <2>1 DEF Ended, IsEvent
<1>. QED BY <1>0, <1>1, <1>2, <1>3, <1>4 DEF Open, Event, SubInv

\* A run that has no worktree is in the repository.
LEMMA NoTreePlaced ==
  ASSUME NEW x, NEW t, Scene(x, t), NEW c, Sound(c, x, t), ~runs[x].tree
  PROVE  Placed(c, x)
BY SoleFacts DEF Scene, Sound, Placed, Folder

\* When the session of the root is handled its place is known.
LEMMA SessionKnown ==
  ASSUME NEW x, NEW t, Scene(x, t), ev.at \in {"session", "set session", "link"},
         ev.event.run = x, ev.event.session # 0
  PROVE  /\ runs[x].tree => Announced(x) /\ Folder(store.jobs[x]) = Cwd(x)
         /\ Placed(store.jobs[x], x) /\ Placed(store.threads[t], x)
<1>0. PlaceAs(store.jobs[x], store.threads[t], x, t) /\ x \in DOMAIN runs
  BY SceneFacts
<1>1. /\ sub.last \in DOMAIN log /\ log[sub.last] = ev.event /\ EventSound(sub.last) /\ Open
      /\ ev.event.kind \in {"session", "completed"}
  BY HandledEvent
<1>2. CASE runs[x].tree
  <2>1. PICK k \in 1..sub.last : IsEvent(k, "worktree", x)
    BY <1>1, <1>2 DEF EventSound
  <2>2. TreeTaken(x) /\ Announced(x)
    BY <2>1 DEF TreeTaken, Announced, IsEvent
  <2>3. Due(x)
    BY <1>1, <2>2 DEF Due, Pending, Handling
  <2>. QED BY <1>0, <2>2, <2>3 DEF PlaceAs, Located, Placed
<1>3. CASE ~runs[x].tree
  BY <1>0, <1>3, NoTreePlaced DEF PlaceAs
<1>. QED BY <1>2, <1>3

LEMMA RunSession == \A q \in Run : q \in (0..MaxRuns) \ {0}
BY Sizes DEF Run

\* The session of a run of the thread is written.
LEMMA SessionWrite ==
  ASSUME NEW x, NEW t, Scene(x, t), ev.at \in {"session", "set session"},
         NEW q \in Run, q = ev.event.run, q \in DOMAIN runs, runs[q].from = t, ev.event.session = q,
         SetJobSessionID(x, q), UNCHANGED daemon, sm' = sm, SameEvent
  PROVE  PlaceOf(x, t)'
<1>0. /\ TypeInv /\ store \in StoreRecord /\ x \in DOMAIN runs /\ x \in Job /\ t \in Ts /\ t # 0
      /\ PlaceAs(store.jobs[x], store.threads[t], x, t)
      /\ LinkSafe(store.jobs[x], store.threads[t], x, t)
  BY SceneFacts DEF TypeInv
<1>1. q \in (0..MaxRuns) \ {0}
  BY RunSession
<1>2. PICK J, T : J = store.jobs[x] /\ T = store.threads[t]
  OBVIOUS
<1>3. PICK J2, T2 : J2 = store'.jobs[x] /\ T2 = store'.threads[t]
  OBVIOUS
<1>4. /\ J2.thread = J.thread /\ J2.session = q /\ J2.folder = J.folder /\ J2.tree = J.tree
      /\ J.thread = t =>
           T2.job = T.job /\ T2.session = q /\ T2.folder = T.folder /\ T2.tree = T.tree
      /\ J.thread # t => T2 = T
      /\ old' \subseteq old
  <2>1. PICK u : u = store.jobs[x].thread
    OBVIOUS
  <2>2. /\ Rest(x, u)
        /\ store'.jobs[x].thread = u /\ store'.jobs[x].session = q
        /\ store'.jobs[x].folder = store.jobs[x].folder
        /\ store'.jobs[x].tree = store.jobs[x].tree
        /\ u # 0 =>
             /\ store'.threads[u].job = store.threads[u].job /\ store'.threads[u].session = q
             /\ store'.threads[u].folder = store.threads[u].folder
             /\ store'.threads[u].tree = store.threads[u].tree
    BY <1>0, <1>1, <2>1, SetSessionEffect
  <2>. QED BY <1>0, <1>2, <1>3, <2>1, <2>2 DEF Rest
<1>5. /\ PlaceAs(J, T, x, t) /\ LinkSafe(J, T, x, t)
  BY <1>0, <1>2
<1>6. Folder(J2) = Folder(J) /\ Folder(T2) = Folder(T) /\ T2.folder = T.folder /\ T2.tree = T.tree
  BY <1>4 DEF Folder
<1>7. (Placed(J2, x) <=> Placed(J, x)) /\ (Placed(T2, x) <=> Placed(T, x))
  BY <1>6 DEF Placed
<1>8. /\ runs[x].tree => Announced(x)
      /\ Placed(J, x) /\ Placed(T, x)
  <2>1. CASE q = x
    BY <1>1, <1>2, <2>1, SessionKnown
  <2>2. CASE q # x
    BY <1>5, <2>2 DEF PlaceAs, Known, Resumable
  <2>. QED BY <2>1, <2>2
<1>9. Sound(J2, x, t) /\ Sound(T2, x, t)
  <2>1. Sound(J, x, t) /\ Sound(T, x, t)
    BY <1>5 DEF PlaceAs
  <2>. QED BY <1>4, <2>1 DEF Sound
<1>10. Known(J2, T2, x, t)
  BY <1>7, <1>8 DEF Known
<1>11. Located(J2, T2, x) /\ Latest(J2, T2, x, t)
  BY <1>4, <1>5, <1>6, <1>7 DEF PlaceAs, Located, Latest
<1>12. LinkSafe(J2, T2, x, t)'
  <2>1. SUFFICES ASSUME Linking(x) PROVE LinkSafe(J2, T2, x, t)
    BY DEF LinkSafe, Linking, daemon
  <2>2. q = x /\ J.folder \in {0, Repo}
    BY <1>5, <2>1 DEF LinkSafe
  <2>3. runs[x].tree => J.tree = x
    <3>1. runs[x].tree => Folder(J) = x
      <4>1. ev.event.run = x /\ ev.event.session # 0
        BY <1>1, <2>2
      <4>2. runs[x].tree => Folder(store.jobs[x]) = Cwd(x)
        BY <4>1, SessionKnown
      <4>3. runs[x].tree => Cwd(x) = x
        BY SoleFacts DEF Scene
      <4>. QED BY <1>2, <4>2, <4>3
    <3>2. J.tree # 0 => J.tree = x
      BY <1>5 DEF PlaceAs, Sound
    <3>. QED BY <2>2, <3>1, <3>2, SoleFacts DEF Scene, Folder
  <2>. QED BY <1>4, <1>5, <2>1, <2>2, <2>3 DEF LinkSafe
<1>13. Linking(x)' => Linking(x)
  BY DEF Linking
<1>14. ev.at # "worktree"
  OBVIOUS
<1>. QED BY <1>3, <1>4, <1>9, <1>10, <1>11, <1>12, <1>13, <1>14, OwnWrite

LEMMA SessionPlace ==
  ASSUME NEW x, NEW t, Scene(x, t),
         \/ HandleSession /\ runs[ev.event.run].job = x
         \/ CompletedSession /\ Parent = x
  PROVE  PlaceOf(x, t)'
<1>0. /\ TypeInv /\ RunInv /\ t \in Ts /\ x \in Run /\ x # Cron /\ x # 0 /\ runs[x].from = t
  BY SceneFacts, SoleFacts DEF Scene, CoreInv
<1>1. ev.at \in {"session", "set session"} /\ ev.at # "idle" /\ UNCHANGED daemon /\ sm' = sm /\ sub' = sub
  BY DEF HandleSession, CompletedSession, EventStep
<1>2. SameEvent
  BY <1>0, <1>1, HandlerEffect, IdleFree DEF SameEvent, EvNext, HandleSession, CompletedSession
<1>3. PICK q : q = ev.event.run
  OBVIOUS
<1>4. /\ EventSound(sub.last) /\ log[sub.last] = ev.event /\ ev.event.kind \in {"session", "completed"}
      /\ ev.at = "session" => ev.event.kind = "session"
  BY <1>1, HandledEvent
<1>5. /\ q \in DOMAIN runs /\ ev.event.session \in {0, q}
      /\ ev.at = "session" => ev.event.session = q
  BY <1>3, <1>4 DEF EventSound
<1>6. runs[q].from = t
  <2>1. CASE Parent = x
    BY <1>1, <1>3, <2>1, ParentThread
  <2>2. CASE runs[q].job = x
    BY <1>0, <1>3, <1>5, <2>2, SoleJob DEF Scene
  <2>. QED BY <1>3, <2>1, <2>2
<1>7. CASE ev.event.session = q
  <2>1. SetJobSessionID(x, q)
    BY <1>3, <1>7 DEF HandleSession, CompletedSession
  <2>2. q \in Run
    BY <1>0, <1>5, Sizes DEF TypeInv, Run
  <2>. QED BY <1>1, <1>2, <1>3, <1>5, <1>6, <1>7, <2>1, <2>2, SessionWrite
<1>8. CASE ev.event.session # q
  <2>1. CompletedSession /\ ev.event.session = 0
    BY <1>5, <1>8 DEF HandleSession
  <2>2. UNCHANGED << store, old >>
    BY <2>1 DEF CompletedSession, SetJobSessionID
  <2>. QED BY <1>1, <1>2, <2>1, <2>2, UnwrittenPlace DEF CompletedSession
<1>. QED BY <1>7, <1>8

\* The worktree of the root is written.
LEMMA WorktreePlace ==
  ASSUME NEW x, NEW t, Scene(x, t), HandleWorktree, runs[ev.event.run].job = x
  PROVE  PlaceOf(x, t)'
<1>0. /\ TypeInv /\ RunInv /\ LogInv /\ store \in StoreRecord /\ t \in Ts /\ t # 0 /\ x \in DOMAIN runs
      /\ x \in Job /\ x \in 0..Cron /\ x # Cron /\ x # 0
      /\ PlaceAs(store.jobs[x], store.threads[t], x, t)
      /\ LinkSafe(store.jobs[x], store.threads[t], x, t)
  BY SceneFacts, SoleFacts, Sizes DEF Scene, CoreInv, TypeInv, Job
<1>1. ev.at = "worktree" /\ ev.at # "idle" /\ UNCHANGED daemon /\ sm' = sm /\ sub' = sub /\ ev' = Idle
  BY DEF HandleWorktree, EventStep
<1>2. /\ EventSound(sub.last) /\ log[sub.last] = ev.event /\ ev.event.kind = "worktree"
  BY <1>1, HandledEvent
<1>3. ev.event.run \in DOMAIN runs /\ runs[ev.event.run].tree /\ ev.event.tree = x
  BY <1>2 DEF EventSound
<1>4. ev.event.run = x
  BY <1>3, SoleJob DEF Scene
<1>5. runs[x].tree /\ Cwd(x) = x
  BY <1>3, <1>4, SoleFacts DEF Scene
<1>6. PICK J, T : J = store.jobs[x] /\ T = store.threads[t]
  OBVIOUS
<1>7. PICK J2, T2 : J2 = store'.jobs[x] /\ T2 = store'.threads[t]
  OBVIOUS
<1>8. /\ J2.thread = J.thread /\ J2.session = J.session /\ J2.folder = J.folder /\ J2.tree = x
      /\ J.thread = t =>
           T2.job = T.job /\ T2.session = T.session /\ T2.folder = T.folder /\ T2.tree = x
      /\ J.thread # t => T2 = T
      /\ old' \subseteq old
  <2>1. PICK u : u = store.jobs[x].thread
    OBVIOUS
  <2>2. LinkJobMeta(x, 0, x) /\ 0 \in Place
    BY <1>3, Sizes DEF HandleWorktree
  <2>3. /\ Rest(x, u)
        /\ store'.jobs[x].thread = u /\ store'.jobs[x].session = store.jobs[x].session
        /\ store'.jobs[x].folder = store.jobs[x].folder /\ store'.jobs[x].tree = x
        /\ u # 0 =>
             /\ store'.threads[u].job = store.threads[u].job
             /\ store'.threads[u].session = store.threads[u].session
             /\ store'.threads[u].folder = store.threads[u].folder
             /\ store'.threads[u].tree = x
    BY <1>0, <2>1, <2>2, LinkMetaEffect
  <2>. QED BY <1>0, <1>6, <1>7, <2>1, <2>3 DEF Rest
<1>9. PlaceAs(J, T, x, t) /\ LinkSafe(J, T, x, t)
  BY <1>0, <1>6
<1>10. Folder(J2) = x /\ Placed(J2, x) /\ (J.thread = t => Placed(T2, x))
  BY <1>0, <1>5, <1>8 DEF Folder, Placed
<1>11. Sound(J2, x, t) /\ Sound(T2, x, t)
  <2>1. Sound(J, x, t) /\ Sound(T, x, t)
    BY <1>9 DEF PlaceAs
  <2>. QED BY <1>5, <1>8, <2>1 DEF Sound
<1>12. Known(J2, T2, x, t)
  <2>1. J2.session = J.session /\ T2.session = T.session
    BY <1>8
  <2>2. Resumable(J2, T2, x, t) => Resumable(J, T, x, t)
    BY <2>1 DEF Resumable
  <2>3. J.thread # t => (Placed(T2, x) <=> Placed(T, x))
    BY <1>8
  <2>. QED BY <1>9, <1>10, <2>2, <2>3 DEF PlaceAs, Known
<1>13. Located(J2, T2, x)
  BY <1>1, <1>4 DEF Located, Due, TreeTaken
<1>14. Latest(J2, T2, x, t)
  <2>1. CASE J.thread = t
    BY <1>8, <2>1 DEF Latest
  <2>2. CASE J.thread # t
    BY <1>8, <1>9, <2>2 DEF PlaceAs, Latest
  <2>. QED BY <2>1, <2>2
<1>15. Due(x)' => Folder(J2) = Cwd(x) /\ Placed(T2, x)
  <2>1. SUFFICES ASSUME Due(x)', ~Placed(T2, x) PROVE FALSE
    BY <1>5, <1>10
  <2>2. J.thread # t /\ T2 = T
    BY <1>8, <1>10, <2>1
  <2>3. Ended(x)
    BY <1>9, <2>1, <2>2 DEF PlaceAs, Latest
  <2>4. Open /\ Pending(x)'
    BY <1>1, <2>1 DEF Due, Open
  <2>5. PICK n \in DOMAIN log : IsEvent(n, "completed", x) /\ n <= sub.last
    BY <2>3, <2>4 DEF Ended
  <2>6. /\ runs[x].stage = "done"
        /\ \A m \in DOMAIN log : log[m].run = x /\ m # n => m < n
    BY <1>0, <2>5 DEF LogInv, EventSound, IsEvent
  <2>7. PICK m \in DOMAIN log : m > sub.last /\ log[m].run = x
    BY <1>1, <2>4, <2>6, IdleFree DEF Pending, Handling, daemon
  <2>8. sub.last \in Nat /\ n \in Nat /\ m \in Nat
    BY <1>0 DEF TypeInv, SubRecord
  <2>. QED BY <2>5, <2>6, <2>7, <2>8
<1>16. LinkSafe(J2, T2, x, t)'
  <2>1. SUFFICES ASSUME Linking(x) PROVE LinkSafe(J2, T2, x, t)
    BY <1>1 DEF LinkSafe, Linking, daemon
  <2>. QED BY <1>8, <1>9, <2>1 DEF LinkSafe
<1>17. SameEvent /\ (Linking(x)' => Linking(x))
  BY <1>1, IdleFree DEF SameEvent, Linking
<1>. QED BY <1>1, <1>7, <1>8, <1>11, <1>12, <1>13, <1>14, <1>15, <1>16, <1>17, OwnWrite

\* What the completion of a run of the thread says of its place.
LEMMA CompletionFacts ==
  ASSUME NEW x, NEW t, Scene(x, t), ev.at \in {"completed", "set session", "post", "link"}, Parent = x
  PROVE  LET q == ev.event.run IN
         /\ q \in DOMAIN runs /\ q \in Run /\ runs[q].from = t
         /\ ev.event.session \in {0, q}
         /\ q = x => /\ runs[q].folder = Repo /\ (ev.event.tree # 0 => ev.event.tree = x /\ runs[x].tree)
                     /\ (Announced(x) => ev.event.tree = x) /\ Ended(x)
         /\ q # x => ~runs[q].tree /\ runs[q].folder = Cwd(x) /\ ev.event.tree = 0
                     /\ \A J, T : Resumable(J, T, x, t)
<1>0. /\ RunInv /\ x \in DOMAIN runs /\ runs[x].job = x /\ runs[x].folder = Repo
      /\ ThreadRuns(x, t)
  BY SceneFacts, SoleFacts DEF Scene, CoreInv, PlaceAs
<1>1. /\ sub.last \in DOMAIN log /\ EventSound(sub.last) /\ log[sub.last] = ev.event
      /\ ev.event.kind = "completed" /\ ev.at # "idle" /\ sub.last \in Nat
  BY HandledEvent, SceneFacts DEF TypeInv, SubRecord
<1>2. PICK q : q = ev.event.run
  OBVIOUS
<1>3. q \in DOMAIN runs /\ q \in Run /\ runs[q].from = t /\ (q # x => runs[q].resumes # 0 /\ ~runs[q].tree)
  BY <1>1, <1>2, ParentThread
<1>4. /\ ev.event.session \in {0, q}
      /\ ev.event.tree # 0 => runs[q].tree /\ ev.event.tree = runs[q].job
      /\ Announced(q) => ev.event.tree = runs[q].job
  BY <1>1, <1>2 DEF EventSound
<1>5. q = x => Ended(x)
  BY <1>1, <1>2, HandledEvent
<1>6. q # x => runs[q].folder = Cwd(x)
  BY <1>0, <1>3 DEF ThreadRuns, Cwd
<1>7. q # x => \A J, T : Resumable(J, T, x, t)
  BY <1>3 DEF Resumable
<1>. QED BY <1>0, <1>2, <1>3, <1>4, <1>5, <1>6, <1>7

\* The place of a run of the thread is written, when it completes.
LEMMA FolderPlace ==
  ASSUME NEW x, NEW t, Scene(x, t), CompletedFolder, Parent = x
  PROVE  PlaceOf(x, t)'
<1>0. /\ TypeInv /\ LogInv /\ SubInv /\ store \in StoreRecord /\ t \in Ts /\ t # 0 /\ x \in DOMAIN runs
      /\ x \in Job /\ x # 0 /\ Repo # 0
      /\ PlaceAs(store.jobs[x], store.threads[t], x, t)
      /\ LinkSafe(store.jobs[x], store.threads[t], x, t)
  BY SceneFacts, SoleFacts, Sizes DEF Scene, CoreInv, TypeInv
<1>1. ev.at = "completed" /\ ev.at # "idle" /\ UNCHANGED daemon /\ sm' = sm /\ sub' = sub
  BY DEF CompletedFolder, EventStep
<1>2. PICK q, f, w : q = ev.event.run /\ f = runs[q].folder /\ w = ev.event.tree
  OBVIOUS
<1>3. /\ q \in DOMAIN runs /\ runs[q].from = t
      /\ q = x => f = Repo /\ (w # 0 => w = x /\ runs[x].tree) /\ (Announced(x) => w = x)
      /\ q # x => ~runs[q].tree /\ f = Cwd(x) /\ w = 0 /\ \A J, T : Resumable(J, T, x, t)
  BY <1>1, <1>2, CompletionFacts
<1>4. PICK J, T : J = store.jobs[x] /\ T = store.threads[t]
  OBVIOUS
<1>5. PICK J2, T2 : J2 = store'.jobs[x] /\ T2 = store'.threads[t]
  OBVIOUS
<1>6. /\ J2.thread = J.thread /\ J2.session = J.session /\ J2.folder = f /\ J2.tree = w
      /\ T2 = T \/ (J.thread = t /\ T2.job = T.job /\ T2.session = T.session
                      /\ T2.folder = f /\ T2.tree = w)
      /\ J.thread = t /\ T # NoThread => T2.tree = w
      /\ old' \subseteq old
  <2>1. PICK u : u = store.jobs[x].thread
    OBVIOUS
  <2>2. SetJobFolderWorktree(x, f, w)
    BY <1>2 DEF CompletedFolder
  <2>3. f \in Place /\ w \in 0..Cron
    <3>1. ev.event \in Event /\ runs[q] \in RunRecord
      BY <1>0, <1>1, <1>2, EvFacts
    <3>. QED BY <1>2, <3>1 DEF Event, RunRecord
  <2>4. /\ Rest(x, u)
        /\ store'.jobs[x].thread = u /\ store'.jobs[x].session = store.jobs[x].session
        /\ store'.jobs[x].folder = f /\ store'.jobs[x].tree = w
        /\ u # 0 /\ store.threads[u] = NoThread => store'.threads[u] = NoThread
        /\ u # 0 /\ store.threads[u] # NoThread =>
             /\ store'.threads[u].job = store.threads[u].job
             /\ store'.threads[u].session = store.threads[u].session
             /\ store'.threads[u].folder = f /\ store'.threads[u].tree = w
    BY <1>0, <2>1, <2>2, <2>3, SetFolderEffect
  <2>. QED BY <1>0, <1>4, <1>5, <2>1, <2>4 DEF Rest
<1>7. PlaceAs(J, T, x, t) /\ LinkSafe(J, T, x, t)
  BY <1>0, <1>4
<1>8. J2.session = J.session /\ T2.session = T.session
  BY <1>6
<1>9. Resumable(J2, T2, x, t) <=> Resumable(J, T, x, t)
  BY <1>8 DEF Resumable
<1>10. (T2 # T => (Placed(T2, x) <=> Placed(J2, x))) /\ (T2 = T => (Placed(T2, x) <=> Placed(T, x)))
  BY <1>6 DEF Placed, Folder
<1>11. Sound(J2, x, t) /\ Sound(T2, x, t)
  <2>1. Sound(J, x, t) /\ Sound(T, x, t)
    BY <1>7 DEF PlaceAs
  <2>2. f \in {0, Repo, Cwd(x)} /\ (w # 0 => w = x /\ runs[x].tree)
    BY <1>3
  <2>. QED BY <1>6, <2>1, <2>2 DEF Sound
<1>12. Folder(J2) = IF w # 0 THEN w ELSE f
  BY <1>6 DEF Folder
<1>13. (runs[x].tree => Announced(x)) => Folder(J2) = Cwd(x)
  <2>1. CASE q = x
    <3>1. runs[x].tree => Cwd(x) = x
      BY SoleFacts DEF Scene
    <3>2. ~runs[x].tree => Cwd(x) = Repo
      BY SoleFacts DEF Scene
    <3>. QED BY <1>0, <1>3, <1>12, <2>1, <3>1, <3>2
  <2>2. CASE q # x
    BY <1>3, <1>12, <2>2
  <2>. QED BY <2>1, <2>2
<1>14. Known(J2, T2, x, t)
  <2>1. SUFFICES ASSUME Resumable(J, T, x, t)
                 PROVE  (runs[x].tree => Announced(x)) /\ Placed(J2, x) /\ Placed(T2, x)
    BY <1>9 DEF Known
  <2>2. (runs[x].tree => Announced(x)) /\ Placed(T, x)
    BY <1>7, <2>1 DEF PlaceAs, Known
  <2>3. Placed(J2, x)
    BY <1>13, <2>2 DEF Placed
  <2>. QED BY <1>10, <2>2, <2>3
<1>15. Located(J2, T2, x)
  <2>1. SUFFICES ASSUME Due(x) PROVE Folder(J2) = Cwd(x) /\ Placed(T2, x)
    BY DEF Located
  <2>2. Announced(x)
    <3>1. TreeTaken(x) /\ sub.last \in Nat /\ sub.last <= Len(log) /\ DOMAIN log = 1..Len(log)
          /\ Len(log) \in Nat
      BY <1>0, <2>1 DEF Due, TypeInv, SubRecord
    <3>. QED BY <3>1 DEF TreeTaken, Announced, IsEvent
  <2>3. Folder(J2) = Cwd(x) /\ Placed(T, x)
    BY <1>7, <1>13, <2>1, <2>2 DEF PlaceAs, Located
  <2>. QED BY <1>10, <2>3 DEF Placed
<1>16. Latest(J2, T2, x, t)
  <2>1. CASE J.thread = t
    BY <1>6, <2>1 DEF Latest
  <2>2. CASE J.thread # t
    BY <1>6, <1>7, <2>2 DEF PlaceAs, Latest
  <2>. QED BY <2>1, <2>2
<1>17. LinkSafe(J2, T2, x, t)'
  <2>1. SUFFICES ASSUME Linking(x) PROVE LinkSafe(J2, T2, x, t)
    BY <1>1 DEF LinkSafe, Linking, daemon
  <2>2. q = x /\ f = Repo
    BY <1>3, <1>7, <2>1 DEF LinkSafe
  <2>3. (J.session # 0 \/ T.session # 0) /\ runs[x].tree => w = x
    BY <1>3, <1>7, <2>2 DEF PlaceAs, Known, Resumable
  <2>4. sm.at = "link" => J.thread # t /\ T = NoThread
    BY <1>7, <2>1 DEF LinkSafe
  <2>5. sm.at = "link" => J2.thread # t /\ T2 = NoThread
    BY <1>6, <2>4
  <2>6. sm.at = "meta" /\ J.thread = t => T.job # 0
    BY <1>7, <2>1 DEF LinkSafe
  <2>7. sm.at = "meta" /\ J2.thread = t => T2.tree = J2.tree /\ T2.job # 0
    BY <1>6, <2>6 DEF NoThread
  <2>8. \A r \in DOMAIN runs : runs[r].from = t => r = x
    BY <1>7, <2>1 DEF LinkSafe
  <2>. QED BY <1>6, <1>8, <2>2, <2>3, <2>5, <2>7, <2>8 DEF LinkSafe
<1>18. SameEvent /\ (Linking(x)' => Linking(x)) /\ ev.at # "worktree"
  BY <1>0, <1>1, HandlerEffect DEF SameEvent, EvNext, Linking
<1>. QED BY <1>1, <1>5, <1>6, <1>11, <1>14, <1>15, <1>16, <1>17, <1>18, OwnWrite

\* What a link leaves in the rows of the job and the thread.
LinkedRow(j, u, s) ==
  /\ Rest(j, u) /\ store'.jobs[j].thread = u
  /\ store'.jobs[j].session = (IF s # 0 THEN s ELSE store.jobs[j].session)
  /\ store'.jobs[j].folder = store.jobs[j].folder /\ store'.jobs[j].tree = store.jobs[j].tree
  /\ store'.threads[u].job = j
  /\ store'.threads[u].session = (IF s # 0 THEN s
                                  ELSE IF store.threads[u].session # 0
                                       THEN store.threads[u].session ELSE store.jobs[j].session)
  /\ store'.threads[u].folder = (IF store.jobs[j].folder # 0 THEN store.jobs[j].folder
                                 ELSE store.threads[u].folder)
  /\ store'.threads[u].tree = (IF store.jobs[j].tree # 0 THEN store.jobs[j].tree
                               ELSE store.threads[u].tree)

LEMMA LinkRunRow ==
  ASSUME store \in StoreRecord, NEW r \in Run, NEW j \in Job, NEW t \in Ts,
         NEW s \in 0..MaxRuns, NEW replies \in BOOLEAN, LinkRun(r, j, t, s, replies)
  PROVE  LinkedRow(j, t, s)
<1>1. /\ Rest(j, t)
      /\ store'.runs = [store.runs EXCEPT ![r] = [job |-> j, thread |-> t]]
      /\ store'.jobs[j].thread = t
      /\ store'.jobs[j].session = IF s # 0 THEN s ELSE store.jobs[j].session
      /\ store'.jobs[j].folder = store.jobs[j].folder /\ store'.jobs[j].tree = store.jobs[j].tree
      /\ store'.threads[t].job = j
      /\ store'.threads[t].session = IF s # 0 THEN s
                                     ELSE IF store.threads[t].session # 0
                                          THEN store.threads[t].session
                                          ELSE store.jobs[j].session
      /\ store'.threads[t].folder = IF store.jobs[j].folder # 0 THEN store.jobs[j].folder
                                    ELSE store.threads[t].folder
      /\ store'.threads[t].tree = IF store.jobs[j].tree # 0 THEN store.jobs[j].tree
                                  ELSE store.threads[t].tree
  BY LinkRunEffect
<1>. QED BY <1>1 DEF LinkedRow

\* The job of the thread is linked to a post.
LEMMA LinkPostedPlace ==
  ASSUME NEW x, NEW t, Scene(x, t), LinkPosted, Parent = x
  PROVE  PlaceOf(x, t)'
<1>0. /\ TypeInv /\ store \in StoreRecord /\ t \in Ts /\ t # 0 /\ t <= MaxMessages /\ x \in DOMAIN runs
      /\ x \in Job
      /\ PlaceAs(store.jobs[x], store.threads[t], x, t)
      /\ LinkSafe(store.jobs[x], store.threads[t], x, t)
  BY SceneFacts, SoleFacts DEF Scene, TypeInv
<1>1. ev.at = "link" /\ ev.at # "idle" /\ UNCHANGED daemon /\ sm' = sm /\ sub' = sub /\ ev' = Idle
  BY DEF LinkPosted, EventStep
<1>2. PICK q, s, u : q = ev.event.run /\ s = ev.event.session /\ u = PostTs(q)
  OBVIOUS
<1>3. /\ q \in DOMAIN runs /\ q \in Run /\ runs[q].from = t /\ s \in {0, q} /\ (q = x => Ended(x))
      /\ q # x => \A J, T : Resumable(J, T, x, t)
  BY <1>1, <1>2, CompletionFacts
<1>4. u \in Ts /\ u # t
  BY <1>0, <1>2, <1>3, Sizes DEF PostTs, Ts, Run
<1>5. PICK J, T : J = store.jobs[x] /\ T = store.threads[t]
  OBVIOUS
<1>6. PICK J2 : J2 = store'.jobs[x]
  OBVIOUS
<1>7. /\ J2.thread = u /\ J2.session = (IF s # 0 THEN s ELSE J.session)
      /\ J2.folder = J.folder /\ J2.tree = J.tree
      /\ store'.threads[t] = T /\ old' \subseteq old
  <2>1. ev.replies \in BOOLEAN
    BY <1>0 DEF TypeInv, EvRecord
  <2>2. LinkRun(q, x, u, ev.event.session, ev.replies)
    BY <1>2 DEF LinkPosted
  <2>3. /\ store \in StoreRecord /\ q \in Run /\ x \in Job /\ u \in Ts
        /\ ev.event.session \in 0..MaxRuns
    BY <1>0, <1>1, <1>2, <1>3, <1>4, RunSession, Sizes
  <2>4. LinkedRow(x, u, ev.event.session)
    BY <2>1, <2>2, <2>3, LinkRunRow
  <2>. QED BY <1>0, <1>2, <1>4, <1>5, <1>6, <2>4 DEF Rest, LinkedRow
<1>8. PlaceAs(J, T, x, t) /\ LinkSafe(J, T, x, t)
  BY <1>0, <1>5
<1>9. Folder(J2) = Folder(J) /\ (Placed(J2, x) <=> Placed(J, x))
  BY <1>7 DEF Placed, Folder
<1>10. Sound(J2, x, t)
  BY <1>3, <1>7, <1>8 DEF PlaceAs, Sound
<1>11. Resumable(J2, T, x, t) =>
         (runs[x].tree => Announced(x)) /\ Placed(J, x) /\ Placed(T, x)
  <2>1. CASE Resumable(J, T, x, t)
    BY <1>8, <2>1 DEF PlaceAs, Known
  <2>2. CASE q = x /\ s # 0
    BY <1>1, <1>2, <1>5, <2>2, SessionKnown
  <2>3. CASE q = x /\ s = 0
    <3>1. J2.session = J.session
      BY <1>7, <2>3
    <3>2. Resumable(J2, T, x, t) => Resumable(J, T, x, t)
      BY <3>1 DEF Resumable
    <3>. QED BY <2>1, <3>2
  <2>4. CASE q # x
    BY <1>3, <2>1, <2>4
  <2>. QED BY <2>2, <2>3, <2>4
<1>12. Known(J2, T, x, t)
  BY <1>9, <1>11 DEF Known
<1>13. Located(J2, T, x)
  BY <1>8, <1>9 DEF PlaceAs, Located
<1>14. Latest(J2, T, x, t)
  <2>1. q # x => Placed(T, x)
    BY <1>3, <1>11
  <2>. QED BY <1>3, <2>1 DEF Latest
<1>15. LinkSafe(J2, T, x, t)'
  <2>1. SUFFICES ASSUME Linking(x) PROVE LinkSafe(J2, T, x, t)
    BY <1>1 DEF LinkSafe, Linking, daemon
  <2>2. q = x /\ J.folder \in {0, Repo}
    BY <1>3, <1>8, <2>1 DEF LinkSafe
  <2>3. (J2.session # 0 \/ T.session # 0) /\ runs[x].tree => J.tree = x
    <3>1. CASE s = 0
      BY <1>7, <1>8, <2>1, <3>1 DEF LinkSafe
    <3>2. CASE s # 0
      <4>1. runs[x].tree => Folder(store.jobs[x]) = Cwd(x)
        BY <1>1, <1>2, <2>2, <3>2, SessionKnown
      <4>2. runs[x].tree => Cwd(x) = x
        BY SoleFacts DEF Scene
      <4>3. J.tree # 0 => J.tree = x
        BY <1>8 DEF PlaceAs, Sound
      <4>. QED BY <1>5, <2>2, <4>1, <4>2, <4>3, SoleFacts DEF Scene, Folder
    <3>. QED BY <3>1, <3>2
  <2>4. J2.thread # t
    BY <1>4, <1>7
  <2>5. /\ \A r \in DOMAIN runs : runs[r].from = t => r = x
        /\ sm.at = "link" => T = NoThread
    BY <1>8, <2>1 DEF LinkSafe
  <2>. QED BY <1>7, <2>2, <2>3, <2>4, <2>5 DEF LinkSafe
<1>16. SameEvent /\ (Linking(x)' => Linking(x)) /\ ev.at # "worktree"
  BY <1>1, IdleFree DEF SameEvent, Linking
<1>17. Sound(T, x, t)
  BY <1>8 DEF PlaceAs
<1>. QED BY <1>1, <1>6, <1>7, <1>10, <1>12, <1>13, <1>14, <1>15, <1>16, <1>17, OwnWrite

\* The run of the message is linked to its thread.
LEMMA RootLinkPlace ==
  ASSUME NEW x, NEW t, Scene(x, t), LinkSubmitted, sm.msg.thread = 0, sm.run = x
  PROVE  PlaceOf(x, t)'
<1>0. /\ TypeInv /\ SmInv /\ store \in StoreRecord /\ t \in Ts /\ t # 0 /\ x \in DOMAIN runs
      /\ x \in Run /\ x \in Job /\ x # 0 /\ runs[x].from = t /\ runs[x].job = x
      /\ PlaceAs(store.jobs[x], store.threads[t], x, t)
      /\ LinkSafe(store.jobs[x], store.threads[t], x, t)
  BY SceneFacts, SoleFacts DEF Scene, CoreInv, TypeInv
<1>1. /\ sm.at = "link" /\ UNCHANGED daemon /\ sub' = sub /\ ev' = ev
      /\ sm' = [sm EXCEPT !.at = "meta"]
  BY DEF LinkSubmitted
<1>2. sm'.at = "meta" /\ sm'.run = sm.run
  BY <1>0, <1>1 DEF TypeInv, SmRecord
<1>3. sm.msg.ts = t
  BY <1>0, <1>1 DEF SmInv, RootOf
<1>4. PICK J, T : J = store.jobs[x] /\ T = store.threads[t]
  OBVIOUS
<1>5. PICK J2, T2 : J2 = store'.jobs[x] /\ T2 = store'.threads[t]
  OBVIOUS
<1>6. Linking(x) /\ PlaceAs(J, T, x, t) /\ LinkSafe(J, T, x, t)
  BY <1>0, <1>1, <1>4 DEF Linking
<1>7. /\ J.folder \in {0, Repo} /\ T = NoThread
      /\ J.session # 0 /\ runs[x].tree => J.tree = x
      /\ \A r \in DOMAIN runs : runs[r].from = t => r = x
  BY <1>1, <1>6 DEF LinkSafe
<1>8. /\ J2.thread = t /\ J2.session = J.session /\ J2.folder = J.folder /\ J2.tree = J.tree
      /\ T2.job = x /\ T2.session = J.session /\ T2.folder = J.folder /\ T2.tree = J.tree
      /\ old' \subseteq old
  <2>1. LinkRun(x, x, t, 0, TRUE)
    BY <1>0, <1>3 DEF LinkSubmitted
  <2>2. 0 \in 0..MaxRuns /\ TRUE \in BOOLEAN
    BY Sizes
  <2>3. LinkedRow(x, t, 0)
    BY <1>0, <2>1, <2>2, LinkRunRow
  <2>4. /\ Rest(x, t) /\ J2.thread = t /\ J2.session = J.session
        /\ J2.folder = J.folder /\ J2.tree = J.tree /\ T2.job = x
        /\ T2.session = (IF T.session # 0 THEN T.session ELSE J.session)
        /\ T2.folder = (IF J.folder # 0 THEN J.folder ELSE T.folder)
        /\ T2.tree = (IF J.tree # 0 THEN J.tree ELSE T.tree)
    BY <1>4, <1>5, <2>3 DEF LinkedRow
  <2>5. T.session = 0 /\ T.folder = 0 /\ T.tree = 0
    BY <1>7 DEF NoThread
  <2>. QED BY <2>4, <2>5 DEF Rest
<1>9. Folder(J2) = Folder(J) /\ Folder(T2) = Folder(J)
  BY <1>8 DEF Folder
<1>10. (Placed(J2, x) <=> Placed(J, x)) /\ (Placed(T2, x) <=> Placed(J, x))
  BY <1>9 DEF Placed
<1>11. Sound(J2, x, t) /\ Sound(T2, x, t)
  BY <1>6, <1>8 DEF PlaceAs, Sound
<1>12. Known(J2, T2, x, t)
  <2>1. Resumable(J2, T2, x, t) => Resumable(J, T, x, t)
    BY <1>8 DEF Resumable
  <2>. QED BY <1>6, <1>10, <2>1 DEF PlaceAs, Known
<1>13. Located(J2, T2, x) /\ Latest(J2, T2, x, t)
  BY <1>6, <1>8, <1>9, <1>10 DEF PlaceAs, Located, Latest, Placed
<1>14. LinkSafe(J2, T2, x, t)'
  BY <1>0, <1>1, <1>2, <1>7, <1>8 DEF LinkSafe, daemon
<1>15. SameEvent /\ ~Replying(t)' /\ (Linking(x)' => Linking(x))
  BY <1>1, <1>2, <1>6 DEF SameEvent, Replying
<1>. QED BY <1>1, <1>5, <1>8, <1>11, <1>12, <1>13, <1>14, <1>15, OwnWrite

\* A reply in the thread is linked: what the job knows is promoted to the thread.
LEMMA ReplyLinkPlace ==
  ASSUME NEW x, NEW t, Scene(x, t), LinkSubmitted, sm.msg.thread = t
  PROVE  PlaceOf(x, t)'
<1>0. /\ TypeInv /\ SmInv /\ store \in StoreRecord /\ t \in Ts /\ t # 0 /\ x \in DOMAIN runs
      /\ x \in Job /\ x # 0
      /\ \A j : Owns(j, t) => j = x
      /\ PlaceAs(store.jobs[x], store.threads[t], x, t)
  BY SceneFacts, SoleFacts, SoleOwner DEF Scene, CoreInv, TypeInv
<1>1. sm.at = "link" /\ UNCHANGED daemon /\ sub' = sub /\ ev' = ev /\ sm' = Free
  BY <1>0 DEF LinkSubmitted
<1>2. sm.snap.job = x /\ sm.snap.session # 0 /\ Replying(t)
  BY <1>0, <1>1 DEF SmInv, Routable, Replying
<1>3. PICK s : s = sm.snap.session
  OBVIOUS
<1>4. PICK J, T : J = store.jobs[x] /\ T = store.threads[t]
  OBVIOUS
<1>5. PICK J2, T2 : J2 = store'.jobs[x] /\ T2 = store'.threads[t]
  OBVIOUS
<1>6. PlaceAs(J, T, x, t) /\ s # 0
  BY <1>0, <1>2, <1>3, <1>4
<1>7. /\ J2.thread = t /\ J2.session = s /\ J2.folder = J.folder /\ J2.tree = J.tree
      /\ T2.session = s
      /\ T2.folder = (IF J.folder # 0 THEN J.folder ELSE T.folder)
      /\ T2.tree = (IF J.tree # 0 THEN J.tree ELSE T.tree)
      /\ old' \subseteq old
  <2>1. LinkRun(sm.run, x, t, sm.snap.session, sm.snap.replies)
    BY <1>0, <1>2 DEF LinkSubmitted
  <2>2. sm.run \in Run /\ sm.snap.session \in 0..MaxRuns /\ sm.snap.replies \in BOOLEAN
    BY <1>0, <1>1, SmFacts
  <2>3. LinkedRow(x, t, sm.snap.session)
    BY <1>0, <2>1, <2>2, LinkRunRow
  <2>. QED BY <1>3, <1>4, <1>5, <1>6, <2>3 DEF LinkedRow, Rest
<1>8. Sound(sm.snap, x, t)
  BY <1>2, <1>6 DEF PlaceAs, SnapSound
<1>9. Sound(J, x, t) /\ Sound(T, x, t)
  BY <1>6 DEF PlaceAs
<1>10. Sound(J2, x, t) /\ Sound(T2, x, t)
  <2>1. s \in DOMAIN runs /\ runs[s].from = t
    BY <1>3, <1>6, <1>8 DEF Sound
  <2>. QED BY <1>7, <1>9, <2>1 DEF Sound
<1>11. (runs[x].tree => Announced(x)) /\ Placed(J, x) /\ Placed(T, x)
  BY <1>2, <1>6 DEF PlaceAs, Known, Resumable
<1>12. Folder(J2) = Folder(J) /\ Placed(J2, x)
  BY <1>7, <1>11 DEF Folder, Placed
<1>13. Placed(T2, x)
  <2>1. CASE T2.tree # 0
    <3>1. T2.tree = x /\ Cwd(x) = x
      BY <1>10, <2>1, SoleFacts DEF Scene, Sound
    <3>. QED BY <2>1, <3>1 DEF Placed, Folder
  <2>2. CASE T2.tree = 0
    <3>1. J.tree = 0 /\ T.tree = 0
      BY <1>7, <2>2
    <3>2. Folder(J) = J.folder /\ Folder(T) = T.folder /\ Folder(T2) = T2.folder
      BY <2>2, <3>1 DEF Folder
    <3>. QED BY <1>7, <1>11, <3>2 DEF Placed
  <2>. QED BY <2>1, <2>2
<1>14. Known(J2, T2, x, t)
  BY <1>11, <1>12, <1>13 DEF Known
<1>15. Located(J2, T2, x) /\ Latest(J2, T2, x, t)
  BY <1>6, <1>7, <1>12, <1>13 DEF PlaceAs, Located, Latest
<1>16. ~Linking(x)' /\ ~Replying(t)' /\ SameEvent
  BY <1>1, IdleFree DEF Linking, Replying, SameEvent
<1>17. LinkSafe(J2, T2, x, t)'
  BY <1>16 DEF LinkSafe
<1>. QED BY <1>1, <1>5, <1>7, <1>10, <1>14, <1>15, <1>16, <1>17, OwnWrite

\* The folder of the run of the message is written.
LEMMA RootFolderPlace ==
  ASSUME NEW x, NEW t, Scene(x, t), LinkFolder, sm.run = x
  PROVE  PlaceOf(x, t)'
<1>0. /\ TypeInv /\ store \in StoreRecord /\ t \in Ts /\ t # 0 /\ x \in DOMAIN runs
      /\ x \in Job /\ x # 0 /\ Repo # 0 /\ Repo \in Place /\ 0 \in 0..Cron
      /\ runs[x].job = x /\ runs[x].folder = Repo
      /\ runs[x].tree => Cwd(x) = x
      /\ ~runs[x].tree => Cwd(x) = Repo
      /\ PlaceAs(store.jobs[x], store.threads[t], x, t)
      /\ LinkSafe(store.jobs[x], store.threads[t], x, t)
  BY SceneFacts, SoleFacts, Sizes DEF Scene, TypeInv
<1>1. sm.at = "meta" /\ UNCHANGED daemon /\ sub' = sub /\ ev' = ev /\ sm' = Free
  BY DEF LinkFolder
<1>2. PICK J, T : J = store.jobs[x] /\ T = store.threads[t]
  OBVIOUS
<1>3. PICK J2, T2 : J2 = store'.jobs[x] /\ T2 = store'.threads[t]
  OBVIOUS
<1>4. Linking(x) /\ PlaceAs(J, T, x, t) /\ LinkSafe(J, T, x, t)
  BY <1>0, <1>1, <1>2 DEF Linking
<1>5. /\ J2.thread = J.thread /\ J2.session = J.session /\ J2.folder = Repo /\ J2.tree = J.tree
      /\ J.thread = t => T2.session = T.session /\ T2.folder = Repo /\ T2.tree = T.tree
      /\ J.thread # t => T2 = T
      /\ old' \subseteq old
  <2>1. PICK u : u = store.jobs[x].thread
    OBVIOUS
  <2>2. LinkJobMeta(x, Repo, 0)
    BY <1>0 DEF LinkFolder
  <2>3. /\ Rest(x, u)
        /\ store'.jobs[x].thread = u /\ store'.jobs[x].session = store.jobs[x].session
        /\ store'.jobs[x].folder = Repo /\ store'.jobs[x].tree = store.jobs[x].tree
        /\ u # 0 =>
             /\ store'.threads[u].session = store.threads[u].session
             /\ store'.threads[u].folder = Repo
             /\ store'.threads[u].tree = store.threads[u].tree
    BY <1>0, <2>1, <2>2, LinkMetaEffect
  <2>. QED BY <1>0, <1>2, <1>3, <2>1, <2>3 DEF Rest
<1>6. /\ J.folder \in {0, Repo}
      /\ (J.session # 0 \/ T.session # 0) /\ runs[x].tree => J.tree = x
      /\ J.thread = t => T.tree = J.tree
      /\ \A r \in DOMAIN runs : runs[r].from = t => r = x
  BY <1>1, <1>4 DEF LinkSafe
<1>7. Sound(J, x, t) /\ Sound(T, x, t)
  BY <1>4 DEF PlaceAs
<1>8. Sound(J2, x, t) /\ Sound(T2, x, t)
  BY <1>5, <1>7 DEF Sound
<1>9. J.tree # 0 => J.tree = x /\ runs[x].tree
  BY <1>7 DEF Sound
<1>10. J.thread = t => Folder(T2) = Folder(J2)
  BY <1>5, <1>6 DEF Folder
<1>11. Folder(J) = Cwd(x) => Folder(J2) = Cwd(x)
  BY <1>0, <1>5, <1>6, <1>9 DEF Folder
<1>12. Resumable(J2, T2, x, t) => Resumable(J, T, x, t) /\ Folder(J2) = Cwd(x)
  <2>1. SUFFICES ASSUME Resumable(J2, T2, x, t) PROVE Resumable(J, T, x, t) /\ Folder(J2) = Cwd(x)
    OBVIOUS
  <2>2. J2.session = J.session /\ T2.session = T.session
    BY <1>5
  <2>3. ~Replying(t)
    BY <1>1 DEF Replying
  <2>4. J.session # 0 \/ T.session # 0
    BY <1>6, <2>1, <2>2, <2>3 DEF Resumable
  <2>5. runs[x].tree => J.tree = x
    BY <1>6, <2>4
  <2>6. Folder(J2) = Cwd(x)
    BY <1>0, <1>5, <1>9, <2>5 DEF Folder
  <2>. QED BY <2>4, <2>6 DEF Resumable
<1>13. Known(J2, T2, x, t)
  <2>1. SUFFICES ASSUME Resumable(J2, T2, x, t)
                 PROVE  (runs[x].tree => Announced(x)) /\ Placed(J2, x) /\ Placed(T2, x)
    BY DEF Known
  <2>2. (runs[x].tree => Announced(x)) /\ Placed(T, x)
    BY <1>4, <1>12, <2>1 DEF PlaceAs, Known
  <2>. QED BY <1>5, <1>10, <1>12, <2>1, <2>2 DEF Placed
<1>14. Located(J2, T2, x)
  BY <1>4, <1>5, <1>10, <1>11 DEF PlaceAs, Located, Placed
<1>15. Latest(J2, T2, x, t)
  BY <1>4, <1>5 DEF PlaceAs, Latest
<1>16. ~Linking(x)' /\ ~Replying(t)' /\ SameEvent
  BY <1>1, IdleFree DEF Linking, Replying, SameEvent
<1>17. LinkSafe(J2, T2, x, t)'
  BY <1>16 DEF LinkSafe
<1>. QED BY <1>1, <1>3, <1>5, <1>8, <1>13, <1>14, <1>15, <1>16, <1>17, OwnWrite

\* When the retention passes no run is busy.
LEMMA TimePlace ==
  ASSUME NEW x, NEW t, Scene(x, t), TimePasses
  PROVE  PlaceOf(x, t)'
<1>0. /\ CoreInv /\ TypeInv /\ SubInv /\ Grows /\ x \in DOMAIN runs /\ t # 0 /\ PlaceOf(x, t)
      /\ ~sub.missed /\ runs[x].stage # "skipped"
  BY SceneFacts DEF Scene, CoreInv, SkipInv, Sole
<1>1. /\ UNCHANGED << daemon, store, sub, ev, sm >> /\ runs[x].stage = "done"
      /\ ev = Idle /\ sm = Free /\ sub.pos = Len(log)
  BY <1>0 DEF TimePasses, Over
<1>2. sub.last = Len(log) /\ Len(log) \in Nat /\ DOMAIN log = 1..Len(log)
  <2>1. sub.last \in Nat /\ sub.last <= Len(log) /\ Len(log) \in Nat /\ DOMAIN log = 1..Len(log)
    BY <1>0 DEF TypeInv, SubRecord
  <2>2. sub.pos <= sub.last
    BY <1>0 DEF SubInv
  <2>. QED BY <1>1, <2>1, <2>2
<1>3. ~Pending(x)
  <2>1. ~Handling(x)
    BY <1>1, IdleFree DEF Handling
  <2>2. \A n \in DOMAIN log : ~(n > sub.last)
    BY <1>2
  <2>. QED BY <1>1, <2>1, <2>2 DEF Pending
<1>4. ~Busy(x)' /\ ~Due(x)' /\ ~Replying(t)' /\ ~Linking(x)'
  <2>1. ~Linking(x) /\ ~Replying(t)
    BY <1>1, IdleFree DEF Linking, Replying
  <2>2. (Pending(x)' <=> Pending(x)) /\ (Linking(x)' <=> Linking(x)) /\ (Replying(t)' <=> Replying(t))
    BY <1>1 DEF Pending, Handling, Linking, Replying, daemon
  <2>. QED BY <1>1, <1>3, <2>1, <2>2 DEF Busy, Due, daemon
<1>5. Ended(x) => Ended(x)'
  BY <1>1 DEF Ended, IsEvent, Open, daemon
<1>6. \A r \in DOMAIN runs' : r \in DOMAIN runs
  BY <1>1 DEF daemon
<1>7. Still(store.jobs[x], store.threads[t], x, t)
  BY <1>0, <1>4, <1>5, <1>6 DEF Still
<1>. QED BY <1>0, <1>1, <1>4, <1>7, OtherRows

\* Retention takes the rows of the thread only when nothing is to be set right.
LEMMA PrunePlace ==
  ASSUME NEW x, NEW t, Scene(x, t), Prune
  PROVE  PlaceOf(x, t)'
<1>0. /\ TypeInv /\ LogInv /\ t \in Ts /\ t # 0 /\ x \in DOMAIN runs /\ x \in Job
      /\ PlaceAs(store.jobs[x], store.threads[t], x, t)
      /\ LinkSafe(store.jobs[x], store.threads[t], x, t)
  BY SceneFacts DEF Scene, CoreInv
<1>1. UNCHANGED << daemon, sub, ev, sm >>
  BY DEF Prune
<1>2. PICK J, T : J = store.jobs[x] /\ T = store.threads[t]
  OBVIOUS
<1>3. PICK J2, T2 : J2 = store'.jobs[x] /\ T2 = store'.threads[t]
  OBVIOUS
<1>4. PlaceAs(J, T, x, t) /\ LinkSafe(J, T, x, t)
  BY <1>0, <1>2
<1>5. /\ J2 = IF Entry("job", x) \in old THEN NoJob ELSE J
      /\ T2 = IF Entry("thread", t) \in old THEN NoThread ELSE T
      /\ old' \subseteq old
  BY <1>0, <1>2, <1>3, PruneEffect
<1>6. Busy(x) => J2 = J /\ T2 = T
  BY <1>4, <1>5 DEF PlaceAs, Guarded
<1>7. /\ J2 = J \/ (J2 = NoJob /\ ~Busy(x))
      /\ T2 = T \/ (T2 = NoThread /\ ~Busy(x))
  BY <1>4, <1>5 DEF PlaceAs, Guarded
<1>8. /\ NoJob.session = 0 /\ NoJob.folder = 0 /\ NoJob.tree = 0
      /\ NoThread.session = 0 /\ NoThread.folder = 0 /\ NoThread.tree = 0
  BY DEF NoJob, NoThread
<1>9. Sound(NoJob, x, t) /\ Sound(NoThread, x, t) /\ Placed(NoJob, x) /\ Placed(NoThread, x)
  BY <1>8 DEF Sound, Placed, Folder
<1>10. Sound(J2, x, t) /\ Sound(T2, x, t)
  BY <1>4, <1>7, <1>9 DEF PlaceAs
<1>11. Known(J2, T2, x, t)
  <2>1. Resumable(J2, T2, x, t) => Resumable(J, T, x, t)
    BY <1>7, <1>8 DEF Resumable
  <2>. QED BY <1>4, <1>7, <1>9, <2>1 DEF PlaceAs, Known
<1>12. Located(J2, T2, x)
  <2>1. Due(x) => Busy(x)
    BY DEF Due, Busy
  <2>. QED BY <1>4, <1>6, <2>1 DEF PlaceAs, Located
<1>13. Latest(J2, T2, x, t)
  <2>1. CASE J2 = J
    BY <1>4, <1>7, <1>9, <2>1 DEF PlaceAs, Latest
  <2>2. CASE ~Busy(x)
    <3>1. runs[x].stage = "done" /\ ~(Open /\ Pending(x))
      BY <2>2 DEF Busy
    <3>2. PICK n \in DOMAIN log : IsEvent(n, "completed", x)
      BY <1>0, <3>1 DEF LogInv, StageAnnounced
    <3>3. Open => ~(n > sub.last)
      BY <3>1, <3>2 DEF Pending, IsEvent
    <3>4. Open => n <= sub.last
      <4>1. sub.last \in Nat /\ n \in Nat
        BY <1>0 DEF TypeInv, SubRecord
      <4>. QED BY <3>3, <4>1
    <3>5. Ended(x)
      BY <3>2, <3>4 DEF Ended
    <3>. QED BY <3>5 DEF Latest
  <2>. QED BY <1>7, <2>1, <2>2
<1>14. LinkSafe(J2, T2, x, t)'
  <2>1. Linking(x) => J2 = J /\ T2 = T
    BY <1>6 DEF Busy
  <2>. QED BY <1>1, <1>4, <2>1 DEF LinkSafe, Linking, daemon
<1>15. SameEvent /\ (Linking(x)' => Linking(x)) /\ sm' = sm /\ ev' = ev /\ UNCHANGED daemon
  BY <1>1 DEF SameEvent, Linking
<1>. QED BY <1>3, <1>5, <1>10, <1>11, <1>12, <1>13, <1>14, <1>15, OwnWrite

\* A message that starts a run: nothing is known of its thread.
LEMMA NewRootPlace ==
  ASSUME CoreInv, [Next]_vars, NEW x, NEW t, x \in DOMAIN runs', x \notin DOMAIN runs, Sole(x, t)'
  PROVE  PlaceOf(x, t)'
<1>0. /\ TypeInv /\ LogInv /\ RunInv /\ OwnInv /\ SmInv /\ DaemonStep /\ Grows
      /\ runs'[x].from = t /\ runs'[x].resumes = 0 /\ t # 0
      /\ \A y \in DOMAIN runs' : RootOf(y, t)' => y = x
  BY Parts DEF CoreInv, Sole, RootOf, Root
<1>1. Submit /\ RootStep /\ x = Len(runs) + 1
  <2>1. ~(UNCHANGED daemon)
    BY DEF daemon
  <2>2. ~(\E r \in DOMAIN runs :
            MakeTreeStep(r) \/ SessionStep(r) \/ CompleteStep(r) \/ SkipStep(r))
    BY DEF MakeTreeStep, SessionStep, CompleteStep, SkipStep, StageSet
  <2>3. ~CronStep
    <3>1. SUFFICES ASSUME CronStep PROVE FALSE
      OBVIOUS
    <3>2. PICK tree \in BOOLEAN : Begins(NewRun(Cron, 0, 0, Repo, tree))
      BY <3>1 DEF CronStep
    <3>3. x = Len(runs) + 1
      BY <3>2 DEF Begins
    <3>4. runs'[x].from = 0
      BY <3>2, <3>3 DEF Begins, NewRun
    <3>. QED BY <1>0, <3>4
  <2>4. Submit /\ (RootStep \/ ReplyStep)
    BY <1>0, <2>1, <2>2, <2>3 DEF DaemonStep
  <2>5. x = Len(runs) + 1
    <3>1. PICK rec : Begins(rec)
      BY <2>4 DEF RootStep, ReplyStep
    <3>. QED BY <3>1 DEF Begins
  <2>6. ~ReplyStep
    <3>1. SUFFICES ASSUME ReplyStep PROVE FALSE
      OBVIOUS
    <3>2. runs'[x].resumes = sm.snap.session /\ sm.msg.thread # 0
      BY <2>5, <3>1 DEF ReplyStep, Begins, NewRun
    <3>3. sm.snap.session # 0
      BY <1>0, <2>4, <3>2 DEF SmInv, Submit, Routable
    <3>. QED BY <1>0, <3>2, <3>3
  <2>. QED BY <2>4, <2>5, <2>6
<1>2. /\ UNCHANGED << store, old, sub, ev >> /\ log' = log /\ sm.at = "submit" /\ sm.msg.thread = 0
      /\ sm.msg.ts = t
  BY <1>0, <1>1 DEF Submit, RootStep, Begins, NewRun
<1>3. SmNext("link", x)
  BY <1>0, <1>1, MessageEffect
<1>4. DOMAIN runs' = DOMAIN runs \cup {x}
  BY <1>1 DEF RootStep, Begins
<1>5. x \in Run /\ x \in Job /\ x # Cron /\ t \in Ts /\ t <= MaxMessages
  <2>1. x \in Run
    <3>1. runs' \in Seq(RunRecord) /\ Len(runs') <= MaxRuns
      BY <1>1 DEF RootStep, Begins
    <3>. QED BY <3>1, Sizes DEF Run
  <2>2. t \in 0..MaxMessages
    BY <1>0, <1>2 DEF TypeInv, SmRecord, Message
  <2>. QED BY <1>0, <2>1, <2>2, Sizes DEF Ts
<1>6. \A y \in DOMAIN runs : ~RootOf(y, t)
  BY <1>0, Stays DEF Grows
<1>7. \A r \in DOMAIN runs' : runs'[r].from = t => r = x
  <2>1. ASSUME NEW r \in DOMAIN runs, runs[r].from = t PROVE FALSE
    <3>1. Addressed(t)
      BY <1>0, <2>1 DEF RunInv
    <3>2. Cronish(t)
      BY <1>6, <3>1 DEF Addressed
    <3>3. PICK c \in DOMAIN runs : t = PostTs(c)
      BY <3>2 DEF Cronish
    <3>4. c \in Nat /\ c > 0
      BY <1>0 DEF TypeInv
    <3>. QED BY <1>5, <3>3, <3>4, Sizes DEF PostTs
  <2>. QED BY <1>0, <1>4, <2>1 DEF Grows
<1>8. store.jobs[x] = NoJob /\ store.threads[t] = NoThread
  <2>1. JobOwned(x) /\ ThreadOwned(t)
    BY <1>0, <1>5 DEF OwnInv
  <2>. QED BY <1>5, <1>6, <2>1 DEF JobOwned, ThreadOwned
<1>9. Entry("job", x) \notin old
  <2>1. Entry("job", x) \notin Entries
    BY <1>8 DEF Entries, Entry
  <2>. QED BY <1>0, <2>1 DEF TypeInv
<1>10. Entry("thread", t) \notin old
  <2>1. Entry("thread", t) \notin Entries
    BY <1>8 DEF Entries, Entry
  <2>. QED BY <1>0, <2>1 DEF TypeInv
<1>11. PICK J, T : J = NoJob /\ T = NoThread
  OBVIOUS
<1>12. /\ J.session = 0 /\ J.folder = 0 /\ J.tree = 0 /\ J.thread = 0
       /\ T.session = 0 /\ T.folder = 0 /\ T.tree = 0
  BY <1>11 DEF NoJob, NoThread
<1>13. ThreadRuns(x, t)'
  BY <1>0, <1>7 DEF ThreadRuns
<1>14. Sound(J, x, t)' /\ Sound(T, x, t)' /\ Placed(T, x)' /\ Placed(J, x)'
  BY <1>12 DEF Sound, Placed, Folder
<1>15. ~Replying(t)' /\ ~TreeTaken(x)'
  <2>1. ~Replying(t)'
    BY <1>0, <1>2, <1>3 DEF Replying, SmNext
  <2>2. \A n \in DOMAIN log : log[n].run # x
    BY <1>0 DEF LogInv, EventSound
  <2>. QED BY <1>2, <2>1, <2>2 DEF TreeTaken, IsEvent
<1>16. SnapSound(x, t)' /\ Located(J, T, x)'
  BY <1>15 DEF SnapSound, Located, Due
<1>17. Known(J, T, x, t)'
  BY <1>7, <1>12, <1>15 DEF Known, Resumable
<1>18. Guarded(x, t)' /\ Latest(J, T, x, t)'
  BY <1>2, <1>9, <1>10, <1>14 DEF Guarded, Latest
<1>19. LinkSafe(J, T, x, t)'
  <2>1. sm'.at = "link"
    BY <1>3 DEF SmNext
  <2>. QED BY <1>0, <1>7, <1>11, <1>12, <2>1 DEF LinkSafe
<1>20. PlaceAs(J, T, x, t)'
  BY <1>13, <1>14, <1>16, <1>17, <1>18 DEF PlaceAs
<1>21. J = store'.jobs[x] /\ T = store'.threads[t]
  BY <1>2, <1>8, <1>11
<1>. QED BY <1>19, <1>20, <1>21
         DEF PlaceOf, PlaceAs, LinkSafe, ThreadRuns, Sound, SnapSound, Known, Located, Guarded,
             Latest, Placed, Resumable

LEMMA ScenePlace ==
  ASSUME NEW x, NEW t, Scene(x, t)
  PROVE  PlaceOf(x, t)'
<1>1. CASE Daemon
  BY <1>1, DaemonPlace
<1>2. CASE Subscriber
  <2>1. CASE Connect \/ Skip
    BY <2>1, CutPlace
  <2>2. CASE Receive
    BY <2>2, ReceivePlace
  <2>3. CASE HandleSession
    BY <2>3, SessionPlace, EventElsewhere
  <2>4. CASE HandleWorktree
    BY <2>4, WorktreePlace, EventElsewhere
  <2>5. CASE CompletedFolder
    BY <2>5, FolderPlace, EventElsewhere
  <2>6. CASE CompletedSession
    BY <2>6, SessionPlace, EventElsewhere
  <2>7. CASE Post
    BY <2>7, PostPlace
  <2>8. CASE LinkPosted
    BY <2>8, LinkPostedPlace, EventElsewhere
  <2>. QED BY <1>2, <2>1, <2>2, <2>3, <2>4, <2>5, <2>6, <2>7, <2>8 DEF Subscriber
<1>3. CASE Messages
  <2>1. CASE HandleMessage \/ HandleMention
    BY <2>1, MessagePlace
  <2>2. CASE Submit
    BY <2>2, SubmitPlace
  <2>3. CASE LinkSubmitted
    <3>1. CASE sm.msg.thread = t
      BY <2>3, <3>1, ReplyLinkPlace
    <3>2. CASE sm.msg.thread = 0
      BY <2>3, <3>2, RootLinkPlace, LinkElsewhere
    <3>3. CASE sm.msg.thread \notin {0, t}
      BY <2>3, <3>3, LinkElsewhere
    <3>. QED BY <3>1, <3>2, <3>3
  <2>4. CASE LinkFolder
    BY <2>4, RootFolderPlace, LinkElsewhere
  <2>5. CASE Refused
    BY <2>5, UnwrittenPlace DEF Refused, SameEvent
  <2>. QED BY <1>3, <2>1, <2>2, <2>3, <2>4, <2>5 DEF Messages
<1>4. CASE Disconnect
  BY <1>4, CutPlace
<1>5. CASE PostFails \/ SubmitFails
  BY <1>5, PostPlace
<1>6. CASE Restart
  BY <1>6, RestartPlace
<1>7. CASE TimePasses
  BY <1>7, TimePlace
<1>8. CASE Prune
  BY <1>8, PrunePlace
<1>9. CASE UNCHANGED vars
  BY <1>9, UnwrittenPlace DEF vars, SameEvent, daemon
<1>. QED BY <1>1, <1>2, <1>3, <1>4, <1>5, <1>6, <1>7, <1>8, <1>9 DEF Scene, Next

LEMMA PlaceStep ==
  ASSUME CoreInv, PlaceInv, [Next]_vars
  PROVE  PlaceInv'
<1>1. Grows
  BY Parts
<1>2. ~sub'.missed => ~sub.missed
  <2>1. TypeInv /\ LogInv /\ StreamStep
    BY Parts DEF CoreInv
  <2>. QED BY <2>1, DisconnectEffect, SkipEffect, ReceiveEffect, RestartEffect
           DEF StreamStep, ConnectTo
<1>3. SUFFICES ASSUME ~sub'.missed, NEW x \in DOMAIN runs', NEW t, t = runs'[x].from, Sole(x, t)'
               PROVE  PlaceOf(x, t)'
  BY DEF PlaceInv
<1>4. CASE x \notin DOMAIN runs
  BY <1>3, <1>4, NewRootPlace
<1>5. CASE x \in DOMAIN runs
  <2>1. Sole(x, t)
    BY <1>1, <1>3, <1>5, Stays DEF Sole, Grows
  <2>2. PlaceOf(x, t)
    BY <1>1, <1>2, <1>3, <1>5, <2>1 DEF PlaceInv, Grows
  <2>3. Scene(x, t)
    BY <1>2, <1>3, <2>1, <2>2 DEF Scene
  <2>. QED BY <2>3, ScenePlace
<1>. QED BY <1>4, <1>5

\* The places of the threads.
THEOREM PlacesHold == Spec => []PlaceInv
<1>1. Init => PlaceInv
  <2>1. Init => DOMAIN runs = {}
    BY DEF Init
  <2>. QED BY <2>1 DEF PlaceInv
<1>2. CoreInv /\ PlaceInv /\ [Next]_vars => PlaceInv'
  BY PlaceStep
<1> QED
  BY <1>1, <1>2, Invariance, PTL DEF Spec

\* A reply resumes a session in the place where it ran, for the threads of messages
\* that started one run, of a job that has no other, whichever way the events of the
\* run fall around its links (store.go:158-165, 188-199; router.go:363-379).
THEOREM ResumedInPlaceHolds == Spec => []ResumedInPlace
<1>1. CoreInv /\ PlaceInv => ResumedInPlace
  <2>1. SUFFICES ASSUME CoreInv, PlaceInv, ~sub.missed, NEW r \in DOMAIN runs, runs[r].resumes # 0,
                        NEW x \in Run, Started(runs[r].from) = {x}, Alone(x)
                 PROVE  runs[r].folder = Cwd(runs[r].resumes)
    BY DEF ResumedInPlace
  <2>2. PICK t : t = runs[r].from
    OBVIOUS
  <2>3. x \in DOMAIN runs /\ runs[x].from = t /\ runs[x].resumes = 0
    BY <2>1, <2>2 DEF Started
  <2>4. t # 0
    BY <2>1, <2>2 DEF CoreInv, RunInv
  <2>5. Sole(x, t)
    BY <2>1, <2>2, <2>3, <2>4 DEF Sole, RootOf, Root, Started
  <2>6. ThreadRuns(x, t)
    BY <2>1, <2>3, <2>5 DEF PlaceInv, PlaceOf, PlaceAs
  <2>7. /\ Cwd(r) = Cwd(x) /\ runs[r].resumes \in DOMAIN runs
        /\ Cwd(runs[r].resumes) = Cwd(x)
    BY <2>1, <2>2, <2>6 DEF ThreadRuns
  <2>8. ~runs[r].tree
    BY <2>1, <2>2, <2>4 DEF CoreInv, RunInv, Root
  <2>. QED BY <2>7, <2>8 DEF Cwd
<1> QED
  BY <1>1, Invariance, PlacesHold, PTL

===============================================================================
