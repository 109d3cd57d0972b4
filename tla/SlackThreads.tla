---------------------------- MODULE SlackThreads ----------------------------
(***************************************************************************)
(* bigband-slack: messages that submit runs, replies that follow them up,   *)
(* and the completions that are posted back (cmd/bigband-slack).  Two        *)
(* goroutines share the store: the socket-mode loop, which handles one       *)
(* message at a time, and the subscribe loop, which handles one event at a   *)
(* time.  Each operation of the store is a critical section; between two of  *)
(* them the other goroutine, the daemon, a disconnect or a restart may come. *)
(*                                                                           *)
(* A message is named by its timestamp, a thread by that of its first        *)
(* message: the n-th message of the users has n, the post of run r what is   *)
(* next to r.  The run r has the session r.  A job that was submitted has    *)
(* the name of its first run; a command of a channel may name a job that ran *)
(* before.  Cron is a job of config.yaml with a mirror rule; no rule matches *)
(* a submitted job.  A place is the worktree of a job or a folder: that in   *)
(* which it ran first, or another.  0 stands for an empty string.            *)
(***************************************************************************)
EXTENDS Naturals, Sequences, Functions

CONSTANTS
  MaxRuns,      \* bound on the runs
  MaxMessages,  \* bound on what users write
  Mentions,     \* the messages, by their number, that are mentions in a channel
  MaxBacklog,   \* bound on the events that were published and not received
  MaxFaults     \* bound on disconnects, restarts and failed calls together

ASSUME SlackAssumption ==
  /\ MaxRuns \in Nat \ {0} /\ MaxMessages \in Nat /\ MaxFaults \in Nat
  /\ MaxBacklog \in Nat \ {0}
  /\ Mentions \subseteq 1..MaxMessages

Cron  == MaxRuns + 1
Repo  == MaxRuns + 2
Run   == 1..MaxRuns
Job   == 1..Cron
Other == MaxRuns + 3
Place == 0..Other
Ts    == 1..(MaxMessages + MaxRuns)

VARIABLES
  runs,      \* the runs of the daemon, in the order they were started
  log,       \* the events it has published
  inbox,     \* the messages that Slack will deliver again
  written,   \* how much the users wrote
  posts,     \* history: the completions posted
  store,     \* state.json, and the copy in memory
  old,       \* the entries of the store that retention lets go
  sub,       \* subscribeState and the connection; history: whether an event was
             \* missed, whether the process was restarted, and the stream broke again
  ev,        \* where HandleEvent is
  sm,        \* where HandleSlackMessage is
  faults     \* how often something went wrong
world  == << inbox, written, posts >>
daemon == << runs, log >>
vars   == << daemon, world, store, old, sub, ev, sm, faults >>

NoRun    == [job |-> 0, thread |-> 0]
NoJob    == [thread |-> 0, session |-> 0, folder |-> 0, tree |-> 0]
NoThread == [job |-> 0, session |-> 0, folder |-> 0, tree |-> 0, replies |-> FALSE]

Empty == [runs    |-> [r \in Run |-> NoRun],
          jobs    |-> [j \in Job |-> NoJob],
          threads |-> [t \in Ts |-> NoThread]]

NoEvent == [kind |-> "none", run |-> 0, session |-> 0, tree |-> 0]
Idle == [at |-> "idle", event |-> NoEvent, mapping |-> NoRun, replies |-> FALSE]
Free == [at |-> "idle", msg |-> [ts |-> 0, thread |-> 0], run |-> 0, snap |-> NoThread]

Init ==
  /\ runs = << >> /\ log = << >> /\ inbox = {}
  /\ written = 0 /\ posts = << >>
  /\ store = Empty /\ old = {}
  /\ sub = [up |-> TRUE, pos |-> 0, last |-> 0, seen |-> {},
            missed |-> FALSE, restarted |-> FALSE, again |-> FALSE]
  /\ ev = Idle /\ sm = Free /\ faults = 0

-----------------------------------------------------------------------------
(* The store. *)

Entry(kind, id) == [kind |-> kind, id |-> id]

\* Every operation stamps what it writes.
Stamp(kind, id) == old' = old \ {Entry(kind, id)}
StampBoth(j, t) == old' = old \ {Entry("job", j), Entry("thread", t)}

\* Mutation: the worktree of the job is not taken over.
KeepTree(snap, staged) == snap.tree

TreeOf(snap, staged) == IF staged.tree # 0 THEN staged.tree ELSE snap.tree

\* The values a job was last seen with, promoted to the snapshot of a thread:
\* what is empty does not replace what is known.
Promote(snap, staged, j, s, replies) ==
  [job |-> j, replies |-> replies,
   session |-> IF s # 0 THEN s ELSE IF snap.session # 0 THEN snap.session ELSE staged.session,
   folder  |-> IF staged.folder # 0 THEN staged.folder ELSE snap.folder,
   tree    |-> TreeOf(snap, staged)]

\* Mutation: the snapshot is not stamped.
StampRunAndJob(r, j, t) == {Entry("run", r), Entry("job", j)}

Stamped(r, j, t) == {Entry("run", r), Entry("job", j), Entry("thread", t)}

LinkRun(r, j, t, s, replies) ==
  LET staged == [store.jobs[j] EXCEPT !.thread = t, !.session = IF s # 0 THEN s ELSE @]
  IN /\ store' = [runs    |-> [store.runs EXCEPT ![r] = [job |-> j, thread |-> t]],
                  jobs    |-> [store.jobs EXCEPT ![j] = staged],
                  threads |-> [store.threads EXCEPT ![t] = Promote(@, staged, j, s, replies)]]
     /\ old' = old \ Stamped(r, j, t)

\* What is staged for a job is propagated to the thread it was last linked to.
SetJobSessionID(j, s) ==
  IF s = 0 THEN UNCHANGED << store, old >>
  ELSE LET t == store.jobs[j].thread
       IN /\ store' = [store EXCEPT !.jobs[j].session = s,
                                    !.threads = IF t = 0 THEN @ ELSE [@ EXCEPT ![t].session = s]]
          /\ StampBoth(j, t)

LinkJobMeta(j, folder, tree) ==
  LET t    == store.jobs[j].thread
      P(c) == [c EXCEPT !.folder = IF folder # 0 THEN folder ELSE @,
                        !.tree   = IF tree # 0 THEN tree ELSE @]
  IN /\ store' = [runs    |-> store.runs,
                  jobs    |-> [store.jobs EXCEPT ![j] = P(@)],
                  threads |-> IF t = 0 THEN store.threads ELSE [store.threads EXCEPT ![t] = P(@)]]
     /\ IF t # 0 /\ (folder # 0 \/ tree # 0) THEN StampBoth(j, t) ELSE Stamp("job", j)

SetJobFolderWorktree(j, folder, tree) ==
  LET t     == store.jobs[j].thread
      known == t # 0 /\ store.threads[t] # NoThread
      P(c)  == [c EXCEPT !.folder = folder, !.tree = tree]
  IN /\ store' = [runs    |-> store.runs,
                  jobs    |-> [store.jobs EXCEPT ![j] = P(@)],
                  threads |-> IF known THEN [store.threads EXCEPT ![t] = P(@)] ELSE store.threads]
     /\ IF known THEN StampBoth(j, t) ELSE Stamp("job", j)

\* Entries exist when something was ever written to them.
Entries == {Entry("run", r) : r \in {x \in Run : store.runs[x] # NoRun}}
             \cup {Entry("job", j) : j \in {x \in Job : store.jobs[x] # NoJob}}
             \cup {Entry("thread", t) : t \in {x \in Ts : store.threads[x] # NoThread}}

Over(r) == runs[r].stage \in {"done", "skipped"}

\* The retention has passed for all that is in the store.  Assumed: no run lasts
\* that long (the default is seven days), and no handler.
TimePasses ==
  /\ faults < MaxFaults
  /\ \A i \in DOMAIN runs : Over(i)
  /\ ev = Idle /\ sm = Free /\ sub.pos = Len(log) /\ inbox = {}
  /\ Entries # {} /\ old' = Entries
  /\ faults' = faults + 1
  /\ UNCHANGED << daemon, world, store, sub, ev, sm >>

\* Mutation: what was let go is let go again.
PruneAgain ==
  /\ old # {}
  /\ store' = [store EXCEPT !.runs = [r \in Run |-> IF Entry("run", r) \in old THEN NoRun ELSE @[r]]]
  /\ UNCHANGED << daemon, world, old, sub, ev, sm, faults >>

Prune ==
  /\ old # {}
  /\ store' = [runs    |-> [r \in Run |-> IF Entry("run", r) \in old THEN NoRun ELSE store.runs[r]],
               jobs    |-> [j \in Job |-> IF Entry("job", j) \in old THEN NoJob ELSE store.jobs[j]],
               threads |-> [t \in Ts |-> IF Entry("thread", t) \in old THEN NoThread ELSE store.threads[t]]]
  /\ old' = {}
  /\ UNCHANGED << daemon, world, sub, ev, sm, faults >>

-----------------------------------------------------------------------------
(* The daemon. *)

CanStart == Len(runs) < MaxRuns
NewRun(j, from, resumes, folder, tree) ==
  [job |-> j, from |-> from, resumes |-> resumes, folder |-> folder, tree |-> tree,
   stage |-> "started"]

Publish(kind, r, s, t) ==
  /\ Len(log) - sub.pos < MaxBacklog
  /\ log' = Append(log, [kind |-> kind, run |-> r, session |-> s, tree |-> t])

\* A run of the job has its lock, as far as can be told from outside.
Locked(j) == \E i \in DOMAIN runs : runs[i].job = j /\ runs[i].stage \in {"resolved", "session"}

Cwd(r) == IF runs[r].tree THEN runs[r].job ELSE runs[r].folder

\* A run of Cron at a time, from its schedule; it may be configured with or
\* without a worktree by then.
CronFires ==
  /\ CanStart
  /\ \A i \in DOMAIN runs : runs[i].job = Cron => runs[i].stage = "done"
  /\ \E tree \in BOOLEAN : runs' = Append(runs, NewRun(Cron, 0, 0, Repo, tree))
  /\ UNCHANGED << log, world, store, old, sub, ev, sm, faults >>

\* A run that finds the lock of its job taken ends without a word.  Between the
\* answer of the daemon and the row that says it runs, and from the row that says
\* it ended to the release of the lock, a second run of the job is accepted.
SkipRun(r) ==
  /\ runs[r].stage = "started"
  /\ \E i \in DOMAIN runs \ {r} : runs[i].job = runs[r].job /\ ~Over(i)
  /\ runs' = [runs EXCEPT ![r].stage = "skipped"]
  /\ UNCHANGED << log, world, store, old, sub, ev, sm, faults >>

\* A run in the folder itself has nothing to announce before its session.
MakeTree(r) ==
  /\ runs[r].stage = "started" /\ ~Locked(runs[r].job) /\ runs[r].tree
  /\ runs' = [runs EXCEPT ![r].stage = "resolved"]
  /\ Publish("worktree", r, 0, runs[r].job)
  /\ UNCHANGED << world, store, old, sub, ev, sm, faults >>

AnnounceSession(r) ==
  /\ runs[r].stage = IF runs[r].tree THEN "resolved" ELSE "started"
  /\ runs[r].stage = "started" => ~Locked(runs[r].job)
  /\ runs' = [runs EXCEPT ![r].stage = "session"]
  /\ Publish("session", r, r, 0)
  /\ UNCHANGED << world, store, old, sub, ev, sm, faults >>

\* A run that fails before it has a place or a session completes without.
Complete(r) ==
  /\ ~Over(r) /\ (runs[r].stage = "started" => ~Locked(runs[r].job))
  /\ runs' = [runs EXCEPT ![r].stage = "done"]
  /\ Publish("completed", r, IF runs[r].stage = "session" THEN r ELSE 0,
             IF runs[r].stage # "started" /\ runs[r].tree THEN runs[r].job ELSE 0)
  /\ UNCHANGED << world, store, old, sub, ev, sm, faults >>

-----------------------------------------------------------------------------
(* The subscription: runSubscribeLoop and streamOnce. *)

\* Mutation: Since is not sent.
LiveOnly(s) == {Len(log)}

\* The first index that is sent: without Since only what is published from now
\* on; with it also what was published in the second of the last event, or later.
ReplayFrom(s) == IF s.last = 0 THEN {Len(log)} ELSE 0..s.last

Connect ==
  /\ ~sub.up /\ ev = Idle
  /\ \E p \in ReplayFrom(sub) :
       sub' = [sub EXCEPT !.up = TRUE, !.pos = p,
                          !.missed = @ \/ \E e \in 1..p : e \notin sub.seen,
                          !.again = @ \/ (sub.restarted /\ sub.last # 0)]
  /\ UNCHANGED << daemon, world, store, old, ev, sm, faults >>

\* What was sent and not yet handled is gone with the connection.
Disconnect ==
  /\ sub.up /\ ev = Idle /\ faults < MaxFaults
  /\ sub' = [sub EXCEPT !.up = FALSE]
  /\ faults' = faults + 1
  /\ UNCHANGED << daemon, world, store, old, ev, sm >>

\* Mutation: events are not told apart.
NoDuplicate(e) == FALSE

Duplicate(e) == e \in sub.seen

Skip ==
  /\ sub.up /\ ev = Idle /\ sub.pos < Len(log) /\ Duplicate(sub.pos + 1)
  /\ sub' = [sub EXCEPT !.pos = @ + 1]
  /\ UNCHANGED << daemon, world, store, old, ev, sm, faults >>

Receive ==
  /\ sub.up /\ ev = Idle /\ sub.pos < Len(log) /\ ~Duplicate(sub.pos + 1)
  /\ LET n == sub.pos + 1
         e == log[n]
     IN /\ sub' = [sub EXCEPT !.pos = n, !.seen = @ \cup {n}, !.last = IF n > @ THEN n ELSE @]
        /\ ev' = [at |-> e.kind, event |-> e, mapping |-> store.runs[e.run], replies |-> FALSE]
  /\ UNCHANGED << daemon, world, store, old, sm, faults >>

-----------------------------------------------------------------------------
(* HandleEvent. *)

\* The name of a follow-up is its own; the mapping of the run has the parent's.
Parent == IF ev.mapping.job # 0 THEN ev.mapping.job ELSE runs[ev.event.run].job
Originated == ev.mapping.thread # 0

EventStep == UNCHANGED << daemon, sub, sm, faults >>
NoPost    == UNCHANGED world

\* LinkJobMeta with nothing in it comes first; it only stamps.
HandleSession ==
  /\ ev.at = "session"
  /\ SetJobSessionID(runs[ev.event.run].job, ev.event.session)
  /\ ev' = Idle /\ EventStep /\ NoPost

HandleWorktree ==
  /\ ev.at = "worktree"
  /\ LinkJobMeta(runs[ev.event.run].job, 0, ev.event.tree)
  /\ ev' = Idle /\ EventStep /\ NoPost

CompletedFolder ==
  /\ ev.at = "completed"
  /\ SetJobFolderWorktree(Parent, runs[ev.event.run].folder, ev.event.tree)
  /\ ev' = [ev EXCEPT !.at = "set session"]
  /\ EventStep /\ NoPost

\* A run that did not come from Slack is posted if a rule says so: the config may
\* have been edited at any time, so that there is a rule or not, for failures or
\* not, with replies or without.
Posted(replies) ==
  \/ Originated /\ replies
  \/ ~Originated /\ Parent = Cron
Unwanted == ~Originated

CompletedSession ==
  /\ ev.at = "set session"
  /\ SetJobSessionID(Parent, ev.event.session)
  /\ \/ \E replies \in BOOLEAN : Posted(replies) /\ ev' = [ev EXCEPT !.at = "post", !.replies = replies]
     \/ Unwanted /\ ev' = Idle
  /\ EventStep /\ NoPost

\* Mutation: a completion goes where its job was last linked to.
LastThread == store.jobs[Parent].thread

PostThread == ev.mapping.thread

\* The chunks of a message are posted one after the other; the first decides.
PostTs(r) == MaxMessages + r

Post ==
  /\ ev.at = "post"
  /\ posts' = Append(posts, [run |-> ev.event.run, thread |-> PostThread])
  /\ ev' = [ev EXCEPT !.at = "link"]
  /\ UNCHANGED << inbox, written, store, old >> /\ EventStep

PostFails ==
  /\ ev.at = "post" /\ faults < MaxFaults
  /\ ev' = Idle /\ faults' = faults + 1
  /\ UNCHANGED << daemon, world, store, old, sub, sm >>

\* The mapping is to the message that was posted.
LinkPosted ==
  /\ ev.at = "link"
  /\ LinkRun(ev.event.run, Parent, PostTs(ev.event.run), ev.event.session, ev.replies)
  /\ ev' = Idle /\ EventStep /\ NoPost

-----------------------------------------------------------------------------
(* HandleSlackMessage. *)

Roots == {r.from : r \in {x \in Range(runs) : x.from # 0}}
           \cup {PostTs(p.run) : p \in {x \in Range(posts) : x.thread = 0}}

Folder(snap) == IF snap.tree # 0 THEN snap.tree ELSE snap.folder
Routable(snap) == snap.job # 0 /\ snap.replies /\ snap.session # 0 /\ Folder(snap) # 0

Take(m) ==
  LET snap == IF m.thread = 0 THEN NoThread ELSE store.threads[m.thread]
  IN sm' = IF m.thread = 0 \/ Routable(snap)
             THEN [at |-> "submit", msg |-> m, run |-> 0, snap |-> snap]
             ELSE Free

Mention == [ts : Mentions, thread : {0} \cup Ts]

\* A user writes to a trigger channel, or in a thread.  A message that is delivered
\* late is one that was written late.
HandleMessage ==
  /\ sm.at = "idle" /\ written < MaxMessages
  /\ \E t \in {0} \cup Roots :
       LET m == [ts |-> written + 1, thread |-> t]
       IN Take(m) /\ inbox' = inbox \cup ({m} \cap Mention)
  /\ written' = written + 1
  /\ UNCHANGED << daemon, posts, store, old, sub, ev, faults >>

\* A mention in a channel is delivered twice, as a message and as a mention.
HandleMention ==
  /\ sm.at = "idle"
  /\ \E m \in inbox : Take(m) /\ inbox' = inbox \ {m}
  /\ UNCHANGED << daemon, written, posts, store, old, sub, ev, faults >>

\* The jobs that were submitted, which a command may name.
Named == {r.job : r \in Range(runs)} \ {Cron}

\* The daemon makes the run and answers with its id.  A text without a command, and
\* a reply, has a generated name, which is new; a command has the folder and the
\* worktree of its own configuration.
Submit ==
  /\ sm.at = "submit" /\ CanStart
  /\ LET r == Len(runs) + 1
     IN /\ \/ /\ sm.msg.thread = 0
              /\ \E tree \in BOOLEAN :
                   \/ runs' = Append(runs, NewRun(r, sm.msg.ts, 0, Repo, tree))
                   \/ \E j \in Named, folder \in {Repo, Other} :
                        runs' = Append(runs, NewRun(j, sm.msg.ts, 0, folder, tree))
           \/ /\ sm.msg.thread # 0
              /\ runs' = Append(runs, NewRun(r, sm.msg.thread, sm.snap.session, Folder(sm.snap), FALSE))
        /\ sm' = [sm EXCEPT !.at = "link", !.run = r]
  /\ UNCHANGED << log, inbox, written, posts, store, old, sub, ev, faults >>

SubmitFails ==
  /\ sm.at = "submit" /\ faults < MaxFaults
  /\ sm' = Free /\ faults' = faults + 1
  /\ UNCHANGED << daemon, world, store, old, sub, ev >>

\* The name is that of a job whose row says that it runs.
Refused ==
  /\ sm.at = "submit" /\ sm.msg.thread = 0 /\ \E j \in Named : Locked(j)
  /\ sm' = Free
  /\ UNCHANGED << daemon, world, store, old, sub, ev, faults >>

LinkSubmitted ==
  /\ sm.at = "link"
  /\ IF sm.msg.thread = 0
       THEN LinkRun(sm.run, runs[sm.run].job, sm.msg.ts, 0, TRUE) /\ sm' = [sm EXCEPT !.at = "meta"]
       ELSE /\ LinkRun(sm.run, sm.snap.job, sm.msg.thread, sm.snap.session, sm.snap.replies)
            /\ sm' = Free
  /\ UNCHANGED << daemon, world, sub, ev, faults >>

LinkFolder ==
  /\ sm.at = "meta"
  /\ LinkJobMeta(runs[sm.run].job, runs[sm.run].folder, 0)
  /\ sm' = Free
  /\ UNCHANGED << daemon, world, sub, ev, faults >>

-----------------------------------------------------------------------------
\* The process ends and is started again: what it did is cut off, the state file
\* stays, the cursor and the seen set do not.
Restart ==
  /\ faults < MaxFaults
  /\ ev' = Idle /\ sm' = Free
  /\ sub' = [sub EXCEPT !.up = FALSE, !.pos = 0, !.last = 0, !.seen = {}, !.restarted = TRUE]
  /\ faults' = faults + 1
  /\ UNCHANGED << daemon, world, store, old >>

Daemon ==
  \/ CronFires
  \/ \E r \in DOMAIN runs : SkipRun(r) \/ MakeTree(r) \/ AnnounceSession(r) \/ Complete(r)

Subscriber ==
  \/ Connect \/ Skip \/ Receive
  \/ HandleSession \/ HandleWorktree \/ CompletedFolder \/ CompletedSession
  \/ Post \/ LinkPosted

Messages == HandleMessage \/ HandleMention \/ Submit \/ Refused \/ LinkSubmitted \/ LinkFolder

Next ==
  \/ Daemon \/ Subscriber \/ Messages
  \/ Disconnect \/ PostFails \/ SubmitFails \/ Restart
  \/ TimePasses \/ Prune

Spec == Init /\ [][Next]_vars

\* The subscribe loop runs, and reconnects with a bounded backoff.
FairSpec == Spec /\ WF_vars(Subscriber)

-----------------------------------------------------------------------------
Event == [kind : {"worktree", "session", "completed"}, run : Run,
          session : 0..MaxRuns, tree : 0..Cron]

TypeOK ==
  /\ \A r \in DOMAIN runs :
       runs[r] \in [job : Job, from : {0} \cup Ts, resumes : 0..MaxRuns, folder : Place,
                    tree : BOOLEAN, stage : {"started", "resolved", "session", "done", "skipped"}]
  /\ Len(runs) <= MaxRuns
  /\ \A e \in DOMAIN log : log[e] \in Event
  /\ inbox \subseteq [ts : Ts, thread : {0} \cup Ts]
  /\ written \in 0..MaxMessages
  /\ store.runs \in [Run -> [job : {0} \cup Job, thread : {0} \cup Ts]]
  /\ store.jobs \in [Job -> [thread : {0} \cup Ts, session : 0..MaxRuns,
                             folder : Place, tree : 0..Cron]]
  /\ store.threads \in [Ts -> [job : {0} \cup Job, session : 0..MaxRuns, folder : Place,
                               tree : 0..Cron, replies : BOOLEAN]]
  /\ old \subseteq Entries
  /\ sub.pos \in 0..Len(log) /\ sub.last \in 0..Len(log) /\ sub.seen \subseteq DOMAIN log
  /\ ev.at \in {"idle", "worktree", "session", "completed", "set session", "post", "link"}
  /\ sm.at \in {"idle", "submit", "link", "meta"}

\* A completion is posted once, however often the stream breaks and whatever is
\* replayed, also across a restart (start.go:206-210, 268-275): until the stream of
\* a process that was restarted breaks.  What its predecessor has posted in the
\* second of the last event is then sent again, and not in the seen set.
AnsweredOnce ==
  ~sub.again => \A i, k \in DOMAIN posts : posts[i].run = posts[k].run => i = k

\* The answer to a message is posted in the thread of that message, whatever else
\* was linked to its job in between, or not posted (router.go:117-133); it is linked
\* to its own post afterwards, where a second one would go.
AnswersInThread ==
  ~sub.again =>
    \A i \in DOMAIN posts :
      runs[posts[i].run].from # 0 => posts[i].thread = runs[posts[i].run].from

\* Each answer is posted once and where it belongs.
AnswersSound == TypeOK /\ AnsweredOnce /\ AnswersInThread

Started(t) == {r \in DOMAIN runs : runs[r].from = t /\ runs[r].resumes = 0}

\* The job of the run has no other run: none of its name was submitted again.
Alone(x) == \A y \in DOMAIN runs : runs[y].job = runs[x].job => y = x

\* A reply resumes a session in the place where that session ran: claude finds it
\* nowhere else.  This is about the threads of messages that started one run, of a
\* job whose name no other command was given; it holds also for a reply that comes
\* before the run completes, and however its events fall around the link, as long
\* as no event was missed (store.go:158-165, 188-199; router.go:363-379).  The runs
\* of a name that is used again share a row, see ReplyResumesItsThread.
ResumedInPlace ==
  ~sub.missed =>
    \A r \in DOMAIN runs :
      runs[r].resumes # 0 /\ (\E x \in Run : Started(runs[r].from) = {x} /\ Alone(x)) =>
        runs[r].folder = Cwd(runs[r].resumes)

\* A run that is linked has a thread that takes replies to it: retention never takes
\* the snapshot before the mapping (store.go:92-139, 232-268).
LinkedRunsRouted ==
  \A r \in Run : store.runs[r].thread # 0 =>
    store.threads[store.runs[r].thread].job # 0

\* store.go:35-38: a thread keeps its session, "a later run of the same job does not
\* overwrite the session of an earlier thread".
ThreadKeepsSession ==
  [][ \A t \in Ts :
        store.threads[t].session # 0 /\ store'.threads[t].session # store.threads[t].session =>
          \/ store'.threads[t] = NoThread
          \/ runs[store'.threads[t].session].from = t ]_vars

\* store.go:97-98: "replies to this thread always resume the correct session even
\* after the same job has run again": in the thread of a message, one of its own.
ReplyResumesItsThread ==
  \A r \in DOMAIN runs :
    runs[r].resumes # 0 /\ runs[r].from <= MaxMessages =>
      runs[runs[r].resumes].from = runs[r].from

\* router.go:117-122: runs that Slack asked for "always post into that thread".
SlackRunsAnswered ==
  \A r \in DOMAIN runs :
    runs[r].from # 0 /\ runs[r].stage = "done" /\ ev = Idle /\ sm = Free
      /\ sub.up /\ sub.pos = Len(log) /\ ~sub.missed /\ faults = 0 =>
        \E i \in DOMAIN posts : posts[i].run = r

\* A message starts one run, however Slack delivers it.
OneRunPerMessage ==
  \A t \in Ts : \A x, y \in Started(t) : x = y

\* Once an event was handled, each later one is, across disconnects and until the
\* process is restarted: the stream is resumed from what was seen last
\* (start.go:206-210, 249-254).
CaughtUp ==
  \A n, k \in DOMAIN log : k \in sub.seen /\ k < n => n \in sub.seen

EventsHandled == []<>(sub.restarted \/ CaughtUp)

=============================================================================
