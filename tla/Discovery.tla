----------------------------- MODULE Discovery -----------------------------
(***************************************************************************)
(* The manifest watcher (internal/extensions/discover.go): how what the user *)
(* does to the directory of one extension reaches the supervisor.  The       *)
(* daemon scans the directory (Discover), sets watches (Watch), and then a    *)
(* loop classifies file events and arms debounce timers, whose callbacks read *)
(* the manifest again and tell the supervisor.                               *)
(*                                                                           *)
(* External: the user, the file system, and fsnotify, which reports each      *)
(* change of a watched place once, in order and late.  The supervisor is what *)
(* it was last told; Supervisor.tla says what it does with that.             *)
(***************************************************************************)
EXTENDS Naturals, Sequences, SequencesExt

CONSTANTS
  Version,    \* the contents of a manifest that LoadManifest accepts
  Slot,       \* callbacks that may run at a time
  MaxEdits,   \* bound on the changes the user makes
  None,       \* no manifest, or an extension the supervisor does not know
  Bad         \* a manifest that is refused, or an extension marked invalid

ASSUME DiscoveryAssumption ==
  /\ MaxEdits \in Nat /\ Slot # {}
  /\ None # Bad /\ {None, Bad} \cap Version = {}

VARIABLES
  dir,        \* the extension's directory exists
  manifest,   \* the content of its manifest file
  edits,      \* the number of changes so far
  phase,      \* where the daemon is
  dirWatch,   \* the directory is watched
  fileWatch,  \* the manifest is watched by itself
  events,     \* reported, and not handled yet
  tracked,    \* the manifest is in the tracked set
  timers,     \* what the armed timers will do, in the order they expire
  pending,    \* the pending map has an entry, that of the newest timer
  callback,   \* the callbacks that have started
  sup,        \* what the supervisor was last told
  missed      \* not in the code: why the supervisor may be behind

fsVars == << dir, manifest, edits >>
watchVars == << phase, dirWatch, fileWatch, tracked >>
timerVars == << timers, pending, callback >>
vars == << fsVars, watchVars, timerVars, events, sup, missed >>

Content == Version \cup {Bad}
Phases  == << "discover", "load", "root", "dir", "track", "loop" >>
NoCall  == [pc |-> "idle", does |-> "none", read |-> None]

Init ==
  /\ dir \in BOOLEAN /\ manifest \in Content \cup {None}
  /\ manifest # None => dir
  /\ edits = 0 /\ phase = "discover" /\ dirWatch = FALSE /\ fileWatch = FALSE
  /\ events = << >> /\ tracked = FALSE
  /\ timers = << >> /\ pending = FALSE /\ callback = [s \in Slot |-> NoCall]
  /\ sup = None /\ missed = {}

-----------------------------------------------------------------------------
(* The user, and the events that reach the daemon.  A dir event is seen by    *)
(* the watch of the parent, which exists from phase "dir" on.                *)

RootWatched == phase \in { "dir", "track", "loop" }
Seen(ev) == IF ev.place = "dir" THEN RootWatched
            ELSE dirWatch \/ (fileWatch /\ ev.what # "create")

Ev(place, what) == [place |-> place, what |-> what]

\* The daemon is between its scan and its first watch, or watches the manifest of
\* a directory that it does not watch yet.
WatchGap == phase \in { "load", "root", "dir" } \/ (fileWatch /\ ~dirWatch)

Edit(evs, unseen) ==
  /\ edits < MaxEdits /\ edits' = edits + 1
  /\ events' = events \o SelectSeq(evs, Seen)
  /\ missed' = IF unseen /\ WatchGap THEN missed \cup { "unwatched" } ELSE missed
  /\ UNCHANGED << phase, tracked, timerVars, sup >>

MakeDir ==
  /\ ~dir /\ dir' = TRUE /\ UNCHANGED << manifest, dirWatch, fileWatch >>
  /\ Edit(<< Ev("dir", "create") >>, FALSE)

\* Moved or linked into place, manifest and all.
InstallDir ==
  /\ ~dir /\ dir' = TRUE /\ manifest' \in Content
  /\ Edit(<< Ev("dir", "create") >>, phase # "dir")
  /\ UNCHANGED << dirWatch, fileWatch >>

\* Removed when empty, or moved away as it is; its watch ends with it.
TakeDir ==
  /\ dir /\ dir' = FALSE /\ manifest' = None /\ dirWatch' = FALSE /\ fileWatch' = FALSE
  /\ Edit(<< Ev("dir", "remove") >>, manifest # None)

\* An editor that opens the file and then writes it.
CreateManifest ==
  /\ dir /\ manifest = None /\ manifest' = Bad
  /\ Edit(<< Ev("file", "create") >>, TRUE)
  /\ UNCHANGED << dir, dirWatch, fileWatch >>

WriteManifest ==
  /\ manifest # None /\ manifest' \in Content
  /\ Edit(<< Ev("file", "write") >>, TRUE)
  /\ UNCHANGED << dir, dirWatch, fileWatch >>

\* An editor that renames a new file over the old one, which some platforms
\* report as a removal too.
ReplaceManifest ==
  /\ dir /\ manifest' \in Content /\ fileWatch' = FALSE
  /\ \E gone \in BOOLEAN :
       /\ manifest = None => ~gone
       /\ fileWatch /\ ~dirWatch => gone
       /\ Edit((IF gone THEN << Ev("file", "remove") >> ELSE << >>)
               \o << Ev("file", "create") >>, TRUE)
  /\ UNCHANGED << dir, dirWatch >>

DeleteManifest ==
  /\ manifest # None /\ manifest' = None /\ fileWatch' = FALSE
  /\ Edit(<< Ev("file", "remove") >>, TRUE) /\ UNCHANGED << dir, dirWatch >>

User == \/ MakeDir \/ InstallDir \/ TakeDir
        \/ CreateManifest \/ WriteManifest \/ ReplaceManifest \/ DeleteManifest

-----------------------------------------------------------------------------
(* The daemon starts: Discover, then Watch.                                  *)

\* LoadManifest, and Apply or MarkInvalid with what it made of the file.
Loaded == IF manifest \in Version THEN manifest ELSE Bad

Discover ==
  /\ phase = "discover"
  /\ phase' = IF manifest = None THEN "root" ELSE "load"
  /\ UNCHANGED << fsVars, dirWatch, fileWatch, tracked, timerVars, events, sup, missed >>

DiscoverLoad ==
  /\ phase = "load" /\ phase' = "root" /\ sup' = Loaded
  /\ UNCHANGED << fsVars, dirWatch, fileWatch, tracked, timerVars, events, missed >>

WatchRoot ==
  /\ phase = "root" /\ phase' = "dir"
  /\ UNCHANGED << fsVars, dirWatch, fileWatch, tracked, timerVars, events, sup, missed >>

WatchDir ==
  /\ phase = "dir" /\ phase' = IF dir THEN "track" ELSE "loop"
  /\ dirWatch' = dir
  /\ UNCHANGED << fsVars, fileWatch, tracked, timerVars, events, sup, missed >>

WatchManifest == /\ fileWatch' = (fileWatch \/ manifest # None)
                 /\ tracked' = (tracked \/ manifest # None)

TrackExisting ==
  /\ phase = "track" /\ phase' = "loop" /\ WatchManifest
  /\ UNCHANGED << fsVars, dirWatch, timerVars, events, sup, missed >>

\* The stop function of Watch; timers that are armed still fire.
StopWatch ==
  /\ phase = "loop" /\ phase' = "stopped"
  /\ dirWatch' = FALSE /\ fileWatch' = FALSE
  /\ UNCHANGED << fsVars, tracked, timerVars, events, sup, missed >>

Boot == Discover \/ DiscoverLoad \/ WatchRoot \/ WatchDir \/ TrackExisting

-----------------------------------------------------------------------------
(* The loop.                                                                *)

\* The timer on record is stopped if it has not expired; a callback that has
\* begun took the record away, also that of a newer timer.
Schedule(does) ==
  /\ timers' = Append(IF pending /\ timers # << >> THEN Front(timers) ELSE timers, does)
  /\ pending' = TRUE /\ UNCHANGED callback

Outstanding(does) ==
  \/ does \in ToSet(timers)
  \/ \E s \in Slot : callback[s].pc # "idle" /\ callback[s].does = does

\* A removal that the loop ignores, although the supervisor knows the extension
\* or is about to be told of it.
Ignored == missed' =
  IF (sup # None \/ Outstanding("probe")) /\ ~Outstanding("remove")
  THEN missed \cup { "ignored" } ELSE missed

Removed == /\ tracked' = FALSE /\ fileWatch' = FALSE
           /\ Schedule("remove") /\ UNCHANGED missed

\* Mutation: of a tracked file, only writes are followed.
HandleFileWritesOnly(what) ==
  CASE tracked /\ what = "write" -> Schedule("apply") /\ UNCHANGED << fileWatch, tracked, missed >>
    [] tracked /\ what = "create" -> UNCHANGED << fileWatch, tracked, timerVars, missed >>
    [] tracked /\ what = "remove" -> Removed
    [] ~tracked /\ what = "create" -> Schedule("probe") /\ UNCHANGED << fileWatch, tracked, missed >>
    [] ~tracked /\ what = "write" -> UNCHANGED << fileWatch, tracked, timerVars, missed >>
    [] ~tracked /\ what = "remove" -> Ignored /\ UNCHANGED << fileWatch, tracked, timerVars >>

HandleFile(what) ==
  CASE tracked /\ what # "remove" -> Schedule("apply") /\ UNCHANGED << fileWatch, tracked, missed >>
    [] tracked /\ what = "remove" -> Removed
    [] ~tracked /\ what = "create" -> Schedule("probe") /\ UNCHANGED << fileWatch, tracked, missed >>
    [] ~tracked /\ what = "write" -> UNCHANGED << fileWatch, tracked, timerVars, missed >>
    [] ~tracked /\ what = "remove" -> Ignored /\ UNCHANGED << fileWatch, tracked, timerVars >>

HandleDir(what) ==
  \/ /\ what = "create" /\ dirWatch' = (dirWatch \/ dir)
     /\ Schedule("probe") /\ UNCHANGED << fileWatch, tracked, missed >>
  \/ /\ what = "remove" /\ tracked /\ Removed /\ UNCHANGED dirWatch
  \/ /\ what = "remove" /\ ~tracked /\ Ignored
     /\ UNCHANGED << dirWatch, fileWatch, tracked, timerVars >>

HandleEvent ==
  /\ phase = "loop" /\ events # << >> /\ events' = Tail(events)
  /\ LET ev == Head(events)
     IN  IF ev.place = "dir" THEN HandleDir(ev.what)
         ELSE HandleFile(ev.what) /\ UNCHANGED dirWatch
  /\ UNCHANGED << fsVars, phase, sup >>

-----------------------------------------------------------------------------
(* Timers and their callbacks.                                              *)

\* With one slot the debounce outlasts a callback.
Expire(s) ==
  /\ timers # << >> /\ callback[s].pc = "idle"
  /\ callback' = [callback EXCEPT ![s] =
       [pc |-> "begin", does |-> Head(timers), read |-> None]]
  /\ timers' = Tail(timers)
  /\ UNCHANGED << fsVars, watchVars, events, pending, sup, missed >>

Goto(s, pc) == callback' = [callback EXCEPT ![s].pc = pc]
Return(s)   == callback' = [callback EXCEPT ![s] = NoCall]

Begin(s) ==
  /\ callback[s].pc = "begin" /\ pending' = FALSE
  /\ Goto(s, CASE callback[s].does = "apply" -> "load"
               [] callback[s].does = "probe" -> "stat"
               [] callback[s].does = "remove" -> "remove")
  /\ UNCHANGED << fsVars, watchVars, events, timers, sup, missed >>

\* Where a removal was waiting for its timer, the probe has taken its place.
Stat(s) ==
  /\ callback[s].pc = "stat"
  /\ IF manifest = None THEN Return(s) ELSE Goto(s, "track")
  /\ missed' = IF manifest = None /\ sup # None /\ ~Outstanding("remove")
               THEN missed \cup { "replaced" } ELSE missed
  /\ UNCHANGED << fsVars, watchVars, events, timers, pending, sup >>

\* A file that is gone cannot be watched; the callback goes on all the same.
Track(s) ==
  /\ callback[s].pc = "track" /\ Goto(s, "load")
  /\ WatchManifest
  /\ UNCHANGED << fsVars, phase, dirWatch, events, timers, pending, sup, missed >>

Load(s) ==
  /\ callback[s].pc = "load"
  /\ callback' = [callback EXCEPT ![s].pc = "apply", ![s].read = Loaded]
  /\ UNCHANGED << fsVars, watchVars, events, timers, pending, sup, missed >>

\* What was missed is made good once the supervisor has what is on the disk, the
\* loop knows the file, and nothing older is still to be handled.
Apply(s) ==
  /\ callback[s].pc = "apply" /\ Return(s) /\ sup' = callback[s].read
  /\ missed' = IF sup' = manifest /\ tracked /\ events = << >> /\ timers = << >>
               THEN {} ELSE missed
  /\ UNCHANGED << fsVars, watchVars, events, timers, pending >>

RemoveCalled(s) ==
  /\ callback[s].pc = "remove" /\ Return(s) /\ sup' = None
  /\ UNCHANGED << fsVars, watchVars, events, timers, pending, missed >>

Callback(s) == Expire(s) \/ Begin(s) \/ Stat(s) \/ Track(s) \/ Load(s) \/ Apply(s) \/ RemoveCalled(s)

-----------------------------------------------------------------------------

Next == User \/ Boot \/ StopWatch \/ HandleEvent \/ \E s \in Slot : Callback(s)

Spec == Init /\ [][Next]_vars

\* The daemon starts, its loop runs, timers expire and callbacks go on; nothing is
\* assumed of the user.
FairSpec == /\ Spec /\ WF_vars(Boot) /\ WF_vars(HandleEvent)
            /\ \A s \in Slot : WF_vars(Callback(s))

\* Every variable keeps its type (Discover, Watch, runWatchLoop).
TypeOK ==
  /\ dir \in BOOLEAN /\ manifest \in Content \cup {None} /\ edits \in 0..MaxEdits
  /\ phase \in ToSet(Phases) \cup { "stopped" }
  /\ dirWatch \in BOOLEAN /\ fileWatch \in BOOLEAN /\ tracked \in BOOLEAN /\ pending \in BOOLEAN
  /\ events \in Seq([place : { "dir", "file" }, what : { "create", "write", "remove" }])
  /\ timers \in Seq({ "apply", "probe", "remove" })
  /\ sup \in Content \cup {None} /\ missed \subseteq { "unwatched", "replaced", "ignored" }

InSync == sup = manifest /\ tracked = (manifest # None) /\ dirWatch = dir

\* "Watches the directory itself for create/remove of subdirectories, and when a
\* new manifest.yaml appears (in a freshly-added subdir, or as an edit) it applies
\* it" (Watch): in the end the supervisor has the manifest that is on the disk, or
\* none where there is none, and the next change will be seen, however edits,
\* timers and callbacks interleave, unless a change fell into one of the gaps
\* that missed names.
ManifestsFollowed ==
  []TypeOK /\ <>[](phase = "stopped" \/ missed # {} \/ InSync)

\* The same without the gaps, which the code does not keep (Watch, handleEvent).
AlwaysFollowed == <>[](phase = "stopped" \/ sup = manifest)

=============================================================================
