------------------------------ MODULE EventBus ------------------------------
(***************************************************************************)
(* The event bus of the daemon (internal/events), the subscribe stream that *)
(* IPC clients read (handleSubscribe and streamReplay in internal/daemon)   *)
(* and the reconnecting consumer of the stream in bigband-slack and         *)
(* bigband-wake.                                                            *)
(*                                                                          *)
(* An event is published in two steps: its time is taken before the bus is  *)
(* locked.  Time is counted in seconds, the grain of a replay cursor.  A    *)
(* subscriber has one connection at a time; what was written to it can be   *)
(* read by the client until it dials again.                                 *)
(***************************************************************************)
EXTENDS Naturals, Sequences, SequencesExt

CONSTANTS
  Event,      \* one element per call of Publish
  Sub,        \* the subscribers
  Wanted,     \* the events that match the filter of each subscriber
  Buffer,     \* subscriberBuffer
  MaxTime,    \* bound on the clock
  MaxConn     \* bound on the connections a subscriber makes

ASSUME BusAssumption ==
  /\ Wanted \in [Sub -> SUBSET Event]
  /\ Buffer \in Nat \ {0} /\ MaxTime \in Nat \ {0} /\ MaxConn \in Nat

\* A consumer tells the marker from an event: it has a kind of its own.
ASSUME MarkerAssumption == \A e \in Event : e \notin [lagAt : Nat]

VARIABLES
  now,          \* the clock, in seconds
  pub,          \* where the publisher of each event is
  stamp,        \* OccurredAt of each event
  file,         \* events.jsonl
  open,         \* b.file is not nil
  subscribers,  \* b.subscribers
  chan,         \* the channel of each subscription: none, open or closed
  buf,          \* what is in it
  lagged,       \* its lagged flag
  conn,         \* the handler of each subscriber's connection
  sent,         \* what was written on that connection
  client        \* the consumer: seen, lastSeen, events handled, dials made

vars == << now, pub, stamp, file, open, subscribers, chan, buf, lagged, conn,
           sent, client >>
busVars == << file, open, subscribers, chan, buf, lagged >>
pubVars == << now, pub, stamp >>

\* The synthetic SubscriberLagged envelope; it carries a time of its own.
Marker(t) == [lagAt |-> t]
Markers   == { Marker(t) : t \in 1..MaxTime }
TimeOf(x) == IF x \in Event THEN stamp[x] ELSE x.lagAt

NoConn == [phase |-> "off", since |-> 0, from |-> 0, pos |-> 1,
           replayed |-> {}, dropped |-> {}]

Init ==
  /\ now = 1
  /\ pub = [e \in Event |-> "new"] /\ stamp = [e \in Event |-> 0]
  /\ file = << >> /\ open = TRUE /\ subscribers = {}
  /\ chan = [s \in Sub |-> "none"] /\ buf = [s \in Sub |-> << >>]
  /\ lagged = [s \in Sub |-> FALSE]
  /\ conn = [s \in Sub |-> NoConn] /\ sent = [s \in Sub |-> << >>]
  /\ client = [s \in Sub |-> [seen |-> {}, last |-> 0, handled |-> 0, dials |-> 0]]

Tick == now < MaxTime /\ now' = now + 1
        /\ UNCHANGED << pub, stamp, busVars, conn, sent, client >>

-----------------------------------------------------------------------------
(* The bus.                                                                 *)

Stamp(e) ==
  /\ pub[e] = "new"
  /\ pub' = [pub EXCEPT ![e] = "stamped"] /\ stamp' = [stamp EXCEPT ![e] = now]
  /\ UNCHANGED << now, busVars, conn, sent, client >>

Full(q) == Len(q) >= Buffer

\* One subscription in the first loop of Publish: the event is queued or dropped.
Wants(s, e)  == s \in subscribers /\ e \in Wanted[s]
Loses(s, e)  == Wants(s, e) /\ Full(buf[s])
Queued(s, e) == IF Wants(s, e) /\ ~Full(buf[s]) THEN Append(buf[s], e) ELSE buf[s]

\* Mutations: the channel has no bound; the flag is reset although the marker did
\* not fit.
OfferUnbounded(s, e) ==
  [buf |-> IF Wants(s, e) THEN Append(buf[s], e) ELSE buf[s], lagged |-> FALSE]
OfferForgets(s, e) ==
  IF s \in subscribers /\ (lagged[s] \/ Loses(s, e)) /\ ~Full(Queued(s, e))
  THEN [buf |-> Append(Queued(s, e), Marker(now)), lagged |-> FALSE]
  ELSE [buf |-> Queued(s, e), lagged |-> FALSE]

\* With the second loop: a subscription that lags is told so if there is room.
Offer(s, e) ==
  IF s \in subscribers /\ (lagged[s] \/ Loses(s, e)) /\ ~Full(Queued(s, e))
  THEN [buf |-> Append(Queued(s, e), Marker(now)), lagged |-> FALSE]
  ELSE [buf |-> Queued(s, e), lagged |-> lagged[s] \/ Loses(s, e)]

Publish(e) ==
  /\ pub[e] = "stamped" /\ pub' = [pub EXCEPT ![e] = "done"]
  /\ file' = IF open THEN Append(file, e) ELSE file
  /\ buf' = [s \in Sub |-> Offer(s, e).buf]
  /\ lagged' = [s \in Sub |-> Offer(s, e).lagged]
  /\ conn' = [s \in Sub |-> IF Loses(s, e)
                              THEN [conn[s] EXCEPT !.dropped = @ \cup {e}]
                              ELSE conn[s]]
  /\ UNCHANGED << now, stamp, open, subscribers, chan, sent, client >>

Close ==
  /\ open /\ open' = FALSE
  /\ chan' = [s \in Sub |-> IF s \in subscribers THEN "closed" ELSE chan[s]]
  /\ subscribers' = {}
  /\ UNCHANGED << pubVars, file, buf, lagged, conn, sent, client >>

\* The process ends, after Close or in a crash, and the next one opens the file.
Restart ==
  /\ pub' = [e \in Event |-> IF pub[e] = "stamped" THEN "lost" ELSE pub[e]]
  /\ open' = TRUE /\ subscribers' = {}
  /\ chan' = [s \in Sub |-> "none"] /\ buf' = [s \in Sub |-> << >>]
  /\ lagged' = [s \in Sub |-> FALSE]
  /\ conn' = [s \in Sub |-> [conn[s] EXCEPT !.phase = "off"]]
  /\ UNCHANGED << now, stamp, file, sent, client >>

-----------------------------------------------------------------------------
(* handleSubscribe.                                                         *)

\* The client dials and asks for a replay since the last event it handled, if it
\* handled any; whatever it did not read of the old connection is gone.
Dial(s) ==
  /\ conn[s].phase = "off" /\ client[s].dials < MaxConn
  /\ conn' = [conn EXCEPT ![s] = [NoConn EXCEPT !.phase = "accepted",
                                                !.since = client[s].last]]
  /\ sent' = [sent EXCEPT ![s] = << >>]
  /\ client' = [client EXCEPT ![s].dials = @ + 1, ![s].handled = 0]
  /\ UNCHANGED << pubVars, busVars >>

\* Subscribe, before the replay.  It does not look whether the bus is closed.
Subscribe(s) ==
  /\ conn[s].phase = "accepted"
  /\ subscribers' = subscribers \cup {s}
  /\ chan' = [chan EXCEPT ![s] = "open"]
  /\ buf' = [buf EXCEPT ![s] = << >>] /\ lagged' = [lagged EXCEPT ![s] = FALSE]
  /\ conn' = [conn EXCEPT ![s].phase = IF conn[s].since > 0 THEN "replay" ELSE "live",
                          ![s].from = Len(file)]
  /\ UNCHANGED << pubVars, file, open, sent, client >>

Write(s, x) == sent' = [sent EXCEPT ![s] = Append(@, x)]

\* Mutations: the cursor is exclusive; the ids of lines that are skipped count as
\* replayed.
ReplayLineAfter(s) ==
  /\ conn[s].phase = "replay" /\ conn[s].pos <= Len(file)
  /\ LET e == file[conn[s].pos]
     IN  IF stamp[e] > conn[s].since /\ e \in Wanted[s]
         THEN /\ Write(s, e)
              /\ conn' = [conn EXCEPT ![s].pos = @ + 1,
                                      ![s].replayed = @ \cup {e}]
         ELSE /\ conn' = [conn EXCEPT ![s].pos = @ + 1]
              /\ UNCHANGED sent
  /\ UNCHANGED << pubVars, busVars, client >>
ReplayLineMarksAll(s) ==
  /\ conn[s].phase = "replay" /\ conn[s].pos <= Len(file)
  /\ LET e == file[conn[s].pos]
     IN  /\ conn' = [conn EXCEPT ![s].pos = @ + 1, ![s].replayed = @ \cup {e}]
         /\ IF stamp[e] >= conn[s].since /\ e \in Wanted[s]
            THEN Write(s, e) ELSE UNCHANGED sent
  /\ UNCHANGED << pubVars, busVars, client >>

\* One line of events.jsonl, in the order of the file, up to its end.
ReplayLine(s) ==
  /\ conn[s].phase = "replay" /\ conn[s].pos <= Len(file)
  /\ LET e == file[conn[s].pos]
     IN  IF stamp[e] >= conn[s].since /\ e \in Wanted[s]
         THEN /\ Write(s, e)
              /\ conn' = [conn EXCEPT ![s].pos = @ + 1,
                                      ![s].replayed = @ \cup {e}]
         ELSE /\ conn' = [conn EXCEPT ![s].pos = @ + 1]
              /\ UNCHANGED sent
  /\ UNCHANGED << pubVars, busVars, client >>

ReplayEnd(s) ==
  /\ conn[s].phase = "replay" /\ conn[s].pos > Len(file)
  /\ conn' = [conn EXCEPT ![s].phase = "live"]
  /\ UNCHANGED << pubVars, busVars, sent, client >>

\* Mutations: nothing is skipped; the channel is drained while the file is read;
\* the last event stays in the channel.
DrainAll(s) ==
  /\ conn[s].phase = "live" /\ buf[s] # << >>
  /\ buf' = [buf EXCEPT ![s] = Tail(@)] /\ Write(s, Head(buf[s]))
  /\ UNCHANGED << pubVars, file, open, subscribers, chan, lagged, conn, client >>
DrainEarly(s) ==
  /\ conn[s].phase \in { "replay", "live" } /\ buf[s] # << >>
  /\ buf' = [buf EXCEPT ![s] = Tail(@)]
  /\ IF Head(buf[s]) \in conn[s].replayed THEN UNCHANGED sent
                                          ELSE Write(s, Head(buf[s]))
  /\ UNCHANGED << pubVars, file, open, subscribers, chan, lagged, conn, client >>
DrainBatch(s) ==
  /\ conn[s].phase = "live" /\ Len(buf[s]) > 1
  /\ buf' = [buf EXCEPT ![s] = Tail(@)]
  /\ IF Head(buf[s]) \in conn[s].replayed THEN UNCHANGED sent
                                          ELSE Write(s, Head(buf[s]))
  /\ UNCHANGED << pubVars, file, open, subscribers, chan, lagged, conn, client >>

\* One envelope of the live channel; what the replay sent is skipped.
Drain(s) ==
  /\ conn[s].phase = "live" /\ buf[s] # << >>
  /\ buf' = [buf EXCEPT ![s] = Tail(@)]
  /\ IF Head(buf[s]) \in conn[s].replayed THEN UNCHANGED sent
                                          ELSE Write(s, Head(buf[s]))
  /\ UNCHANGED << pubVars, file, open, subscribers, chan, lagged, conn, client >>

\* The handler returns: the channel is closed and empty, or the connection broke.
\* Its deferred cancel takes the subscription off the list if it is still there.
Leave(s) ==
  /\ conn[s].phase \in { "accepted", "replay", "live" }
  /\ conn' = [conn EXCEPT ![s].phase = "off"]
  /\ subscribers' = subscribers \ {s}
  /\ chan' = [chan EXCEPT ![s] = IF s \in subscribers THEN "closed" ELSE @]
  /\ UNCHANGED << pubVars, file, open, buf, lagged, sent, client >>

-----------------------------------------------------------------------------
(* The consumer: streamOnce.                                                *)

Handle(s) ==
  /\ client[s].handled < Len(sent[s])
  /\ LET x == sent[s][client[s].handled + 1]
     IN  client' = [client EXCEPT
           ![s].handled = @ + 1,
           ![s].seen = IF x \in Event THEN @ \cup {x} ELSE @,
           ![s].last = IF TimeOf(x) > @ /\ x \notin client[s].seen
                         THEN TimeOf(x) ELSE @]
  /\ UNCHANGED << pubVars, busVars, conn, sent >>

-----------------------------------------------------------------------------

Stream(s) == ReplayLine(s) \/ ReplayEnd(s) \/ Drain(s)

Next ==
  \/ Tick \/ Close \/ Restart
  \/ \E e \in Event : Stamp(e) \/ Publish(e)
  \/ \E s \in Sub : Dial(s) \/ Subscribe(s) \/ Stream(s) \/ Leave(s) \/ Handle(s)

Spec == Init /\ [][Next]_vars

\* Handlers and clients are scheduled; nothing is assumed of publishers, of the
\* clock or of the network.
FairSpec == Spec /\ \A s \in Sub : WF_vars(Stream(s)) /\ WF_vars(Handle(s))

-----------------------------------------------------------------------------
(* Properties.                                                              *)

Phases == { "off", "accepted", "replay", "live" }

TypeOK ==
  /\ now \in 1..MaxTime
  /\ pub \in [Event -> { "new", "stamped", "done", "lost" }]
  /\ stamp \in [Event -> 0..MaxTime]
  /\ ToSet(file) \subseteq Event /\ open \in BOOLEAN /\ subscribers \subseteq Sub
  /\ chan \in [Sub -> { "none", "open", "closed" }]
  /\ lagged \in [Sub -> BOOLEAN]
  /\ \A s \in Sub :
       /\ Len(buf[s]) <= Buffer
       /\ ToSet(buf[s]) \cup ToSet(sent[s]) \subseteq Event \cup Markers
       /\ conn[s] \in [phase : Phases, since : 0..MaxTime, from : 0..Len(file),
                       pos : 1..Len(file)+1, replayed : SUBSET Event,
                       dropped : SUBSET Event]
       /\ client[s] \in [seen : SUBSET Event, last : 0..MaxTime,
                         handled : 0..Len(sent[s]), dials : 0..MaxConn]

\* Nothing is sent on a closed channel and none is closed twice, which would
\* bring the daemon down: a subscription on the list has an open channel, and one
\* whose handler is gone is not on the list (Publish, Close, the cancel function).
ChannelsOpen ==
  \A s \in subscribers : chan[s] = "open" /\ conn[s].phase \in { "replay", "live" }

\* The events a connection owes its subscriber: those published since it
\* subscribed, and those of the replay.
Owed(s) == { file[i] : i \in { k \in DOMAIN file :
               /\ file[k] \in Wanted[s]
               /\ \/ k > conn[s].from
                  \/ conn[s].since > 0 /\ stamp[file[k]] >= conn[s].since } }

\* Between replay and live nothing falls through: an event that is owed was
\* written, is in the channel, or was dropped because that was full
\* (handleSubscribe subscribes before it replays).
NothingSkipped ==
  \A s \in Sub : conn[s].phase = "live" =>
    Owed(s) \subseteq ToSet(sent[s]) \cup ToSet(buf[s]) \cup conn[s].dropped

\* Nothing is written twice on one connection, although the replay and the live
\* channel overlap (the replayed set of handleSubscribe).
SentOnce ==
  \A s \in Sub, e \in Event :
    \A i, k \in DOMAIN sent[s] : sent[s][i] = e /\ sent[s][k] = e => i = k

\* What is owed is written in the order of the file (streamReplay, then the live
\* channel), so the end of a run is never seen before its beginning.
OrderKept ==
  \A s \in Sub :
    \A i, k \in DOMAIN sent[s] : \A m, n \in DOMAIN file :
      /\ i < k /\ sent[s][i] = file[m] /\ sent[s][k] = file[n]
      /\ stamp[file[m]] >= conn[s].since /\ stamp[file[n]] >= conn[s].since
      => m < n

\* A subscriber that lost an event finds out: a marker is on its way, or will be
\* with the next event that is published (Publish).
GapMarked ==
  \A s \in Sub : conn[s].phase \in { "replay", "live" } /\ conn[s].dropped # {} =>
    \/ lagged[s]
    \/ (ToSet(buf[s]) \cup ToSet(sent[s])) \cap Markers # {}

\* What a connection carries is what it owes: nothing left out that was not
\* dropped with a mark, nothing twice, nothing out of order, and no closed channel
\* is used on the way (streamReplay, handleSubscribe, Publish, Close).
StreamFaithful == TypeOK /\ ChannelsOpen /\ NothingSkipped /\ SentOnce /\ OrderKept /\ GapMarked

\* An event that is owed reaches the consumer, unless the channel was full or the
\* connection is lost (handleSubscribe, streamOnce).
OwedIsHandled ==
  \A s \in Sub, e \in Event :
    (conn[s].phase \in { "replay", "live" } /\ e \in Owed(s)) ~>
      (e \in client[s].seen \cup conn[s].dropped \/ conn[s].phase = "off")

\* What a consumer should know once it is connected again and has handled all it
\* was sent: every event published after one it has seen.
UpToDate(s) ==
  /\ client[s].dials > 1 /\ conn[s].phase = "live" /\ client[s].last > 0
  /\ buf[s] = << >> /\ client[s].handled = Len(sent[s])
  => \A i, k \in DOMAIN file :
       i < k /\ file[i] \in client[s].seen /\ file[k] \in Wanted[s] =>
         file[k] \in client[s].seen

\* bigband-slack: "asks the daemon to replay events from lastSeen so nothing is
\* missed across restarts" (runSubscribeLoop).
NothingMissed == \A s \in Sub : UpToDate(s)

\* Where no channel ever overflows and events are published in the order of their
\* times, the replay does close the gap of a lost connection or a daemon restart
\* (runSubscribeLoop, streamReplay).
InOrder   == \A i, k \in DOMAIN file : i < k => stamp[file[i]] <= stamp[file[k]]
NoDrops   == \A s \in Sub : conn[s].dropped = {}
CatchesUp == [](InOrder /\ NoDrops) => [](\A s \in Sub : UpToDate(s))

=============================================================================
