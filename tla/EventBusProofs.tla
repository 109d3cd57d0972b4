---------------------------- MODULE EventBusProofs ----------------------------
(***************************************************************************)
(* What holds of EventBus for any events, any subscribers with any filters, *)
(* any buffer, clock and number of connections.                             *)
(***************************************************************************)
EXTENDS EventBus, SequenceTheorems, TLAPS

-----------------------------------------------------------------------------
(* The inductive invariant.                                                 *)

Item == Event \cup Markers

ConnRecord == [phase : Phases, since : 0..MaxTime, from : Nat, pos : Nat \ {0},
               replayed : SUBSET Event, dropped : SUBSET Event]
ClientRecord == [seen : SUBSET Event, last : 0..MaxTime, handled : Nat,
                 dials : 0..MaxConn]

\* Every variable has its type, and the positions are within their sequences.
TypeInv ==
  /\ now \in 1..MaxTime
  /\ pub \in [Event -> { "new", "stamped", "done", "lost" }]
  /\ stamp \in [Event -> 0..MaxTime]
  /\ file \in Seq(Event) /\ open \in BOOLEAN /\ subscribers \subseteq Sub
  /\ chan \in [Sub -> { "none", "open", "closed" }]
  /\ lagged \in [Sub -> BOOLEAN]
  /\ buf \in [Sub -> Seq(Item)] /\ sent \in [Sub -> Seq(Item)]
  /\ conn \in [Sub -> ConnRecord] /\ client \in [Sub -> ClientRecord]
  /\ \A s \in Sub :
       /\ Len(buf[s]) <= Buffer
       /\ conn[s].from <= Len(file) /\ conn[s].pos <= Len(file) + 1
       /\ client[s].handled <= Len(sent[s])

\* An event is in the file, in a channel or on a connection once it is published,
\* and it is published once.
AllDone(q) == \A i \in DOMAIN q : q[i] \in Event => pub[q[i]] = "done"
NoRepeat(q) == \A i, k \in DOMAIN q : q[i] = q[k] /\ q[i] \in Event => i = k

PublishedInv ==
  /\ AllDone(file) /\ NoRepeat(file)
  /\ \A s \in Sub : AllDone(buf[s]) /\ NoRepeat(buf[s])
                    /\ AllDone(sent[s]) /\ NoRepeat(sent[s])

Streaming(s) == conn[s].phase \in { "replay", "live" }

\* While the bus is open, a subscription whose handler runs is on the list; a
\* handler that has not subscribed has nothing to show.
HandlerInv ==
  /\ ChannelsOpen
  /\ \A s \in Sub :
       /\ Streaming(s) /\ open => s \in subscribers
       /\ conn[s].phase = "accepted" =>
            sent[s] = << >> /\ conn[s].dropped = {} /\ conn[s].replayed = {}
            /\ conn[s].pos = 1
       /\ conn[s].phase = "replay" => conn[s].since > 0
       /\ Streaming(s) /\ conn[s].since = 0 => conn[s].replayed = {}

\* The replay: what was replayed was written; it is made of the lines that were
\* read, with every one of them that was asked for; while it goes on nothing else
\* is written, and at its end it is past what the file held at the subscription.
ReplayInv(s) ==
  Streaming(s) =>
    /\ conn[s].replayed \subseteq ToSet(sent[s])
    /\ conn[s].phase = "replay" => ToSet(sent[s]) \subseteq conn[s].replayed
    /\ \A k \in DOMAIN file : file[k] \in conn[s].replayed => k < conn[s].pos
    /\ conn[s].since > 0 => \A k \in DOMAIN file :
         k < conn[s].pos /\ file[k] \in Wanted[s] /\ stamp[file[k]] >= conn[s].since
           => file[k] \in conn[s].replayed
    /\ conn[s].phase = "live" /\ conn[s].since > 0 => conn[s].pos > conn[s].from

\* The channel: what is published after the subscription is in it unless it was
\* written or dropped; it holds wanted events only, and one that was written
\* already was replayed.
ChannelInv(s) ==
  Streaming(s) =>
    /\ ToSet(buf[s]) \cap Event \subseteq Wanted[s]
    /\ \A k \in DOMAIN file : k > conn[s].from /\ file[k] \in Wanted[s] =>
         file[k] \in ToSet(sent[s]) \cup ToSet(buf[s]) \cup conn[s].dropped
    /\ ToSet(buf[s]) \cap ToSet(sent[s]) \cap Event \subseteq conn[s].replayed

\* The order of the file is the order of what was written and of the channel, and
\* what was taken from the channel comes before what is in it.
SentInOrder(s) ==
  \A i, k \in DOMAIN sent[s] : \A m, n \in DOMAIN file :
    /\ i < k /\ sent[s][i] = file[m] /\ sent[s][k] = file[n]
    /\ stamp[file[m]] >= conn[s].since /\ stamp[file[n]] >= conn[s].since
    => m < n
BufInOrder(s) ==
  \A i, k \in DOMAIN buf[s] : \A m, n \in DOMAIN file :
    i < k /\ buf[s][i] = file[m] /\ buf[s][k] = file[n] => m < n
TakenFirst(s) ==
  Streaming(s) =>
    \A i \in DOMAIN sent[s], k \in DOMAIN buf[s] : \A m, n \in DOMAIN file :
      /\ sent[s][i] = file[m] /\ sent[s][i] \notin conn[s].replayed
      /\ buf[s][k] = file[n]
      => m < n

\* GapMarked, for one subscriber.
MarkInv(s) ==
  Streaming(s) /\ conn[s].dropped # {} =>
    lagged[s] \/ (ToSet(buf[s]) \cup ToSet(sent[s])) \cap Markers # {}

StreamInv(s) == ReplayInv(s) /\ ChannelInv(s) /\ SentInOrder(s) /\ BufInOrder(s)
                /\ TakenFirst(s) /\ MarkInv(s)

IInv == TypeInv /\ PublishedInv /\ HandlerInv /\ \A s \in Sub : StreamInv(s)

-----------------------------------------------------------------------------
(* Sequences.                                                               *)

\* What Append does to the indices and to the elements.
LEMMA Appended ==
  ASSUME NEW S, NEW q \in Seq(S), NEW x \in S
  PROVE  /\ Append(q, x) \in Seq(S) /\ Len(Append(q, x)) = Len(q) + 1
         /\ Len(q) \in Nat /\ DOMAIN q = 1..Len(q)
         /\ DOMAIN Append(q, x) = 1..(Len(q) + 1)
         /\ \A i \in DOMAIN q : Append(q, x)[i] = q[i]
         /\ Append(q, x)[Len(q) + 1] = x
         /\ ToSet(Append(q, x)) = ToSet(q) \cup {x}
<1>1. /\ Append(q, x) \in Seq(S) /\ Len(Append(q, x)) = Len(q) + 1
      /\ Len(q) \in Nat /\ DOMAIN q = 1..Len(q)
      /\ DOMAIN Append(q, x) = 1..(Len(q) + 1)
      /\ \A i \in DOMAIN q : Append(q, x)[i] = q[i]
      /\ Append(q, x)[Len(q) + 1] = x
  OBVIOUS
<1>2. ToSet(Append(q, x)) = ToSet(q) \cup {x}
  <2>1. ASSUME NEW y \in ToSet(Append(q, x)) PROVE y \in ToSet(q) \cup {x}
    BY <1>1, <2>1 DEF ToSet
  <2>2. ASSUME NEW y \in ToSet(q) PROVE y \in ToSet(Append(q, x))
    BY <1>1, <2>2 DEF ToSet
  <2>3. x \in ToSet(Append(q, x))
    BY <1>1 DEF ToSet
  <2>4. QED BY <2>1, <2>2, <2>3
<1>3. QED BY <1>1, <1>2

\* What taking the head does to the indices and to the elements.
LEMMA Taken ==
  ASSUME NEW S, NEW q \in Seq(S), q # << >>
  PROVE  /\ Tail(q) \in Seq(S) /\ Len(Tail(q)) = Len(q) - 1
         /\ Head(q) = q[1] /\ Head(q) \in S /\ 1 \in DOMAIN q
         /\ \A i \in DOMAIN Tail(q) : i + 1 \in DOMAIN q /\ Tail(q)[i] = q[i+1]
         /\ DOMAIN Tail(q) \subseteq Nat
         /\ ToSet(q) = ToSet(Tail(q)) \cup {Head(q)}
<1>1. /\ Tail(q) \in Seq(S) /\ Len(Tail(q)) = Len(q) - 1
      /\ Head(q) = q[1] /\ Head(q) \in S /\ Len(q) \in Nat \ {0}
      /\ DOMAIN q = 1..Len(q) /\ DOMAIN Tail(q) = 1..(Len(q) - 1)
      /\ \A i \in 1..(Len(q) - 1) : Tail(q)[i] = q[i+1]
  BY HeadTailProperties, LenProperties, EmptySeq
<1>2. ToSet(q) = ToSet(Tail(q)) \cup {Head(q)}
  <2>1. ASSUME NEW y \in ToSet(q) PROVE y \in ToSet(Tail(q)) \cup {Head(q)}
    <3>1. PICK i \in DOMAIN q : y = q[i]
      BY DEF ToSet
    <3>2. CASE i = 1
      BY <1>1, <3>1, <3>2
    <3>3. CASE i # 1
      <4>1. i - 1 \in DOMAIN Tail(q) /\ Tail(q)[i - 1] = q[i]
        BY <1>1, <3>1, <3>3
      <4>2. QED BY <4>1, <3>1 DEF ToSet
    <3>4. QED BY <3>2, <3>3
  <2>2. ASSUME NEW y \in ToSet(Tail(q)) PROVE y \in ToSet(q)
    <3>1. PICK i \in DOMAIN Tail(q) : y = Tail(q)[i]
      BY DEF ToSet
    <3>2. i + 1 \in DOMAIN q /\ q[i+1] = y
      BY <1>1, <3>1
    <3>3. QED BY <3>2 DEF ToSet
  <2>3. Head(q) \in ToSet(q)
    BY <1>1 DEF ToSet
  <2>4. QED BY <2>1, <2>2, <2>3
<1>3. QED BY <1>1, <1>2

\* A marker is not an event.
LEMMA MarkersApart == Markers \cap Event = {}
<1>1. \A m \in Markers : m \in [lagAt : Nat]
  BY BusAssumption DEF Markers, Marker
<1>2. QED BY <1>1, MarkerAssumption

-----------------------------------------------------------------------------
(* What a publication does to one channel.                                  *)

\* A sequence that grew at its end, by one element, by another, or by both.
Growth(q, r, e, m, took) ==
  /\ Len(q) \in Nat /\ DOMAIN q = 1..Len(q) /\ DOMAIN r = 1..Len(r) /\ Len(q) <= Len(r)
  /\ \A i \in DOMAIN q : r[i] = q[i]
  /\ \A i \in DOMAIN r \ DOMAIN q :
       i > Len(q) /\ (r[i] = m \/ (r[i] = e /\ i = Len(q) + 1 /\ took))
  /\ took => e \in ToSet(r)
  /\ ToSet(q) \subseteq ToSet(r)

LEMMA Grown ==
  ASSUME NEW S, NEW q \in Seq(S), NEW e \in S, NEW m \in S
  PROVE  /\ Growth(q, q, e, m, FALSE)
         /\ Growth(q, Append(q, e), e, m, TRUE)
         /\ Growth(q, Append(q, m), e, m, FALSE)
         /\ Growth(q, Append(Append(q, e), m), e, m, TRUE)
<1>1. Len(q) \in Nat /\ DOMAIN q = 1..Len(q)
  OBVIOUS
<1>2. Growth(q, q, e, m, FALSE)
  BY <1>1 DEF Growth
<1>3. /\ Append(q, e) \in Seq(S) /\ Len(Append(q, e)) = Len(q) + 1
      /\ DOMAIN Append(q, e) = 1..(Len(q) + 1)
      /\ \A i \in DOMAIN q : Append(q, e)[i] = q[i]
      /\ Append(q, e)[Len(q) + 1] = e /\ ToSet(Append(q, e)) = ToSet(q) \cup {e}
  BY Appended
<1>4. ASSUME NEW p \in Seq(S), Len(p) = Len(q) + 1, DOMAIN p = 1..(Len(q) + 1),
             \A i \in DOMAIN q : p[i] = q[i], NEW x, NEW t \in BOOLEAN,
             p[Len(q) + 1] = x, ToSet(p) = ToSet(q) \cup {x},
             (x = m /\ ~t) \/ (x = e /\ t)
      PROVE  Growth(q, p, e, m, t)
  BY <1>1, <1>4 DEF Growth
<1>5. Growth(q, Append(q, e), e, m, TRUE)
  BY <1>3, <1>4
<1>6. /\ Append(q, m) \in Seq(S) /\ Len(Append(q, m)) = Len(q) + 1
      /\ DOMAIN Append(q, m) = 1..(Len(q) + 1)
      /\ \A i \in DOMAIN q : Append(q, m)[i] = q[i]
      /\ Append(q, m)[Len(q) + 1] = m /\ ToSet(Append(q, m)) = ToSet(q) \cup {m}
  BY Appended
<1>7. Growth(q, Append(q, m), e, m, FALSE)
  BY <1>6, <1>4
<1>8. ASSUME NEW p \in Seq(S), NEW r \in Seq(S), p[Len(q) + 1] = e,
             Len(p) = Len(q) + 1, DOMAIN p = 1..(Len(q) + 1),
             \A i \in DOMAIN q : p[i] = q[i], ToSet(p) = ToSet(q) \cup {e},
             Len(r) = Len(p) + 1, DOMAIN r = 1..(Len(p) + 1),
             \A i \in DOMAIN p : r[i] = p[i],
             r[Len(p) + 1] = m, ToSet(r) = ToSet(p) \cup {m}
      PROVE  Growth(q, r, e, m, TRUE)
  BY <1>1, <1>8 DEF Growth
<1>9. PICK p : p = Append(q, e)
  OBVIOUS
<1>10. /\ p \in Seq(S) /\ Len(p) = Len(q) + 1 /\ DOMAIN p = 1..(Len(q) + 1)
       /\ \A i \in DOMAIN q : p[i] = q[i]
       /\ p[Len(q) + 1] = e /\ ToSet(p) = ToSet(q) \cup {e}
  BY <1>3, <1>9, Zenon
<1>11. /\ Append(p, m) \in Seq(S) /\ Len(Append(p, m)) = Len(p) + 1
       /\ DOMAIN Append(p, m) = 1..(Len(p) + 1)
       /\ \A i \in DOMAIN p : Append(p, m)[i] = p[i]
       /\ Append(p, m)[Len(p) + 1] = m /\ ToSet(Append(p, m)) = ToSet(p) \cup {m}
  BY <1>10, Appended
<1>12. Growth(q, Append(p, m), e, m, TRUE)
  <2>1. PICK r : r = Append(p, m)
    OBVIOUS
  <2>2. /\ r \in Seq(S) /\ Len(r) = Len(p) + 1 /\ DOMAIN r = 1..(Len(p) + 1)
        /\ \A i \in DOMAIN p : r[i] = p[i]
        /\ r[Len(p) + 1] = m /\ ToSet(r) = ToSet(p) \cup {m}
    BY <1>11, <2>1, Zenon
  <2>3. Growth(q, r, e, m, TRUE)
    BY <1>8, <1>10, <2>2
  <2>4. QED BY <2>1, <2>3, Zenon
<1>13. QED BY <1>2, <1>5, <1>7, <1>9, <1>12, Zenon

\* The channel grows at its end, by the event if it is wanted and there was room,
\* and by a marker; it stays within its bound (the two loops of Publish).
LEMMA Offered ==
  ASSUME TypeInv, NEW s \in Sub, NEW e \in Event
  PROVE  LET r == Offer(s, e).buf IN
         /\ r \in Seq(Item) /\ Len(r) <= Buffer /\ Offer(s, e).lagged \in BOOLEAN
         /\ Marker(now) \in Markers
         /\ Growth(buf[s], r, e, Marker(now), Wants(s, e) /\ ~Full(buf[s]))
         /\ s \in subscribers /\ (Loses(s, e) \/ lagged[s]) =>
              Offer(s, e).lagged \/ Marker(now) \in ToSet(r)
<1>1. buf[s] \in Seq(Item) /\ Len(buf[s]) <= Buffer /\ now \in 1..MaxTime
  BY DEF TypeInv
<1>2. Marker(now) \in Markers
  BY <1>1 DEF Markers
<1>3. e \in Item /\ Marker(now) \in Item
  BY <1>2 DEF Item
<1>4. \/ Queued(s, e) = buf[s] /\ (Wants(s, e) /\ ~Full(buf[s])) = FALSE
      \/ Queued(s, e) = Append(buf[s], e) /\ (Wants(s, e) /\ ~Full(buf[s])) = TRUE
  BY DEF Queued, Wants, Full
<1>5. Queued(s, e) \in Seq(Item) /\ Len(Queued(s, e)) <= Buffer
  BY <1>1, <1>3, <1>4, Appended, BusAssumption DEF Full
<1>6. \/ /\ Offer(s, e).buf = Queued(s, e)
         /\ Offer(s, e).lagged = (lagged[s] \/ Loses(s, e))
      \/ /\ Offer(s, e).buf = Append(Queued(s, e), Marker(now))
         /\ Offer(s, e).lagged = FALSE /\ ~Full(Queued(s, e))
  BY DEF Offer
<1>7. Offer(s, e).buf \in Seq(Item) /\ Len(Offer(s, e).buf) <= Buffer
  BY <1>3, <1>5, <1>6, Appended, BusAssumption DEF Full
<1>8. Offer(s, e).lagged \in BOOLEAN
  <2>1. lagged[s] \in BOOLEAN /\ Loses(s, e) \in BOOLEAN
    BY DEF TypeInv, Loses, Wants
  <2>2. QED BY <2>1, <1>6, Zenon
<1>9. Growth(buf[s], Offer(s, e).buf, e, Marker(now), Wants(s, e) /\ ~Full(buf[s]))
  BY <1>1, <1>3, <1>4, <1>6, Grown, Zenon
<1>10. Offer(s, e).buf = Append(Queued(s, e), Marker(now)) =>
         Marker(now) \in ToSet(Offer(s, e).buf)
  BY <1>3, <1>5, Appended
<1>11. QED BY <1>2, <1>6, <1>7, <1>8, <1>9, <1>10, Zenon

-----------------------------------------------------------------------------
(* Types.                                                                   *)

\* What a connection may become, field by field.
Differ(c, d, phase, from, pos, replayed, dropped) ==
  /\ d \in ConnRecord
  /\ d.phase = phase /\ d.since = c.since /\ d.from = from /\ d.pos = pos
  /\ d.replayed = replayed /\ d.dropped = dropped

LEMMA ConnFields ==
  ASSUME NEW c \in ConnRecord
  PROVE  /\ c.phase \in Phases /\ c.since \in 0..MaxTime /\ c.from \in Nat
         /\ c.pos \in Nat \ {0} /\ c.replayed \subseteq Event /\ c.dropped \subseteq Event
BY DEF ConnRecord

LEMMA PhaseSet ==
  ASSUME NEW c \in ConnRecord, NEW p \in Phases
  PROVE  Differ(c, [c EXCEPT !.phase = p], p, c.from, c.pos, c.replayed, c.dropped)
BY DEF ConnRecord, Differ

LEMMA SubscribeSet ==
  ASSUME NEW c \in ConnRecord, NEW p \in Phases, NEW n \in Nat
  PROVE  Differ(c, [c EXCEPT !.phase = p, !.from = n], p, n, c.pos, c.replayed, c.dropped)
BY DEF ConnRecord, Differ

LEMMA DropSet ==
  ASSUME NEW c \in ConnRecord, NEW e \in Event
  PROVE  Differ(c, [c EXCEPT !.dropped = @ \cup {e}], c.phase, c.from, c.pos,
                c.replayed, c.dropped \cup {e})
BY DEF ConnRecord, Differ

LEMMA LineSet ==
  ASSUME NEW c \in ConnRecord
  PROVE  Differ(c, [c EXCEPT !.pos = @ + 1], c.phase, c.from, c.pos + 1,
                c.replayed, c.dropped)
BY DEF ConnRecord, Differ

LEMMA DialSet ==
  ASSUME NEW t \in 0..MaxTime, NEW d,
         d = [NoConn EXCEPT !.phase = "accepted", !.since = t]
  PROVE  /\ d \in ConnRecord /\ d.phase = "accepted" /\ d.since = t /\ d.from = 0
         /\ d.pos = 1 /\ d.replayed = {} /\ d.dropped = {}
<1>1. PICK c : c = NoConn
  OBVIOUS
<1>2. /\ c \in ConnRecord /\ c.from = 0 /\ c.pos = 1
      /\ c.replayed = {} /\ c.dropped = {}
  BY <1>1, BusAssumption DEF NoConn, ConnRecord, Phases
<1>3. "accepted" \in Phases
  BY DEF Phases
<1>4. d = [c EXCEPT !.phase = "accepted", !.since = t]
  BY <1>1, Zenon
<1>5. d \in ConnRecord /\ d.from = c.from /\ d.pos = c.pos
      /\ d.replayed = c.replayed /\ d.dropped = c.dropped
  BY <1>2, <1>3, <1>4 DEF ConnRecord
<1>6. d.phase = "accepted" /\ d.since = t
  BY <1>2, <1>4 DEF ConnRecord
<1>7. QED BY <1>2, <1>5, <1>6

\* What a client may become: it dialled, or it handled an envelope.
LEMMA DialedSet ==
  ASSUME NEW c \in ClientRecord, c.dials < MaxConn
  PROVE  [c EXCEPT !.dials = @ + 1, !.handled = 0] \in ClientRecord
<1>1. \A n \in 0..MaxConn : [c EXCEPT !.dials = n, !.handled = 0] \in ClientRecord
  BY DEF ClientRecord
<1>2. c.dials + 1 \in 0..MaxConn
  BY BusAssumption DEF ClientRecord
<1>3. QED BY <1>1, <1>2

\* What each action makes of the connections, one of them or all.
LEMMA ConnStep ==
  ASSUME TypeInv
  PROVE  /\ Restart => \A s \in Sub : Differ(conn[s], conn'[s], "off", conn[s].from,
              conn[s].pos, conn[s].replayed, conn[s].dropped)
         /\ \A e \in Event : Publish(e) => \A s \in Sub :
              Differ(conn[s], conn'[s], conn[s].phase, conn[s].from, conn[s].pos,
                conn[s].replayed,
                IF Loses(s, e) THEN conn[s].dropped \cup {e} ELSE conn[s].dropped)
         /\ \A s \in Sub : Subscribe(s) =>
              Differ(conn[s], conn'[s], IF conn[s].since > 0 THEN "replay" ELSE "live",
                Len(file), conn[s].pos, conn[s].replayed, conn[s].dropped)
         /\ \A s \in Sub : ReplayEnd(s) =>
              Differ(conn[s], conn'[s], "live", conn[s].from, conn[s].pos,
                conn[s].replayed, conn[s].dropped)
         /\ \A s \in Sub : Leave(s) =>
              Differ(conn[s], conn'[s], "off", conn[s].from, conn[s].pos,
                conn[s].replayed, conn[s].dropped)
         /\ \A s \in Sub : Subscribe(s) \/ ReplayEnd(s) \/ Leave(s) \/ Dial(s) \/ ReplayLine(s)
              => conn' = [conn EXCEPT ![s] = conn'[s]]
         /\ Restart => conn' = [s \in Sub |-> conn'[s]]
         /\ \A e \in Event : Publish(e) => conn' = [s \in Sub |-> conn'[s]]
<1>1. /\ conn \in [Sub -> ConnRecord] /\ Len(file) \in Nat
      /\ { "off", "accepted", "replay", "live" } = Phases
  BY DEF TypeInv, Phases
<1>2. ASSUME Restart, NEW s \in Sub
      PROVE  Differ(conn[s], conn'[s], "off", conn[s].from,
              conn[s].pos, conn[s].replayed, conn[s].dropped)
  <2>1. conn'[s] = [conn[s] EXCEPT !.phase = "off"]
    BY <1>2 DEF Restart
  <2>2. QED BY <1>1, <2>1, PhaseSet
<1>3. ASSUME NEW e \in Event, Publish(e), NEW s \in Sub
      PROVE  Differ(conn[s], conn'[s], conn[s].phase, conn[s].from, conn[s].pos,
                conn[s].replayed,
                IF Loses(s, e) THEN conn[s].dropped \cup {e} ELSE conn[s].dropped)
  <2>1. conn'[s] = IF Loses(s, e) THEN [conn[s] EXCEPT !.dropped = @ \cup {e}] ELSE conn[s]
    BY <1>3 DEF Publish
  <2>2. CASE Loses(s, e)
    BY <1>1, <2>1, <2>2, DropSet
  <2>3. CASE ~Loses(s, e)
    BY <1>1, <2>1, <2>3 DEF Differ
  <2>4. QED BY <2>2, <2>3
<1>4. ASSUME NEW s \in Sub, Subscribe(s)
      PROVE  Differ(conn[s], conn'[s], IF conn[s].since > 0 THEN "replay" ELSE "live",
                Len(file), conn[s].pos, conn[s].replayed, conn[s].dropped)
  <2>1. conn'[s] = [conn[s] EXCEPT !.phase = IF conn[s].since > 0 THEN "replay" ELSE "live",
                                   !.from = Len(file)]
    BY <1>1, <1>4 DEF Subscribe
  <2>2. (IF conn[s].since > 0 THEN "replay" ELSE "live") \in Phases
    BY <1>1
  <2>3. QED BY <1>1, <2>1, <2>2, SubscribeSet
<1>5. ASSUME NEW s \in Sub, ReplayEnd(s)
      PROVE  Differ(conn[s], conn'[s], "live", conn[s].from, conn[s].pos,
                conn[s].replayed, conn[s].dropped)
  <2>1. conn'[s] = [conn[s] EXCEPT !.phase = "live"]
    BY <1>1, <1>5 DEF ReplayEnd
  <2>2. QED BY <1>1, <2>1, PhaseSet
<1>6. ASSUME NEW s \in Sub, Leave(s)
      PROVE  Differ(conn[s], conn'[s], "off", conn[s].from, conn[s].pos,
                conn[s].replayed, conn[s].dropped)
  <2>1. conn'[s] = [conn[s] EXCEPT !.phase = "off"]
    BY <1>1, <1>6 DEF Leave
  <2>2. QED BY <1>1, <2>1, PhaseSet
<1>7. ASSUME NEW s \in Sub,
             Subscribe(s) \/ ReplayEnd(s) \/ Leave(s) \/ Dial(s) \/ ReplayLine(s)
      PROVE  conn' = [conn EXCEPT ![s] = conn'[s]]
  <2>1. CASE Subscribe(s)
    BY <1>1, <2>1 DEF Subscribe
  <2>2. CASE ReplayEnd(s)
    BY <1>1, <2>2 DEF ReplayEnd
  <2>3. CASE Leave(s)
    BY <1>1, <2>3 DEF Leave
  <2>4. CASE Dial(s)
    BY <1>1, <2>4 DEF Dial
  <2>5. CASE ReplayLine(s)
    BY <1>1, <2>5 DEF ReplayLine
  <2>6. QED BY <1>7, <2>1, <2>2, <2>3, <2>4, <2>5
<1>8. ASSUME NEW e \in Event, Publish(e) PROVE conn' = [s \in Sub |-> conn'[s]]
  BY <1>8 DEF Publish
<1>9. Restart => conn' = [s \in Sub |-> conn'[s]]
  BY DEF Restart
<1>10. QED BY <1>2, <1>3, <1>4, <1>5, <1>6, <1>7, <1>8, <1>9

\* The step of one handler that writes to its connection or does not.
Emits(s, x, yes) == IF yes THEN Write(s, x) ELSE UNCHANGED sent

LEMMA Emitted ==
  ASSUME TypeInv, NEW s \in Sub, NEW x \in Item, NEW yes, Emits(s, x, yes)
  PROVE  /\ sent' \in [Sub -> Seq(Item)]
         /\ \A t \in Sub : Len(sent[t]) <= Len(sent'[t])
         /\ \A t \in Sub : t # s => sent'[t] = sent[t]
         /\ sent'[s] = IF yes THEN Append(sent[s], x) ELSE sent[s]
<1>1. sent \in [Sub -> Seq(Item)] /\ \A t \in Sub : Len(sent[t]) \in Nat
  BY DEF TypeInv
<1>2. CASE yes
  <2>1. sent' = [sent EXCEPT ![s] = Append(@, x)]
    BY <1>2 DEF Emits, Write
  <2>2. Append(sent[s], x) \in Seq(Item) /\ Len(Append(sent[s], x)) = Len(sent[s]) + 1
    BY <1>1, Appended
  <2>3. sent'[s] = Append(sent[s], x) /\ \A t \in Sub : t # s => sent'[t] = sent[t]
    BY <1>1, <2>1
  <2>4. sent' \in [Sub -> Seq(Item)]
    BY <1>1, <2>1, <2>2
  <2>5. ASSUME NEW t \in Sub PROVE Len(sent[t]) <= Len(sent'[t])
    BY <1>1, <2>2, <2>3
  <2>6. QED BY <1>2, <2>3, <2>4, <2>5
<1>3. CASE ~yes
  BY <1>1, <1>3 DEF Emits
<1>4. QED BY <1>2, <1>3

\* What ReplayLine and Drain do, told by what they write.
LEMMA ReplayLineIs ==
  ASSUME TypeInv, NEW s \in Sub, ReplayLine(s)
  PROVE  \E e \in Event, yes \in BOOLEAN :
           /\ conn[s].phase = "replay" /\ conn[s].pos \in DOMAIN file
           /\ e = file[conn[s].pos]
           /\ yes <=> stamp[e] >= conn[s].since /\ e \in Wanted[s]
           /\ Emits(s, e, yes)
           /\ Differ(conn[s], conn'[s], "replay", conn[s].from, conn[s].pos + 1,
                     IF yes THEN conn[s].replayed \cup {e} ELSE conn[s].replayed,
                     conn[s].dropped)
           /\ UNCHANGED << pubVars, busVars, client >>
<1>1. /\ conn \in [Sub -> ConnRecord] /\ conn[s] \in ConnRecord
      /\ conn[s].pos \in Nat \ {0} /\ file \in Seq(Event) /\ conn[s].pos <= Len(file)
      /\ conn[s].phase = "replay"
  BY ConnFields DEF TypeInv, ReplayLine
<1>2. conn[s].pos \in DOMAIN file /\ file[conn[s].pos] \in Event
  BY <1>1
<1>3. PICK e \in Event : e = file[conn[s].pos]
  BY <1>2
<1>4. PICK yes \in BOOLEAN : yes = (stamp[e] >= conn[s].since /\ e \in Wanted[s])
  OBVIOUS
<1>5. Emits(s, e, yes) /\ UNCHANGED << pubVars, busVars, client >>
  BY <1>3, <1>4 DEF ReplayLine, Emits
<1>6. conn'[s] = IF yes THEN [conn[s] EXCEPT !.pos = @ + 1, !.replayed = @ \cup {e}]
                        ELSE [conn[s] EXCEPT !.pos = @ + 1]
  BY <1>1, <1>3, <1>4 DEF ReplayLine
<1>7. Differ(conn[s], conn'[s], "replay", conn[s].from, conn[s].pos + 1,
             IF yes THEN conn[s].replayed \cup {e} ELSE conn[s].replayed, conn[s].dropped)
  <2>1. CASE yes
    <3>1. conn[s].replayed \cup {e} \in SUBSET Event /\ conn[s].pos + 1 \in Nat \ {0}
      BY <1>1, ConnFields
    <3>2. conn'[s] = [conn[s] EXCEPT !.pos = conn[s].pos + 1,
                                     !.replayed = conn[s].replayed \cup {e}]
      BY <1>6, <2>1
    <3>3. PICK c, n, z : c = conn[s] /\ n = conn[s].pos + 1
                         /\ z = conn[s].replayed \cup {e}
      OBVIOUS
    <3>4. PICK d : d = [c EXCEPT !.pos = n, !.replayed = z]
      OBVIOUS
    <3>5. Differ(c, d, c.phase, c.from, n, z, c.dropped)
      BY <1>1, <3>1, <3>3, <3>4 DEF ConnRecord, Differ
    <3>6. QED BY <1>1, <2>1, <3>2, <3>3, <3>4, <3>5, Zenon
  <2>2. CASE ~yes
    BY <1>1, <1>6, <2>2, LineSet
  <2>3. QED BY <2>1, <2>2
<1>8. QED BY <1>1, <1>2, <1>3, <1>4, <1>5, <1>7

LEMMA DrainIs ==
  ASSUME TypeInv, NEW s \in Sub, Drain(s)
  PROVE  \E x \in Item :
           /\ conn[s].phase = "live" /\ buf[s] # << >> /\ x = Head(buf[s])
           /\ Emits(s, x, x \notin conn[s].replayed)
           /\ buf' = [buf EXCEPT ![s] = Tail(@)]
           /\ UNCHANGED << pubVars, file, open, subscribers, chan, lagged, conn, client >>
<1>1. Head(buf[s]) \in Item
  BY Taken DEF TypeInv, Drain
<1>2. QED BY <1>1 DEF Drain, Emits

LEMMA TypeInit == Init => TypeInv
BY BusAssumption
   DEF Init, TypeInv, NoConn, ConnRecord, ClientRecord, Phases

LEMMA TypeStep == TypeInv /\ [Next]_vars => TypeInv'
<1> SUFFICES ASSUME TypeInv, [Next]_vars PROVE TypeInv'
  OBVIOUS
<1> USE BusAssumption DEF pubVars, busVars
<1>1. CASE Tick
  BY <1>1 DEF Tick, TypeInv
<1>2. CASE Close
  <2>1. chan' \in [Sub -> { "none", "open", "closed" }]
    BY <1>2 DEF Close, TypeInv
  <2>2. QED BY <1>2, <2>1 DEF Close, TypeInv
<1>3. CASE Restart
  <2>1. pub' \in [Event -> { "new", "stamped", "done", "lost" }]
    BY <1>3 DEF Restart, TypeInv
  <2>2. conn' \in [Sub -> ConnRecord]
        /\ \A s \in Sub : conn'[s].from = conn[s].from /\ conn'[s].pos = conn[s].pos
    BY <1>3, ConnStep DEF Differ
  <2>3. buf' \in [Sub -> Seq(Item)] /\ \A s \in Sub : Len(buf'[s]) <= Buffer
    BY <1>3 DEF Restart
  <2>4. chan' \in [Sub -> { "none", "open", "closed" }] /\ lagged' \in [Sub -> BOOLEAN]
    BY <1>3 DEF Restart
  <2>5. QED BY <1>3, <2>1, <2>2, <2>3, <2>4 DEF Restart, TypeInv
<1>4. ASSUME NEW e \in Event, Stamp(e) PROVE TypeInv'
  BY <1>4 DEF Stamp, TypeInv
<1>5. ASSUME NEW e \in Event, Publish(e) PROVE TypeInv'
  <2>1. file' \in Seq(Event) /\ Len(file) <= Len(file') /\ Len(file) \in Nat
        /\ Len(file') \in Nat
    BY <1>5 DEF Publish, TypeInv
  <2>2. buf' \in [Sub -> Seq(Item)] /\ \A s \in Sub : Len(buf'[s]) <= Buffer
    BY <1>5, Offered DEF Publish
  <2>3. lagged' \in [Sub -> BOOLEAN]
    BY <1>5, Offered DEF Publish
  <2>4. conn' \in [Sub -> ConnRecord]
        /\ \A s \in Sub : conn'[s].from = conn[s].from /\ conn'[s].pos = conn[s].pos
    BY <1>5, ConnStep DEF Differ
  <2>5. pub' \in [Event -> { "new", "stamped", "done", "lost" }]
    BY <1>5 DEF Publish, TypeInv
  <2>6. \A s \in Sub : /\ conn[s].from \in Nat /\ conn[s].pos \in Nat
                       /\ conn[s].from <= Len(file) /\ conn[s].pos <= Len(file) + 1
    BY ConnFields DEF TypeInv
  <2>7. \A s \in Sub : conn'[s].from <= Len(file') /\ conn'[s].pos <= Len(file') + 1
    BY <2>1, <2>4, <2>6
  <2>8. QED BY <1>5, <2>1, <2>2, <2>3, <2>4, <2>5, <2>7 DEF Publish, TypeInv
<1>6. ASSUME NEW s \in Sub, Dial(s) PROVE TypeInv'
  <2> DEFINE d == [NoConn EXCEPT !.phase = "accepted", !.since = client[s].last]
  <2>0. /\ conn' = [conn EXCEPT ![s] = d] /\ client[s] \in ClientRecord
        /\ client[s].last \in 0..MaxTime
    BY <1>6 DEF Dial, TypeInv, ClientRecord
  <2>00. d \in ConnRecord /\ d.from = 0 /\ d.pos = 1
    BY <2>0, DialSet
  <2> HIDE DEF d
  <2>1. conn' \in [Sub -> ConnRecord]
        /\ \A t \in Sub : \/ conn'[t] = conn[t] /\ sent'[t] = sent[t]
                             /\ client'[t] = client[t]
                          \/ conn'[t].from = 0 /\ conn'[t].pos = 1 /\ sent'[t] = << >>
                             /\ client'[t].handled = 0
    <3>1. conn' \in [Sub -> ConnRecord]
      BY <2>0, <2>00 DEF TypeInv
    <3>2. ASSUME NEW t \in Sub, t # s
          PROVE  conn'[t] = conn[t] /\ sent'[t] = sent[t] /\ client'[t] = client[t]
      BY <1>6, <2>0, <3>2 DEF Dial, TypeInv
    <3>3. conn'[s].from = 0 /\ conn'[s].pos = 1 /\ sent'[s] = << >>
      BY <1>6, <2>0, <2>00 DEF Dial, TypeInv
    <3>4. client'[s] = [client[s] EXCEPT !.dials = @ + 1, !.handled = 0]
      BY <1>6 DEF Dial, TypeInv
    <3>5. client'[s].handled = 0
      BY <2>0, <3>4 DEF ClientRecord
    <3>6. QED BY <3>1, <3>2, <3>3, <3>5
  <2>2. sent' \in [Sub -> Seq(Item)]
    BY <1>6 DEF Dial, TypeInv
  <2>3. client' \in [Sub -> ClientRecord]
    <3>1. client[s].dials < MaxConn
      BY <1>6 DEF Dial
    <3>2. [client[s] EXCEPT !.dials = @ + 1, !.handled = 0] \in ClientRecord
      BY <2>0, <3>1, DialedSet
    <3>3. client' = [client EXCEPT ![s] = [client[s] EXCEPT !.dials = @ + 1, !.handled = 0]]
      BY <1>6 DEF Dial
    <3>4. QED BY <3>2, <3>3 DEF TypeInv
  <2>4. file' = file /\ Len(file) \in Nat /\ Len(<< >>) = 0
    BY <1>6 DEF Dial, TypeInv
  <2>5. \A t \in Sub : /\ conn'[t].from <= Len(file') /\ conn'[t].pos <= Len(file') + 1
                       /\ client'[t].handled <= Len(sent'[t])
    BY <2>1, <2>4 DEF TypeInv
  <2>6. QED BY <1>6, <2>1, <2>2, <2>3, <2>5 DEF Dial, TypeInv
<1>7. ASSUME NEW s \in Sub, Subscribe(s) PROVE TypeInv'
  <2>1. Len(file) \in Nat
    BY DEF TypeInv
  <2>2. conn' \in [Sub -> ConnRecord]
        /\ \A t \in Sub : /\ conn'[t].pos = conn[t].pos
                          /\ conn'[t].from \in { conn[t].from, Len(file) }
    BY <1>7, ConnStep DEF TypeInv, Differ
  <2>3. buf' \in [Sub -> Seq(Item)] /\ \A t \in Sub : Len(buf'[t]) <= Buffer
    BY <1>7 DEF Subscribe, TypeInv
  <2>4. chan' \in [Sub -> { "none", "open", "closed" }] /\ lagged' \in [Sub -> BOOLEAN]
    BY <1>7 DEF Subscribe, TypeInv
  <2>5. QED BY <1>7, <2>1, <2>2, <2>3, <2>4 DEF Subscribe, TypeInv
<1>8. ASSUME NEW s \in Sub, ReplayLine(s) PROVE TypeInv'
  <2>1. PICK e \in Event, yes \in BOOLEAN :
           /\ conn[s].phase = "replay" /\ conn[s].pos \in DOMAIN file
           /\ e = file[conn[s].pos]
           /\ Emits(s, e, yes)
           /\ Differ(conn[s], conn'[s], "replay", conn[s].from, conn[s].pos + 1,
                     IF yes THEN conn[s].replayed \cup {e} ELSE conn[s].replayed,
                     conn[s].dropped)
           /\ UNCHANGED << pubVars, busVars, client >>
    BY <1>8, ReplayLineIs
  <2>2. e \in Item
    BY DEF Item
  <2>3. sent' \in [Sub -> Seq(Item)] /\ \A t \in Sub : Len(sent[t]) <= Len(sent'[t])
    BY <2>1, <2>2, Emitted
  <2>4. conn' \in [Sub -> ConnRecord]
    BY <1>8, <2>1, ConnStep DEF TypeInv, Differ
  <2>5. Len(file) \in Nat /\ DOMAIN file = 1..Len(file)
    BY DEF TypeInv
  <2>6. \A t \in Sub : conn'[t].from = conn[t].from
                       /\ (conn'[t].pos = conn[t].pos
                             \/ conn'[t].pos = conn[s].pos + 1)
    BY <1>8, <2>1, ConnStep DEF TypeInv, Differ
  <2>7. \A t \in Sub : conn'[t].from <= Len(file) /\ conn'[t].pos <= Len(file) + 1
    <3>1. /\ \A t \in Sub : conn[t].from <= Len(file) /\ conn[t].pos <= Len(file) + 1
          /\ conn[s].pos <= Len(file) /\ conn[s].pos \in Nat
      BY <2>1, <2>5 DEF TypeInv
    <3>2. QED BY <2>5, <2>6, <3>1
  <2>8. \A t \in Sub : client[t].handled <= Len(sent'[t])
    <3>1. \A t \in Sub : client[t].handled \in Nat /\ client[t].handled <= Len(sent[t])
                         /\ Len(sent[t]) \in Nat /\ Len(sent'[t]) \in Nat
      BY <2>3 DEF TypeInv, ClientRecord
    <3>2. QED BY <2>3, <3>1
  <2>9. QED BY <2>1, <2>3, <2>4, <2>7, <2>8 DEF TypeInv
<1>9. ASSUME NEW s \in Sub, ReplayEnd(s) PROVE TypeInv'
  <2>1. conn' \in [Sub -> ConnRecord]
        /\ \A t \in Sub : conn'[t].from = conn[t].from /\ conn'[t].pos = conn[t].pos
    BY <1>9, ConnStep DEF TypeInv, Differ
  <2>2. QED BY <1>9, <2>1 DEF ReplayEnd, TypeInv
<1>10. ASSUME NEW s \in Sub, Drain(s) PROVE TypeInv'
  <2>1. PICK x \in Item :
           /\ conn[s].phase = "live" /\ buf[s] # << >> /\ x = Head(buf[s])
           /\ Emits(s, x, x \notin conn[s].replayed)
           /\ buf' = [buf EXCEPT ![s] = Tail(@)]
           /\ UNCHANGED << pubVars, file, open, subscribers, chan, lagged, conn, client >>
    BY <1>10, DrainIs
  <2>2. sent' \in [Sub -> Seq(Item)] /\ \A t \in Sub : Len(sent[t]) <= Len(sent'[t])
    BY <2>1, Emitted
  <2>3. /\ Tail(buf[s]) \in Seq(Item) /\ Len(Tail(buf[s])) = Len(buf[s]) - 1
        /\ Len(buf[s]) \in Nat
    BY <2>1, Taken DEF TypeInv
  <2>4. buf' \in [Sub -> Seq(Item)] /\ \A t \in Sub : Len(buf'[t]) <= Buffer
    BY <2>1, <2>3 DEF TypeInv
  <2>5. \A t \in Sub : client[t].handled <= Len(sent'[t])
    <3>1. \A t \in Sub : client[t].handled \in Nat /\ client[t].handled <= Len(sent[t])
                         /\ Len(sent[t]) \in Nat /\ Len(sent'[t]) \in Nat
      BY <2>2 DEF TypeInv, ClientRecord
    <3>2. QED BY <2>2, <3>1
  <2>6. QED BY <2>1, <2>2, <2>4, <2>5 DEF TypeInv
<1>11. ASSUME NEW s \in Sub, Leave(s) PROVE TypeInv'
  <2>1. conn' \in [Sub -> ConnRecord]
        /\ \A t \in Sub : conn'[t].from = conn[t].from /\ conn'[t].pos = conn[t].pos
    BY <1>11, ConnStep DEF TypeInv, Differ
  <2>2. chan' \in [Sub -> { "none", "open", "closed" }]
    BY <1>11 DEF Leave, TypeInv
  <2>3. QED BY <1>11, <2>1, <2>2 DEF Leave, TypeInv
<1>12. ASSUME NEW s \in Sub, Handle(s) PROVE TypeInv'
  <2> DEFINE x == sent[s][client[s].handled + 1]
  <2>1. client[s] \in ClientRecord /\ sent[s] \in Seq(Item) /\ Len(sent[s]) \in Nat
        /\ client[s].handled < Len(sent[s])
    BY <1>12 DEF TypeInv, Handle
  <2>2. x \in Item
    BY <2>1 DEF ClientRecord
  <2>3. TimeOf(x) \in 0..MaxTime
    <3>1. CASE x \in Event
      BY <3>1 DEF TimeOf, TypeInv
    <3>2. CASE x \notin Event
      <4>1. x \in Markers
        BY <2>2, <3>2 DEF Item
      <4>2. PICK t \in 1..MaxTime : x = [lagAt |-> t]
        BY <4>1, Zenon DEF Markers, Marker
      <4>3. x.lagAt = t
        BY <4>2
      <4>4. QED BY <3>2, <4>3 DEF TimeOf
    <3>3. QED BY <3>1, <3>2
  <2> HIDE DEF x
  <2>4. client' = [client EXCEPT
           ![s].handled = @ + 1,
           ![s].seen = IF x \in Event THEN @ \cup {x} ELSE @,
           ![s].last = IF TimeOf(x) > @ /\ x \notin client[s].seen
                         THEN TimeOf(x) ELSE @]
    BY <1>12, Zenon DEF Handle, x
  <2>5. /\ client'[s] \in ClientRecord /\ client'[s].handled = client[s].handled + 1
        /\ client' = [client EXCEPT ![s] = client'[s]]
    <3> DEFINE n == IF TimeOf(x) > client[s].last /\ x \notin client[s].seen
                    THEN TimeOf(x) ELSE client[s].last
               z == IF x \in Event THEN client[s].seen \cup {x} ELSE client[s].seen
    <3>1. client' = [client EXCEPT ![s] =
                       [client[s] EXCEPT !.handled = @ + 1, !.seen = z, !.last = n]]
      BY <2>4
    <3>2. n \in 0..MaxTime /\ z \subseteq Event
      BY <2>1, <2>3 DEF ClientRecord
    <3> HIDE DEF n, z
    <3>0. client[s] \in ClientRecord /\ client[s].handled + 1 \in Nat
      BY <2>1 DEF ClientRecord
    <3>3. client'[s] = [client[s] EXCEPT !.handled = client[s].handled + 1, !.seen = z, !.last = n]
      BY <3>1 DEF TypeInv
    <3>4. client'[s] \in ClientRecord /\ client'[s].handled = client[s].handled + 1
      <4>1. PICK c, h : c = client[s] /\ h = client[s].handled + 1
        OBVIOUS
      <4>2. PICK d : d = [c EXCEPT !.handled = h, !.seen = z, !.last = n]
        OBVIOUS
      <4>3. d \in ClientRecord /\ d.handled = h
        BY <3>0, <3>2, <4>1, <4>2 DEF ClientRecord
      <4>4. QED BY <3>3, <4>1, <4>2, <4>3, Zenon
    <3>5. QED BY <3>1, <3>3, <3>4
  <2>6. client' \in [Sub -> ClientRecord] /\ \A t \in Sub : client'[t].handled <= Len(sent[t])
    <3>1. client' \in [Sub -> ClientRecord]
      BY <2>5 DEF TypeInv
    <3>2. client'[s].handled <= Len(sent[s])
      BY <2>1, <2>5 DEF ClientRecord
    <3>3. \A t \in Sub : t # s => client'[t] = client[t]
      BY <2>5 DEF TypeInv
    <3>4. QED BY <3>1, <3>2, <3>3 DEF TypeInv
  <2>7. QED BY <1>12, <2>5, <2>6 DEF Handle, TypeInv
<1>13. CASE UNCHANGED vars
  BY <1>13 DEF vars, TypeInv
<1>14. QED
  BY <1>1, <1>2, <1>3, <1>4, <1>5, <1>6, <1>7, <1>8, <1>9, <1>10, <1>11, <1>12, <1>13
     DEF Next, Stream

-----------------------------------------------------------------------------
(* What is published stays as it is.                                        *)

\* Once published, an event keeps its state and its time.
LEMMA DoneStays ==
  ASSUME TypeInv, [Next]_vars, NEW e \in Event, pub[e] = "done"
  PROVE  pub'[e] = "done" /\ stamp'[e] = stamp[e]
<1> USE DEF pubVars, busVars, TypeInv
<1>1. ASSUME NEW f \in Event, Stamp(f) PROVE pub'[e] = "done" /\ stamp'[e] = stamp[e]
  BY <1>1 DEF Stamp
<1>2. ASSUME NEW f \in Event, Publish(f) PROVE pub'[e] = "done" /\ stamp'[e] = stamp[e]
  BY <1>2 DEF Publish
<1>3. CASE Restart
  BY <1>3 DEF Restart
<1>4. CASE Tick \/ Close \/ UNCHANGED vars
  BY <1>4 DEF Tick, Close, vars
<1>5. ASSUME NEW s \in Sub, Dial(s) \/ Subscribe(s) \/ Stream(s) \/ Leave(s) \/ Handle(s)
      PROVE  pub'[e] = "done" /\ stamp'[e] = stamp[e]
  BY <1>5 DEF Dial, Subscribe, Stream, ReplayLine, ReplayEnd, Drain, Leave, Handle
<1>6. QED BY <1>1, <1>2, <1>3, <1>4, <1>5 DEF Next

\* An event that is being published is nowhere yet.
LEMMA Fresh ==
  ASSUME TypeInv, PublishedInv, NEW e \in Event, Publish(e)
  PROVE  /\ e \notin ToSet(file)
         /\ \A s \in Sub : e \notin ToSet(buf[s]) /\ e \notin ToSet(sent[s])
BY DEF Publish, PublishedInv, AllDone, ToSet

\* What a publication does to the file.
LEMMA FileGrows ==
  ASSUME TypeInv, NEW e \in Event, Publish(e)
  PROVE  /\ DOMAIN file = 1..Len(file) /\ Len(file) \in Nat
         /\ DOMAIN file' = 1..Len(file') /\ Len(file) <= Len(file') /\ Len(file') \in Nat
         /\ \A k \in DOMAIN file : k \in DOMAIN file' /\ file'[k] = file[k]
         /\ \A k \in DOMAIN file' \ DOMAIN file :
              open /\ file'[k] = e /\ k = Len(file) + 1
<1>1. file \in Seq(Event) /\ DOMAIN file = 1..Len(file) /\ Len(file) \in Nat
  BY DEF TypeInv
<1>2. CASE open
  <2>1. file' = Append(file, e)
    BY <1>2 DEF Publish
  <2>2. /\ Len(Append(file, e)) = Len(file) + 1
        /\ DOMAIN Append(file, e) = 1..(Len(file) + 1)
        /\ \A i \in DOMAIN file : Append(file, e)[i] = file[i]
        /\ Append(file, e)[Len(file) + 1] = e
    BY <1>1, Appended
  <2>3. /\ Len(file') = Len(file) + 1 /\ DOMAIN file' = 1..(Len(file) + 1)
        /\ \A i \in DOMAIN file : file'[i] = file[i]
        /\ file'[Len(file) + 1] = e
    BY <2>1, <2>2, Zenon
  <2>4. QED BY <1>1, <1>2, <2>3
<1>3. CASE ~open
  BY <1>1, <1>3 DEF Publish
<1>4. QED BY <1>2, <1>3

\* A sequence that grows by an event that is published and not in it.
LEMMA AppendFresh ==
  ASSUME NEW q \in Seq(Item), NEW x \in Item, AllDone(q), NoRepeat(q),
         x \in Event => pub[x] = "done" /\ x \notin ToSet(q)
  PROVE  AllDone(Append(q, x)) /\ NoRepeat(Append(q, x))
<1>1. PICK r : r = Append(q, x)
  OBVIOUS
<1>2. /\ Len(q) \in Nat /\ DOMAIN q = 1..Len(q) /\ DOMAIN r = 1..(Len(q) + 1)
      /\ \A i \in DOMAIN q : r[i] = q[i]
      /\ r[Len(q) + 1] = x
  <2>1. /\ Len(q) \in Nat /\ DOMAIN q = 1..Len(q) /\ DOMAIN Append(q, x) = 1..(Len(q) + 1)
        /\ \A i \in DOMAIN q : Append(q, x)[i] = q[i]
        /\ Append(q, x)[Len(q) + 1] = x
    BY Appended
  <2>2. QED BY <1>1, <2>1, Zenon
<1>3. \A i \in DOMAIN q : q[i] \in ToSet(q)
  BY DEF ToSet
<1>4. AllDone(r)
  BY <1>2 DEF AllDone
<1>5. NoRepeat(r)
  BY <1>2, <1>3 DEF NoRepeat
<1>6. QED BY <1>1, <1>4, <1>5, Zenon

LEMMA TailKeeps ==
  ASSUME NEW q \in Seq(Item), q # << >>, AllDone(q), NoRepeat(q)
  PROVE  AllDone(Tail(q)) /\ NoRepeat(Tail(q))
<1>1. PICK r : r = Tail(q)
  OBVIOUS
<1>2. /\ \A i \in DOMAIN r : i + 1 \in DOMAIN q /\ r[i] = q[i+1]
      /\ DOMAIN r \subseteq Nat
  BY <1>1, Taken, Zenon
<1>3. AllDone(r) /\ NoRepeat(r)
  BY <1>2 DEF AllDone, NoRepeat
<1>4. QED BY <1>1, <1>3, Zenon

\* A channel after a publication.
LEMMA GrowthKeeps ==
  ASSUME NEW q \in Seq(Item), NEW r \in Seq(Item), NEW e \in Event, NEW m \in Markers,
         NEW t, Growth(q, r, e, m, t), AllDone(q), NoRepeat(q), e \notin ToSet(q)
  PROVE  /\ \A i \in DOMAIN r : r[i] \in Event => r[i] = e \/ pub[r[i]] = "done"
         /\ NoRepeat(r)
<1>1. m \notin Event
  BY MarkersApart
<1>2. \A i \in DOMAIN q : q[i] \in ToSet(q)
  BY DEF ToSet
<1>3. \A i \in DOMAIN r : \/ i \in DOMAIN q /\ r[i] = q[i]
                          \/ i > Len(q) /\ r[i] = m
                          \/ i > Len(q) /\ r[i] = e /\ i = Len(q) + 1
  BY DEF Growth
<1>4. \A i \in DOMAIN r : r[i] \in Event => r[i] = e \/ pub[r[i]] = "done"
  BY <1>1, <1>3 DEF AllDone
<1>5. NoRepeat(r)
  BY <1>1, <1>2, <1>3 DEF NoRepeat
<1>6. QED BY <1>4, <1>5

\* What the handler writes was published, and it was not written before.
LEMMA ReplayIsNew ==
  ASSUME TypeInv, PublishedInv, NEW s \in Sub, ReplayInv(s), conn[s].phase = "replay",
         conn[s].pos \in DOMAIN file
  PROVE  pub[file[conn[s].pos]] = "done" /\ file[conn[s].pos] \notin ToSet(sent[s])
<1>1. file[conn[s].pos] \in Event /\ conn[s].pos \in Nat
  BY DEF TypeInv, ConnRecord
<1>2. file[conn[s].pos] \notin conn[s].replayed
  BY <1>1 DEF ReplayInv, Streaming
<1>3. QED BY <1>1, <1>2 DEF ReplayInv, Streaming, PublishedInv, AllDone

LEMMA DrainIsNew ==
  ASSUME TypeInv, PublishedInv, NEW s \in Sub, ChannelInv(s), conn[s].phase = "live",
         buf[s] # << >>, Head(buf[s]) \in Event
  PROVE  /\ pub[Head(buf[s])] = "done" /\ Head(buf[s]) \in ToSet(buf[s])
         /\ Head(buf[s]) \notin conn[s].replayed => Head(buf[s]) \notin ToSet(sent[s])
<1>1. Head(buf[s]) = buf[s][1] /\ 1 \in DOMAIN buf[s]
      /\ ToSet(buf[s]) = ToSet(Tail(buf[s])) \cup {Head(buf[s])}
  BY Taken DEF TypeInv
<1>2. QED BY <1>1 DEF ChannelInv, Streaming, PublishedInv, AllDone

LEMMA PublishedStep == IInv /\ [Next]_vars => PublishedInv'
<1> SUFFICES ASSUME IInv, [Next]_vars PROVE PublishedInv'
  OBVIOUS
<1> USE DEF pubVars, busVars, IInv
<1>0. TypeInv /\ TypeInv' /\ PublishedInv
  BY TypeStep
<1>00. /\ file \in Seq(Event) /\ \A s \in Sub : buf[s] \in Seq(Item) /\ sent[s] \in Seq(Item)
       /\ \A e \in Event : pub[e] = "done" => pub'[e] = "done"
  BY <1>0, DoneStays DEF TypeInv
\* A sequence that stays as it is stays published.
<1>a. ASSUME NEW q, AllDone(q), NoRepeat(q), NEW r, r = q \/ r = << >>
      PROVE  (\A i \in DOMAIN r : r[i] \in Event => pub'[r[i]] = "done") /\ NoRepeat(r)
  <2>1. CASE r = q
    BY <1>a, <1>00, <2>1 DEF AllDone
  <2>2. CASE r = << >>
    BY <2>2 DEF NoRepeat
  <2>3. QED BY <1>a, <2>1, <2>2
<1>b. ASSUME UNCHANGED file, \A s \in Sub : buf'[s] \in { buf[s], << >> },
             \A s \in Sub : sent'[s] \in { sent[s], << >> }
      PROVE  PublishedInv'
  <2>1. AllDone(file)' /\ NoRepeat(file)'
    BY <1>b, <1>00 DEF PublishedInv, AllDone, NoRepeat
  <2>2. ASSUME NEW s \in Sub
        PROVE  /\ AllDone(buf[s])' /\ NoRepeat(buf[s])'
               /\ AllDone(sent[s])' /\ NoRepeat(sent[s])'
    <3>1. AllDone(buf[s])' /\ NoRepeat(buf[s])'
      BY <1>a, <1>b DEF PublishedInv, AllDone, NoRepeat
    <3>2. AllDone(sent[s])' /\ NoRepeat(sent[s])'
      BY <1>a, <1>b DEF PublishedInv, AllDone, NoRepeat
    <3>3. QED BY <3>1, <3>2
  <2>3. QED BY <2>1, <2>2 DEF PublishedInv
<1>1. CASE Tick \/ Close \/ UNCHANGED vars
  BY <1>1, <1>b DEF Tick, Close, vars
<1>2. CASE Restart
  BY <1>2, <1>b DEF Restart
<1>3. ASSUME NEW e \in Event, Stamp(e) PROVE PublishedInv'
  BY <1>3, <1>b DEF Stamp
<1>4. ASSUME NEW s \in Sub, Dial(s) PROVE PublishedInv'
  BY <1>4, <1>b DEF Dial, TypeInv
<1>5. ASSUME NEW s \in Sub, Subscribe(s) PROVE PublishedInv'
  BY <1>5, <1>b DEF Subscribe, TypeInv
<1>6. ASSUME NEW s \in Sub, ReplayEnd(s) \/ Leave(s) \/ Handle(s) PROVE PublishedInv'
  BY <1>6, <1>b DEF ReplayEnd, Leave, Handle
<1>7. ASSUME NEW e \in Event, Publish(e) PROVE PublishedInv'
  <2>1. pub' = [pub EXCEPT ![e] = "done"] /\ pub'[e] = "done"
    BY <1>7 DEF Publish, TypeInv
  <2>2. AllDone(file)' /\ NoRepeat(file)'
    <3>1. \A k \in DOMAIN file' : \/ k \in DOMAIN file /\ file'[k] = file[k]
                                  \/ file'[k] = e /\ k = Len(file) + 1
      BY <1>7, FileGrows
    <3>2. e \notin ToSet(file) /\ \A k \in DOMAIN file : file[k] \in ToSet(file)
      BY <1>7, Fresh DEF ToSet
    <3>3. AllDone(file)'
      BY <1>00, <2>1, <3>1 DEF PublishedInv, AllDone
    <3>4. NoRepeat(file)'
      BY <3>1, <3>2 DEF PublishedInv, NoRepeat
    <3>5. QED BY <3>3, <3>4
  <2>3. ASSUME NEW s \in Sub PROVE AllDone(buf[s])' /\ NoRepeat(buf[s])'
    <3>1. /\ buf'[s] \in Seq(Item) /\ Marker(now) \in Markers
          /\ Growth(buf[s], buf'[s], e, Marker(now), Wants(s, e) /\ ~Full(buf[s]))
      BY <1>7, Offered DEF Publish
    <3>2. AllDone(buf[s]) /\ NoRepeat(buf[s]) /\ e \notin ToSet(buf[s])
      BY <1>7, Fresh DEF PublishedInv
    <3>3. /\ \A i \in DOMAIN buf'[s] :
               buf'[s][i] \in Event => buf'[s][i] = e \/ pub[buf'[s][i]] = "done"
          /\ NoRepeat(buf'[s])
      BY <1>00, <3>1, <3>2, GrowthKeeps
    <3>4. QED BY <1>00, <2>1, <3>3 DEF AllDone, NoRepeat
  <2>4. ASSUME NEW s \in Sub PROVE AllDone(sent[s])' /\ NoRepeat(sent[s])'
    BY <1>00, <1>7 DEF Publish, PublishedInv, AllDone, NoRepeat
  <2>5. QED BY <2>2, <2>3, <2>4 DEF PublishedInv
\* One more envelope on one connection.
<1>c. ASSUME NEW s \in Sub, NEW x \in Item, NEW yes \in BOOLEAN, Emits(s, x, yes), UNCHANGED << file, pub >>,
             yes /\ x \in Event => pub[x] = "done" /\ x \notin ToSet(sent[s]),
             NEW q, buf' = [buf EXCEPT ![s] = q], AllDone(q), NoRepeat(q)
      PROVE  PublishedInv'
  <2>1. AllDone(file)' /\ NoRepeat(file)'
    BY <1>c DEF PublishedInv, AllDone, NoRepeat
  <2>2. ASSUME NEW t \in Sub PROVE AllDone(buf[t])' /\ NoRepeat(buf[t])'
    <3>1. buf'[t] = buf[t] \/ buf'[t] = q
      BY <1>c DEF TypeInv
    <3>2. QED BY <1>c, <3>1 DEF PublishedInv, AllDone, NoRepeat
  <2>3. ASSUME NEW t \in Sub PROVE AllDone(sent[t])' /\ NoRepeat(sent[t])'
    <3>0. /\ \A u \in Sub : u # s => sent'[u] = sent[u]
          /\ sent'[s] = IF yes THEN Append(sent[s], x) ELSE sent[s]
      BY <1>0, <1>c, Emitted, Zenon
    <3>1. \/ sent'[t] = sent[t]
          \/ yes /\ t = s /\ sent'[t] = Append(sent[s], x)
      BY <1>c, <3>0, Zenon
    <3>2. yes => AllDone(Append(sent[s], x)) /\ NoRepeat(Append(sent[s], x))
      BY <1>c, <1>00, AppendFresh DEF PublishedInv
    <3>3. AllDone(sent'[t]) /\ NoRepeat(sent'[t])
      BY <3>1, <3>2, Zenon DEF PublishedInv
    <3>4. QED BY <1>c, <3>3 DEF AllDone, NoRepeat
  <2>4. QED BY <2>1, <2>2, <2>3 DEF PublishedInv
<1>8. ASSUME NEW s \in Sub, ReplayLine(s) PROVE PublishedInv'
  <2>1. PICK e \in Event, yes \in BOOLEAN :
           /\ conn[s].phase = "replay" /\ conn[s].pos \in DOMAIN file
           /\ e = file[conn[s].pos] /\ Emits(s, e, yes)
           /\ UNCHANGED << pubVars, busVars, client >>
    BY <1>8, ReplayLineIs
  <2>2. e \in Item /\ pub[e] = "done" /\ e \notin ToSet(sent[s])
    <3>1. ReplayInv(s)
      BY DEF StreamInv
    <3>2. QED BY <1>0, <2>1, <3>1, ReplayIsNew DEF Item
  <2>3. buf' = [buf EXCEPT ![s] = buf[s]] /\ AllDone(buf[s]) /\ NoRepeat(buf[s])
    BY <2>1 DEF PublishedInv, TypeInv
  <2>4. QED BY <2>1, <2>2, <2>3, <1>c
<1>9. ASSUME NEW s \in Sub, Drain(s) PROVE PublishedInv'
  <2>1. PICK x \in Item :
           /\ conn[s].phase = "live" /\ buf[s] # << >> /\ x = Head(buf[s])
           /\ Emits(s, x, x \notin conn[s].replayed)
           /\ buf' = [buf EXCEPT ![s] = Tail(@)]
           /\ UNCHANGED << pubVars, file, open, subscribers, chan, lagged, conn, client >>
    BY <1>9, DrainIs
  <2>2. x \notin conn[s].replayed /\ x \in Event => pub[x] = "done" /\ x \notin ToSet(sent[s])
    BY <2>1, DrainIsNew DEF StreamInv
  <2>3. AllDone(Tail(buf[s])) /\ NoRepeat(Tail(buf[s]))
    BY <1>00, <2>1, TailKeeps DEF PublishedInv
  <2>4. buf' = [buf EXCEPT ![s] = Tail(buf[s])]
    BY <2>1
  <2>5. QED BY <2>1, <2>2, <2>3, <2>4, <1>c
<1>10. QED
  BY <1>1, <1>2, <1>3, <1>4, <1>5, <1>6, <1>7, <1>8, <1>9 DEF Next, Stream

-----------------------------------------------------------------------------
(* The handlers and the list of subscriptions.                              *)

HandlerOk(s) ==
  /\ s \in subscribers => chan[s] = "open" /\ Streaming(s)
  /\ Streaming(s) /\ open => s \in subscribers
  /\ conn[s].phase = "accepted" =>
       sent[s] = << >> /\ conn[s].dropped = {} /\ conn[s].replayed = {} /\ conn[s].pos = 1
  /\ conn[s].phase = "replay" => conn[s].since > 0
  /\ Streaming(s) /\ conn[s].since = 0 => conn[s].replayed = {}

LEMMA HandlerIs ==
  ASSUME TypeInv
  PROVE  HandlerInv <=> \A s \in Sub : HandlerOk(s)
<1>1. subscribers \subseteq Sub
  BY DEF TypeInv
<1>2. QED BY <1>1 DEF HandlerInv, HandlerOk, ChannelsOpen, Streaming

LEMMA HandlerStep == IInv /\ [Next]_vars => HandlerInv'
<1> SUFFICES ASSUME IInv, [Next]_vars PROVE HandlerInv'
  OBVIOUS
<1> SUFFICES \A s \in Sub : HandlerOk(s)'
  <2>1. TypeInv'
    BY TypeStep DEF IInv
  <2>2. (HandlerInv <=> \A s \in Sub : HandlerOk(s))'
    BY <2>1, HandlerIs, PTL
  <2>3. QED BY <2>2
<1> USE DEF pubVars, busVars
<1>0. TypeInv /\ \A s \in Sub : HandlerOk(s)
  BY HandlerIs DEF IInv
<1>00. /\ conn \in [Sub -> ConnRecord] /\ chan \in [Sub -> { "none", "open", "closed" }]
       /\ sent \in [Sub -> Seq(Item)] /\ client \in [Sub -> ClientRecord]
       /\ subscribers \subseteq Sub /\ \A s \in Sub : conn[s].since \in Nat
  BY <1>0, ConnFields, BusAssumption DEF TypeInv
\* A subscriber nothing happens to.
<1>a. ASSUME NEW s \in Sub, conn'[s] = conn[s], chan'[s] = chan[s],
             s \in subscribers' <=> s \in subscribers, open' = open, sent'[s] = sent[s]
      PROVE  HandlerOk(s)'
  BY <1>0, <1>a DEF HandlerOk, Streaming
<1>1. ASSUME Tick \/ UNCHANGED vars \/ (\E e \in Event : Stamp(e)), NEW s \in Sub
      PROVE  HandlerOk(s)'
  BY <1>1, <1>a DEF Tick, vars, Stamp
<1>2. ASSUME Close, NEW s \in Sub PROVE HandlerOk(s)'
  BY <1>0, <1>2 DEF Close, HandlerOk, Streaming
<1>3. ASSUME Restart, NEW s \in Sub PROVE HandlerOk(s)'
  <2>1. conn'[s].phase = "off" /\ subscribers' = {}
    BY <1>0, <1>3, ConnStep DEF Restart, Differ
  <2>2. QED BY <2>1 DEF HandlerOk, Streaming
<1>4. ASSUME NEW e \in Event, Publish(e), NEW s \in Sub PROVE HandlerOk(s)'
  <2>1. Differ(conn[s], conn'[s], conn[s].phase, conn[s].from, conn[s].pos,
               conn[s].replayed,
               IF Loses(s, e) THEN conn[s].dropped \cup {e} ELSE conn[s].dropped)
    BY <1>0, <1>4, ConnStep
  <2>2. Loses(s, e) => Streaming(s)
    BY <1>0 DEF Loses, Wants, HandlerOk
  <2>3. QED BY <1>0, <1>4, <2>1, <2>2 DEF Publish, Differ, HandlerOk, Streaming
<1>5. ASSUME NEW t \in Sub, Dial(t), NEW s \in Sub PROVE HandlerOk(s)'
  <2>1. CASE s # t
    BY <1>00, <1>5, <1>a, <2>1 DEF Dial
  <2>2. CASE s = t
    <3>1. client[t].last \in 0..MaxTime
      BY <1>00 DEF ClientRecord
    <3>2. PICK d : d = [NoConn EXCEPT !.phase = "accepted", !.since = client[t].last]
      OBVIOUS
    <3>3. conn' = [conn EXCEPT ![t] = d] /\ sent'[t] = << >> /\ subscribers' = subscribers
      BY <1>00, <1>5, <3>2 DEF Dial
    <3>7. d.phase = "accepted" /\ d.pos = 1 /\ d.replayed = {} /\ d.dropped = {}
      BY <3>1, <3>2, DialSet
    <3>4. conn'[t] = d
      BY <1>00, <3>3
    <3>5. t \notin subscribers
      BY <1>0, <1>5 DEF Dial, HandlerOk, Streaming
    <3>6. QED BY <2>2, <3>3, <3>4, <3>5, <3>7 DEF HandlerOk, Streaming
  <2>3. QED BY <2>1, <2>2
<1>6. ASSUME NEW t \in Sub, Subscribe(t), NEW s \in Sub PROVE HandlerOk(s)'
  <2>1. CASE s # t
    BY <1>0, <1>00, <1>6, <1>a, <2>1, ConnStep DEF Subscribe
  <2>2. CASE s = t
    <3>1. Differ(conn[t], conn'[t], IF conn[t].since > 0 THEN "replay" ELSE "live",
                 Len(file), conn[t].pos, conn[t].replayed, conn[t].dropped)
      BY <1>0, <1>6, ConnStep
    <3>2. t \in subscribers' /\ chan'[t] = "open" /\ conn[t].phase = "accepted"
      BY <1>00, <1>6 DEF Subscribe
    <3>3. conn[t].replayed = {}
      BY <1>0, <3>2 DEF HandlerOk
    <3>4. QED BY <1>00, <2>2, <3>1, <3>2, <3>3 DEF Differ, HandlerOk, Streaming
  <2>3. QED BY <2>1, <2>2
<1>7. ASSUME NEW t \in Sub, ReplayLine(t), NEW s \in Sub PROVE HandlerOk(s)'
  <2>1. PICK e \in Event, yes \in BOOLEAN :
           /\ conn[t].phase = "replay" /\ Emits(t, e, yes)
           /\ Differ(conn[t], conn'[t], "replay", conn[t].from, conn[t].pos + 1,
                     IF yes THEN conn[t].replayed \cup {e} ELSE conn[t].replayed,
                     conn[t].dropped)
           /\ UNCHANGED << pubVars, busVars, client >>
    BY <1>0, <1>7, ReplayLineIs
  <2>2. CASE s # t
    <3>1. sent'[s] = sent[s]
      BY <1>0, <2>1, <2>2, Emitted DEF Item
    <3>2. conn'[s] = conn[s]
      BY <1>0, <1>00, <1>7, <2>2, ConnStep
    <3>3. QED BY <1>a, <2>1, <3>1, <3>2
  <2>3. CASE s = t
    BY <1>0, <1>00, <2>1, <2>3 DEF Differ, HandlerOk, Streaming
  <2>4. QED BY <2>2, <2>3
<1>8. ASSUME NEW t \in Sub, ReplayEnd(t), NEW s \in Sub PROVE HandlerOk(s)'
  <2>1. CASE s # t
    BY <1>0, <1>00, <1>8, <1>a, <2>1, ConnStep DEF ReplayEnd
  <2>2. CASE s = t
    <3>1. Differ(conn[t], conn'[t], "live", conn[t].from, conn[t].pos,
                 conn[t].replayed, conn[t].dropped)
      BY <1>0, <1>8, ConnStep
    <3>2. QED BY <1>0, <1>8, <2>2, <3>1 DEF ReplayEnd, Differ, HandlerOk, Streaming
  <2>3. QED BY <2>1, <2>2
<1>9. ASSUME NEW t \in Sub, Drain(t), NEW s \in Sub PROVE HandlerOk(s)'
  <2>1. PICK x \in Item :
           /\ conn[t].phase = "live" /\ Emits(t, x, x \notin conn[t].replayed)
           /\ UNCHANGED << pubVars, file, open, subscribers, chan, lagged, conn, client >>
    BY <1>0, <1>9, DrainIs
  <2>2. CASE s # t
    <3>1. sent'[s] = sent[s]
      BY <1>0, <2>1, <2>2, Emitted
    <3>2. QED BY <1>a, <2>1, <3>1
  <2>3. CASE s = t
    BY <1>0, <2>1, <2>3 DEF HandlerOk, Streaming
  <2>4. QED BY <2>2, <2>3
<1>10. ASSUME NEW t \in Sub, Leave(t), NEW s \in Sub PROVE HandlerOk(s)'
  <2>1. CASE s # t
    BY <1>0, <1>00, <1>10, <1>a, <2>1, ConnStep DEF Leave
  <2>2. CASE s = t
    <3>1. conn'[t].phase = "off" /\ t \notin subscribers'
      BY <1>0, <1>10, ConnStep DEF Leave, Differ
    <3>2. QED BY <2>2, <3>1 DEF HandlerOk, Streaming
  <2>3. QED BY <2>1, <2>2
<1>11. ASSUME NEW t \in Sub, Handle(t), NEW s \in Sub PROVE HandlerOk(s)'
  BY <1>11, <1>a DEF Handle
<1>12. QED
  BY <1>1, <1>2, <1>3, <1>4, <1>5, <1>6, <1>7, <1>8, <1>9, <1>10, <1>11 DEF Next, Stream

-----------------------------------------------------------------------------
(* What a connection carries.                                               *)

\* Times of the lines of the file do not change.
LEMMA LinesStay ==
  ASSUME IInv, [Next]_vars
  PROVE  \A k \in DOMAIN file : file[k] \in Event /\ stamp'[file[k]] = stamp[file[k]]
<1>1. \A k \in DOMAIN file : file[k] \in Event /\ pub[file[k]] = "done"
  BY DEF IInv, TypeInv, PublishedInv, AllDone
<1>2. QED BY <1>1, DoneStays DEF IInv

\* A subscriber nothing happens to.
LEMMA Frame ==
  ASSUME IInv, [Next]_vars, NEW s \in Sub, file' = file, conn'[s] = conn[s],
         sent'[s] = sent[s], buf'[s] = buf[s], lagged'[s] = lagged[s]
  PROVE  StreamInv(s)'
<1>1. \A k \in DOMAIN file : stamp'[file[k]] = stamp[file[k]]
  BY LinesStay
<1>2. StreamInv(s)
  BY DEF IInv
<1> USE <1>1, <1>2 DEF StreamInv, Streaming
<1>3. ReplayInv(s)'
  BY DEF ReplayInv
<1>4. ChannelInv(s)'
  BY DEF ChannelInv
<1>5. SentInOrder(s)'
  BY DEF SentInOrder
<1>6. BufInOrder(s)' /\ TakenFirst(s)'
  BY DEF BufInOrder, TakenFirst
<1>7. MarkInv(s)'
  BY DEF MarkInv
<1>8. QED BY <1>3, <1>4, <1>5, <1>6, <1>7

\* A connection without a handler that streams: only what was written is left.
LEMMA Quiet ==
  ASSUME IInv, [Next]_vars, NEW s \in Sub, file' = file,
         conn'[s].phase \in { "off", "accepted" },
         buf'[s] = buf[s] \/ buf'[s] = << >>,
         \/ sent'[s] = sent[s] /\ conn'[s].since = conn[s].since
         \/ sent'[s] = << >>
  PROVE  StreamInv(s)'
<1>1. \A k \in DOMAIN file : stamp'[file[k]] = stamp[file[k]]
  BY LinesStay
<1>2. SentInOrder(s) /\ BufInOrder(s)
  BY DEF IInv, StreamInv
<1>3. ~Streaming(s)'
  BY DEF Streaming
<1>4. SentInOrder(s)'
  BY <1>1, <1>2 DEF SentInOrder
<1>5. BufInOrder(s)'
  BY <1>2 DEF BufInOrder
<1>6. QED BY <1>3, <1>4, <1>5 DEF StreamInv, ReplayInv, ChannelInv, TakenFirst, MarkInv

LEMMA SubscribeStreams ==
  ASSUME IInv, [Next]_vars, NEW s \in Sub, Subscribe(s)
  PROVE  StreamInv(s)'
<1>1. /\ Differ(conn[s], conn'[s], IF conn[s].since > 0 THEN "replay" ELSE "live",
                Len(file), conn[s].pos, conn[s].replayed, conn[s].dropped)
      /\ conn[s].phase = "accepted" /\ conn[s].since \in 0..MaxTime
  BY ConnStep, ConnFields DEF IInv, TypeInv, Subscribe
<1>2. /\ sent[s] = << >> /\ conn[s].dropped = {} /\ conn[s].replayed = {}
      /\ conn[s].pos = 1
  BY <1>1 DEF IInv, HandlerInv
<1>3. /\ buf'[s] = << >> /\ sent'[s] = << >> /\ file' = file
      /\ DOMAIN file = 1..Len(file) /\ Len(file) \in Nat
  BY <1>2 DEF Subscribe, IInv, TypeInv
<1>4. ToSet(<< >>) = {}
  BY DEF ToSet
<1>5. ReplayInv(s)'
  BY <1>1, <1>2, <1>3, <1>4, BusAssumption DEF ReplayInv, Differ
<1>6. ChannelInv(s)'
  BY <1>1, <1>2, <1>3, <1>4 DEF ChannelInv, Differ
<1>7. SentInOrder(s)' /\ BufInOrder(s)' /\ TakenFirst(s)'
  BY <1>3 DEF SentInOrder, BufInOrder, TakenFirst
<1>8. MarkInv(s)'
  BY <1>1, <1>2 DEF MarkInv, Differ
<1>9. QED BY <1>5, <1>6, <1>7, <1>8 DEF StreamInv

LEMMA ReplayEndStreams ==
  ASSUME IInv, [Next]_vars, NEW s \in Sub, ReplayEnd(s)
  PROVE  StreamInv(s)'
<1>1. /\ Differ(conn[s], conn'[s], "live", conn[s].from, conn[s].pos,
                conn[s].replayed, conn[s].dropped)
      /\ conn[s].phase = "replay" /\ conn[s].pos > Len(file) /\ conn[s].from <= Len(file)
      /\ Len(file) \in Nat /\ conn[s].pos \in Nat /\ conn[s].from \in Nat
  <2>1. TypeInv /\ conn[s] \in ConnRecord /\ file \in Seq(Event)
    BY DEF IInv, TypeInv
  <2>2. conn[s].pos \in Nat /\ conn[s].from \in Nat /\ Len(file) \in Nat
    BY <2>1, ConnFields
  <2>3. conn[s].phase = "replay" /\ conn[s].pos > Len(file) /\ conn[s].from <= Len(file)
    BY <2>1 DEF TypeInv, ReplayEnd
  <2>4. QED BY <2>1, <2>2, <2>3, ConnStep
<1>2. /\ buf' = buf /\ sent' = sent /\ file' = file /\ stamp' = stamp /\ lagged' = lagged
  BY DEF ReplayEnd, pubVars, busVars
<1>3. StreamInv(s) /\ Streaming(s) /\ Streaming(s)'
  BY <1>1 DEF IInv, Streaming, Differ
<1> USE <1>1, <1>2, <1>3 DEF StreamInv, Differ
<1>4. ReplayInv(s)'
  BY DEF ReplayInv
<1>5. ChannelInv(s)'
  BY DEF ChannelInv
<1>6. SentInOrder(s)' /\ BufInOrder(s)' /\ TakenFirst(s)'
  BY DEF SentInOrder, BufInOrder, TakenFirst
<1>7. MarkInv(s)'
  BY DEF MarkInv
<1>8. QED BY <1>4, <1>5, <1>6, <1>7

\* A line of the replay: it comes after what was written, and nothing of the
\* channel was taken before.
LEMMA ReplayLineStreams ==
  ASSUME IInv, [Next]_vars, NEW s \in Sub, ReplayLine(s)
  PROVE  StreamInv(s)'
<1>0. TypeInv /\ StreamInv(s) /\ sent[s] \in Seq(Item) /\ DOMAIN file = 1..Len(file)
      /\ NoRepeat(file) /\ \A k \in DOMAIN file : file[k] \in Event
  BY DEF IInv, TypeInv, PublishedInv
<1>1. PICK e \in Event, yes \in BOOLEAN :
         /\ conn[s].phase = "replay" /\ conn[s].pos \in DOMAIN file
         /\ e = file[conn[s].pos]
         /\ yes <=> stamp[e] >= conn[s].since /\ e \in Wanted[s]
         /\ Emits(s, e, yes)
         /\ Differ(conn[s], conn'[s], "replay", conn[s].from, conn[s].pos + 1,
                   IF yes THEN conn[s].replayed \cup {e} ELSE conn[s].replayed,
                   conn[s].dropped)
         /\ UNCHANGED << pubVars, busVars, client >>
  BY <1>0, ReplayLineIs
<1>2. /\ conn[s].pos \in Nat /\ conn[s].replayed \subseteq Event /\ e \in Item
      /\ Len(file) \in Nat /\ conn[s].since \in Nat
  BY <1>0, <1>1, ConnFields, BusAssumption DEF TypeInv, Item
<1>3. /\ file' = file /\ stamp' = stamp /\ buf' = buf /\ lagged' = lagged
      /\ Streaming(s) /\ Streaming(s)'
  BY <1>1 DEF pubVars, busVars, Streaming, Differ
<1>4. e \notin conn[s].replayed /\ e \notin ToSet(sent[s])
  BY <1>0, <1>1, <1>2, ReplayIsNew DEF IInv, StreamInv, ReplayInv, Streaming
<1>5. sent'[s] = IF yes THEN Append(sent[s], e) ELSE sent[s]
  BY <1>0, <1>1, <1>2, Emitted, Zenon
<1>6. CASE ~yes
  <2>1. sent'[s] = sent[s] /\ conn'[s].replayed = conn[s].replayed
    BY <1>1, <1>5, <1>6 DEF Differ
  <2> USE <1>0, <1>1, <1>2, <1>3, <1>6, <2>1 DEF StreamInv, Differ
  <2>2. ReplayInv(s)'
    BY DEF ReplayInv
  <2>3. ChannelInv(s)'
    BY DEF ChannelInv
  <2>4. SentInOrder(s)' /\ BufInOrder(s)' /\ TakenFirst(s)'
    BY DEF SentInOrder, BufInOrder, TakenFirst
  <2>5. MarkInv(s)'
    BY DEF MarkInv
  <2>6. QED BY <2>2, <2>3, <2>4, <2>5
<1>7. CASE yes
  <2>1. sent'[s] = Append(sent[s], e) /\ conn'[s].replayed = conn[s].replayed \cup {e}
    BY <1>1, <1>5, <1>7 DEF Differ
  <2>2. /\ DOMAIN sent[s] = 1..Len(sent[s]) /\ Len(sent[s]) \in Nat
        /\ DOMAIN sent'[s] = 1..(Len(sent[s]) + 1)
        /\ \A i \in DOMAIN sent[s] : sent'[s][i] = sent[s][i] /\ sent[s][i] \in ToSet(sent[s])
        /\ sent'[s][Len(sent[s]) + 1] = e /\ ToSet(sent'[s]) = ToSet(sent[s]) \cup {e}
    <3>1. /\ DOMAIN sent[s] = 1..Len(sent[s]) /\ Len(sent[s]) \in Nat
          /\ DOMAIN Append(sent[s], e) = 1..(Len(sent[s]) + 1)
          /\ \A i \in DOMAIN sent[s] : Append(sent[s], e)[i] = sent[s][i]
          /\ Append(sent[s], e)[Len(sent[s]) + 1] = e
          /\ ToSet(Append(sent[s], e)) = ToSet(sent[s]) \cup {e}
      BY <1>0, <1>2, Appended
    <3>2. \A i \in DOMAIN sent[s] : sent[s][i] \in ToSet(sent[s])
      BY DEF ToSet
    <3>3. QED BY <2>1, <3>1, <3>2, Zenon
  <2>3. \A i \in DOMAIN sent[s] : sent[s][i] \in conn[s].replayed
    BY <1>0, <1>1, <1>3, <2>2 DEF StreamInv, ReplayInv
  <2> USE <1>0, <1>1, <1>2, <1>3, <1>7, <2>1, <2>2 DEF StreamInv, Differ
  <2>4. ReplayInv(s)'
    <3>1. conn'[s].replayed \subseteq ToSet(sent'[s]) /\ ToSet(sent'[s]) \subseteq conn'[s].replayed
      BY DEF ReplayInv
    <3>2. \A k \in DOMAIN file : file[k] \in conn'[s].replayed => k < conn'[s].pos
      BY DEF ReplayInv, NoRepeat
    <3>3. conn[s].since > 0 => \A k \in DOMAIN file :
            k < conn[s].pos + 1 /\ file[k] \in Wanted[s] /\ stamp[file[k]] >= conn[s].since
              => file[k] \in conn'[s].replayed
      BY DEF ReplayInv
    <3>4. QED BY <3>1, <3>2, <3>3 DEF ReplayInv
  <2>5. ChannelInv(s)'
    BY DEF ChannelInv
  <2>6. SentInOrder(s)'
    <3>1. ASSUME NEW i \in DOMAIN sent'[s], NEW k \in DOMAIN sent'[s], NEW m \in DOMAIN file,
                 NEW n \in DOMAIN file, i < k, sent'[s][i] = file[m], sent'[s][k] = file[n],
                 stamp[file[m]] >= conn[s].since, stamp[file[n]] >= conn[s].since
          PROVE  m < n
      <4>1. i \in DOMAIN sent[s] /\ sent[s][i] = file[m]
        BY <3>1
      <4>2. CASE k \in DOMAIN sent[s]
        BY <3>1, <4>1, <4>2 DEF SentInOrder
      <4>3. CASE k \notin DOMAIN sent[s]
        <5>1. file[n] = e /\ n = conn[s].pos
          BY <3>1, <4>3 DEF NoRepeat
        <5>2. m < conn[s].pos
          BY <2>3, <4>1 DEF ReplayInv
        <5>3. QED BY <5>1, <5>2
      <4>4. QED BY <4>2, <4>3
    <3>2. QED BY <3>1 DEF SentInOrder
  <2>7. BufInOrder(s)'
    BY DEF BufInOrder
  <2>8. TakenFirst(s)'
    BY <2>3 DEF TakenFirst
  <2>9. MarkInv(s)'
    BY DEF MarkInv
  <2>10. QED BY <2>4, <2>5, <2>6, <2>7, <2>8, <2>9
<1>8. QED BY <1>6, <1>7

\* An envelope of the channel: it comes after what was written, and if it was
\* replayed it is skipped.
LEMMA DrainStreams ==
  ASSUME IInv, [Next]_vars, NEW s \in Sub, Drain(s)
  PROVE  StreamInv(s)'
<1>0. TypeInv /\ StreamInv(s) /\ sent[s] \in Seq(Item) /\ DOMAIN file = 1..Len(file)
      /\ NoRepeat(file) /\ (\A k \in DOMAIN file : file[k] \in Event)
      /\ buf[s] \in Seq(Item) /\ Len(file) \in Nat
  BY DEF IInv, TypeInv, PublishedInv
<1>1. PICK x \in Item :
         /\ conn[s].phase = "live" /\ buf[s] # << >> /\ x = Head(buf[s])
         /\ Emits(s, x, x \notin conn[s].replayed)
         /\ buf' = [buf EXCEPT ![s] = Tail(@)]
         /\ UNCHANGED << pubVars, file, open, subscribers, chan, lagged, conn, client >>
  BY <1>0, DrainIs
<1>2. /\ file' = file /\ stamp' = stamp /\ conn' = conn /\ lagged' = lagged
      /\ Streaming(s) /\ Streaming(s)' /\ conn[s].replayed \subseteq Event
      /\ conn[s].pos \in Nat /\ conn[s].from \in Nat /\ conn[s].since \in Nat
  BY <1>0, <1>1, ConnFields, BusAssumption DEF pubVars, Streaming, TypeInv
<1>3. sent'[s] = IF x \notin conn[s].replayed THEN Append(sent[s], x) ELSE sent[s]
  BY <1>0, <1>1, Emitted, Zenon
\* The channel.
<1>4. /\ buf'[s] = Tail(buf[s]) /\ x = buf[s][1] /\ 1 \in DOMAIN buf[s]
      /\ \A i \in DOMAIN buf'[s] : i + 1 \in DOMAIN buf[s] /\ buf'[s][i] = buf[s][i+1]
      /\ DOMAIN buf'[s] \subseteq Nat /\ DOMAIN buf[s] = 1..Len(buf[s])
      /\ ToSet(buf[s]) = ToSet(buf'[s]) \cup {x}
  <2>1. buf'[s] = Tail(buf[s])
    BY <1>1 DEF TypeInv, IInv
  <2>2. /\ Head(buf[s]) = buf[s][1] /\ 1 \in DOMAIN buf[s]
        /\ \A i \in DOMAIN Tail(buf[s]) : i + 1 \in DOMAIN buf[s]
                                          /\ Tail(buf[s])[i] = buf[s][i+1]
        /\ DOMAIN Tail(buf[s]) \subseteq Nat
        /\ ToSet(buf[s]) = ToSet(Tail(buf[s])) \cup {Head(buf[s])}
    BY <1>0, <1>1, Taken
  <2>3. DOMAIN buf[s] = 1..Len(buf[s])
    BY <1>0
  <2>4. QED BY <1>1, <2>1, <2>2, <2>3, Zenon
<1>5. x \in Event /\ x \notin conn[s].replayed => x \notin ToSet(sent[s])
  BY <1>0, <1>1, DrainIsNew DEF IInv, StreamInv
<1>6. x \in Event => x \notin ToSet(buf'[s])
  <2>1. NoRepeat(buf[s])
    BY DEF IInv, PublishedInv
  <2>2. ASSUME x \in Event, NEW i \in DOMAIN buf'[s], buf'[s][i] = x PROVE FALSE
    <3>1. i + 1 \in DOMAIN buf[s] /\ buf[s][i+1] = buf[s][1] /\ buf[s][1] \in Event /\ i \in Nat
      BY <1>4, <2>2
    <3>2. i + 1 = 1 /\ i # 0
      BY <1>4, <2>1, <3>1 DEF NoRepeat
    <3>3. QED BY <3>1, <3>2
  <2>3. QED BY <2>2 DEF ToSet
<1>7. BufInOrder(s)'
  BY <1>0, <1>2, <1>4 DEF StreamInv, BufInOrder
<1>a. ASSUME NEW i \in DOMAIN sent[s], NEW k \in DOMAIN buf[s], NEW m \in DOMAIN file,
             NEW n \in DOMAIN file, sent[s][i] = file[m], sent[s][i] \notin conn[s].replayed,
             buf[s][k] = file[n]
      PROVE  m < n
  BY <1>0, <1>2, <1>a DEF StreamInv, TakenFirst
<1>b. ASSUME NEW k \in DOMAIN buf[s], NEW m \in DOMAIN file, NEW n \in DOMAIN file,
             1 < k, x = file[m], buf[s][k] = file[n]
      PROVE  m < n
  BY <1>0, <1>4, <1>b DEF StreamInv, BufInOrder
<1>c. \A k \in DOMAIN buf'[s] :
        k + 1 \in DOMAIN buf[s] /\ buf[s][k+1] = buf'[s][k] /\ 1 < k + 1
  BY <1>4
<1>8. CASE x \in conn[s].replayed
  <2>1. sent'[s] = sent[s] /\ x \in ToSet(sent[s])
    BY <1>0, <1>2, <1>3, <1>8 DEF StreamInv, ReplayInv
  <2> USE <1>0, <1>1, <1>2, <1>4, <1>8, <2>1 DEF StreamInv
  <2>2. ReplayInv(s)'
    BY DEF ReplayInv
  <2>3. ChannelInv(s)'
    BY DEF ChannelInv
  <2>4. SentInOrder(s)'
    BY DEF SentInOrder
  <2>5. TakenFirst(s)'
    <3>1. ASSUME NEW i \in DOMAIN sent'[s], NEW k \in DOMAIN buf'[s], NEW m \in DOMAIN file,
                 NEW n \in DOMAIN file, sent'[s][i] = file[m],
                 sent'[s][i] \notin conn[s].replayed, buf'[s][k] = file[n]
          PROVE  m < n
      <4>1. i \in DOMAIN sent[s] /\ sent[s][i] = file[m] /\ sent[s][i] \notin conn[s].replayed
        BY <3>1
      <4>2. k + 1 \in DOMAIN buf[s] /\ buf[s][k+1] = file[n]
        BY <1>c, <3>1
      <4>3. QED BY <1>a, <4>1, <4>2, Zenon
    <3>2. QED BY <3>1 DEF TakenFirst
  <2>6. MarkInv(s)'
    BY MarkersApart DEF MarkInv
  <2>7. QED BY <1>7, <2>2, <2>3, <2>4, <2>5, <2>6
<1>9. CASE x \notin conn[s].replayed
  <2>1. sent'[s] = Append(sent[s], x)
    BY <1>3, <1>9
  <2>2. /\ DOMAIN sent[s] = 1..Len(sent[s]) /\ Len(sent[s]) \in Nat
        /\ DOMAIN sent'[s] = 1..(Len(sent[s]) + 1)
        /\ \A i \in DOMAIN sent[s] : sent'[s][i] = sent[s][i] /\ sent[s][i] \in ToSet(sent[s])
        /\ sent'[s][Len(sent[s]) + 1] = x /\ ToSet(sent'[s]) = ToSet(sent[s]) \cup {x}
    <3>1. /\ DOMAIN sent[s] = 1..Len(sent[s]) /\ Len(sent[s]) \in Nat
          /\ DOMAIN Append(sent[s], x) = 1..(Len(sent[s]) + 1)
          /\ \A i \in DOMAIN sent[s] : Append(sent[s], x)[i] = sent[s][i]
          /\ Append(sent[s], x)[Len(sent[s]) + 1] = x
          /\ ToSet(Append(sent[s], x)) = ToSet(sent[s]) \cup {x}
      BY <1>0, Appended
    <3>2. \A i \in DOMAIN sent[s] : sent[s][i] \in ToSet(sent[s])
      BY DEF ToSet
    <3>3. QED BY <2>1, <3>1, <3>2, Zenon
  <2> USE <1>0, <1>1, <1>2, <1>4, <1>9, <2>2 DEF StreamInv
  <2>3. ReplayInv(s)'
    BY DEF ReplayInv
  <2>4. ChannelInv(s)'
    <3>1. ToSet(buf'[s]) \cap ToSet(sent'[s]) \cap Event \subseteq conn[s].replayed
      BY <1>6 DEF ChannelInv
    <3>2. QED BY <3>1 DEF ChannelInv
  <2>5. SentInOrder(s)'
    <3>1. ASSUME NEW i \in DOMAIN sent'[s], NEW k \in DOMAIN sent'[s], NEW m \in DOMAIN file,
                 NEW n \in DOMAIN file, i < k, sent'[s][i] = file[m], sent'[s][k] = file[n],
                 stamp[file[m]] >= conn[s].since, stamp[file[n]] >= conn[s].since
          PROVE  m < n
      <4>1. i \in DOMAIN sent[s] /\ sent[s][i] = file[m]
        BY <3>1
      <4>2. CASE k \in DOMAIN sent[s]
        BY <3>1, <4>1, <4>2 DEF SentInOrder
      <4>3. CASE k \notin DOMAIN sent[s]
        <5>1. file[n] = x /\ x \in Event /\ x = buf[s][1]
          BY <3>1, <4>3
        <5>2. CASE file[m] \notin conn[s].replayed
          <6>1. sent[s][i] \notin conn[s].replayed /\ buf[s][1] = file[n]
            BY <4>1, <5>1, <5>2
          <6>2. QED BY <1>a, <1>4, <4>1, <6>1, Zenon
        <5>3. CASE file[m] \in conn[s].replayed
          <6>1. conn[s].since > 0
            BY <5>3 DEF IInv, HandlerInv
          <6>2. m < conn[s].pos
            BY <5>3 DEF ReplayInv
          <6>3. x \in Wanted[s]
            BY <5>1 DEF ChannelInv
          <6>4. ~(n < conn[s].pos)
            BY <3>1, <5>1, <6>1, <6>3 DEF ReplayInv
          <6>5. QED BY <6>2, <6>4
        <5>4. QED BY <5>2, <5>3
      <4>4. QED BY <4>2, <4>3
    <3>2. QED BY <3>1 DEF SentInOrder
  <2>6. TakenFirst(s)'
    <3>1. ASSUME NEW i \in DOMAIN sent'[s], NEW k \in DOMAIN buf'[s], NEW m \in DOMAIN file,
                 NEW n \in DOMAIN file, sent'[s][i] = file[m],
                 sent'[s][i] \notin conn[s].replayed, buf'[s][k] = file[n]
          PROVE  m < n
      <4>1. k + 1 \in DOMAIN buf[s] /\ buf[s][k+1] = file[n] /\ 1 < k + 1
        BY <3>1
      <4>2. CASE i \in DOMAIN sent[s]
        <5>1. sent[s][i] = file[m] /\ sent[s][i] \notin conn[s].replayed
          BY <3>1, <4>2
        <5>2. QED BY <1>a, <4>1, <4>2, <5>1, Zenon
      <4>3. CASE i \notin DOMAIN sent[s]
        <5>1. x = file[m]
          BY <3>1, <4>3
        <5>2. QED BY <1>b, <4>1, <5>1
      <4>4. QED BY <4>2, <4>3
    <3>2. QED BY <3>1 DEF TakenFirst
  <2>7. MarkInv(s)'
    BY DEF MarkInv
  <2>8. QED BY <1>7, <2>3, <2>4, <2>5, <2>6, <2>7
<1>10. QED BY <1>8, <1>9

\* A publication, for one subscriber.
LEMMA PublishStreams ==
  ASSUME IInv, [Next]_vars, NEW e \in Event, Publish(e), NEW s \in Sub
  PROVE  StreamInv(s)'
<1>0. TypeInv /\ StreamInv(s) /\ PublishedInv /\ HandlerInv
      /\ (\A k \in DOMAIN file : file[k] \in Event)
  BY DEF IInv, TypeInv
<1>1. /\ DOMAIN file = 1..Len(file) /\ Len(file) \in Nat
      /\ DOMAIN file' = 1..Len(file') /\ Len(file') \in Nat
      /\ \A k \in DOMAIN file : k \in DOMAIN file' /\ file'[k] = file[k]
      /\ \A k \in DOMAIN file' \ DOMAIN file :
           open /\ file'[k] = e /\ k = Len(file) + 1
  BY <1>0, FileGrows
<1>2. /\ buf'[s] = Offer(s, e).buf /\ lagged'[s] = Offer(s, e).lagged
      /\ buf'[s] \in Seq(Item) /\ Marker(now) \in Markers
      /\ Growth(buf[s], buf'[s], e, Marker(now), Wants(s, e) /\ ~Full(buf[s]))
      /\ s \in subscribers /\ (Loses(s, e) \/ lagged[s]) =>
              lagged'[s] \/ Marker(now) \in ToSet(buf'[s])
  <2>1. buf'[s] = Offer(s, e).buf /\ lagged'[s] = Offer(s, e).lagged
    BY DEF Publish
  <2>2. QED BY <1>0, <2>1, Offered
<1>3. Differ(conn[s], conn'[s], conn[s].phase, conn[s].from, conn[s].pos,
             conn[s].replayed,
             IF Loses(s, e) THEN conn[s].dropped \cup {e} ELSE conn[s].dropped)
  BY <1>0, ConnStep
<1>4. sent' = sent /\ stamp' = stamp
  BY DEF Publish
<1>5. /\ e \notin ToSet(file) /\ e \notin ToSet(buf[s]) /\ e \notin ToSet(sent[s])
      /\ \A i \in DOMAIN sent[s] : sent[s][i] \in ToSet(sent[s])
      /\ \A i \in DOMAIN buf[s] : buf[s][i] \in ToSet(buf[s])
      /\ \A i \in DOMAIN file : file[i] \in ToSet(file)
  BY <1>0, Fresh DEF ToSet
<1>6. /\ conn[s].pos \in Nat /\ conn[s].from \in Nat /\ conn[s].from <= Len(file)
      /\ conn[s].pos <= Len(file) + 1 /\ Marker(now) \notin Event
  BY <1>0, <1>2, ConnFields, MarkersApart DEF TypeInv
<1>7. Streaming(s)' <=> Streaming(s)
  BY <1>3 DEF Differ, Streaming
<1>8. Wants(s, e) => e \in ToSet(buf'[s]) \/ e \in conn'[s].dropped
  BY <1>2, <1>3 DEF Growth, Differ, Loses
\* Old lines of the file and new ones.
<1>9. /\ \A m \in DOMAIN file' : file'[m] # e => m \in DOMAIN file /\ file'[m] = file[m]
      /\ \A m \in DOMAIN file' : file'[m] = e => m = Len(file) + 1 /\ open
  BY <1>1, <1>5
<1>10. /\ ToSet(buf[s]) \subseteq ToSet(buf'[s])
       /\ ToSet(buf'[s]) \subseteq ToSet(buf[s]) \cup {e, Marker(now)}
       /\ e \in ToSet(buf'[s]) => Wants(s, e)
       /\ \A i \in DOMAIN buf'[s] : \/ i \in DOMAIN buf[s] /\ buf'[s][i] = buf[s][i]
                                    \/ buf'[s][i] = Marker(now)
                                    \/ buf'[s][i] = e /\ i = Len(buf[s]) + 1
       /\ DOMAIN buf[s] = 1..Len(buf[s]) /\ Len(buf[s]) \in Nat
  <2>1. \A i \in DOMAIN buf'[s] : \/ i \in DOMAIN buf[s] /\ buf'[s][i] = buf[s][i]
                                  \/ buf'[s][i] = Marker(now)
                                  \/ buf'[s][i] = e /\ i = Len(buf[s]) + 1 /\ Wants(s, e)
    BY <1>2 DEF Growth
  <2>2. e # Marker(now)
    BY <1>6
  <2>3. QED BY <1>2, <1>5, <2>1, <2>2 DEF ToSet, Growth
<1>11. ReplayInv(s)'
  <2>1. \A k \in DOMAIN file' : file'[k] = e => ~(k < conn[s].pos)
    BY <1>1, <1>6, <1>9
  <2>2. Streaming(s) => e \notin conn[s].replayed
    BY <1>0, <1>5 DEF StreamInv, ReplayInv
  <2>3. QED
    BY <1>0, <1>3, <1>4, <1>7, <1>9, <2>1, <2>2 DEF StreamInv, ReplayInv, Differ
<1>12. ChannelInv(s)'
  <2>1. ASSUME Streaming(s), NEW k \in DOMAIN file', k > conn[s].from, file'[k] \in Wanted[s]
        PROVE  file'[k] \in ToSet(sent[s]) \cup ToSet(buf'[s]) \cup conn'[s].dropped
    <3>1. CASE file'[k] = e
      <4>1. s \in subscribers
        BY <1>0, <1>9, <2>1, <3>1 DEF HandlerInv
      <4>2. QED BY <1>8, <2>1, <3>1, <4>1 DEF Wants
    <3>2. CASE file'[k] # e
      BY <1>0, <1>3, <1>9, <1>10, <2>1, <3>2 DEF StreamInv, ChannelInv, Differ
    <3>3. QED BY <3>1, <3>2
  <2>2. Streaming(s) => ToSet(buf'[s]) \cap Event \subseteq Wanted[s]
    BY <1>0, <1>6, <1>10 DEF StreamInv, ChannelInv, Wants
  <2>3. Streaming(s) =>
          ToSet(buf'[s]) \cap ToSet(sent[s]) \cap Event \subseteq conn[s].replayed
    BY <1>0, <1>5, <1>6, <1>10 DEF StreamInv, ChannelInv
  <2>4. QED BY <1>3, <1>4, <1>7, <2>1, <2>2, <2>3 DEF ChannelInv, Differ
<1>13. SentInOrder(s)'
  <2>1. \A i \in DOMAIN sent[s] : sent[s][i] # e
    BY <1>5
  <2>2. QED BY <1>0, <1>3, <1>4, <1>9, <2>1 DEF StreamInv, SentInOrder, Differ
<1>14. BufInOrder(s)'
  <2>1. ASSUME NEW i \in DOMAIN buf'[s], NEW k \in DOMAIN buf'[s], NEW m \in DOMAIN file',
               NEW n \in DOMAIN file', i < k, buf'[s][i] = file'[m], buf'[s][k] = file'[n]
        PROVE  m < n
    <3>1. file'[m] \in Event /\ file'[n] \in Event
      BY <1>0, <1>9
    <3>2. CASE buf'[s][k] = e
      <4>1. i \in DOMAIN buf[s] /\ buf[s][i] = file'[m] /\ file'[m] # e
        BY <1>5, <1>6, <1>10, <2>1, <3>1, <3>2
      <4>2. m \in DOMAIN file /\ n = Len(file) + 1
        BY <1>9, <2>1, <3>2, <4>1
      <4>3. QED BY <1>1, <4>2
    <3>3. CASE buf'[s][k] # e
      <4>1. k \in DOMAIN buf[s] /\ buf[s][k] = file[n] /\ n \in DOMAIN file
        BY <1>6, <1>9, <1>10, <2>1, <3>1, <3>3
      <4>2. i \in DOMAIN buf[s] /\ buf[s][i] = file[m] /\ m \in DOMAIN file
        BY <1>5, <1>6, <1>9, <1>10, <2>1, <3>1, <4>1
      <4>3. QED BY <1>0, <2>1, <4>1, <4>2 DEF StreamInv, BufInOrder
    <3>4. QED BY <3>2, <3>3
  <2>2. QED BY <2>1 DEF BufInOrder
<1>15. TakenFirst(s)'
  <2>1. ASSUME Streaming(s), NEW i \in DOMAIN sent[s], NEW k \in DOMAIN buf'[s],
               NEW m \in DOMAIN file', NEW n \in DOMAIN file', sent[s][i] = file'[m],
               sent[s][i] \notin conn[s].replayed, buf'[s][k] = file'[n]
        PROVE  m < n
    <3>1. file'[m] # e /\ m \in DOMAIN file /\ file[m] = sent[s][i]
      BY <1>5, <1>9, <2>1
    <3>2. CASE file'[n] = e
      BY <1>1, <1>9, <3>1, <3>2
    <3>3. CASE file'[n] # e
      <4>1. n \in DOMAIN file /\ file[n] = file'[n] /\ file[n] \in Event
        BY <1>0, <1>9, <3>3
      <4>2. k \in DOMAIN buf[s] /\ buf[s][k] = file[n]
        BY <1>6, <1>10, <2>1, <3>3, <4>1
      <4>3. QED BY <1>0, <2>1, <3>1, <4>1, <4>2 DEF StreamInv, TakenFirst
    <3>4. QED BY <3>2, <3>3
  <2>2. QED BY <1>3, <1>4, <1>7, <2>1 DEF TakenFirst, Differ
<1>16. MarkInv(s)'
  <2>1. CASE Loses(s, e) \/ (lagged[s] /\ s \in subscribers)
    BY <1>2, <2>1 DEF MarkInv, Loses, Wants
  <2>2. CASE ~Loses(s, e) /\ ~(lagged[s] /\ s \in subscribers)
    <3>1. conn'[s].dropped = conn[s].dropped
      BY <1>3, <2>2 DEF Differ
    <3>2. s \notin subscribers => lagged'[s] = lagged[s]
      <4>1. lagged[s] \in BOOLEAN
        BY <1>0 DEF TypeInv
      <4>2. s \notin subscribers => ~Loses(s, e)
        BY DEF Loses, Wants
      <4>3. QED BY <1>2, <4>1, <4>2 DEF Offer
    <3>3. QED BY <1>0, <1>4, <1>7, <1>10, <2>2, <3>1, <3>2 DEF StreamInv, MarkInv
  <2>3. QED BY <2>1, <2>2
<1>17. QED BY <1>11, <1>12, <1>13, <1>14, <1>15, <1>16 DEF StreamInv

LEMMA StreamStep == IInv /\ [Next]_vars => \A s \in Sub : StreamInv(s)'
<1> SUFFICES ASSUME IInv, [Next]_vars, NEW s \in Sub PROVE StreamInv(s)'
  OBVIOUS
<1> USE DEF pubVars, busVars
<1>0. /\ TypeInv /\ buf \in [Sub -> Seq(Item)] /\ sent \in [Sub -> Seq(Item)]
      /\ conn \in [Sub -> ConnRecord] /\ lagged \in [Sub -> BOOLEAN]
  BY DEF IInv, TypeInv
<1>1. CASE Tick \/ Close \/ UNCHANGED vars \/ \E e \in Event : Stamp(e)
  BY <1>1, Frame DEF Tick, Close, vars, Stamp
<1>2. CASE Restart
  <2>1. conn'[s].phase = "off" /\ conn'[s].since = conn[s].since
    BY <1>0, <1>2, ConnStep DEF Differ
  <2>2. QED BY <1>2, <2>1, Quiet DEF Restart
<1>3. ASSUME NEW e \in Event, Publish(e) PROVE StreamInv(s)'
  BY <1>3, PublishStreams
<1>4. ASSUME NEW t \in Sub, Dial(t) PROVE StreamInv(s)'
  <2>1. CASE s # t
    BY <1>0, <1>4, <2>1, Frame DEF Dial
  <2>2. CASE s = t
    <3>1. client[t].last \in 0..MaxTime
      BY <1>0 DEF TypeInv, ClientRecord
    <3>2. PICK d : d = [NoConn EXCEPT !.phase = "accepted", !.since = client[t].last]
      OBVIOUS
    <3>3. d.phase = "accepted"
      BY <3>1, <3>2, DialSet
    <3>4. conn'[s].phase = "accepted" /\ sent'[s] = << >> /\ buf' = buf /\ file' = file
      BY <1>0, <1>4, <2>2, <3>2, <3>3 DEF Dial
    <3>5. QED BY <3>4, Quiet
  <2>3. QED BY <2>1, <2>2
<1>5. ASSUME NEW t \in Sub, Subscribe(t) PROVE StreamInv(s)'
  <2>1. CASE s # t
    BY <1>0, <1>5, <2>1, Frame, ConnStep DEF Subscribe
  <2>2. QED BY <1>5, <2>1, SubscribeStreams
<1>6. ASSUME NEW t \in Sub, ReplayLine(t) PROVE StreamInv(s)'
  <2>1. CASE s # t
    <3>1. sent'[s] = sent[s]
      <4>1. PICK e \in Event, yes \in BOOLEAN :
               /\ conn[t].phase = "replay" /\ conn[t].pos \in DOMAIN file
               /\ e = file[conn[t].pos]
               /\ yes <=> stamp[e] >= conn[t].since /\ e \in Wanted[t]
               /\ Emits(t, e, yes)
               /\ Differ(conn[t], conn'[t], "replay", conn[t].from, conn[t].pos + 1,
                         IF yes THEN conn[t].replayed \cup {e} ELSE conn[t].replayed,
                         conn[t].dropped)
               /\ UNCHANGED << pubVars, busVars, client >>
        BY <1>0, <1>6, ReplayLineIs
      <4>2. QED BY <1>0, <2>1, <4>1, Emitted DEF Item
    <3>2. conn'[s] = conn[s]
      BY <1>0, <1>6, <2>1, ConnStep
    <3>3. QED BY <1>6, <3>1, <3>2, Frame DEF ReplayLine
  <2>2. QED BY <1>6, <2>1, ReplayLineStreams
<1>7. ASSUME NEW t \in Sub, ReplayEnd(t) PROVE StreamInv(s)'
  <2>1. CASE s # t
    BY <1>0, <1>7, <2>1, Frame, ConnStep DEF ReplayEnd
  <2>2. QED BY <1>7, <2>1, ReplayEndStreams
<1>8. ASSUME NEW t \in Sub, Drain(t) PROVE StreamInv(s)'
  <2>1. CASE s # t
    <3>1. sent'[s] = sent[s]
      <4>1. PICK x \in Item : Emits(t, x, x \notin conn[t].replayed)
        BY <1>0, <1>8, DrainIs
      <4>2. QED BY <1>0, <2>1, <4>1, Emitted
    <3>2. QED BY <1>0, <1>8, <2>1, <3>1, Frame DEF Drain
  <2>2. QED BY <1>8, <2>1, DrainStreams
<1>9. ASSUME NEW t \in Sub, Leave(t) PROVE StreamInv(s)'
  <2>1. CASE s # t
    BY <1>0, <1>9, <2>1, Frame, ConnStep DEF Leave
  <2>2. CASE s = t
    <3>1. conn'[s].phase = "off" /\ conn'[s].since = conn[s].since
      BY <1>0, <1>9, <2>2, ConnStep DEF Differ
    <3>2. QED BY <1>9, <3>1, Quiet DEF Leave
  <2>3. QED BY <2>1, <2>2
<1>10. ASSUME NEW t \in Sub, Handle(t) PROVE StreamInv(s)'
  BY <1>10, Frame DEF Handle
<1>11. QED
  BY <1>1, <1>2, <1>3, <1>4, <1>5, <1>6, <1>7, <1>8, <1>9, <1>10 DEF Next, Stream

-----------------------------------------------------------------------------
(* The theorems.                                                            *)

LEMMA InitInv == Init => IInv
<1> SUFFICES ASSUME Init PROVE IInv
  OBVIOUS
<1>1. TypeInv
  BY TypeInit
<1>2. /\ file = << >> /\ subscribers = {}
      /\ \A s \in Sub : buf[s] = << >> /\ sent[s] = << >> /\ conn[s].phase = "off"
  BY DEF Init, NoConn
<1>3. PublishedInv
  BY <1>2 DEF PublishedInv, AllDone, NoRepeat
<1>4. HandlerInv
  BY <1>2 DEF HandlerInv, ChannelsOpen, Streaming
<1>5. \A s \in Sub : StreamInv(s)
  BY <1>2 DEF StreamInv, ReplayInv, ChannelInv, SentInOrder, BufInOrder, TakenFirst,
              MarkInv, Streaming
<1>6. QED BY <1>1, <1>3, <1>4, <1>5 DEF IInv

\* The invariant is inductive (every step of the bus, of a handler and of a
\* consumer keeps it).
THEOREM Invariance == Spec => []IInv
<1>1. IInv /\ [Next]_vars => IInv'
  BY TypeStep, PublishedStep, HandlerStep, StreamStep DEF IInv
<1>2. QED BY InitInv, <1>1, PTL DEF Spec

\* Every variable of the bus has its type: a channel holds no more than its buffer,
\* a position is within its sequence (Publish, streamReplay, streamOnce).
THEOREM TypeCorrect == Spec => []TypeOK
<1>1. IInv => TypeOK
  <2> SUFFICES ASSUME TypeInv PROVE TypeOK
    BY DEF IInv
  <2>1. ToSet(file) \subseteq Event
    BY DEF TypeInv, ToSet
  <2>2. ASSUME NEW s \in Sub
        PROVE  /\ Len(buf[s]) <= Buffer
               /\ ToSet(buf[s]) \cup ToSet(sent[s]) \subseteq Event \cup Markers
               /\ conn[s] \in [phase : Phases, since : 0..MaxTime, from : 0..Len(file),
                               pos : 1..Len(file)+1, replayed : SUBSET Event,
                               dropped : SUBSET Event]
               /\ client[s] \in [seen : SUBSET Event, last : 0..MaxTime,
                                 handled : 0..Len(sent[s]), dials : 0..MaxConn]
    <3>1. Len(buf[s]) <= Buffer /\ buf[s] \in Seq(Item) /\ sent[s] \in Seq(Item)
          /\ conn[s] \in ConnRecord /\ client[s] \in ClientRecord
          /\ conn[s].from <= Len(file) /\ conn[s].pos <= Len(file) + 1
          /\ client[s].handled <= Len(sent[s])
          /\ Len(file) \in Nat /\ Len(sent[s]) \in Nat
      BY DEF TypeInv
    <3>2. ToSet(buf[s]) \cup ToSet(sent[s]) \subseteq Event \cup Markers
      BY <3>1 DEF ToSet, Item
    <3>3. conn[s] \in [phase : Phases, since : 0..MaxTime, from : 0..Len(file),
                       pos : 1..Len(file)+1, replayed : SUBSET Event,
                       dropped : SUBSET Event]
      BY <3>1 DEF ConnRecord
    <3>4. client[s] \in [seen : SUBSET Event, last : 0..MaxTime,
                         handled : 0..Len(sent[s]), dials : 0..MaxConn]
      BY <3>1 DEF ClientRecord
    <3>5. QED BY <3>1, <3>2, <3>3, <3>4
  <2>3. QED BY <2>1, <2>2 DEF TypeInv, TypeOK
<1>2. QED BY <1>1, Invariance, PTL

\* What a connection carries is what it owes, for any number of events and of
\* subscribers: nothing between the replay and the live channel is left out without
\* a mark, nothing is written twice or out of order, and no closed channel is on the
\* list (streamReplay, handleSubscribe, Publish, Close).
THEOREM StreamFaithfulHolds == Spec => []StreamFaithful
<1>1. IInv => ChannelsOpen /\ NothingSkipped /\ SentOnce /\ OrderKept /\ GapMarked
  <2> SUFFICES ASSUME IInv
               PROVE  ChannelsOpen /\ NothingSkipped /\ SentOnce /\ OrderKept /\ GapMarked
    OBVIOUS
  <2>1. ChannelsOpen
    BY DEF IInv, HandlerInv
  <2>2. SentOnce
    BY DEF IInv, PublishedInv, NoRepeat, SentOnce
  <2>3. OrderKept
    BY DEF IInv, StreamInv, SentInOrder, OrderKept
  <2>4. GapMarked
    BY DEF IInv, StreamInv, MarkInv, Streaming, GapMarked
  <2>5. NothingSkipped
    <3>1. ASSUME NEW s \in Sub, conn[s].phase = "live", NEW k \in DOMAIN file,
                 file[k] \in Wanted[s],
                 \/ k > conn[s].from
                 \/ conn[s].since > 0 /\ stamp[file[k]] >= conn[s].since
          PROVE  file[k] \in ToSet(sent[s]) \cup ToSet(buf[s]) \cup conn[s].dropped
      <4>1. /\ ReplayInv(s) /\ ChannelInv(s) /\ Streaming(s) /\ k \in Nat
            /\ conn[s].pos \in Nat /\ conn[s].from \in Nat
        BY <3>1, ConnFields DEF IInv, TypeInv, StreamInv, Streaming
      <4>2. CASE k > conn[s].from
        BY <3>1, <4>1, <4>2 DEF ChannelInv
      <4>3. CASE ~(k > conn[s].from)
        <5>1. conn[s].since > 0 /\ stamp[file[k]] >= conn[s].since /\ k < conn[s].pos
          BY <3>1, <4>1, <4>3 DEF ReplayInv
        <5>2. file[k] \in conn[s].replayed
          BY <3>1, <4>1, <5>1 DEF ReplayInv
        <5>3. QED BY <4>1, <5>2 DEF ReplayInv
      <4>4. QED BY <4>2, <4>3
    <3>2. QED BY <3>1 DEF NothingSkipped, Owed
  <2>6. QED BY <2>1, <2>2, <2>3, <2>4, <2>5
<1>2. QED BY <1>1, TypeCorrect, Invariance, PTL DEF StreamFaithful

===============================================================================
