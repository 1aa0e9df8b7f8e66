------------------------------- MODULE Delivery -------------------------------
(***************************************************************************)
(* What a subscriber gets that comes and goes: the order in which the      *)
(* publish handler hands a message to the subscribers and to the cache,    *)
(* and in which the subscribe handler subscribes and reads the cache       *)
(* (server/server.go, server/message_cache.go).                            *)
(*                                                                         *)
(* One topic, one client.  Writes are synchronous and nothing expires; the *)
(* client remembers the last message it got, as the web app does, and may  *)
(* ask for what it missed with since=.                                     *)
(***************************************************************************)
EXTENDS Integers, Sequences, FiniteSets

CONSTANTS Messages,
          Delays,      \* delays of publish requests
          Kinds,       \* how the client asks: "none", "all", "latest", "id", "time"
          None,
          MaxTime,     \* a bound on the clock
          MaxConnects  \* a bound on the connections

ASSUME DeliveryAssumption ==
  /\ Delays \subseteq Nat
  /\ Kinds \subseteq {"none", "all", "latest", "id", "time"}
  /\ None \notin Messages
  /\ MaxTime \in Nat /\ MaxConnects \in Nat

VARIABLES now,
          st,         \* the request of each message: "new", "open" or "answered"
          time,       \* m.Time
          fan,        \* its fan-out: "no", "ready" or "done"
          rows,       \* the messages table in the order of the id column
          published,  \* rows with published = 1
          marking,    \* the delayed message that was sent and is about to be marked
          conn,       \* the client: "offline", "connecting", "subscribed",
                      \* "reading", "online", or "polling" without a subscription
          since,      \* the marker of its request: a kind and a message
          pending,    \* what the cache returned and is not written yet
          inflight,   \* what fan-outs handed to this subscriber and is not written yet
          got,        \* what came over this connection
          seen,       \* what ever came
          last,       \* the last message that came, or None
          owed,       \* history: messages sent and stored before the client connected
          ahead,      \* history: messages that readers could see when their fan-out ran
          missed,     \* history: fan-outs that ran while a client that had a message was away
          connects

publishing == <<st, time, rows, published, marking>>
history == <<owed, ahead, missed>>
client == <<conn, since, pending, inflight, got, seen, last>>
vars == <<now, publishing, fan, client, history, connects>>

RowOf(m) == CHOOSE i \in 1..Len(rows) : rows[i] = m
Stored == {rows[i] : i \in 1..Len(rows)}
Visible == Stored \cap published

Init ==
  /\ now = 0
  /\ st = [m \in Messages |-> "new"]
  /\ time = [m \in Messages |-> 0]
  /\ fan = [m \in Messages |-> "no"]
  /\ rows = <<>> /\ published = {} /\ marking = None
  /\ conn = "offline" /\ since = <<"none", None>> /\ pending = {} /\ inflight = {}
  /\ got = {} /\ seen = {} /\ last = None
  /\ owed = {} /\ ahead = {} /\ missed = {}
  /\ connects = 0

-----------------------------------------------------------------------------
(* handlePublishInternal and the delayed sender *)

\* Up to t.Publish, which starts a goroutine for the fan-out; a delayed message
\* waits for the sender.
Publish(m, delay) ==
  /\ st[m] = "new"
  /\ st' = [st EXCEPT ![m] = "open"]
  /\ time' = [time EXCEPT ![m] = now + delay]
  /\ fan' = [fan EXCEPT ![m] = IF delay = 0 THEN "ready" ELSE "no"]
  /\ UNCHANGED <<now, rows, published, marking, client, history, connects>>

\* AddMessage, after t.Publish.
AddMessage(m) ==
  /\ st[m] = "open"
  /\ st' = [st EXCEPT ![m] = "answered"]
  /\ rows' = Append(rows, m)
  /\ published' = IF time[m] <= now THEN published \cup {m} ELSE published
  /\ UNCHANGED <<now, time, fan, marking, client, history, connects>>

\* The message is written to the client's connection.
Receive(m) ==
  /\ got' = got \cup {m}
  /\ seen' = seen \cup {m}
  /\ last' = m

\* Mutant: the handler subscribes after it has read the cache.
FanOutOnline(m) ==
  /\ fan[m] = "ready"
  /\ fan' = [fan EXCEPT ![m] = "done"]
  /\ ahead' = IF m \in Visible THEN ahead \cup {m} ELSE ahead
  /\ inflight' = IF conn = "online" THEN inflight \cup {m} ELSE inflight
  /\ missed' = IF conn = "offline" /\ last # None THEN missed \cup {m} ELSE missed
  /\ UNCHANGED <<now, publishing, conn, since, pending, got, seen, last, owed, connects>>

\* topic.Publish's goroutine: whoever is subscribed now gets the message
\* in a goroutine of its own.
FanOut(m) ==
  /\ fan[m] = "ready"
  /\ fan' = [fan EXCEPT ![m] = "done"]
  /\ ahead' = IF m \in Visible THEN ahead \cup {m} ELSE ahead
  /\ inflight' = IF conn \in {"subscribed", "reading", "online"} THEN inflight \cup {m} ELSE inflight
  /\ missed' = IF conn = "offline" /\ last # None THEN missed \cup {m} ELSE missed
  /\ UNCHANGED <<now, publishing, conn, since, pending, got, seen, last, owed, connects>>

\* The subscriber function writes the message to the connection.
Write(m) ==
  /\ m \in inflight
  /\ inflight' = inflight \ {m}
  /\ Receive(m)
  /\ UNCHANGED <<now, publishing, fan, conn, since, pending, history, connects>>

\* sendDelayedMessage: the fan-out starts, and the row is marked after that.
SendDelayed(m) ==
  /\ marking = None
  /\ m \in Stored \ published /\ time[m] <= now
  /\ fan' = [fan EXCEPT ![m] = "ready"]
  /\ marking' = m
  /\ UNCHANGED <<now, st, time, rows, published, client, history, connects>>

MarkPublished ==
  /\ marking # None
  /\ published' = published \cup {marking}
  /\ marking' = None
  /\ UNCHANGED <<now, st, time, fan, rows, client, history, connects>>

-----------------------------------------------------------------------------
(* The subscribe handler, and the client *)

\* The client connects; the request carries its marker.
Connect(kind) ==
  /\ conn = "offline" /\ connects < MaxConnects
  /\ kind \in {"id", "time"} => last # None
  /\ conn' = "connecting"
  /\ since' = <<kind, last>>
  /\ got' = {}
  /\ owed' = {m \in Visible : fan[m] = "done"}
  /\ connects' = connects + 1
  /\ UNCHANGED <<now, publishing, fan, pending, seen, last, ahead, missed, inflight>>

\* t.Subscribe comes first ...
Subscribe ==
  /\ conn = "connecting"
  /\ conn' = "subscribed"
  /\ UNCHANGED <<now, publishing, fan, since, pending, got, seen, last, history, inflight, connects>>

\* The order of the queries, ORDER BY time, id.
Before(x, m) == time[x] < time[m] \/ (time[x] = time[m] /\ RowOf(x) < RowOf(m))

\* The rows messageCache.Messages returns: those since a time, ...
SinceTime(t) == {m \in Visible : time[m] >= t}

\* ... the latest one, ...
Latest == {m \in Visible : \A x \in Visible : ~Before(m, x)}

\* ... and those stored after a message, or all if the cache does not know it.
SinceID(id) ==
  IF id \in Stored THEN {m \in Visible : RowOf(m) > RowOf(id)} ELSE SinceTime(0)

Query(marker) ==
  IF marker[1] = "none" THEN {}
  ELSE IF marker[1] = "latest" THEN Latest
  ELSE IF marker[1] = "id" THEN SinceID(marker[2])
  ELSE SinceTime(IF marker[1] = "time" THEN time[marker[2]] ELSE 0)

\* ... then sendOldMessages reads the cache ...
ReadOld ==
  /\ conn = "subscribed"
  /\ conn' = "reading"
  /\ pending' = Query(since)
  /\ UNCHANGED <<now, publishing, fan, since, got, seen, last, history, inflight, connects>>

\* poll=1 reads the cache without a subscription.
Poll(kind) ==
  /\ conn = "offline" /\ connects < MaxConnects
  /\ kind \in {"id", "time"} => last # None
  /\ conn' = "polling"
  /\ since' = <<kind, last>>
  /\ got' = {}
  /\ owed' = {m \in Visible : fan[m] = "done"}
  /\ pending' = Query(<<kind, last>>)
  /\ connects' = connects + 1
  /\ UNCHANGED <<now, publishing, fan, seen, last, ahead, missed, inflight>>

\* ... and writes what it read in the order of the times.
SendOld(m) ==
  /\ conn \in {"reading", "polling"} /\ m \in pending
  /\ \A x \in pending : ~Before(x, m)
  /\ pending' = pending \ {m}
  /\ Receive(m)
  /\ UNCHANGED <<now, publishing, fan, conn, since, history, inflight, connects>>

OldSent ==
  /\ conn \in {"reading", "polling"} /\ pending = {}
  /\ conn' = IF conn = "reading" THEN "online" ELSE "offline"
  /\ UNCHANGED <<now, publishing, fan, since, pending, got, seen, last, history, inflight, connects>>

Disconnect ==
  /\ conn # "offline"
  /\ conn' = "offline"
  /\ pending' = {} /\ inflight' = {}
  /\ UNCHANGED <<now, publishing, fan, since, got, seen, last, history, connects>>

Tick ==
  /\ now < MaxTime
  /\ now' = now + 1
  /\ UNCHANGED <<publishing, fan, client, history, connects>>

Next ==
  \/ \E m \in Messages :
       \/ \E d \in Delays : Publish(m, d)
       \/ AddMessage(m) \/ FanOut(m) \/ Write(m) \/ SendDelayed(m) \/ SendOld(m)
  \/ MarkPublished
  \/ \E k \in Kinds : Connect(k) \/ Poll(k)
  \/ Subscribe \/ ReadOld \/ OldSent \/ Disconnect
  \/ Tick

Spec == Init /\ [][Next]_vars

-----------------------------------------------------------------------------
(* Properties *)

\* The types of the state.
TypeOK ==
  /\ now \in 0..MaxTime
  /\ st \in [Messages -> {"new", "open", "answered"}]
  /\ time \in [Messages -> Nat]
  /\ fan \in [Messages -> {"no", "ready", "done"}]
  /\ rows \in Seq(Messages)
  /\ published \subseteq Stored
  /\ marking \in Messages \cup {None}
  /\ conn \in {"offline", "connecting", "subscribed", "reading", "online", "polling"}
  /\ since \in (Kinds \cup {"none"}) \X (Messages \cup {None})
  /\ pending \subseteq Visible
  /\ inflight \subseteq Messages
  /\ got \subseteq seen /\ seen \subseteq Messages
  /\ last \in Messages \cup {None}
  /\ owed \subseteq Visible
  /\ ahead \subseteq Messages /\ missed \subseteq Messages
  /\ connects \in 0..MaxConnects

\* A client that asks for everything misses only messages that went to the
\* subscribers before readers of the cache could see them: with that order
\* reversed, subscribing before reading leaves no gap.
OnlyEarlyFanOutsMissed ==
  conn = "online" /\ since[1] = "all" =>
    \A m \in ahead : fan[m] = "done" => m \in got \cup inflight

\* Whatever the request asked the cache for has been written.
CaughtUp == conn = "online" \/ (conn = "polling" /\ pending = {})

\* "you can read back what you missed by using the since= query parameter"
\* (docs/subscribe/api.md:250): a client that connects with the ID of the last message
\* it got has everything that was sent and stored while it was away once it caught up.
MissedReadBack ==
  CaughtUp /\ since[1] = "id" => missed \cap owed \subseteq seen
==============================================================================
