------------------------------ MODULE WebClient ------------------------------
(***************************************************************************)
(* The web app's side of one subscription: the WebSocket connections       *)
(* (web/src/app/Connection.js, ConnectionManager.js), the poller           *)
(* (Poller.js) and the local database (SubscriptionManager.js), wired      *)
(* together in web/src/components/hooks.js.  Every await is a point where  *)
(* other callbacks run.                                                    *)
(*                                                                         *)
(* Messages are numbered as the server stores them; a marker of 0 is none. *)
(***************************************************************************)
EXTENDS Naturals, FiniteSets

CONSTANTS None,
          Polls,        \* the polls that may be in progress at a time
          MaxMessages,  \* a bound on the messages published
          MaxFailures,  \* a bound on the failures of the network
          MaxVersion    \* a bound on the changes of the user of the connection

ASSUME WebClientAssumption ==
  MaxMessages \in Nat /\ MaxFailures \in Nat /\ MaxVersion \in Nat /\ None \notin Nat

VARIABLES published,  \* messages the server has stored
          failures,
          sub,        \* the row in subscriptions: "absent", "present", "deleted" or "gone"
          last,       \* its field last
          adding,     \* who is between the get and the put of add()
          shown,      \* notifications
          poll,       \* the polls in progress
          memo,       \* last in the memoized list of subscriptions, or None
          version,    \* counts the changes of the user and so of the connection ID
          tracked,    \* the version in ConnectionManager.connections, or None
          socket,     \* "none", "connecting", "open", "closing" or "aborted"
          timer,      \* the connections whose retryTimeout is running
          since,      \* the field since of the connections
          stream,     \* what the server has sent on each socket
          handler,    \* handleMessage for a message of a connection, while it runs
          skipped,    \* history: messages no socket asked for or will ask for
          early       \* history: connections closed before their socket was open, or whose
                      \* closing failed

net == <<published, failures>>
row == <<sub, last, adding>>
conns == <<tracked, socket, timer, since, stream>>
vars == <<net, row, shown, poll, memo, version, conns, handler, skipped, early>>

Ids == 1..MaxMessages
Conns == 0..MaxVersion   \* the Connection of each version
Idle == [step |-> "idle", since |-> 0, upto |-> 0]
NoStream == [old |-> 0, end |-> 0, live |-> 0]

Init ==
  /\ published = 0 /\ failures = 0
  /\ sub = "absent" /\ last = 0 /\ adding = {}
  /\ shown = {} /\ skipped = {}
  /\ poll = [p \in Polls |-> Idle]
  /\ memo = None /\ version = 0
  /\ tracked = None
  /\ socket = [c \in Conns |-> "none"] /\ timer = {}
  /\ since = [c \in Conns |-> 0] /\ stream = [c \in Conns |-> NoStream]
  /\ handler = [h \in Conns \X Ids |-> "none"]
  /\ early = {}

\* The network fails.
Fail == failures < MaxFailures /\ failures' = failures + 1

\* The server stores a message and sends it to its subscribers.
Publish ==
  /\ published < MaxMessages
  /\ published' = published + 1
  /\ UNCHANGED <<failures, row, shown, poll, memo, version, conns, handler, skipped, early>>

\* Poller.poll up to its await.
StartPoll(p, marker) ==
  /\ poll[p] = Idle
  /\ poll' = [poll EXCEPT ![p] = [step |-> "asked", since |-> marker, upto |-> 0]]

-----------------------------------------------------------------------------
(* SubscriptionManager: add, remove and the rows of notifications *)

\* add(): the user and the account sync may both find no subscription ...
AddGet(a) ==
  /\ sub = "absent" /\ a \notin adding
  /\ adding' = adding \cup {a}
  /\ UNCHANGED <<net, sub, last, shown, poll, memo, version, conns, handler, skipped, early>>

\* ... and both put one.  After the user's, the topic is polled without a marker.
AddPut(a) ==
  /\ a \in adding /\ sub \in {"absent", "present"}
  /\ adding' = adding \ {a}
  /\ sub' = "present" /\ last' = 0
  /\ IF a = "user" THEN \E p \in Polls : StartPoll(p, 0) ELSE UNCHANGED poll
  /\ UNCHANGED <<net, shown, memo, version, conns, handler, skipped, early>>

\* remove(): first the subscription, then its notifications.
RemoveSubscription ==
  /\ sub = "present" /\ adding = {}
  /\ sub' = "deleted" /\ last' = 0 /\ memo' = None
  /\ skipped' = {}
  /\ UNCHANGED <<net, adding, shown, poll, version, conns, handler, early>>

RemoveNotifications ==
  /\ sub = "deleted"
  /\ sub' = "gone"
  /\ shown' = {}
  /\ UNCHANGED <<net, last, adding, poll, memo, version, conns, handler, skipped, early>>

\* subscriptions.update does nothing if there is no row.
UpdateLast(m) == last' = IF sub = "present" THEN m ELSE last

-----------------------------------------------------------------------------
(* Poller *)

\* pollAll reads the subscription and asks for what came after last.
PollAll ==
  /\ sub = "present"
  /\ \E p \in Polls : StartPoll(p, last)
  /\ UNCHANGED <<net, row, shown, memo, version, conns, handler, skipped, early>>

PollAnswer(p) ==
  /\ poll[p].step = "asked"
  /\ poll' = [poll EXCEPT ![p] = IF published > @.since
                                 THEN [@ EXCEPT !.step = "put", !.upto = published] ELSE Idle]
  /\ UNCHANGED <<net, row, shown, memo, version, conns, handler, skipped, early>>

PollFail(p) ==
  /\ poll[p].step = "asked"
  /\ Fail
  /\ poll' = [poll EXCEPT ![p] = Idle]
  /\ UNCHANGED <<published, row, shown, memo, version, conns, handler, skipped, early>>

\* Mutant: of several notifications only the last one is stored.
PollPutLatest(p) ==
  /\ poll[p].step = "put"
  /\ shown' = shown \cup {poll[p].upto}
  /\ poll' = [poll EXCEPT ![p].step = "last"]
  /\ UNCHANGED <<net, row, memo, version, conns, handler, skipped, early>>

\* addNotifications: bulkPut ...
PollPut(p) ==
  /\ poll[p].step = "put"
  /\ shown' = shown \cup (poll[p].since + 1)..poll[p].upto
  /\ poll' = [poll EXCEPT ![p].step = "last"]
  /\ UNCHANGED <<net, row, memo, version, conns, handler, skipped, early>>

\* ... and then last, the ID of the last one.
PollLast(p) ==
  /\ poll[p].step = "last"
  /\ UpdateLast(poll[p].upto)
  /\ poll' = [poll EXCEPT ![p] = Idle]
  /\ UNCHANGED <<net, sub, adding, shown, memo, version, conns, handler, skipped, early>>

-----------------------------------------------------------------------------
(* ConnectionManager.refresh *)

\* wsSubscriptions is computed when the list of subscription IDs changes, this one's or
\* another's: the row it holds keeps the last of that moment.
Render ==
  /\ sub = "present" /\ memo # last
  /\ memo' = last
  /\ UNCHANGED <<net, row, shown, poll, version, conns, handler, skipped, early>>

\* The user that belongs to the server changes, and with it the connection ID.
ChangeUser ==
  /\ version < MaxVersion
  /\ version' = version + 1
  /\ UNCHANGED <<net, row, shown, poll, memo, conns, handler, skipped, early>>

\* Connection.close()
Closed(c) == IF socket[c] = "open" THEN "closing"
             ELSE IF socket[c] = "connecting" THEN "aborted" ELSE socket[c]

\* What the server is still to send on a connection of what came before: the rest of what
\* was asked for, or all that will be asked for.
Coming(c) ==
  {m \in Ids :
     \/ socket[c] = "open" /\ stream[c].old < m /\ m <= stream[c].end
     \/ (socket[c] \in {"connecting", "aborted"} \/ c \in timer) /\ since[c] < m}

\* Of that, what is lost with the connection's socket or timer if the next socket asks for
\* what came after a marker.
CutOff(c, marker) ==
  {m \in Coming(c) : m <= marker /\ (socket[c] = "open" \/ c \in timer)}

\* Mutant: close() forgets the timer.
RefreshKeepsTimer ==
  /\ sub = "present" /\ memo # None /\ tracked # version
  /\ tracked' = version
  /\ since' = [since EXCEPT ![version] = memo]
  /\ socket' = [c \in Conns |-> IF c = version THEN "connecting"
                               ELSE IF c = tracked THEN Closed(c) ELSE socket[c]]
  /\ stream' = [c \in Conns |-> IF c = tracked THEN NoStream ELSE stream[c]]
  /\ skipped' = skipped \cup UNION {CutOff(c, memo) : c \in Conns \cap {tracked}}
  /\ early' = early \cup {c \in Conns : c = tracked /\ socket[c] = "connecting"}
  /\ UNCHANGED <<net, row, shown, poll, memo, version, timer, handler>>

\* A connection for the new ID is created and started, the one for the old ID is closed.
Refresh ==
  /\ sub = "present" /\ memo # None /\ tracked # version
  /\ tracked' = version
  /\ since' = [since EXCEPT ![version] = memo]
  /\ socket' = [c \in Conns |-> IF c = version THEN "connecting"
                               ELSE IF c = tracked THEN Closed(c) ELSE socket[c]]
  /\ stream' = [c \in Conns |-> IF c = tracked THEN NoStream ELSE stream[c]]
  /\ timer' = timer \ {tracked}
  /\ skipped' = skipped \cup UNION {CutOff(c, memo) : c \in Conns \cap {tracked}}
  /\ early' = early \cup {c \in Conns : c = tracked /\ socket[c] = "connecting"}
  /\ UNCHANGED <<net, row, shown, poll, memo, version, handler>>

\* Without the subscription there is no target left.
RefreshGone ==
  /\ sub \in {"deleted", "gone"} /\ tracked # None
  /\ tracked' = None
  /\ socket' = [socket EXCEPT ![tracked] = Closed(tracked)]
  /\ stream' = [stream EXCEPT ![tracked] = NoStream]
  /\ timer' = timer \ {tracked}
  /\ early' = early \cup {c \in Conns : c = tracked /\ socket[c] = "connecting"}
  /\ UNCHANGED <<net, row, shown, poll, memo, version, since, handler, skipped>>

-----------------------------------------------------------------------------
(* Connection *)

\* onopen.  With a marker the server sends what came after it, and at the same time what
\* is published from now on; without one only the latter.
Open(c) ==
  /\ socket[c] = "connecting"
  /\ socket' = [socket EXCEPT ![c] = "open"]
  /\ stream' = [stream EXCEPT ![c] =
                  [old |-> IF since[c] = 0 THEN published ELSE since[c],
                   end |-> published, live |-> published]]
  /\ skipped' = IF since[c] = 0 THEN skipped \cup 1..published ELSE skipped
  /\ UNCHANGED <<net, sub, last, adding, shown, poll, memo, version, tracked, timer, since, handler, early>>

\* onmessage, for an old or a live message.
OnMessage(c, m) ==
  /\ socket[c] = "open" /\ handler[<<c, m>>] = "none"
  /\ \/ /\ m = stream[c].old + 1 /\ m <= stream[c].end
        /\ stream' = [stream EXCEPT ![c].old = m]
     \/ /\ m = stream[c].live + 1 /\ m <= published
        /\ stream' = [stream EXCEPT ![c].live = m]
  /\ since' = [since EXCEPT ![c] = m]
  /\ handler' = [handler EXCEPT ![<<c, m>>] = "get"]
  /\ UNCHANGED <<net, row, shown, poll, memo, version, tracked, socket, timer, skipped, early>>

\* Mutant: only sockets that were open are retried.
DieQuietly(c) ==
  /\ socket[c] \in {"connecting", "open", "closing", "aborted"}
  /\ IF socket[c] = "aborted" THEN UNCHANGED failures ELSE Fail
  /\ socket' = [socket EXCEPT ![c] = "none"]
  /\ stream' = [stream EXCEPT ![c] = NoStream]
  /\ timer' = IF socket[c] = "connecting" THEN timer ELSE timer \cup {c}
  /\ skipped' = skipped \cup CutOff(c, since[c])
  /\ early' = IF socket[c] = "closing" THEN early \cup {c} ELSE early
  /\ UNCHANGED <<published, sub, last, adding, shown, poll, memo, version, tracked, since, handler>>

\* onclose of a socket that did not close cleanly: the network failed, or the socket was
\* closed before it was open.
Die(c) ==
  /\ socket[c] \in {"connecting", "open", "closing", "aborted"}
  /\ IF socket[c] = "aborted" THEN UNCHANGED failures ELSE Fail
  /\ socket' = [socket EXCEPT ![c] = "none"]
  /\ stream' = [stream EXCEPT ![c] = NoStream]
  /\ timer' = timer \cup {c}
  /\ skipped' = skipped \cup CutOff(c, since[c])
  /\ early' = IF socket[c] = "closing" THEN early \cup {c} ELSE early
  /\ UNCHANGED <<published, sub, last, adding, shown, poll, memo, version, tracked, since, handler>>

\* onclose of a socket the server has closed as well.
CloseCleanly(c) ==
  /\ socket[c] = "closing"
  /\ socket' = [socket EXCEPT ![c] = "none"]
  /\ UNCHANGED <<net, row, shown, poll, memo, version, tracked, timer, since, stream, handler, skipped, early>>

\* The timer calls start().
Retry(c) ==
  /\ c \in timer
  /\ timer' = timer \ {c}
  /\ socket' = [socket EXCEPT ![c] = "connecting"]
  /\ UNCHANGED <<net, row, shown, poll, memo, version, tracked, since, stream, handler, skipped, early>>

-----------------------------------------------------------------------------
(* handleMessage in hooks.js, and addNotification *)

Goto(h, step) == handler' = [handler EXCEPT ![h] = step]

\* Is the subscription still there?
HandleGet(h) ==
  /\ handler[h] = "get"
  /\ Goto(h, IF sub = "present" THEN "exists" ELSE "none")
  /\ UNCHANGED <<net, row, shown, poll, memo, version, conns, skipped, early>>

\* Is the notification there already?
HandleExists(h) ==
  /\ handler[h] = "exists"
  /\ Goto(h, IF h[2] \in shown THEN "none" ELSE "add")
  /\ UNCHANGED <<net, row, shown, poll, memo, version, conns, skipped, early>>

\* notifications.add fails if it is by now, and last is not set then.
HandleAdd(h) ==
  /\ handler[h] = "add"
  /\ Goto(h, IF h[2] \in shown THEN "none" ELSE "last")
  /\ shown' = shown \cup {h[2]}
  /\ UNCHANGED <<net, row, poll, memo, version, conns, skipped, early>>

HandleLast(h) ==
  /\ handler[h] = "last"
  /\ UpdateLast(h[2])
  /\ Goto(h, "none")
  /\ UNCHANGED <<net, sub, adding, shown, poll, memo, version, conns, skipped, early>>

Next ==
  \/ Publish
  \/ \E a \in {"user", "sync"} : AddGet(a) \/ AddPut(a)
  \/ RemoveSubscription \/ RemoveNotifications
  \/ PollAll
  \/ \E p \in Polls : PollAnswer(p) \/ PollFail(p) \/ PollPut(p) \/ PollLast(p)
  \/ Render \/ ChangeUser \/ Refresh \/ RefreshGone
  \/ \E c \in Conns :
       \/ Open(c) \/ Die(c) \/ CloseCleanly(c) \/ Retry(c)
       \/ \E m \in Ids : OnMessage(c, m)
  \/ \E h \in Conns \X Ids :
       HandleGet(h) \/ HandleExists(h) \/ HandleAdd(h) \/ HandleLast(h)

Spec == Init /\ [][Next]_vars

\* The browser runs effects, timers and the callbacks of sockets.
Fairness ==
  /\ WF_vars(Render /\ memo = None) /\ WF_vars(Refresh)
  /\ \A c \in Conns : /\ WF_vars(Retry(c)) /\ WF_vars(Open(c))
                      /\ WF_vars(Die(c) /\ socket[c] = "aborted")

FairSpec == Spec /\ Fairness

-----------------------------------------------------------------------------
(* Properties *)

\* last never runs ahead of what the web app gets: a message at or before it was shown, is
\* being handled or is still to come on a connection that is catching up, unless a socket
\* skipped it, because it was opened without a marker, or because the one before was lost
\* or replaced while it was catching up.  Polls, connections and their handlers write last
\* in any order, and a live message overtakes the old ones.
OnlySkippedMissed ==
  sub = "present" =>
    \A m \in 1..last :
      m \in shown \cup skipped \/ \E c \in Conns : handler[<<c, m>>] # "none" \/ m \in Coming(c)

\* A connection that the manager no longer tracks is quiet: it has no socket and tries to
\* get none, unless it was closed before its socket was open or while the network failed.
UntrackedAreQuiet ==
  \A c \in Conns \ {tracked} :
    socket[c] \in {"connecting", "open"} \/ c \in timer => c \in early

\* "It handles its connection status itself, including reconnect attempts and backoff"
\* (web/src/app/Connection.js:13): while there is a subscription, its connection is
\* opened, whatever fails before.
Reconnects ==
  \A c \in Conns : tracked = c ~> socket[c] = "open" \/ tracked # c
==============================================================================
