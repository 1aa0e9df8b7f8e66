------------------------------- MODULE Client --------------------------------
(***************************************************************************)
(* The client library's subscriptions (client/client.go) and "ntfy         *)
(* subscribe" on top of them (cmd/subscribe.go): one goroutine per         *)
(* subscription reads lines from a connection and sends the messages on a  *)
(* channel that all subscriptions share; one loop takes them off and runs  *)
(* the command of the subscription.  A connection that ends is opened      *)
(* again with the same options.                                            *)
(*                                                                         *)
(* The server is external: it sends an open event and then, in order, the  *)
(* messages that since= selects and the ones published while the           *)
(* connection lasts (Delivery has that in detail).                         *)
(***************************************************************************)
EXTENDS Naturals, Sequences

CONSTANTS Subscriptions,
          ChannelSize,     \* room in Messages, 50 in the code
          MaxMessages,     \* a bound on the messages published to each topic
          MaxConnections   \* for each subscription, a bound on its connections

VARIABLES since,      \* the option of each subscription: "none" or "all"
          published,  \* how many messages have been published to each topic
          phase,      \* where each goroutine is
          conn,       \* the number of its connection
          lines,      \* what the server has sent and the goroutine has not read
          held,       \* the message the goroutine is about to send on the channel, if any
          Messages,   \* the channel
          running,    \* the message whose command is running, if any
          handled,    \* the messages whose command has been run, in order
          canceled,   \* subscriptions that have been given up
          received,   \* history: the messages read by each goroutine, with their connection
          lost        \* history: messages sent to nobody, or on their way when a connection ended

vars == <<since, published, phase, conn, lines, held, Messages, running, handled, canceled,
          received, lost>>

Open == 0  \* a line that is no message; messages are numbered from 1

Init ==
  /\ since \in [Subscriptions -> {"none", "all"}]
  /\ published = [s \in Subscriptions |-> 0]
  /\ phase = [s \in Subscriptions |-> "dial"]
  /\ conn = [s \in Subscriptions |-> 0]
  /\ lines = [s \in Subscriptions |-> <<>>]
  /\ held = [s \in Subscriptions |-> <<>>]
  /\ Messages = <<>> /\ running = <<>>
  /\ handled = [s \in Subscriptions |-> <<>>]
  /\ canceled = {}
  /\ received = [s \in Subscriptions |-> <<>>]
  /\ lost = [s \in Subscriptions |-> {}]

-----------------------------------------------------------------------------
(* The server *)

Connected(s) == phase[s] \in {"read", "send"}

Publish(s) ==
  /\ published[s] < MaxMessages
  /\ published' = [published EXCEPT ![s] = @ + 1]
  /\ IF Connected(s)
     THEN lines' = [lines EXCEPT ![s] = Append(@, published'[s])] /\ UNCHANGED lost
     ELSE lost' = [lost EXCEPT ![s] = @ \cup {published'[s]}] /\ UNCHANGED lines
  /\ UNCHANGED <<since, phase, conn, held, Messages, running, handled, canceled, received>>

-----------------------------------------------------------------------------
(* handleSubscribeConnLoop and performSubscribeRequest *)

Goto(s, p) == phase' = [phase EXCEPT ![s] = p]

\* The request succeeds, or it fails or is answered with an error.
Dial(s) ==
  /\ phase[s] = "dial"
  /\ \/ /\ s \notin canceled /\ conn[s] < MaxConnections[s]
        /\ Goto(s, "read")
        /\ conn' = [conn EXCEPT ![s] = @ + 1]
        /\ lines' = [lines EXCEPT ![s] =
             <<Open>> \o (IF since[s] = "all" THEN [i \in 1 .. published[s] |-> i] ELSE <<>>)]
     \/ Goto(s, "wait") /\ UNCHANGED <<conn, lines>>
  /\ UNCHANGED <<since, published, held, Messages, running, handled, canceled, received, lost>>

\* Mutant: the goroutine does not wait for room in the channel.
ScanDropping(s) ==
  /\ phase[s] = "read" /\ lines[s] # <<>>
  /\ lines' = [lines EXCEPT ![s] = Tail(@)]
  /\ IF Head(lines[s]) = Open \/ Len(Messages) >= ChannelSize
     THEN UNCHANGED <<phase, held, received>>
     ELSE /\ Goto(s, "send")
          /\ held' = [held EXCEPT ![s] = <<[sub |-> s, conn |-> conn[s], id |-> Head(lines[s])]>>]
          /\ received' = [received EXCEPT ![s] = @ \o held'[s]]
  /\ UNCHANGED <<since, published, conn, Messages, running, handled, canceled, lost>>

\* A line is read; what is no message is ignored.
Scan(s) ==
  /\ phase[s] = "read" /\ lines[s] # <<>>
  /\ lines' = [lines EXCEPT ![s] = Tail(@)]
  /\ IF Head(lines[s]) = Open
     THEN UNCHANGED <<phase, held, received>>
     ELSE /\ Goto(s, "send")
          /\ held' = [held EXCEPT ![s] = <<[sub |-> s, conn |-> conn[s], id |-> Head(lines[s])]>>]
          /\ received' = [received EXCEPT ![s] = @ \o held'[s]]
  /\ UNCHANGED <<since, published, conn, Messages, running, handled, canceled, lost>>

\* msgChan <- m, which blocks while the channel is full, canceled or not.
SendMessage(s) ==
  /\ phase[s] = "send" /\ Len(Messages) < ChannelSize
  /\ Messages' = Messages \o held[s]
  /\ held' = [held EXCEPT ![s] = <<>>]
  /\ Goto(s, "read")
  /\ UNCHANGED <<since, published, conn, lines, running, handled, canceled, received, lost>>

\* The connection ends: the server or the network went away, the context was canceled, or
\* a line is longer than the scanner takes.
End(s) ==
  /\ phase[s] = "read"
  /\ Goto(s, "wait")
  /\ lines' = [lines EXCEPT ![s] = <<>>]
  /\ lost' = [lost EXCEPT ![s] = @ \cup {lines[s][i] : i \in DOMAIN lines[s]}]
  /\ UNCHANGED <<since, published, conn, held, Messages, running, handled, canceled, received>>

\* Ten seconds later, or at once if the subscription was given up.  If both have
\* happened, select may take either.
Retry(s) ==
  /\ phase[s] = "wait"
  /\ \/ Goto(s, "dial")
     \/ s \in canceled /\ Goto(s, "exited")
  /\ UNCHANGED <<since, published, conn, lines, held, Messages, running, handled, canceled,
                 received, lost>>

Unsubscribe(s) ==
  /\ s \notin canceled
  /\ canceled' = canceled \cup {s}
  /\ UNCHANGED <<since, published, phase, conn, lines, held, Messages, running, handled,
                 received, lost>>

-----------------------------------------------------------------------------
(* The loop of doSubscribe *)

TakeMessage ==
  /\ running = <<>> /\ Messages # <<>>
  /\ running' = <<Head(Messages)>>
  /\ Messages' = Tail(Messages)
  /\ UNCHANGED <<since, published, phase, conn, lines, held, handled, canceled, received, lost>>

\* The command ends; whether it failed makes no difference.
CommandDone ==
  /\ running # <<>>
  /\ handled' = [handled EXCEPT ![running[1].sub] = @ \o running]
  /\ running' = <<>>
  /\ UNCHANGED <<since, published, phase, conn, lines, held, Messages, canceled, received, lost>>

Next ==
  \/ \E s \in Subscriptions :
       \/ Publish(s) \/ Dial(s) \/ Scan(s) \/ SendMessage(s) \/ End(s) \/ Retry(s)
       \/ Unsubscribe(s)
  \/ TakeMessage \/ CommandDone

Spec == Init /\ [][Next]_vars

-----------------------------------------------------------------------------
(* Properties *)

\* The messages between the goroutines and the commands, oldest first, and those of a
\* subscription among them, with the one its goroutine holds.
Queue == running \o Messages
InFlight(s) ==
  {Queue[i] : i \in {k \in DOMAIN Queue : Queue[k].sub = s}} \cup {held[s][i] : i \in DOMAIN held[s]}

Ahead(m, n) == m.conn < n.conn \/ (m.conn = n.conn /\ m.id < n.id)

\* What a subscription's connections deliver is handled by its own command, each message
\* once per connection and in the order it was published, however slow the commands are
\* and whatever other subscriptions send on the channel: what has been handled is the
\* beginning of what was read, and the rest of it is in flight, in the same order.  Without
\* since= a message is handled at most once, and is missed only if it was published, or was
\* still on its way, while there was no connection, which is what the TODO in
\* client/client.go:230 admits.  With since=all every connection begins with the first
\* message again.
OncePerConnection ==
  /\ \A i, j \in DOMAIN Queue : i < j /\ Queue[i].sub = Queue[j].sub => Ahead(Queue[i], Queue[j])
  /\ \A s \in Subscriptions :
       LET read == received[s]
       IN /\ \A i \in DOMAIN handled[s] : i \in DOMAIN read /\ handled[s][i] = read[i]
          /\ {read[i] : i \in DOMAIN read \ DOMAIN handled[s]} = InFlight(s)
          /\ \A i, j \in DOMAIN read : i < j => Ahead(read[i], read[j])
          /\ \A i \in DOMAIN read :
               IF i > 1 /\ read[i - 1].conn = read[i].conn THEN read[i].id = read[i - 1].id + 1
               ELSE since[s] = "all" => read[i].id = 1
          /\ since[s] = "none" =>
               /\ \A i, j \in DOMAIN read : i < j => read[i].id < read[j].id
               /\ \A id \in 1 .. published[s] :
                    \/ id \in lost[s]
                    \/ \E i \in DOMAIN read : read[i].id = id
                    \/ \E i \in DOMAIN lines[s] : lines[s][i] = id
==============================================================================
