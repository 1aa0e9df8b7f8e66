----------------------------- MODULE MessageCache -----------------------------
(***************************************************************************)
(* The life of published messages: the publish handler (server/server.go), *)
(* the messages table and its write queue (server/message_cache.go), the   *)
(* delayed sender, the manager that prunes expired messages, and crashes.  *)
(*                                                                         *)
(* The clock counts the seconds the code compares.  The write queue is used*)
(* through what BatchSink promises; batchingQueue is shown to keep that    *)
(* promise.  To whom a sent message goes is the matter of Topics.          *)
(***************************************************************************)
EXTENDS Integers, FiniteSets

CONSTANTS Messages, Topics, Users,
          TopicOf,        \* the topic of each message
          OwnerOf,        \* m.User: the user who published it, or None
          None,
          Delays,         \* delays a request may ask for; 0 for none
          Expiry,         \* v.Limits().MessageExpiryDuration
          BatchSizes,     \* what cache-batch-size may be set to
          BatchTimeouts,  \* and cache-batch-timeout
          MaxFailures,    \* a bound on failed statements and crashes
          MaxTime         \* a bound on the clock

ASSUME CacheAssumption ==
  /\ TopicOf \in [Messages -> Topics]
  /\ OwnerOf \in [Messages -> Users \cup {None}]
  /\ None \notin Messages \cup Users
  /\ Delays \subseteq Nat
  /\ Expiry \in Nat /\ MaxFailures \in Nat /\ MaxTime \in Nat
  /\ BatchSizes \subseteq Nat /\ BatchTimeouts \subseteq Nat

VARIABLES now,
          gone,        \* users removed from the database
          req,         \* where the publish request of each message is
          cached,      \* the request wants the message to be cached
          time,        \* m.Time
          sent,        \* how often the message went to t.Publish
          stored,      \* its row: "no", "unpublished", "published" or "deleted"
          expires,     \* the row's expires column
          late,        \* history: rows whose time came between decision and insert
          writes,      \* "queued" if c.queue is not nil, else "synchronous"
          queued,      \* messages in the write queue
          written,     \* messages the queue's consumer has taken out
          due,         \* what MessagesDue returned and the sender has not reached
          marking,     \* the message it has sent and is about to mark, or None
          expired,     \* what MessagesExpired returned
          failures     \* failed statements and crashes so far

sender == <<due, marking>>
queue == <<writes, queued, written>>
vars == <<now, gone, req, cached, time, sent, stored, expires, late, writes, queued, written,
          due, marking, expired, failures>>

\* newSqliteCache: there is a write queue if either setting is positive.
Writes(batchSize, batchTimeout) ==
  IF batchSize > 0 \/ batchTimeout > 0 THEN "queued" ELSE "synchronous"

Batching == writes = "queued"

Queue == INSTANCE BatchSink WITH Elements <- Messages, waiting <- queued, handled <- written

Init ==
  /\ now = 0
  /\ gone = {}
  /\ req = [m \in Messages |-> "none"]
  /\ cached = [m \in Messages |-> FALSE]
  /\ time = [m \in Messages |-> 0]
  /\ sent = [m \in Messages |-> 0]
  /\ stored = [m \in Messages |-> "no"]
  /\ expires = [m \in Messages |-> 0]
  /\ late = {}
  /\ \E size \in BatchSizes : \E timeout \in BatchTimeouts : writes = Writes(size, timeout)
  /\ Queue!Init
  /\ due = {} /\ marking = None
  /\ expired = {}
  /\ failures = 0

-----------------------------------------------------------------------------
(* handlePublishInternal *)

\* parsePublishParams sets m.Time and decides about the cache: a delayed message
\* cannot do without it.  Then the body is read, which may take its time.
ParseParams(m, delay, cache) ==
  /\ req[m] = "none"
  /\ delay > 0 => cache
  /\ now + delay + Expiry < MaxTime
  /\ req' = [req EXCEPT ![m] = "parsed"]
  /\ cached' = [cached EXCEPT ![m] = cache]
  /\ time' = [time EXCEPT ![m] = now + delay]
  /\ expires' = [expires EXCEPT ![m] = IF cache THEN now + delay + Expiry ELSE 0]
  /\ UNCHANGED <<now, gone, sent, stored, late, queue, sender, expired, failures>>

\* delayed := m.Time > now; t.Publish if it is not.
Decide(m) ==
  /\ req[m] = "parsed"
  /\ \/ /\ time[m] <= now
        /\ sent' = [sent EXCEPT ![m] = @ + 1]
        /\ req' = [req EXCEPT ![m] = "sent"]
     \/ /\ time[m] > now
        /\ req' = [req EXCEPT ![m] = "delayed"]
        /\ UNCHANGED sent
  /\ UNCHANGED <<now, gone, cached, time, stored, expires, late, queue, sender, expired, failures>>

\* Mutant: what is to be delayed counts as published when it is stored.
InsertPublished(group) ==
  /\ stored' = [m \in Messages |-> IF m \in group THEN "published" ELSE stored[m]]
  /\ late' = late \cup {m \in group : sent[m] = 0 /\ time[m] <= now}

\* addMessages, one transaction: whether a row counts as published is decided again.
Insert(group) ==
  /\ stored' = [m \in Messages |->
       IF m \notin group THEN stored[m] ELSE IF time[m] <= now THEN "published" ELSE "unpublished"]
  /\ late' = late \cup {m \in group : sent[m] = 0 /\ time[m] <= now}

\* Mutant: the answer does not depend on the insert.
AddMessageUnchecked(m) ==
  /\ req[m] \in {"sent", "delayed"}
  /\ req' = [req EXCEPT ![m] = "answered"]
  /\ \/ cached[m] /\ ~ Batching /\ Insert({m}) /\ UNCHANGED <<queue, failures>>
     \/ cached[m] /\ ~ Batching /\ failures < MaxFailures /\ failures' = failures + 1
          /\ UNCHANGED <<stored, late, queue>>
     \/ cached[m] /\ Batching /\ Queue!Take(m) /\ UNCHANGED <<writes, stored, late, failures>>
     \/ ~ cached[m] /\ UNCHANGED <<stored, late, queue, failures>>
  /\ UNCHANGED <<now, gone, cached, time, sent, expires, sender, expired>>

\* AddMessage, and the answer to the request.  Without a queue a failed insert is
\* an error to the publisher; with one the publisher is told that all is well.
AddMessage(m) ==
  /\ req[m] \in {"sent", "delayed"}
  /\ \/ /\ ~ cached[m]
        /\ req' = [req EXCEPT ![m] = "answered"]
        /\ UNCHANGED <<stored, late, queue, failures>>
     \/ /\ cached[m] /\ Batching
        /\ Queue!Take(m)
        /\ req' = [req EXCEPT ![m] = "answered"]
        /\ UNCHANGED <<writes, stored, late, failures>>
     \/ /\ cached[m] /\ ~ Batching
        /\ Insert({m})
        /\ req' = [req EXCEPT ![m] = "answered"]
        /\ UNCHANGED <<queue, failures>>
     \/ /\ cached[m] /\ ~ Batching
        /\ failures < MaxFailures /\ failures' = failures + 1
        /\ req' = [req EXCEPT ![m] = "failed"]
        /\ UNCHANGED <<stored, late, queue>>
  /\ UNCHANGED <<now, gone, cached, time, sent, expires, sender, expired>>

\* processMessageBatches: a batch that cannot be written is logged and dropped.
WriteBatch(group) ==
  /\ Queue!HandleGroup(group)
  /\ \/ Insert(group) /\ UNCHANGED failures
     \/ /\ failures < MaxFailures /\ failures' = failures + 1
        /\ UNCHANGED <<stored, late>>
  /\ UNCHANGED <<writes, now, gone, req, cached, time, sent, expires, sender, expired>>

-----------------------------------------------------------------------------
(* runDelayedSender *)

\* Mutant: rows are due whether they were published or not.
MessagesDueAll ==
  /\ due = {} /\ marking = None
  /\ due' = {m \in Messages : stored[m] \in {"unpublished", "published"} /\ time[m] <= now}
  /\ UNCHANGED <<now, gone, req, cached, time, sent, stored, expires, late, queue, marking, expired, failures>>

MessagesDue ==
  /\ due = {} /\ marking = None
  /\ due' = {m \in Messages : stored[m] = "unpublished" /\ time[m] <= now}
  /\ UNCHANGED <<now, gone, req, cached, time, sent, stored, expires, late, queue, marking, expired, failures>>

\* The next of them in the order of their times.  If its user cannot be found the
\* message is skipped.
SendDelayed(m) ==
  /\ m \in due /\ marking = None
  /\ \A other \in due : time[m] <= time[other]
  /\ due' = due \ {m}
  /\ \/ /\ OwnerOf[m] \in gone
        /\ UNCHANGED <<sent, marking>>
     \/ /\ OwnerOf[m] \notin gone
        /\ sent' = [sent EXCEPT ![m] = @ + 1]
        /\ marking' = m
  /\ UNCHANGED <<now, gone, req, cached, time, stored, expires, late, queue, expired, failures>>

\* UPDATE ... SET published = 1; if it fails the message is due again.
MarkPublished ==
  /\ marking # None
  /\ marking' = None
  /\ \/ /\ stored' = [m \in Messages |->
             IF m = marking /\ stored[m] = "unpublished" THEN "published" ELSE stored[m]]
        /\ UNCHANGED failures
     \/ /\ failures < MaxFailures /\ failures' = failures + 1
        /\ UNCHANGED stored
  /\ UNCHANGED <<now, gone, req, cached, time, sent, expires, late, queue, due, expired>>

-----------------------------------------------------------------------------
(* pruneMessages, ExpireMessages, users, time and crashes *)

\* Mutant: the last second is never reached.
MessagesExpiredLate ==
  /\ expired = {}
  /\ expired' = {m \in Messages : stored[m] = "published" /\ expires[m] < now - MaxTime}
  /\ UNCHANGED <<now, gone, req, cached, time, sent, stored, expires, late, queue, sender, failures>>

MessagesExpired ==
  /\ expired = {}
  /\ expired' = {m \in Messages : stored[m] = "published" /\ expires[m] <= now}
  /\ UNCHANGED <<now, gone, req, cached, time, sent, stored, expires, late, queue, sender, failures>>

DeleteMessages ==
  /\ expired # {}
  /\ expired' = {}
  /\ \/ /\ stored' = [m \in Messages |->
             IF m \in expired /\ stored[m] # "no" THEN "deleted" ELSE stored[m]]
        /\ UNCHANGED failures
     \/ /\ failures < MaxFailures /\ failures' = failures + 1
        /\ UNCHANGED stored
  /\ UNCHANGED <<now, gone, req, cached, time, sent, expires, late, queue, sender>>

\* The messages of a reserved topic are expired when its reservation is removed.
ExpireMessages(t) ==
  /\ expires' = [m \in Messages |->
       IF TopicOf[m] = t /\ stored[m] \in {"unpublished", "published"} THEN now - 1 ELSE expires[m]]
  /\ expires' # expires
  /\ UNCHANGED <<now, gone, req, cached, time, sent, stored, late, queue, sender, expired, failures>>

RemoveUser(u) ==
  /\ u \notin gone
  /\ gone' = gone \cup {u}
  /\ UNCHANGED <<now, req, cached, time, sent, stored, expires, late, queue, sender, expired, failures>>

Tick ==
  /\ now < MaxTime
  /\ now' = now + 1
  /\ UNCHANGED <<gone, req, cached, time, sent, stored, expires, late, queue, sender, expired, failures>>

\* The rows survive a crash; requests in progress, the write queue and what the
\* sender and the manager have read do not.
Crash ==
  /\ failures < MaxFailures /\ failures' = failures + 1
  /\ req' = [m \in Messages |-> IF req[m] \in {"parsed", "sent", "delayed"} THEN "lost" ELSE req[m]]
  /\ written' = written \cup queued /\ queued' = {}
  /\ due' = {} /\ marking' = None /\ expired' = {}
  /\ UNCHANGED <<writes, now, gone, cached, time, sent, stored, expires, late>>

Next ==
  \/ \E m \in Messages :
       \/ \E d \in Delays : \E c \in BOOLEAN : ParseParams(m, d, c)
       \/ Decide(m) \/ AddMessage(m) \/ SendDelayed(m)
  \/ \E group \in SUBSET queued : WriteBatch(group)
  \/ MessagesDue \/ MarkPublished
  \/ MessagesExpired \/ DeleteMessages
  \/ \E t \in Topics : ExpireMessages(t)
  \/ \E u \in Users : RemoveUser(u)
  \/ Tick \/ Crash

Spec == Init /\ [][Next]_vars

\* The sender, the manager and the queue's consumer run again and again, and time passes.
Fairness ==
  /\ WF_vars(MessagesDue) /\ WF_vars(\E m \in Messages : SendDelayed(m)) /\ WF_vars(MarkPublished)
  /\ WF_vars(MessagesExpired) /\ WF_vars(DeleteMessages)
  /\ WF_vars(Tick)

-----------------------------------------------------------------------------
(* Properties *)

\* The types of the state.
TypeOK ==
  /\ now \in 0..MaxTime
  /\ gone \subseteq Users
  /\ req \in [Messages -> {"none", "parsed", "sent", "delayed", "answered", "failed", "lost"}]
  /\ cached \in [Messages -> BOOLEAN]
  /\ time \in [Messages -> Nat]
  /\ sent \in [Messages -> Nat]
  /\ stored \in [Messages -> {"no", "unpublished", "published", "deleted"}]
  /\ expires \in [Messages -> Int]
  /\ late \subseteq Messages
  /\ writes \in {"queued", "synchronous"}
  /\ queued \subseteq Messages /\ written \subseteq Messages
  /\ due \subseteq Messages
  /\ marking \in Messages \cup {None}
  /\ expired \subseteq Messages
  /\ failures \in 0..MaxFailures

\* A row counts as published only once its message was sent, except when its time
\* came between the handler's decision to delay it and the insert.
PublishedMeansSent ==
  \A m \in Messages : stored[m] = "published" => sent[m] > 0 \/ m \in late

\* No message is sent before its time, by the handler or by the sender.
NotBeforeItsTime == \A m \in Messages : sent[m] > 0 => time[m] <= now

\* A message is sent once; each further time takes a failed update or a crash
\* between sending it and marking it.
SentOnceButForFailures == \A m \in Messages : sent[m] <= 1 + failures

\* A publisher is told that all is well only if the message is in the table or in
\* the queue; with a queue, a failed batch or a crash can still lose it.
AcceptedAreKept ==
  \A m \in Messages : req[m] = "answered" /\ cached[m] =>
    stored[m] # "no" \/ m \in queued \/ (Batching /\ failures > 0)

\* The manager deletes a row only when it is published and has expired: never a
\* message that still has to be sent.
OnlySentAndExpiredDeleted ==
  [][\A m \in Messages : stored[m] # "deleted" /\ stored'[m] = "deleted" =>
       stored[m] = "published" /\ expires[m] <= now]_vars

\* A stored message is sent in the end and its row deleted, unless its user is gone.
StoredAreSentAndDeleted ==
  \A m \in Messages : stored[m] = "unpublished"
    ~> OwnerOf[m] \in gone \/ (sent[m] > 0 /\ stored[m] = "deleted")
==============================================================================
