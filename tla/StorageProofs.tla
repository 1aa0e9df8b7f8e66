-------------------------- MODULE StorageProofs --------------------------
(***************************************************************************)
(* For any number of messages, users and failures: what MessageCache says  *)
(* of sent, stored and deleted messages.                                   *)
(***************************************************************************)
EXTENDS Storage, TLAPS

\* Zenon proves what no other prover is named for.
USE ZenonT(30)

-----------------------------------------------------------------------------
(* The inductive invariant *)

\* A request that has not reached AddMessage has no row and is not queued; what is
\* queued has no row yet.
Requests ==
  \A m \in Messages :
    /\ req[m] \in {"none", "parsed"} => sent[m] = 0
    /\ req[m] \in {"none", "parsed", "sent", "delayed"} => stored[m] = "no" /\ m \notin queued
    /\ m \in queued => stored[m] = "no" /\ Batching

\* What the sender has read is still to be sent: nobody else marks or deletes it.
SenderOK ==
  /\ \A m \in due : stored[m] = "unpublished" /\ time[m] <= now
  /\ marking \notin due
  /\ marking # None => sent[marking] > 0

\* An unpublished row that the sender is not about to mark was sent only as often
\* as something failed.
Unsent ==
  \A m \in Messages : stored[m] = "unpublished" /\ marking # m => sent[m] <= failures

\* What the manager has read stays published and expired.
ManagerOK == \A m \in expired : stored[m] = "published" /\ expires[m] <= now

IInv ==
  /\ TypeOK /\ Requests /\ SenderOK /\ Unsent /\ ManagerOK
  /\ PublishedMeansSent /\ NotBeforeItsTime /\ SentOnceButForFailures /\ AcceptedAreKept

LEMMA InitIInv == Init => IInv
<1> SUFFICES ASSUME Init PROVE IInv
  OBVIOUS
<1> USE CacheAssumption
<1>1. TypeOK
  <2>1. cached \in [Messages -> BOOLEAN] BY DEF Init
  <2>2. writes \in {"queued", "synchronous"} BY DEF Init, Writes
  <2> QED BY <2>1, <2>2, SMTT(30) DEF Init, TypeOK, Queue!Init
<1>2. Requests /\ Unsent BY DEF Init, Requests, Unsent, Queue!Init
<1>3. SenderOK /\ ManagerOK BY DEF Init, SenderOK, ManagerOK
<1>4. PublishedMeansSent /\ NotBeforeItsTime /\ SentOnceButForFailures /\ AcceptedAreKept
  BY SMTT(30) DEF Init, PublishedMeansSent, NotBeforeItsTime, SentOnceButForFailures,
                  AcceptedAreKept, Batching
<1> QED BY <1>1, <1>2, <1>3, <1>4 DEF IInv

-----------------------------------------------------------------------------
(* Every step preserves it *)

\* Every step keeps the types.
LEMMA TypeStep == TypeOK /\ [Next]_vars => TypeOK'
<1> SUFFICES ASSUME TypeOK, [Next]_vars PROVE TypeOK'
  OBVIOUS
<1> USE CacheAssumption
<1>1. ASSUME NEW m \in Messages, NEW d \in Delays, NEW c \in BOOLEAN, ParseParams(m, d, c) PROVE TypeOK'
  <2>1. now + d \in Nat /\ now + d + Expiry \in Int BY SMTT(30) DEF TypeOK
  <2>2. cached' \in [Messages -> BOOLEAN] BY <1>1 DEF TypeOK, ParseParams
  <2>3. time' \in [Messages -> Nat] BY <1>1, <2>1 DEF TypeOK, ParseParams
  <2>4. expires' \in [Messages -> Int] BY <1>1, <2>1, SMTT(30) DEF TypeOK, ParseParams
  <2> QED BY <1>1, <2>2, <2>3, <2>4 DEF TypeOK, ParseParams, sender, queue
<1>2. ASSUME NEW m \in Messages, Decide(m) PROVE TypeOK'
  BY <1>2, SMTT(30) DEF TypeOK, Decide, sender, queue
<1>3. ASSUME NEW group \in SUBSET Messages, Insert(group)
      PROVE  /\ stored' \in [Messages -> {"no", "unpublished", "published", "deleted"}]
             /\ late' \subseteq Messages
  BY <1>3 DEF TypeOK, Insert
<1>4. ASSUME NEW m \in Messages, AddMessage(m) PROVE TypeOK'
  <2>1. /\ stored' \in [Messages -> {"no", "unpublished", "published", "deleted"}]
        /\ late' \subseteq Messages
    BY <1>3, <1>4, SMTT(30) DEF TypeOK, AddMessage
  <2>2. queued' \subseteq Messages /\ written' \subseteq Messages
    BY <1>4 DEF TypeOK, AddMessage, Queue!Take, queue
  <2>3. failures' \in 0..MaxFailures BY <1>4, SMTT(30) DEF TypeOK, AddMessage
  <2>4. req' \in [Messages -> {"none", "parsed", "sent", "delayed", "answered", "failed", "lost"}]
    BY <1>4 DEF TypeOK, AddMessage
  <2>5. writes' = writes BY <1>4 DEF AddMessage, queue
  <2> QED BY <1>4, <2>1, <2>2, <2>3, <2>4, <2>5 DEF TypeOK, AddMessage, sender
<1>5. ASSUME NEW group \in SUBSET queued, WriteBatch(group) PROVE TypeOK'
  <2>0. group \in SUBSET Messages BY DEF TypeOK
  <2>1. /\ stored' \in [Messages -> {"no", "unpublished", "published", "deleted"}]
        /\ late' \subseteq Messages
    BY <1>3, <1>5, <2>0 DEF TypeOK, WriteBatch
  <2>2. queued' \subseteq Messages /\ written' \subseteq Messages
    BY <1>5, <2>0 DEF TypeOK, WriteBatch, Queue!HandleGroup
  <2>3. failures' \in 0..MaxFailures BY <1>5, SMTT(30) DEF TypeOK, WriteBatch
  <2> QED BY <1>5, <2>1, <2>2, <2>3 DEF TypeOK, WriteBatch, sender
<1>6. ASSUME NEW m \in Messages, SendDelayed(m) PROVE TypeOK'
  BY <1>6, SMTT(30) DEF TypeOK, SendDelayed, queue
<1>7. CASE MessagesDue BY <1>7 DEF TypeOK, MessagesDue, queue
<1>8. CASE MarkPublished
  <2>1. stored' \in [Messages -> {"no", "unpublished", "published", "deleted"}]
    BY <1>8 DEF TypeOK, MarkPublished
  <2> QED BY <1>8, <2>1, SMTT(30) DEF TypeOK, MarkPublished, queue
<1>9. CASE MessagesExpired BY <1>9 DEF TypeOK, MessagesExpired, queue, sender
<1>10. CASE DeleteMessages
  <2>1. stored' \in [Messages -> {"no", "unpublished", "published", "deleted"}]
    BY <1>10 DEF TypeOK, DeleteMessages
  <2> QED BY <1>10, <2>1, SMTT(30) DEF TypeOK, DeleteMessages, queue, sender
<1>11. ASSUME NEW t \in Topics, ExpireMessages(t) PROVE TypeOK'
  <2>1. expires' \in [Messages -> Int] BY <1>11, SMTT(30) DEF TypeOK, ExpireMessages
  <2> QED BY <1>11, <2>1 DEF TypeOK, ExpireMessages, queue, sender
<1>12. ASSUME NEW u \in Users, RemoveUser(u) PROVE TypeOK'
  BY <1>12 DEF TypeOK, RemoveUser, queue, sender
<1>13. CASE Tick BY <1>13, SMTT(30) DEF TypeOK, Tick, queue, sender
<1>14. CASE Crash
  <2>1. req' \in [Messages -> {"none", "parsed", "sent", "delayed", "answered", "failed", "lost"}]
    BY <1>14 DEF TypeOK, Crash
  <2> QED BY <1>14, <2>1, SMTT(30) DEF TypeOK, Crash
<1>15. CASE UNCHANGED vars BY <1>15 DEF TypeOK, vars
<1> QED
  BY <1>1, <1>2, <1>4, <1>5, <1>6, <1>7, <1>8, <1>9, <1>10, <1>11, <1>12, <1>13, <1>14, <1>15 DEF Next

Facts ==
  /\ Requests /\ SenderOK /\ Unsent /\ ManagerOK
  /\ PublishedMeansSent /\ NotBeforeItsTime /\ SentOnceButForFailures /\ AcceptedAreKept

\* Steps that leave requests, rows and what was read alone.
LEMMA QuietStep ==
  ASSUME TypeOK, Facts, TypeOK', now <= now',
         UNCHANGED <<req, cached, time, sent, stored, late, queue, sender, expired, failures>>,
         \A m \in Messages : expires'[m] = expires[m] \/ expires'[m] <= now'
  PROVE  Facts'
<1>1. Requests' /\ SenderOK' /\ Unsent'
  BY SMTT(30) DEF Facts, Requests, SenderOK, Unsent, queue, sender, TypeOK, Batching
<1>2. ManagerOK'
  BY SMTT(30) DEF Facts, ManagerOK, TypeOK
<1>3. PublishedMeansSent' /\ NotBeforeItsTime' /\ SentOnceButForFailures' /\ AcceptedAreKept'
  BY SMTT(30) DEF Facts, PublishedMeansSent, NotBeforeItsTime, SentOnceButForFailures,
                  AcceptedAreKept, queue, TypeOK, Batching
<1> QED BY <1>1, <1>2, <1>3 DEF Facts

\* An insert into rows that do not exist yet: whoever becomes unpublished was not
\* sent, whoever becomes published was sent or is late.
LEMMA InsertFacts ==
  ASSUME TypeOK, NotBeforeItsTime, NEW group \in SUBSET Messages, Insert(group)
  PROVE  /\ \A m \in Messages \ group : stored'[m] = stored[m]
         /\ \A m \in group : \/ stored'[m] = "published" /\ (sent[m] > 0 \/ m \in late')
                             \/ stored'[m] = "unpublished" /\ sent[m] = 0
         /\ late \subseteq late'
BY SMTT(30) DEF TypeOK, NotBeforeItsTime, Insert

\* The steps of a publish request.
LEMMA RequestStep ==
  ASSUME TypeOK, Facts, TypeOK', NEW m \in Messages,
         \/ \E d \in Delays : \E c \in BOOLEAN : ParseParams(m, d, c)
         \/ Decide(m)
         \/ AddMessage(m)
  PROVE  Facts'
<1> USE CacheAssumption
<1>1. ASSUME NEW d \in Delays, NEW c \in BOOLEAN, ParseParams(m, d, c) PROVE Facts'
  <2>1. /\ req[m] = "none" /\ req'[m] = "parsed"
        /\ \A x \in Messages \ {m} : /\ req'[x] = req[x] /\ cached'[x] = cached[x]
                                     /\ time'[x] = time[x] /\ expires'[x] = expires[x]
        /\ UNCHANGED <<now, sent, stored, late, queued, writes, due, marking, expired, failures>>
    BY <1>1, SMTT(30) DEF ParseParams, TypeOK, queue, sender
  <2>2. sent[m] = 0 /\ stored[m] = "no" /\ m \notin queued
    BY <2>1 DEF Facts, Requests, Batching
  <2>3. m \notin due /\ m \notin expired
    BY <2>2 DEF Facts, SenderOK, ManagerOK
  <2>4. Requests' BY <2>1, <2>2 DEF Facts, Requests, Batching
  <2>5. SenderOK' /\ ManagerOK' /\ Unsent'
    BY <2>1, <2>3 DEF Facts, SenderOK, ManagerOK, Unsent, TypeOK
  <2>6. PublishedMeansSent' /\ NotBeforeItsTime' /\ SentOnceButForFailures'
    BY <2>1, <2>2, SMTT(30) DEF Facts, PublishedMeansSent, NotBeforeItsTime, SentOnceButForFailures
  <2>7. AcceptedAreKept' BY <2>1 DEF Facts, AcceptedAreKept, Batching
  <2> QED BY <2>4, <2>5, <2>6, <2>7 DEF Facts
<1>2. CASE Decide(m)
  <2>1. /\ req[m] = "parsed" /\ req'[m] \in {"sent", "delayed"}
        /\ \A x \in Messages \ {m} : req'[x] = req[x] /\ sent'[x] = sent[x]
        /\ sent'[m] = sent[m] \/ (sent'[m] = sent[m] + 1 /\ time[m] <= now)
        /\ UNCHANGED <<now, cached, time, expires, stored, late, queued, writes, due, marking, expired, failures>>
    BY <1>2, SMTT(30) DEF Decide, TypeOK, queue, sender
  <2>2. sent[m] = 0 /\ stored[m] = "no" /\ m \notin queued
    BY <2>1 DEF Facts, Requests, Batching
  <2>3. Requests' BY <2>1, <2>2 DEF Facts, Requests, Batching
  <2>4. SenderOK' BY <2>1, <2>2, SMTT(30) DEF Facts, SenderOK, TypeOK
  <2>5. ManagerOK' /\ Unsent' BY <2>1, <2>2 DEF Facts, ManagerOK, Unsent
  <2>6. PublishedMeansSent' /\ NotBeforeItsTime' BY <2>1, <2>2 DEF Facts, PublishedMeansSent,
                              NotBeforeItsTime
  <2>7. SentOnceButForFailures' BY <2>1, <2>2, SMTT(30) DEF Facts, SentOnceButForFailures, TypeOK
  <2>8. AcceptedAreKept' BY <2>1 DEF Facts, AcceptedAreKept, Batching
  <2> QED BY <2>3, <2>4, <2>5, <2>6, <2>7, <2>8 DEF Facts
<1>3. CASE AddMessage(m)
  <2>1. /\ req[m] \in {"sent", "delayed"} /\ req'[m] \in {"answered", "failed"}
        /\ \A x \in Messages \ {m} : req'[x] = req[x] /\ (x \in queued' <=> x \in queued)
        /\ UNCHANGED <<now, cached, time, sent, expires, writes, due, marking, expired>>
        /\ failures <= failures'
    BY <1>3, SMTT(30) DEF AddMessage, TypeOK, queue, sender, Queue!Take
  <2>2. stored[m] = "no" /\ m \notin queued
    BY <2>1 DEF Facts, Requests, Batching
  <2>3. /\ \A x \in Messages \ {m} : stored'[x] = stored[x]
        /\ \/ stored'[m] = "no"
           \/ stored'[m] = "published" /\ (sent[m] > 0 \/ m \in late')
           \/ stored'[m] = "unpublished" /\ sent[m] = 0
        /\ late \subseteq late'
    <3>1. CASE UNCHANGED <<stored, late>> BY <2>2, <3>1
    <3>2. CASE Insert({m}) BY <3>2, InsertFacts DEF Facts
    <3> QED BY <1>3, <3>1, <3>2 DEF AddMessage
  <2>4. m \in queued' => Batching /\ stored'[m] = "no"
    BY <1>3, <2>2 DEF AddMessage, queue, Queue!Take
  <2>5. req'[m] = "answered" /\ cached[m] => stored'[m] # "no" \/ m \in queued'
    <3>1. CASE Insert({m}) BY <3>1, InsertFacts DEF Facts
    <3> QED BY <1>3, <2>1, <3>1 DEF AddMessage, TypeOK, Queue!Take
  <2>6. Requests' BY <2>1, <2>3, <2>4 DEF Facts, Requests, Batching
  <2>7. SenderOK' BY <2>1, <2>2, <2>3 DEF Facts, SenderOK, TypeOK
  <2>8. ManagerOK' BY <2>1, <2>2, <2>3 DEF Facts, ManagerOK, TypeOK
  <2>9. Unsent' BY <2>1, <2>3, SMTT(30) DEF Facts, Unsent, TypeOK
  <2>10. PublishedMeansSent' /\ NotBeforeItsTime'
    BY <2>1, <2>3 DEF Facts, PublishedMeansSent, NotBeforeItsTime
  <2>11. SentOnceButForFailures' BY <2>1, SMTT(30) DEF Facts, SentOnceButForFailures, TypeOK
  <2>12. AcceptedAreKept' BY <2>1, <2>3, <2>5, SMTT(30) DEF Facts, AcceptedAreKept, TypeOK, Batching
  <2> QED BY <2>6, <2>7, <2>8, <2>9, <2>10, <2>11, <2>12 DEF Facts
<1> QED BY <1>1, <1>2, <1>3

\* The steps of the write queue's consumer.
LEMMA WriterStep ==
  ASSUME TypeOK, Facts, TypeOK', NEW group \in SUBSET queued, WriteBatch(group)
  PROVE  Facts'
<1> USE CacheAssumption
<1>1. /\ UNCHANGED <<now, req, cached, time, sent, expires, writes, due, marking, expired>>
      /\ queued' = queued \ group
      /\ failures <= failures'
  BY SMTT(30) DEF WriteBatch, Queue!HandleGroup, sender, TypeOK
<1>2. group \in SUBSET Messages /\ \A m \in group : stored[m] = "no" /\ Batching
  BY DEF Facts, Requests, TypeOK, Batching
<1>3. /\ \A m \in Messages \ group : stored'[m] = stored[m]
      /\ \A m \in group : \/ stored'[m] = "no" /\ failures' > 0
                          \/ stored'[m] = "published" /\ (sent[m] > 0 \/ m \in late')
                          \/ stored'[m] = "unpublished" /\ sent[m] = 0
      /\ late \subseteq late'
  <2>1. CASE Insert(group) BY <1>2, <2>1, InsertFacts DEF Facts
  <2>2. CASE UNCHANGED <<stored, late>> /\ failures' = failures + 1
    BY <1>2, <2>2, SMTT(30) DEF TypeOK
  <2> QED BY <2>1, <2>2 DEF WriteBatch
<1>4. Requests' BY <1>1, <1>2, <1>3 DEF Facts, Requests, Batching
<1>5. SenderOK' BY <1>1, <1>2, <1>3 DEF Facts, SenderOK, TypeOK
<1>6. ManagerOK' BY <1>1, <1>2, <1>3 DEF Facts, ManagerOK, TypeOK
<1>7. Unsent' BY <1>1, <1>3, SMTT(30) DEF Facts, Unsent, TypeOK
<1>8. PublishedMeansSent' /\ NotBeforeItsTime'
  BY <1>1, <1>3 DEF Facts, PublishedMeansSent, NotBeforeItsTime
<1>9. SentOnceButForFailures' BY <1>1, SMTT(30) DEF Facts, SentOnceButForFailures, TypeOK
<1>10. AcceptedAreKept' BY <1>1, <1>2, <1>3, SMTT(30) DEF Facts, AcceptedAreKept, TypeOK, Batching
<1> QED BY <1>4, <1>5, <1>6, <1>7, <1>8, <1>9, <1>10 DEF Facts

\* The steps of the delayed sender.
LEMMA SenderStep ==
  ASSUME TypeOK, Facts, TypeOK',
         MessagesDue \/ (\E m \in Messages : SendDelayed(m)) \/ MarkPublished
  PROVE  Facts'
<1> USE CacheAssumption
<1>1. CASE MessagesDue
  <2>1. /\ UNCHANGED <<now, req, cached, time, sent, stored, expires, late, queued, writes, marking, expired, failures>>
        /\ marking = None
        /\ due' = {m \in Messages : stored[m] = "unpublished" /\ time[m] <= now}
    BY <1>1 DEF MessagesDue, queue
  <2>2. SenderOK' BY <2>1 DEF Facts, SenderOK
  <2>3. Requests' /\ Unsent' /\ ManagerOK' BY <2>1 DEF Facts, Requests, Unsent, ManagerOK, Batching
  <2>4. PublishedMeansSent' /\ NotBeforeItsTime' /\ SentOnceButForFailures' /\ AcceptedAreKept'
    BY <2>1 DEF Facts, PublishedMeansSent, NotBeforeItsTime, SentOnceButForFailures,
                AcceptedAreKept, Batching
  <2> QED BY <2>2, <2>3, <2>4 DEF Facts
<1>2. ASSUME NEW m \in Messages, SendDelayed(m) PROVE Facts'
  <2>1. /\ UNCHANGED <<now, req, cached, time, stored, expires, late, queued, writes, expired, failures>>
        /\ m \in due /\ marking = None /\ due' = due \ {m}
        /\ \A x \in Messages \ {m} : sent'[x] = sent[x]
        /\ \/ sent'[m] = sent[m] /\ marking' = None
           \/ sent'[m] = sent[m] + 1 /\ marking' = m
    BY <1>2 DEF SendDelayed, TypeOK, queue
  <2>2. stored[m] = "unpublished" /\ time[m] <= now /\ sent[m] <= failures /\ sent[m] \in Nat
    BY <2>1 DEF Facts, SenderOK, Unsent, TypeOK
  <2>3. Requests' BY <2>1, <2>2 DEF Facts, Requests, Batching
  <2>4. SenderOK' BY <2>1, <2>2, SMTT(30) DEF Facts, SenderOK
  <2>5. Unsent' BY <2>1, <2>2 DEF Facts, Unsent
  <2>6. ManagerOK' BY <2>1 DEF Facts, ManagerOK
  <2>7. PublishedMeansSent' /\ NotBeforeItsTime'
    BY <2>1, <2>2 DEF Facts, PublishedMeansSent, NotBeforeItsTime
  <2>8. SentOnceButForFailures' BY <2>1, <2>2, SMTT(30) DEF Facts, SentOnceButForFailures, TypeOK
  <2>9. AcceptedAreKept' BY <2>1 DEF Facts, AcceptedAreKept, Batching
  <2> QED BY <2>3, <2>4, <2>5, <2>6, <2>7, <2>8, <2>9 DEF Facts
<1>3. CASE MarkPublished
  <2>1. /\ UNCHANGED <<now, req, cached, time, sent, expires, late, queued, writes, due, expired>>
        /\ marking # None /\ marking' = None
        /\ \A x \in Messages : x # marking => stored'[x] = stored[x]
        /\ \/ /\ stored'[marking] = IF stored[marking] = "unpublished" THEN "published" ELSE stored[marking]
              /\ failures' = failures
           \/ stored'[marking] = stored[marking] /\ failures' = failures + 1
    BY <1>3, SMTT(30) DEF MarkPublished, TypeOK, queue
  <2>2. marking \in Messages /\ sent[marking] > 0 /\ marking \notin due
    BY <2>1 DEF Facts, SenderOK, TypeOK
  <2>3. Requests' BY <2>1, <2>2 DEF Facts, Requests, Batching
  <2>4. SenderOK' BY <2>1, <2>2 DEF Facts, SenderOK, TypeOK
  <2>5. Unsent'
    <3> SUFFICES ASSUME NEW x \in Messages, stored'[x] = "unpublished" PROVE sent[x] <= failures'
      BY <2>1 DEF Unsent
    <3>1. CASE x # marking BY <2>1, <3>1, SMTT(30) DEF Facts, Unsent, TypeOK
    <3>2. CASE x = marking BY <2>1, <2>2, <3>2, SMTT(30) DEF Facts, SentOnceButForFailures, TypeOK
    <3> QED BY <3>1, <3>2
  <2>6. ManagerOK' BY <2>1, <2>2 DEF Facts, ManagerOK, TypeOK
  <2>7. PublishedMeansSent' /\ NotBeforeItsTime'
    BY <2>1, <2>2 DEF Facts, PublishedMeansSent, NotBeforeItsTime
  <2>8. SentOnceButForFailures' BY <2>1, SMTT(30) DEF Facts, SentOnceButForFailures, TypeOK
  <2>9. AcceptedAreKept' BY <2>1, <2>2, SMTT(30) DEF Facts, AcceptedAreKept, TypeOK, Batching
  <2> QED BY <2>3, <2>4, <2>5, <2>6, <2>7, <2>8, <2>9 DEF Facts
<1> QED BY <1>1, <1>2, <1>3

\* The steps of the manager.
LEMMA ManagerStep ==
  ASSUME TypeOK, Facts, TypeOK', MessagesExpired \/ DeleteMessages
  PROVE  Facts'
<1> USE CacheAssumption
<1>1. CASE MessagesExpired
  <2>1. /\ UNCHANGED <<now, req, cached, time, sent, stored, expires, late, queued, writes, due, marking, failures>>
        /\ expired' = {m \in Messages : stored[m] = "published" /\ expires[m] <= now}
    BY <1>1 DEF MessagesExpired, queue, sender
  <2>2. ManagerOK' BY <2>1 DEF ManagerOK
  <2>3. Requests' /\ Unsent' /\ SenderOK' BY <2>1 DEF Facts, Requests, Unsent, SenderOK, Batching
  <2>4. PublishedMeansSent' /\ NotBeforeItsTime' /\ SentOnceButForFailures' /\ AcceptedAreKept'
    BY <2>1 DEF Facts, PublishedMeansSent, NotBeforeItsTime, SentOnceButForFailures,
                AcceptedAreKept, Batching
  <2> QED BY <2>2, <2>3, <2>4 DEF Facts
<1>2. CASE DeleteMessages
  <2>1. /\ UNCHANGED <<now, req, cached, time, sent, expires, late, queued, writes, due, marking>>
        /\ expired' = {} /\ failures <= failures'
        /\ \A m \in Messages : stored'[m] = stored[m] \/ (m \in expired /\ stored'[m] = "deleted")
    BY <1>2, SMTT(30) DEF DeleteMessages, queue, sender, TypeOK
  <2>2. \A m \in expired : stored[m] = "published" BY DEF Facts, ManagerOK
  <2>3. Requests' BY <2>1, <2>2 DEF Facts, Requests, TypeOK, Batching
  <2>4. SenderOK' /\ ManagerOK' BY <2>1, <2>2 DEF Facts, SenderOK, ManagerOK, TypeOK
  <2>5. Unsent' BY <2>1, SMTT(30) DEF Facts, Unsent, TypeOK
  <2>6. PublishedMeansSent' /\ NotBeforeItsTime' BY <2>1 DEF Facts, PublishedMeansSent, NotBeforeItsTime
  <2>7. SentOnceButForFailures' BY <2>1, SMTT(30) DEF Facts, SentOnceButForFailures, TypeOK
  <2>8. AcceptedAreKept' BY <2>1, <2>2, SMTT(30) DEF Facts, AcceptedAreKept, TypeOK, Batching
  <2> QED BY <2>3, <2>4, <2>5, <2>6, <2>7, <2>8 DEF Facts
<1> QED BY <1>1, <1>2

\* A crash.
LEMMA CrashStep == ASSUME TypeOK, Facts, TypeOK', Crash PROVE Facts'
<1> USE CacheAssumption
<1>1. /\ UNCHANGED <<writes, now, cached, time, sent, stored, expires, late>>
      /\ failures' = failures + 1 /\ failures \in Nat
      /\ queued' = {} /\ due' = {} /\ marking' = None /\ expired' = {}
      /\ \A m \in Messages : req'[m] = req[m] \/ req'[m] = "lost"
  BY SMTT(30) DEF Crash, TypeOK
<1>2. Requests' BY <1>1 DEF Facts, Requests, Batching
<1>3. SenderOK' /\ ManagerOK' BY <1>1 DEF SenderOK, ManagerOK
<1>4. Unsent'
  <2>1. sent' = sent /\ failures' = failures + 1 BY <1>1
  <2>2. \A m \in Messages : sent[m] <= 1 + failures BY DEF Facts, SentOnceButForFailures
  <2>3. \A m \in Messages : sent'[m] <= failures' BY <1>1, <2>1, <2>2, SMTT(30)
  <2> QED BY <2>3 DEF Unsent
<1>5. PublishedMeansSent' /\ NotBeforeItsTime' BY <1>1 DEF Facts, PublishedMeansSent, NotBeforeItsTime
<1>6. SentOnceButForFailures' BY <1>1, SMTT(30) DEF Facts, SentOnceButForFailures, TypeOK
<1>7. AcceptedAreKept'
  <2> SUFFICES ASSUME NEW m \in Messages, req'[m] = "answered", cached'[m], stored'[m] = "no"
               PROVE  Batching /\ failures' > 0
    BY <1>1 DEF AcceptedAreKept, Batching
  <2>1. req[m] = "answered" /\ cached[m] /\ stored[m] = "no" BY <1>1
  <2>2. m \in queued \/ Batching BY <2>1 DEF Facts, AcceptedAreKept
  <2> QED BY <1>1, <2>2, SMTT(30) DEF Facts, Requests
<1> QED BY <1>2, <1>3, <1>4, <1>5, <1>6, <1>7 DEF Facts

-----------------------------------------------------------------------------
(* The theorems *)

LEMMA Step == IInv /\ [Next]_vars => IInv'
<1> SUFFICES ASSUME IInv, [Next]_vars PROVE IInv'
  OBVIOUS
<1> USE CacheAssumption
<1>1. TypeOK /\ TypeOK' /\ Facts BY TypeStep DEF IInv, Facts
<1>2. CASE \/ \E t \in Topics : ExpireMessages(t)
           \/ \E u \in Users : RemoveUser(u)
           \/ Tick \/ UNCHANGED vars
  <2>1. /\ now <= now'
        /\ UNCHANGED <<req, cached, time, sent, stored, late, queue, sender, expired, failures>>
    BY <1>1, <1>2, SMTT(30) DEF ExpireMessages, RemoveUser, Tick, vars, TypeOK, queue, sender
  <2>2. \A m \in Messages : expires'[m] = expires[m] \/ expires'[m] <= now'
    BY <1>1, <1>2, SMTT(30) DEF ExpireMessages, RemoveUser, Tick, vars, TypeOK
  <2> QED BY <1>1, <2>1, <2>2, QuietStep DEF IInv, Facts
<1>3. CASE \E m \in Messages :
             \/ \E d \in Delays : \E c \in BOOLEAN : ParseParams(m, d, c)
             \/ Decide(m) \/ AddMessage(m)
  BY <1>1, <1>3, RequestStep DEF IInv, Facts
<1>4. CASE \E group \in SUBSET queued : WriteBatch(group)
  BY <1>1, <1>4, WriterStep DEF IInv, Facts
<1>5. CASE MessagesDue \/ (\E m \in Messages : SendDelayed(m)) \/ MarkPublished
  BY <1>1, <1>5, SenderStep DEF IInv, Facts
<1>6. CASE MessagesExpired \/ DeleteMessages
  BY <1>1, <1>6, ManagerStep DEF IInv, Facts
<1>7. CASE Crash
  BY <1>1, <1>7, CrashStep DEF IInv, Facts
<1> QED BY <1>2, <1>3, <1>4, <1>5, <1>6, <1>7 DEF Next

LEMMA Inductive == Spec => []IInv
BY InitIInv, Step, PTL DEF Spec

\* The state is well typed.
THEOREM TypeCorrect == Spec => []TypeOK
BY Inductive, PTL DEF IInv

\* A row counts as published only if its message was sent or became due between the
\* decision and the insert.
THEOREM PublishedWasSent == Spec => []PublishedMeansSent
BY Inductive, PTL DEF IInv

\* No message is sent before its time.
THEOREM OnTime == Spec => []NotBeforeItsTime
BY Inductive, PTL DEF IInv

\* Without failures no message is sent twice, and each failure costs one more at most.
THEOREM AtMostOnce == Spec => []SentOnceButForFailures
BY Inductive, PTL DEF IInv

\* An acknowledged message is stored or queued, unless a batch or the process failed.
THEOREM AcceptedKept == Spec => []AcceptedAreKept
BY Inductive, PTL DEF IInv

\* The manager never deletes a message that still has to be sent.
THEOREM DeletedWasSent == Spec => OnlySentAndExpiredDeleted
<1>1. IInv /\ [Next]_vars =>
        [\A m \in Messages : stored[m] # "deleted" /\ stored'[m] = "deleted" =>
           stored[m] = "published" /\ expires[m] <= now]_vars
  <2> SUFFICES ASSUME IInv, [Next]_vars, NEW m \in Messages, stored[m] # "deleted", stored'[m] = "deleted"
               PROVE  stored[m] = "published" /\ expires[m] <= now
    OBVIOUS
  <2> USE CacheAssumption
  <2>1. CASE DeleteMessages
    BY <2>1 DEF IInv, ManagerOK, DeleteMessages, TypeOK
  <2>2. ASSUME NEW group, Insert(group) PROVE FALSE
    BY <2>2 DEF Insert
  <2>3. CASE UNCHANGED stored
    BY <2>3
  <2>4. CASE MarkPublished
    BY <2>4 DEF MarkPublished, IInv, TypeOK
  <2> QED BY <2>1, <2>2, <2>3, <2>4 DEF Next, ParseParams, Decide, AddMessage, WriteBatch, MessagesDue,
          SendDelayed, MessagesExpired, ExpireMessages, RemoveUser, Tick, Crash, vars
<1> QED BY Inductive, <1>1, PTL DEF Spec, OnlySentAndExpiredDeleted

-----------------------------------------------------------------------------
(* The write queue *)

\* The items of the empty sequence, of Append and of concatenation (append and
\* dequeueAll in the code).
LEMMA ItemsEmpty == Q!Items(<<>>) = {} /\ Q!Injective(<<>>)
BY SMTT(30) DEF Q!Items, Q!Injective

LEMMA ItemsAppend ==
  ASSUME NEW S, NEW s \in Seq(S), NEW x \in S
  PROVE  /\ Append(s, x) \in Seq(S)
         /\ Q!Items(Append(s, x)) = Q!Items(s) \cup {x}
         /\ Q!Injective(s) /\ x \notin Q!Items(s) => Q!Injective(Append(s, x))
<1>1. /\ Append(s, x) \in Seq(S)
      /\ Len(Append(s, x)) = Len(s) + 1
      /\ \A i \in 1..Len(s) : Append(s, x)[i] = s[i]
      /\ Append(s, x)[Len(s) + 1] = x
      /\ Len(s) \in Nat
  BY SMTT(30)
<1>2. 1..(Len(s) + 1) = 1..Len(s) \cup {Len(s) + 1}
  BY <1>1, SMTT(30)
<1>3. Q!Items(Append(s, x)) = Q!Items(s) \cup {x}
  BY <1>1, <1>2 DEF Q!Items
<1>4. ASSUME Q!Injective(s), x \notin Q!Items(s) PROVE Q!Injective(Append(s, x))
  BY <1>1, <1>2, <1>4, SMTT(30) DEF Q!Items, Q!Injective
<1> QED BY <1>1, <1>3, <1>4

LEMMA ItemsConcat ==
  ASSUME NEW S, NEW s \in Seq(S), NEW t \in Seq(S)
  PROVE  /\ s \o t \in Seq(S)
         /\ Q!Items(s \o t) = Q!Items(s) \cup Q!Items(t)
         /\ Q!Injective(s) /\ Q!Injective(t) /\ Q!Disjoint(Q!Items(t), Q!Items(s)) => Q!Injective(s \o t)
<1>1. /\ s \o t \in Seq(S)
      /\ Len(s \o t) = Len(s) + Len(t)
      /\ \A i \in 1..Len(s) : (s \o t)[i] = s[i]
      /\ \A i \in (Len(s) + 1)..(Len(s) + Len(t)) : (s \o t)[i] = t[i - Len(s)]
      /\ Len(s) \in Nat /\ Len(t) \in Nat
  BY SMTT(30)
<1>2. \A j \in 1..Len(t) : j + Len(s) \in (Len(s) + 1)..(Len(s) + Len(t)) /\ (s \o t)[j + Len(s)] = t[j]
  <2> TAKE j \in 1..Len(t)
  <2>1. j + Len(s) \in (Len(s) + 1)..(Len(s) + Len(t)) /\ (j + Len(s)) - Len(s) = j
    BY <1>1, SMTT(30)
  <2> QED BY <1>1, <2>1
<1>3. Q!Items(s \o t) \subseteq Q!Items(s) \cup Q!Items(t)
  <2> SUFFICES ASSUME NEW i \in 1..(Len(s) + Len(t)) PROVE (s \o t)[i] \in Q!Items(s) \cup Q!Items(t)
    BY <1>1 DEF Q!Items
  <2>1. CASE i \in 1..Len(s) BY <1>1, <2>1 DEF Q!Items
  <2>2. CASE i \in (Len(s) + 1)..(Len(s) + Len(t))
    <3>1. i - Len(s) \in 1..Len(t) BY <1>1, <2>2, SMTT(30)
    <3> QED BY <1>1, <2>2, <3>1 DEF Q!Items
  <2> QED BY <1>1, <2>1, <2>2, SMTT(30)
<1>4. Q!Items(s) \cup Q!Items(t) \subseteq Q!Items(s \o t)
  <2>1. \A i \in 1..Len(s) : i \in 1..Len(s \o t) BY <1>1, SMTT(30)
  <2>2. \A j \in 1..Len(t) : j + Len(s) \in 1..Len(s \o t) BY <1>1, SMTT(30)
  <2>3. Q!Items(s) \subseteq Q!Items(s \o t) BY <1>1, <2>1 DEF Q!Items
  <2>4. Q!Items(t) \subseteq Q!Items(s \o t) BY <1>2, <2>2 DEF Q!Items
  <2> QED BY <2>3, <2>4
<1>5. ASSUME Q!Injective(s), Q!Injective(t), Q!Disjoint(Q!Items(t), Q!Items(s)) PROVE Q!Injective(s \o t)
  <2> SUFFICES ASSUME NEW i \in 1..(Len(s) + Len(t)), NEW j \in 1..(Len(s) + Len(t)), (s \o t)[i] = (s \o t)[j]
               PROVE  i = j
    BY <1>1 DEF Q!Injective
  <2>1. CASE i \in 1..Len(s) /\ j \in 1..Len(s) BY <1>1, <1>5, <2>1 DEF Q!Injective
  <2>2. CASE i > Len(s) /\ j > Len(s)
    <3>1. i - Len(s) \in 1..Len(t) /\ j - Len(s) \in 1..Len(t)
      BY <1>1, <2>2, SMTT(30)
    <3>2. (s \o t)[i] = t[i - Len(s)] /\ (s \o t)[j] = t[j - Len(s)]
      BY <1>1, <2>2, SMTT(30)
    <3>3. i - Len(s) = j - Len(s) BY <1>5, <3>1, <3>2 DEF Q!Injective
    <3> QED BY <1>1, <3>3, SMTT(30)
  <2>3. CASE i \in 1..Len(s) /\ j > Len(s)
    <3>1. j - Len(s) \in 1..Len(t) /\ (s \o t)[j] = t[j - Len(s)] BY <1>1, <2>3, SMTT(30)
    <3> QED BY <1>1, <1>5, <2>3, <3>1, SMTT(30) DEF Q!Items, Q!Disjoint
  <2>4. CASE i > Len(s) /\ j \in 1..Len(s)
    <3>1. i - Len(s) \in 1..Len(t) /\ (s \o t)[i] = t[i - Len(s)] BY <1>1, <2>4, SMTT(30)
    <3> QED BY <1>1, <1>5, <2>4, <3>1 DEF Q!Items, Q!Disjoint
  <2> QED BY <1>1, <2>1, <2>2, <2>3, <2>4, SMTT(30)
<1> QED BY <1>1, <1>3, <1>4, <1>5

-----------------------------------------------------------------------------
\* A goroutine sends a batch only after its Enqueue: without this, a full batch
\* could overwrite one that is still on its way.
NotYetSending == \A e \in Elements : e \notin enqueued => sending[e] = <<>>

\* The invariants are inductive together: conservation needs the types and
\* NotYetSending, and the bound on q.in makes Enqueue's test for equality exact.
QueueInv == Q!TypeOK /\ NotYetSending /\ Q!NoneLostNoneTwice /\ Q!BatchesBounded

\* A fresh queue (NewBatchingQueue) satisfies the invariant.
LEMMA QueueStarts == Q!Init => QueueInv
<1> SUFFICES ASSUME Q!Init PROVE QueueInv
  OBVIOUS
<1> USE ItemsEmpty DEF Q!Init
<1>1. Q!TypeOK BY SMTT(30) DEF Q!TypeOK
<1>2. Q!NoneLostNoneTwice
  BY DEF Q!NoneLostNoneTwice, Q!Waiting, Q!OnTheWay, Q!Disjoint
<1>3. Q!BatchesBounded
  BY QueueAssumption, SMTT(30) DEF Q!BatchesBounded
<1>4. NotYetSending BY DEF NotYetSending, Q!Senders
<1> QED BY <1>1, <1>2, <1>3, <1>4 DEF QueueInv

\* No step of Enqueue, the ticker or the consumer breaks a type.
LEMMA QueueTypeStep == Q!TypeOK /\ [Q!Next]_(Q!vars) => Q!TypeOK'
<1> SUFFICES ASSUME Q!TypeOK, [Q!Next]_(Q!vars) PROVE Q!TypeOK'
  OBVIOUS
<1> USE DEF Q!TypeOK
<1>1. ASSUME NEW e \in Elements, Q!Enqueue(e) PROVE Q!TypeOK'
  <2>1. Append(in, e) \in Seq(Elements) /\ e \in Q!Senders /\ <<>> \in Seq(Elements)
    BY SMTT(30) DEF Q!Senders
  <2> QED BY <1>1, <2>1 DEF Q!Enqueue
<1>2. CASE Q!TimeoutTick
  <2>1. <<>> \in Seq(Elements)
    BY SMTT(30)
  <2> QED BY <1>2, <2>1 DEF Q!TimeoutTick
<1>3. ASSUME NEW p \in Q!Senders, Q!Receive(p) PROVE Q!TypeOK'
  <2>1. sending[p] \in Seq(Elements) /\ <<>> \in Seq(Elements)
    BY SMTT(30)
  <2> QED BY <1>3, <2>1 DEF Q!Receive
<1>4. CASE Q!Handle BY <1>4, ItemsConcat, SMTT(30) DEF Q!Handle
<1>5. CASE UNCHANGED Q!vars BY <1>5 DEF Q!vars
<1> QED BY <1>1, <1>2, <1>3, <1>4, <1>5 DEF Q!Next

\* Nor does one send on behalf of a goroutine that has not enqueued.
LEMMA NotYetSendingStep == Q!TypeOK /\ NotYetSending /\ [Q!Next]_(Q!vars) => NotYetSending'
<1> SUFFICES ASSUME Q!TypeOK, NotYetSending, [Q!Next]_(Q!vars) PROVE NotYetSending'
  OBVIOUS
<1> USE QueueAssumption DEF Q!TypeOK, NotYetSending, Q!Senders
<1>1. ASSUME NEW e \in Elements, Q!Enqueue(e) PROVE NotYetSending' BY <1>1 DEF Q!Enqueue
<1>2. CASE Q!TimeoutTick BY <1>2 DEF Q!TimeoutTick
<1>3. ASSUME NEW p \in Q!Senders, Q!Receive(p) PROVE NotYetSending' BY <1>3 DEF Q!Receive
<1>4. CASE Q!Handle BY <1>4 DEF Q!Handle
<1>5. CASE UNCHANGED Q!vars BY <1>5 DEF Q!vars
<1> QED BY <1>1, <1>2, <1>3, <1>4, <1>5 DEF Q!Next

\* Whatever is not waiting and not handled is nowhere, and the goroutine of an
\* element that is not enqueued holds no batch.
LEMMA NotEnqueuedNowhere ==
  ASSUME Q!NoneLostNoneTwice, NEW e, e \notin enqueued
  PROVE  /\ e \notin Q!Items(in) /\ e \notin Q!Items(handling) /\ e \notin Q!Items(handled)
         /\ \A p \in Q!Senders : e \notin Q!Items(sending[p])
BY DEF Q!NoneLostNoneTwice, Q!Waiting, Q!OnTheWay

\* No step loses or duplicates an element.
LEMMA ConservationStep ==
  Q!TypeOK /\ NotYetSending /\ Q!NoneLostNoneTwice /\ [Q!Next]_(Q!vars) => Q!NoneLostNoneTwice'
<1> SUFFICES ASSUME Q!TypeOK, NotYetSending, Q!NoneLostNoneTwice, [Q!Next]_(Q!vars) PROVE Q!NoneLostNoneTwice'
  OBVIOUS
<1>0. /\ \A q \in Q!Senders : Q!Items(sending[q]) \subseteq Q!Waiting
      /\ Q!Items(in) \subseteq Q!Waiting /\ Q!Items(handling) \subseteq Q!Waiting
      /\ enqueued = Q!Waiting \cup Q!Items(handled)
  BY DEF Q!Waiting, Q!OnTheWay, Q!NoneLostNoneTwice
<1>1. ASSUME NEW e \in Elements, Q!Enqueue(e) PROVE Q!NoneLostNoneTwice'
  <2>1. e \notin enqueued /\ enqueued' = enqueued \cup {e} /\ handling' = handling /\ handled' = handled
    BY <1>1 DEF Q!Enqueue
  <2>2. Q!Items(Append(in, e)) = Q!Items(in) \cup {e} /\ Q!Injective(Append(in, e))
    BY <2>1, NotEnqueuedNowhere, ItemsAppend DEF Q!TypeOK, Q!NoneLostNoneTwice
  <2>3. CASE in' = Append(in, e) /\ sending' = sending
    <3>1. Q!Items(in') = Q!Items(in) \cup {e} /\ Q!Injective(in') BY <2>2, <2>3
    <3>2. Q!OnTheWay' = Q!OnTheWay BY <2>3 DEF Q!OnTheWay
    <3>3. enqueued' = (Q!Waiting \cup Q!Items(handled))' BY <1>0, <2>1, <3>1, <3>2 DEF Q!Waiting
    <3>4. /\ e \notin Q!Items(in) /\ e \notin Q!Items(handling) /\ e \notin Q!Items(handled)
          /\ \A q \in Q!Senders : e \notin Q!Items(sending[q])
      BY <2>1, NotEnqueuedNowhere
    <3>5. /\ Q!Disjoint(Q!Items(in'), Q!Items(handling) \cup Q!Items(handled))
          /\ \A q \in Q!Senders : Q!Disjoint(Q!Items(sending[q]), Q!Items(in') \cup Q!Items(handling) \cup Q!Items(handled))
      BY <3>1, <3>4 DEF Q!NoneLostNoneTwice, Q!Disjoint
    <3> QED BY <2>1, <2>3, <3>1, <3>3, <3>5 DEF Q!NoneLostNoneTwice
  <2>4. CASE in' = <<>> /\ sending' = [sending EXCEPT ![e] = Append(in, e)]
    <3>1. e \in Q!Senders /\ sending[e] = <<>> /\ Q!Items(sending[e]) = {}
      BY <2>1, ItemsEmpty DEF NotYetSending, Q!Senders
    <3>2. /\ sending'[e] = Append(in, e)
          /\ \A q \in Q!Senders \ {e} : sending'[q] = sending[q]
      BY <2>4, <3>1 DEF Q!TypeOK
    <3>3. Q!Waiting' = Q!Waiting \cup {e}
      BY <2>1, <2>2, <2>4, <3>1, <3>2, ItemsEmpty, SMTT(30) DEF Q!Waiting, Q!OnTheWay
    <3>4. /\ e \notin Q!Items(in) /\ e \notin Q!Items(handling) /\ e \notin Q!Items(handled)
          /\ \A q \in Q!Senders : e \notin Q!Items(sending[q])
      BY <2>1, NotEnqueuedNowhere
    <3>5. \A q \in Q!Senders : Q!Injective(sending'[q])
      BY <2>2, <3>2 DEF Q!NoneLostNoneTwice
    <3>6. \A q \in Q!Senders :
            /\ Q!Disjoint(Q!Items(sending'[q]), Q!Items(handling) \cup Q!Items(handled))
            /\ \A r \in Q!Senders \ {q} : Q!Disjoint(Q!Items(sending'[q]), Q!Items(sending'[r]))
      <4> TAKE q \in Q!Senders
      <4>1. CASE q = e
        <5>1. Q!Items(sending'[e]) = Q!Items(in) \cup {e} BY <2>2, <3>2
        <5>2. Q!Disjoint(Q!Items(in) \cup {e}, Q!Items(handling) \cup Q!Items(handled))
          BY <3>4 DEF Q!NoneLostNoneTwice, Q!Disjoint
        <5>3. \A r \in Q!Senders : Q!Disjoint(Q!Items(in) \cup {e}, Q!Items(sending[r]))
          BY <3>4 DEF Q!NoneLostNoneTwice, Q!Disjoint
        <5> QED BY <3>2, <4>1, <5>1, <5>2, <5>3
      <4>2. CASE q # e
        <5>1. Q!Items(sending'[q]) = Q!Items(sending[q]) BY <3>2, <4>2
        <5>2. Q!Disjoint(Q!Items(sending[q]), Q!Items(in) \cup {e} \cup Q!Items(handling) \cup Q!Items(handled))
          BY <3>4 DEF Q!NoneLostNoneTwice, Q!Disjoint
        <5>3. Q!Disjoint(Q!Items(sending'[q]), Q!Items(sending'[e]))
          BY <2>2, <3>2, <5>1, <5>2 DEF Q!Disjoint
        <5>4. \A r \in Q!Senders \ {q, e} : Q!Disjoint(Q!Items(sending'[q]), Q!Items(sending'[r]))
          BY <3>2, <5>1 DEF Q!NoneLostNoneTwice
        <5> QED BY <5>1, <5>2, <5>3, <5>4 DEF Q!Disjoint
      <4> QED BY <4>1, <4>2
    <3> QED BY <2>1, <2>4, <3>3, <3>5, <3>6, ItemsEmpty DEF Q!NoneLostNoneTwice, Q!Disjoint
  <2> QED BY <1>1, <2>3, <2>4 DEF Q!Enqueue
<1>2. CASE Q!TimeoutTick
  <2>1. /\ Ticker \in Q!Senders /\ Q!Items(sending[Ticker]) = {}
        /\ in' = <<>> /\ enqueued' = enqueued /\ handling' = handling /\ handled' = handled
    BY <1>2, ItemsEmpty DEF Q!TimeoutTick, Q!Senders
  <2>2. sending'[Ticker] = in /\ \A q \in Q!Senders \ {Ticker} : sending'[q] = sending[q]
    BY <1>2, <2>1 DEF Q!TypeOK, Q!TimeoutTick
  <2>3. Q!Waiting' = Q!Waiting
    BY <2>1, <2>2, ItemsEmpty DEF Q!Waiting, Q!OnTheWay
  <2> QED BY <2>1, <2>2, <2>3, ItemsEmpty DEF Q!NoneLostNoneTwice, Q!Disjoint
<1>3. ASSUME NEW p \in Q!Senders, Q!Receive(p) PROVE Q!NoneLostNoneTwice'
  <2>1. /\ Q!Items(handling) = {} /\ handling' = sending[p]
        /\ in' = in /\ enqueued' = enqueued /\ handled' = handled
    BY <1>3, ItemsEmpty DEF Q!Receive
  <2>2. sending'[p] = <<>> /\ \A q \in Q!Senders \ {p} : sending'[q] = sending[q]
    BY <1>3 DEF Q!TypeOK, Q!Receive
  <2>3. Q!Waiting' = Q!Waiting
    BY <2>1, <2>2, ItemsEmpty DEF Q!Waiting, Q!OnTheWay
  <2> QED BY <2>1, <2>2, <2>3, ItemsEmpty DEF Q!NoneLostNoneTwice, Q!Disjoint
<1>4. CASE Q!Handle
  <2>1. /\ handling' = <<>> /\ handled' = handled \o handling
        /\ in' = in /\ enqueued' = enqueued /\ sending' = sending
    BY <1>4 DEF Q!Handle
  <2>2. Q!Items(handled') = Q!Items(handled) \cup Q!Items(handling) /\ Q!Injective(handled')
    BY <2>1, ItemsConcat, SMTT(30) DEF Q!TypeOK, Q!NoneLostNoneTwice
  <2>3. Q!Waiting' \cup Q!Items(handled') = Q!Waiting \cup Q!Items(handled)
    BY <2>1, <2>2, ItemsEmpty DEF Q!Waiting, Q!OnTheWay
  <2> QED BY <2>1, <2>2, <2>3, ItemsEmpty DEF Q!NoneLostNoneTwice, Q!Disjoint
<1>5. CASE UNCHANGED Q!vars
  BY <1>5 DEF Q!vars, Q!NoneLostNoneTwice, Q!Waiting, Q!OnTheWay
<1> QED BY <1>1, <1>2, <1>3, <1>4, <1>5 DEF Q!Next

\* No step lets q.in reach the batch size or a batch exceed it.
LEMMA BoundStep == Q!TypeOK /\ Q!BatchesBounded /\ [Q!Next]_(Q!vars) => Q!BatchesBounded'
<1> SUFFICES ASSUME Q!TypeOK, Q!BatchesBounded, [Q!Next]_(Q!vars), BatchSize > 0
             PROVE  /\ Len(in') < BatchSize
                    /\ Len(handling') <= BatchSize
                    /\ \A p \in Q!Senders : Len(sending'[p]) <= BatchSize
  BY DEF Q!BatchesBounded
<1> USE QueueAssumption DEF Q!TypeOK, Q!BatchesBounded
<1>1. ASSUME NEW e \in Elements, Q!Enqueue(e) PROVE Q!BatchesBounded'
  <2>1. Len(Append(in, e)) = Len(in) + 1 /\ Len(in) \in Nat /\ e \in Q!Senders
    BY SMTT(30) DEF Q!Senders
  <2>2. CASE in' = <<>> /\ Len(Append(in, e)) = BatchSize /\ sending' = [sending EXCEPT ![e] = Append(in, e)]
    <3>1. \A p \in Q!Senders : Len(sending'[p]) <= BatchSize
      BY <2>1, <2>2, SMTT(30)
    <3> QED BY <1>1, <2>2, <3>1 DEF Q!Enqueue
  <2>3. CASE in' = Append(in, e) /\ Len(Append(in, e)) # BatchSize /\ sending' = sending
    BY <1>1, <2>1, <2>3, SMTT(30) DEF Q!Enqueue
  <2> QED BY <1>1, <2>2, <2>3 DEF Q!Enqueue
<1>2. CASE Q!TimeoutTick BY <1>2, SMTT(30) DEF Q!TimeoutTick
<1>3. ASSUME NEW p \in Q!Senders, Q!Receive(p) PROVE Q!BatchesBounded' BY <1>3 DEF Q!Receive
<1>4. CASE Q!Handle BY <1>4, SMTT(30) DEF Q!Handle
<1>5. CASE UNCHANGED Q!vars BY <1>5 DEF Q!vars
<1> QED BY <1>1, <1>2, <1>3, <1>4, <1>5 DEF Q!Next

\* The inductive invariant holds in every reachable state.
THEOREM QueueInductive == Q!Spec => []QueueInv
<1>1. QueueInv /\ [Q!Next]_(Q!vars) => QueueInv'
  BY QueueTypeStep, NotYetSendingStep, ConservationStep, BoundStep DEF QueueInv
<1> QED BY QueueStarts, <1>1, PTL DEF Q!Spec

\* Enqueue, the ticker and the consumer keep the state well typed.
THEOREM QueueTyped == Q!Spec => []Q!TypeOK
BY QueueInductive, PTL DEF QueueInv

\* However Enqueue, the ticker and the consumer interleave, each enqueued element
\* is in exactly one place and there exactly once.
THEOREM Conservation == Q!Spec => []Q!NoneLostNoneTwice
BY QueueInductive, PTL DEF QueueInv

\* No batch that Enqueue or the ticker emits is larger than the batch size.
THEOREM Bounded == Q!Spec => []Q!BatchesBounded
BY QueueInductive, PTL DEF QueueInv

-----------------------------------------------------------------------------
\* The refinement: taking an element is a Take, handling a batch a HandleGroup, and
\* moving a batch from q.in to a sender, or from there to the consumer, a stutter.
THEOREM Refinement == Q!Spec => ImplementsSink
<1>1. Q!Init => Q!Sink!Init
  BY ItemsEmpty DEF Q!Init, Q!Sink!Init, Q!Waiting, Q!OnTheWay
<1>2. QueueInv /\ [Q!Next]_(Q!vars) => [Q!Sink!Next]_(Q!Sink!vars)
  <2> SUFFICES ASSUME QueueInv, [Q!Next]_(Q!vars) PROVE Q!Sink!Next \/ UNCHANGED <<Q!Waiting, Q!Items(handled)>>
    BY DEF Q!Sink!vars
  <2> USE DEF QueueInv
  <2>1. ASSUME NEW e \in Elements, Q!Enqueue(e) PROVE Q!Sink!Take(e)
    <3>1. e \notin enqueued /\ handling' = handling /\ handled' = handled
      BY <2>1 DEF Q!Enqueue
    <3>2. Q!Items(Append(in, e)) = Q!Items(in) \cup {e}
      BY ItemsAppend, SMTT(30) DEF Q!TypeOK
    <3>3. CASE in' = Append(in, e) /\ sending' = sending
      BY <3>1, <3>2, <3>3 DEF Q!Sink!Take, Q!NoneLostNoneTwice, Q!Waiting, Q!OnTheWay
    <3>4. CASE in' = <<>> /\ sending' = [sending EXCEPT ![e] = Append(in, e)]
      <4>1. e \in Q!Senders /\ Q!Items(sending[e]) = {}
        BY <3>1, ItemsEmpty DEF NotYetSending, Q!Senders
      <4>2. sending'[e] = Append(in, e) /\ \A q \in Q!Senders \ {e} : sending'[q] = sending[q]
        BY <3>4, <4>1 DEF Q!TypeOK
      <4>3. Q!OnTheWay' = Q!OnTheWay \cup Q!Items(in) \cup {e}
        BY <3>2, <4>1, <4>2 DEF Q!OnTheWay
      <4>4. Q!Waiting' = Q!Waiting \cup {e}
        BY <3>1, <3>4, <4>3, ItemsEmpty DEF Q!Waiting
      <4> QED BY <4>4, <3>1, <4>3 DEF Q!Sink!Take, Q!NoneLostNoneTwice
    <3> QED BY <2>1, <3>3, <3>4 DEF Q!Enqueue
  <2>2. CASE Q!TimeoutTick
    <3>1. Ticker \in Q!Senders /\ Q!Items(sending[Ticker]) = {} /\ in' = <<>> /\ handling' = handling /\ handled' = handled
      BY <2>2, ItemsEmpty DEF Q!TimeoutTick, Q!Senders
    <3>2. sending'[Ticker] = in /\ \A q \in Q!Senders \ {Ticker} : sending'[q] = sending[q]
      BY <2>2, <3>1 DEF Q!TypeOK, Q!TimeoutTick
    <3> QED BY <3>1, <3>2, ItemsEmpty DEF Q!Waiting, Q!OnTheWay
  <2>3. ASSUME NEW p \in Q!Senders, Q!Receive(p) PROVE UNCHANGED <<Q!Waiting, Q!Items(handled)>>
    <3>1. Q!Items(handling) = {} /\ handling' = sending[p] /\ in' = in /\ handled' = handled
      BY <2>3, ItemsEmpty DEF Q!Receive
    <3>2. sending'[p] = <<>> /\ \A q \in Q!Senders \ {p} : sending'[q] = sending[q]
      BY <2>3 DEF Q!TypeOK, Q!Receive
    <3> QED BY <3>1, <3>2, ItemsEmpty DEF Q!Waiting, Q!OnTheWay
  <2>4. CASE Q!Handle
    <3>1. handling # <<>> /\ handling' = <<>> /\ handled' = handled \o handling /\ in' = in /\ sending' = sending
      BY <2>4 DEF Q!Handle
    <3>2. Q!Items(handled') = Q!Items(handled) \cup Q!Items(handling)
      BY <3>1, ItemsConcat, SMTT(30) DEF Q!TypeOK
    <3>3. Q!Disjoint(Q!Items(in) \cup Q!OnTheWay, Q!Items(handling))
      BY DEF Q!NoneLostNoneTwice, Q!OnTheWay, Q!Disjoint
    <3>4. Q!Waiting' = Q!Waiting \ Q!Items(handling)
      BY <3>1, <3>3, ItemsEmpty DEF Q!Waiting, Q!OnTheWay, Q!Disjoint
    <3>5. Q!Items(handling) # {}
      <4>1. Len(handling) \in Nat \ {0} BY <3>1, SMTT(30) DEF Q!TypeOK
      <4>2. handling[1] \in Q!Items(handling) BY <4>1, SMTT(30) DEF Q!Items
      <4> QED BY <4>2
    <3>6. Q!Items(handling) \in SUBSET Q!Waiting BY DEF Q!Waiting
    <3> QED BY <3>2, <3>4, <3>5, <3>6 DEF Q!Sink!Next, Q!Sink!HandleGroup
  <2>5. CASE UNCHANGED Q!vars BY <2>5 DEF Q!vars, Q!Waiting, Q!OnTheWay
  <2> QED BY <2>1, <2>2, <2>3, <2>4, <2>5 DEF Q!Next, Q!Sink!Next
<1> QED BY <1>1, <1>2, QueueInductive, PTL DEF Q!Spec, ImplementsSink, Q!ImplementsSink, Q!Sink!Spec
==============================================================================
