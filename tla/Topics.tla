-------------------------------- MODULE Topics --------------------------------
(***************************************************************************)
(* The topics of the server and who is subscribed to them: server/topic.go,*)
(* s.topics in server/server.go, the subscribe handlers (HTTP stream and   *)
(* WebSocket), the fan-out of a published message and the manager's        *)
(* removal of stale topics.                                                *)
(*                                                                         *)
(* A topic is a Go object: a handler that looked it up keeps the pointer   *)
(* even if the manager removes the topic from s.topics and a later request *)
(* creates another object for the same ID.  s.mu guards s.topics; t.mu     *)
(* guards each topic and is held for one step at a time.  Access control   *)
(* is off (userManager is nil), so authorizeTopic passes everyone on.      *)
(***************************************************************************)
EXTENDS Integers, Sequences, FiniteSets

CONSTANTS TopicIDs,              \* the names of topics
          UnifiedPush,           \* those that start with "up" and have its length
          Objects,               \* the topic objects that can be allocated (a bound)
          Handlers,              \* subscribe requests, each with its goroutine
          Publishers,            \* publish requests, each with its message
          Visitors,
          VisitorOf,             \* the visitor behind each subscribe request
          UserOf,                \* v.MaybeUserID() of that visitor
          TopicsOf,              \* the topic IDs in its path, in their order
          TopicOf,               \* the topic ID in a publish request's path
          Cancelers,             \* users for whom subscribers get canceled
          Manager, None,
          TotalTopicLimit, SubscriptionLimit,
          RateLimiting,          \* config.VisitorSubscriberRateLimiting
          ExpungeAfter,          \* topicExpungeAfter
          VisitorExpungeAfter,   \* visitorExpungeAfter
          MaxTime                \* a bound on the clock

ASSUME TopicsAssumption ==
  /\ UnifiedPush \subseteq TopicIDs
  /\ VisitorOf \in [Handlers -> Visitors]
  /\ TopicsOf \in [Handlers -> Seq(TopicIDs) \ {<<>>}]
  /\ TopicOf \in [Publishers -> TopicIDs]
  /\ TotalTopicLimit \in Nat /\ SubscriptionLimit \in Nat
  /\ RateLimiting \in BOOLEAN
  /\ ExpungeAfter \in Nat /\ VisitorExpungeAfter \in Nat /\ MaxTime \in Nat
  /\ None \notin Objects \cup TopicIDs \cup Visitors \cup Handlers \cup {Manager}
  /\ Manager \notin Handlers

VARIABLES now,
          topics,        \* s.topics: the object registered for an ID, or None
          idOf,          \* t.ID of an allocated object, None before
          lastAccess,    \* t.lastAccess
          rateVisitor,   \* t.rateVisitor, or None
          subscribers,   \* t.subscribers: a set of pairs (handler, index in its topics)
          smu,           \* who holds s.mu across several steps, or None
          deleting,      \* the ID whose topic the manager has found stale, or None
          seen,          \* v.seen
          active,        \* v.subscriptionLimiter: subscriptions in progress
          pc,            \* where each subscribe handler is
          objs,          \* the topics it has resolved
          subscribed,    \* the indexes of objs it is subscribed with
          canceled,      \* its cancel function was called
          canceling,     \* the topics on which subscribers are about to be canceled
          cancelUser,    \* of which user: <<"except", user>> or <<"first", user>>
          ppc,           \* where each publisher is
          pobj,          \* the topic it resolved
          targets,       \* subscribers its fan-out still has to call
          received,      \* the triples (publisher, handler, index) delivered
          strayed        \* history: (handler, index) of topics found stale before Subscribe

registry == <<topics, idOf>>
handler == <<pc, objs, subscribed>>
cancellation == <<canceling, cancelUser>>
publisher == <<ppc, pobj, targets>>
vars == <<now, topics, idOf, lastAccess, rateVisitor, subscribers, smu, deleting, seen,
          active, pc, objs, subscribed, canceled, canceling, cancelUser, ppc, pobj, targets, received, strayed>>

Registered == {id \in TopicIDs : topics[id] # None}

Init ==
  /\ now = 0
  /\ topics = [id \in TopicIDs |-> None]
  /\ idOf = [o \in Objects |-> None]
  /\ lastAccess = [o \in Objects |-> 0]
  /\ rateVisitor = [o \in Objects |-> None]
  /\ subscribers = [o \in Objects |-> {}]
  /\ smu = None /\ deleting = None
  /\ seen = [v \in Visitors |-> 0]
  /\ active = [v \in Visitors |-> 0]
  /\ pc = [h \in Handlers |-> "idle"]
  /\ objs = [h \in Handlers |-> <<>>]
  /\ subscribed = [h \in Handlers |-> {}]
  /\ canceled = [h \in Handlers |-> FALSE]
  /\ canceling = {} /\ cancelUser = <<>>
  /\ ppc = [p \in Publishers |-> "idle"]
  /\ pobj = [p \in Publishers |-> None]
  /\ targets = [p \in Publishers |-> {}]
  /\ received = {} /\ strayed = {}

-----------------------------------------------------------------------------
(* topic.go and visitor.go *)

VisitorStale(v) == now - seen[v] > VisitorExpungeAfter

\* Mutant: a topic that has subscribers may be stale.
StaleIfQuiet(o) ==
  /\ rateVisitor[o] # None => VisitorStale(rateVisitor[o])
  /\ now - lastAccess[o] > ExpungeAfter

Stale(o) ==
  /\ rateVisitor[o] # None => VisitorStale(rateVisitor[o])
  /\ subscribers[o] = {}
  /\ now - lastAccess[o] > ExpungeAfter

\* topicsFromIDs for one ID: the registered topic, or a new one.
Lookup(id, o) ==
  \/ /\ topics[id] = o
     /\ UNCHANGED <<topics, idOf, lastAccess>>
  \/ /\ topics[id] = None
     /\ Cardinality(Registered) < TotalTopicLimit
     /\ idOf[o] = None
     /\ topics' = [topics EXCEPT ![id] = o]
     /\ idOf' = [idOf EXCEPT ![o] = id]
     /\ lastAccess' = [lastAccess EXCEPT ![o] = now]

\* ... or errHTTPTooManyRequestsLimitTotalTopics.
LookupRefused(id) == topics[id] = None /\ Cardinality(Registered) >= TotalTopicLimit

-----------------------------------------------------------------------------
(* handleSubscribeHTTP and handleSubscribeWS *)

\* visitor() notes that the visitor was seen; then SubscriptionAllowed.
AllowSubscription(h) ==
  LET v == VisitorOf[h] IN
  /\ pc[h] = "idle"
  /\ smu = None
  /\ seen' = [seen EXCEPT ![v] = now]
  /\ \/ /\ active[v] < SubscriptionLimit
        /\ active' = [active EXCEPT ![v] = @ + 1]
        /\ pc' = [pc EXCEPT ![h] = "allowed"]
     \/ /\ active[v] >= SubscriptionLimit
        /\ pc' = [pc EXCEPT ![h] = "closed"]
        /\ UNCHANGED active
  /\ UNCHANGED <<now, registry, lastAccess, rateVisitor, subscribers, smu, deleting, objs,
                 subscribed, canceled, cancellation, publisher, received, strayed>>

\* topicsFromIDs: s.mu is held until every topic is there, or one is refused.
\* The topics created before that one stay.
ResolveNext(h) ==
  LET k == Len(objs[h]) + 1 IN
  /\ pc[h] = "allowed"
  /\ smu = None \/ smu = h
  /\ \/ /\ k <= Len(TopicsOf[h])
        /\ \E o \in Objects : Lookup(TopicsOf[h][k], o) /\ objs' = [objs EXCEPT ![h] = Append(@, o)]
        /\ smu' = h
        /\ UNCHANGED pc
     \/ /\ k <= Len(TopicsOf[h])
        /\ LookupRefused(TopicsOf[h][k])
        /\ smu' = None
        /\ pc' = [pc EXCEPT ![h] = "closing"]
        /\ UNCHANGED <<registry, lastAccess, objs>>
     \/ /\ k > Len(TopicsOf[h])
        /\ smu' = None
        /\ pc' = [pc EXCEPT ![h] = "resolved"]
        /\ UNCHANGED <<registry, lastAccess, objs>>
  /\ UNCHANGED <<now, rateVisitor, subscribers, deleting, seen, active, subscribed, canceled, cancellation,
                 publisher, received, strayed>>

\* maybeSetRateVisitors.
SetRateVisitors(h) ==
  LET eligible == {objs[h][i] : i \in {j \in 1..Len(objs[h]) :
                                         RateLimiting /\ idOf[objs[h][j]] \in UnifiedPush}} IN
  /\ pc[h] = "resolved"
  /\ rateVisitor' = [o \in Objects |-> IF o \in eligible THEN VisitorOf[h] ELSE rateVisitor[o]]
  /\ lastAccess' = [o \in Objects |-> IF o \in eligible THEN now ELSE lastAccess[o]]
  /\ pc' = [pc EXCEPT ![h] = "subscribing"]
  /\ UNCHANGED <<now, registry, subscribers, smu, deleting, seen, active, objs, subscribed,
                 canceled, cancellation, publisher, received, strayed>>

Touch(S) == [o \in Objects |-> IF o \in S THEN now ELSE lastAccess[o]]

\* poll=1: keep the topics alive, send what is cached and return.
Poll(h) ==
  /\ pc[h] = "subscribing" /\ subscribed[h] = {}
  /\ lastAccess' = Touch({objs[h][i] : i \in 1..Len(objs[h])})
  /\ pc' = [pc EXCEPT ![h] = "closing"]
  /\ UNCHANGED <<now, registry, rateVisitor, subscribers, smu, deleting, seen, active, objs,
                 subscribed, canceled, cancellation, publisher, received, strayed>>

\* t.Subscribe, topic by topic; after the last one the handler streams.
Subscribe(h, i) ==
  /\ pc[h] = "subscribing"
  /\ subscribed[h] = 1..(i - 1)
  /\ subscribers' = [subscribers EXCEPT ![objs[h][i]] = @ \cup {<<h, i>>}]
  /\ lastAccess' = [lastAccess EXCEPT ![objs[h][i]] = now]
  /\ subscribed' = [subscribed EXCEPT ![h] = @ \cup {i}]
  /\ pc' = [pc EXCEPT ![h] = IF i = Len(objs[h]) THEN "streaming" ELSE @]
  /\ UNCHANGED <<now, registry, rateVisitor, smu, deleting, seen, active, objs, canceled, cancellation,
                 publisher, received, strayed>>

\* The keepalive branch of the streaming loop.
HandlerKeepalive(h) ==
  /\ pc[h] = "streaming"
  /\ seen' = [seen EXCEPT ![VisitorOf[h]] = now]
  /\ lastAccess' = Touch({objs[h][i] : i \in 1..Len(objs[h])})
  /\ UNCHANGED <<now, registry, rateVisitor, subscribers, smu, deleting, active, handler,
                 canceled, cancellation, publisher, received, strayed>>

\* Mutant: the loop does not look at the canceled context.
EndStreamDeaf(h) ==
  /\ pc[h] = "streaming" /\ ~ canceled[h]
  /\ pc' = [pc EXCEPT ![h] = "closing"]
  /\ UNCHANGED <<now, registry, lastAccess, rateVisitor, subscribers, smu, deleting, seen,
                 active, objs, subscribed, canceled, cancellation, publisher, received, strayed>>

\* The stream ends: a failed write, r.Context().Done(), or cancel() was called.
EndStream(h) ==
  /\ pc[h] = "streaming"
  /\ pc' = [pc EXCEPT ![h] = "closing"]
  /\ UNCHANGED <<now, registry, lastAccess, rateVisitor, subscribers, smu, deleting, seen,
                 active, objs, subscribed, canceled, cancellation, publisher, received, strayed>>

\* The deferred Unsubscribe calls, in the order of the topics.
Unsubscribe(h, i) ==
  /\ pc[h] = "closing"
  /\ i \in subscribed[h] /\ \A j \in subscribed[h] : i <= j
  /\ subscribers' = [subscribers EXCEPT ![objs[h][i]] = @ \ {<<h, i>>}]
  /\ subscribed' = [subscribed EXCEPT ![h] = @ \ {i}]
  /\ UNCHANGED <<now, registry, lastAccess, rateVisitor, smu, deleting, seen, active, pc, objs,
                 canceled, cancellation, publisher, received, strayed>>

\* The deferred RemoveSubscription.
RemoveSubscription(h) ==
  /\ pc[h] = "closing" /\ subscribed[h] = {}
  /\ active' = [active EXCEPT ![VisitorOf[h]] = @ - 1]
  /\ pc' = [pc EXCEPT ![h] = "closed"]
  /\ UNCHANGED <<now, registry, lastAccess, rateVisitor, subscribers, smu, deleting, seen, objs,
                 subscribed, canceled, cancellation, publisher, received, strayed>>

-----------------------------------------------------------------------------
(* limitRequestsWithTopic, handlePublishInternal and topic.Publish *)

\* RateVisitor() forgets a rate visitor that has become stale.
CurrentRateVisitor(o) ==
  IF rateVisitor[o] # None /\ VisitorStale(rateVisitor[o]) THEN None ELSE rateVisitor[o]

\* topicFromPath; t.RateVisitor() picks who is charged for the request.
PublishResolve(p) ==
  /\ ppc[p] = "idle"
  /\ smu = None
  /\ \/ \E o \in Objects :
          /\ Lookup(TopicOf[p], o)
          /\ pobj' = [pobj EXCEPT ![p] = o]
          /\ rateVisitor' = [rateVisitor EXCEPT ![o] = CurrentRateVisitor(o)]
          /\ ppc' = [ppc EXCEPT ![p] = "resolved"]
     \/ /\ LookupRefused(TopicOf[p])
        /\ ppc' = [ppc EXCEPT ![p] = "refused"]
        /\ UNCHANGED <<registry, lastAccess, rateVisitor, pobj>>
  /\ UNCHANGED <<now, subscribers, smu, deleting, seen, active, handler, canceled, cancellation, targets, received, strayed>>

\* A UnifiedPush topic without a rate visitor is refused with a 507; any other
\* limit may refuse the message too.  Otherwise t.Publish starts the goroutine
\* that does the fan-out.
Publish(p) ==
  LET o == pobj[p] IN
  /\ ppc[p] = "resolved"
  /\ rateVisitor' = [rateVisitor EXCEPT ![o] =
       IF RateLimiting /\ TopicOf[p] \in UnifiedPush THEN CurrentRateVisitor(o) ELSE @]
  /\ \/ ppc' = [ppc EXCEPT ![p] = "refused"]
     \/ /\ ~ (RateLimiting /\ TopicOf[p] \in UnifiedPush /\ CurrentRateVisitor(o) = None)
        /\ ppc' = [ppc EXCEPT ![p] = "published"]
  /\ UNCHANGED <<now, registry, lastAccess, subscribers, smu, deleting, seen, active, handler,
                 canceled, cancellation, pobj, targets, received, strayed>>

\* Mutant: only one of the subscribers is called.
FanOutOne(p) ==
  /\ ppc[p] = "published"
  /\ \E s \in subscribers[pobj[p]] : targets' = [targets EXCEPT ![p] = {s}]
  /\ ppc' = [ppc EXCEPT ![p] = "copied"]
  /\ UNCHANGED <<now, registry, lastAccess, rateVisitor, subscribers, smu, deleting, seen, active,
                 handler, canceled, cancellation, pobj, received, strayed>>

\* subscribersCopy; one goroutine per subscriber is started from it.
FanOut(p) ==
  /\ ppc[p] = "published"
  /\ targets' = [targets EXCEPT ![p] = subscribers[pobj[p]]]
  /\ ppc' = [ppc EXCEPT ![p] = "copied"]
  /\ UNCHANGED <<now, registry, lastAccess, rateVisitor, subscribers, smu, deleting, seen, active,
                 handler, canceled, cancellation, pobj, received, strayed>>

\* The goroutine of one subscriber calls its function: the message is written
\* while the handler has not returned, and lost after that.
Forward(p, s) ==
  /\ s \in targets[p]
  /\ targets' = [targets EXCEPT ![p] = @ \ {s}]
  /\ received' = IF pc[s[1]] = "closed" THEN received ELSE received \cup {<<p, s[1], s[2]>>}
  /\ UNCHANGED <<now, registry, lastAccess, rateVisitor, subscribers, smu, deleting, seen, active,
                 handler, canceled, cancellation, ppc, pobj, strayed>>

\* t.Keepalive() at the end of Publish's goroutine.
PublishKeepalive(p) ==
  /\ ppc[p] = "copied"
  /\ lastAccess' = [lastAccess EXCEPT ![pobj[p]] = now]
  /\ ppc' = [ppc EXCEPT ![p] = "done"]
  /\ UNCHANGED <<now, registry, rateVisitor, subscribers, smu, deleting, seen, active, handler,
                 canceled, cancellation, pobj, targets, received, strayed>>

-----------------------------------------------------------------------------
(* execManager, and the two ways to cancel subscribers *)

\* The handlers between looking up a topic and subscribing to it.
Between(o) ==
  LET looked == {h \in Handlers : pc[h] \in {"allowed", "resolved", "subscribing"}}
      ahead(h) == {i \in 1..Len(objs[h]) : i \notin subscribed[h] /\ objs[h][i] = o}
  IN UNION {{<<h, i>> : i \in ahead(h)} : h \in looked}

\* t.Stale() takes and releases t.mu; s.mu stays locked until the topic is deleted.
FindStale(id) ==
  /\ smu = None
  /\ topics[id] # None /\ Stale(topics[id])
  /\ smu' = Manager /\ deleting' = id
  /\ strayed' = strayed \cup Between(topics[id])
  /\ UNCHANGED <<now, registry, lastAccess, rateVisitor, subscribers, seen, active, handler,
                 canceled, cancellation, publisher, received>>

DeleteStale ==
  /\ smu = Manager
  /\ topics' = [topics EXCEPT ![deleting] = None]
  /\ smu' = None /\ deleting' = None
  /\ UNCHANGED <<now, idOf, lastAccess, rateVisitor, subscribers, seen, active, handler, canceled, cancellation,
                 publisher, received, strayed>>

\* A reservation of id by user u (handleAccountReservationAdd): topicFromID, after
\* which CancelSubscribersExceptUser locks the topic on its own.
BeginReserve(id, u) ==
  /\ smu = None /\ canceling = {}
  /\ \E o \in Objects : Lookup(id, o) /\ canceling' = {o}
  /\ cancelUser' = <<"except", u>>
  /\ UNCHANGED <<now, rateVisitor, subscribers, smu, deleting, seen, active, handler, canceled,
                 publisher, received, strayed>>

\* killUserSubscriber: topicsFromPattern, then CancelSubscriberUser on each topic.
BeginKill(ids, u) ==
  /\ smu = None /\ canceling = {}
  /\ canceling' = {topics[id] : id \in ids \cap Registered}
  /\ cancelUser' = IF canceling' = {} THEN <<>> ELSE <<"first", u>>
  /\ UNCHANGED <<now, registry, lastAccess, rateVisitor, subscribers, smu, deleting, seen, active,
                 handler, canceled, publisher, received, strayed>>

\* CancelSubscribersExceptUser cancels everyone else; CancelSubscriberUser cancels
\* the first subscriber of the user that the iteration over the map meets.
CancelOn(o) ==
  LET on == {s[1] : s \in subscribers[o]}
      theirs == {h \in on : UserOf[h] = cancelUser[2]} IN
  /\ o \in canceling
  /\ canceling' = canceling \ {o}
  /\ cancelUser' = IF canceling' = {} THEN <<>> ELSE cancelUser
  /\ \/ /\ cancelUser[1] = "except"
        /\ canceled' = [h \in Handlers |-> canceled[h] \/ h \in on \ theirs]
     \/ /\ cancelUser[1] = "first" /\ theirs # {}
        /\ \E first \in theirs : canceled' = [canceled EXCEPT ![first] = TRUE]
     \/ /\ cancelUser[1] = "first" /\ theirs = {}
        /\ UNCHANGED canceled
  /\ UNCHANGED <<now, registry, lastAccess, rateVisitor, subscribers, smu, deleting, seen, active,
                 handler, publisher, received, strayed>>

\* Time passes.  A streaming handler sends keepalives far more often than the
\* periods compared here, so its visitor was seen before the clock moves.
Tick ==
  /\ now < MaxTime
  /\ \A h \in Handlers : pc[h] = "streaming" => seen[VisitorOf[h]] = now
  /\ now' = now + 1
  /\ UNCHANGED <<registry, lastAccess, rateVisitor, subscribers, smu, deleting, seen, active,
                 handler, canceled, cancellation, publisher, received, strayed>>

Next ==
  \/ \E h \in Handlers :
       \/ AllowSubscription(h) \/ ResolveNext(h) \/ SetRateVisitors(h) \/ Poll(h)
       \/ \E i \in 1..Len(TopicsOf[h]) : Subscribe(h, i) \/ Unsubscribe(h, i)
       \/ HandlerKeepalive(h) \/ EndStream(h) \/ RemoveSubscription(h)
  \/ \E p \in Publishers :
       \/ PublishResolve(p) \/ Publish(p) \/ FanOut(p) \/ PublishKeepalive(p)
       \/ \E s \in targets[p] : Forward(p, s)
  \/ \E id \in TopicIDs : FindStale(id)
  \/ DeleteStale
  \/ \E u \in Cancelers :
       \/ \E id \in TopicIDs : BeginReserve(id, u)
       \/ \E ids \in SUBSET TopicIDs : BeginKill(ids, u)
  \/ \E o \in canceling : CancelOn(o)
  \/ Tick

Spec == Init /\ [][Next]_vars

\* Every goroutine that can go on does: the fan-out, the handlers up to the
\* stream, and a handler whose cancel function was called.
FairSpec ==
  /\ Spec
  /\ \A p \in Publishers : WF_vars(FanOut(p)) /\ WF_vars(\E s \in targets[p] : Forward(p, s))
  /\ \A h \in Handlers :
       /\ WF_vars(canceled[h] /\ EndStream(h))
       /\ WF_vars(\E i \in 1..Len(TopicsOf[h]) : Unsubscribe(h, i))
       /\ WF_vars(RemoveSubscription(h))

-----------------------------------------------------------------------------
(* Properties *)

\* The subscriptions there can be: a handler and the position of a topic in its path.
Slots == {s \in Handlers \X Nat : s[2] \in 1..Len(TopicsOf[s[1]])}

Open == {"allowed", "resolved", "subscribing", "streaming", "closing"}

\* The types of the state.
TypeOK ==
  /\ now \in 0..MaxTime
  /\ topics \in [TopicIDs -> Objects \cup {None}]
  /\ idOf \in [Objects -> TopicIDs \cup {None}]
  /\ lastAccess \in [Objects -> 0..MaxTime]
  /\ rateVisitor \in [Objects -> Visitors \cup {None}]
  /\ subscribers \in [Objects -> SUBSET Slots]
  /\ smu \in Handlers \cup {Manager, None}
  /\ deleting \in TopicIDs \cup {None}
  /\ smu = Manager => deleting \in TopicIDs
  /\ seen \in [Visitors -> 0..MaxTime]
  /\ active \in [Visitors -> Int]
  /\ pc \in [Handlers -> Open \cup {"idle", "closed"}]
  /\ objs \in [Handlers -> Seq(Objects)]
  /\ subscribed \in [Handlers -> SUBSET Nat]
  /\ canceled \in [Handlers -> BOOLEAN]
  /\ canceling \subseteq Objects
  /\ ppc \in [Publishers -> {"idle", "resolved", "refused", "published", "copied", "done"}]
  /\ pobj \in [Publishers -> Objects \cup {None}]
  /\ \A p \in Publishers : ppc[p] \in {"resolved", "published", "copied"} => pobj[p] \in Objects
  /\ targets \in [Publishers -> SUBSET Slots]
  /\ received \subseteq Publishers \X Handlers \X Nat

\* A topic's subscribers are exactly the open handlers that subscribed to that
\* object: none stays behind when its handler has returned, whichever way it ended,
\* and none disappears while its handler streams.
SubscribersAreConnected ==
  /\ \A o \in Objects : \A h \in Handlers : \A i \in 1..Len(TopicsOf[h]) :
       <<h, i>> \in subscribers[o] <=> i \in subscribed[h] /\ objs[h][i] = o
  /\ \A h \in Handlers :
       /\ subscribed[h] \subseteq 1..Len(objs[h])
       /\ pc[h] \notin {"subscribing", "streaming", "closing"} => subscribed[h] = {}
       /\ pc[h] = "streaming" => subscribed[h] = 1..Len(TopicsOf[h])

\* Publishers find the topic object a handler is subscribed to, so that its stream goes on,
\* though the manager removes topics and requests make them anew; but for a handler that
\* had looked its topic up and was still to subscribe when the manager found it stale.
StreamsAreFound ==
  \A h \in Handlers : \A i \in subscribed[h] :
    topics[TopicsOf[h][i]] = objs[h][i] \/ <<h, i>> \in strayed

\* A message never reaches a subscriber of another topic, though handlers and
\* publishers keep topic objects that were removed from s.topics and recreated.
NoCrossTopicDelivery ==
  \A r \in received : TopicsOf[r[2]][r[3]] = TopicOf[r[1]]

\* The visitor's subscription counter is the number of its open requests (each
\* early return gives the slot back, exactly once), and it respects the limit.
SubscriptionsCounted ==
  \A v \in Visitors :
    /\ active[v] = Cardinality({h \in Handlers : VisitorOf[h] = v /\ pc[h] \in Open})
    /\ active[v] <= SubscriptionLimit

\* s.topics never holds more than TotalTopicLimit topics, whoever creates them.
TopicsBounded == Cardinality(Registered) <= TotalTopicLimit

\* A handler that streams on the topic object a message is published to gets the
\* message, unless its stream ends.
StreamingHandlersGetIt ==
  \A p \in Publishers : \A h \in Handlers : \A i \in 1..Len(TopicsOf[h]) :
    ppc[p] = "published" /\ pc[h] = "streaming" /\ objs[h][i] = pobj[p]
      ~> <<p, h, i>> \in received \/ pc[h] # "streaming"

\* A handler whose cancel function was called gives up its slot and its place among
\* the subscribers.
CanceledHandlersClose ==
  \A h \in Handlers : canceled[h] /\ pc[h] = "streaming" ~> pc[h] = "closed"
==============================================================================
