---------------------------- MODULE TopicsProofs ----------------------------
(***************************************************************************)
(* For any number of topics, handlers, publishers and visitors: the state  *)
(* of Topics is well typed, topic objects are never mixed up, and a topic's*)
(* subscribers are exactly its open subscriptions.  For any number of tabs,*)
(* topics and updates: the server pushes the topics the user wants.        *)
(***************************************************************************)
EXTENDS MCTopics, FiniteSetTheorems, TLAPS

\* Zenon proves what no other prover is named for.
USE ZenonT(30)

-----------------------------------------------------------------------------
(* Types *)

\* What topicsFromIDs leaves behind is well typed.
LEMMA LookupType ==
  ASSUME TypeOK, NEW id \in TopicIDs, NEW o \in Objects, Lookup(id, o)
  PROVE  /\ topics' \in [TopicIDs -> Objects \cup {None}]
         /\ idOf' \in [Objects -> TopicIDs \cup {None}]
         /\ lastAccess' \in [Objects -> 0..MaxTime]
BY DEF TypeOK, Lookup

\* The visitor that RateVisitor returns for a topic is a visitor, or there is none.
LEMMA CurrentRateVisitorType ==
  ASSUME TypeOK, NEW o \in Objects
  PROVE  CurrentRateVisitor(o) \in Visitors \cup {None}
BY DEF TypeOK, CurrentRateVisitor

\* Every step of a handler, a publisher, the manager or a canceling request keeps
\* the types.
LEMMA TypeStep == TypeOK /\ [Next]_vars => TypeOK'
<1> SUFFICES ASSUME TypeOK, [Next]_vars PROVE TypeOK'
  OBVIOUS
<1> USE TopicsAssumption
<1>1. ASSUME NEW h \in Handlers, AllowSubscription(h) PROVE TypeOK'
  <2>1. VisitorOf[h] \in Visitors OBVIOUS
  <2>2. active' \in [Visitors -> Int] /\ pc' \in [Handlers -> Open \cup {"idle", "closed"}]
    <3>1. CASE active' = active /\ pc' = [pc EXCEPT ![h] = "closed"]
      BY <3>1 DEF TypeOK
    <3>2. CASE active' = [active EXCEPT ![VisitorOf[h]] = @ + 1] /\ pc' = [pc EXCEPT ![h] = "allowed"]
      <4>1. active' \in [Visitors -> Int] BY <2>1, <3>2, SMTT(30) DEF TypeOK
      <4>2. pc' \in [Handlers -> Open \cup {"idle", "closed"}] BY <3>2 DEF TypeOK, Open
      <4> QED BY <4>1, <4>2
    <3> QED BY <1>1, <3>1, <3>2 DEF AllowSubscription
  <2>3. seen' \in [Visitors -> 0..MaxTime]
    BY <1>1, <2>1 DEF TypeOK, AllowSubscription
  <2> QED BY <1>1, <2>2, <2>3 DEF TypeOK, AllowSubscription, registry, publisher, cancellation
<1>2. ASSUME NEW h \in Handlers, ResolveNext(h) PROVE TypeOK'
  <2>1. /\ smu' \in Handlers \cup {Manager, None}
        /\ smu' # Manager
        /\ pc' \in [Handlers -> Open \cup {"idle", "closed"}]
    BY <1>2 DEF TypeOK, ResolveNext, Open
  <2>2. CASE UNCHANGED <<registry, lastAccess, objs>>
    BY <1>2, <2>1, <2>2 DEF TypeOK, ResolveNext, registry, publisher, cancellation
  <2>3. ASSUME NEW o \in Objects, NEW k \in 1..Len(TopicsOf[h]), Lookup(TopicsOf[h][k], o),
               objs' = [objs EXCEPT ![h] = Append(@, o)]
        PROVE  TypeOK'
    <3>1. TopicsOf[h][k] \in TopicIDs BY SMTT(30)
    <3>2. Append(objs[h], o) \in Seq(Objects) BY SMTT(30) DEF TypeOK
    <3>3. objs' \in [Handlers -> Seq(Objects)] BY <2>3, <3>2 DEF TypeOK
    <3> QED BY <1>2, <2>1, <2>3, <3>1, <3>3, LookupType DEF TypeOK, ResolveNext, publisher, cancellation
  <2>4. Len(objs[h]) + 1 \in Nat \ {0} BY SMTT(30) DEF TypeOK
  <2> QED BY <1>2, <2>2, <2>3, <2>4, SMTT(30) DEF ResolveNext
<1>3. ASSUME NEW h \in Handlers, SetRateVisitors(h) PROVE TypeOK'
  BY <1>3 DEF TypeOK, SetRateVisitors, registry, publisher, cancellation, Open
<1>4. ASSUME NEW h \in Handlers, Poll(h) PROVE TypeOK'
  BY <1>4 DEF TypeOK, Poll, Touch, registry, publisher, cancellation, Open
<1>5. ASSUME NEW h \in Handlers, NEW i \in 1..Len(TopicsOf[h]), Subscribe(h, i) PROVE TypeOK'
  <2>1. <<h, i>> \in Slots BY SMTT(30) DEF Slots
  <2>2. subscribers' \in [Objects -> SUBSET Slots] BY <1>5, <2>1 DEF TypeOK, Subscribe
  <2>3. lastAccess' \in [Objects -> 0..MaxTime] BY <1>5 DEF TypeOK, Subscribe
  <2>4. pc' \in [Handlers -> Open \cup {"idle", "closed"}] /\ subscribed' \in [Handlers -> SUBSET Nat]
    BY <1>5, SMTT(30) DEF TypeOK, Subscribe, Open
  <2> QED BY <1>5, <2>2, <2>3, <2>4 DEF TypeOK, Subscribe, registry, publisher, cancellation
<1>6. ASSUME NEW h \in Handlers, NEW i \in 1..Len(TopicsOf[h]), Unsubscribe(h, i) PROVE TypeOK'
  BY <1>6 DEF TypeOK, Unsubscribe, registry, publisher, cancellation, Open
<1>7. ASSUME NEW h \in Handlers, HandlerKeepalive(h) PROVE TypeOK'
  BY <1>7 DEF TypeOK, HandlerKeepalive, Touch, handler, registry, publisher, cancellation, Open
<1>8. ASSUME NEW h \in Handlers, EndStream(h) PROVE TypeOK'
  BY <1>8 DEF TypeOK, EndStream, registry, publisher, cancellation, Open
<1>9. ASSUME NEW h \in Handlers, RemoveSubscription(h) PROVE TypeOK'
  <2>1. VisitorOf[h] \in Visitors OBVIOUS
  <2>2. active' \in [Visitors -> Int] BY <1>9, <2>1, SMTT(30) DEF TypeOK, RemoveSubscription
  <2>3. pc' \in [Handlers -> Open \cup {"idle", "closed"}] BY <1>9 DEF TypeOK, RemoveSubscription
  <2> QED BY <1>9, <2>2, <2>3 DEF TypeOK, RemoveSubscription, registry, publisher, cancellation
<1>10. ASSUME NEW p \in Publishers, PublishResolve(p) PROVE TypeOK'
  <2>1. TopicOf[p] \in TopicIDs OBVIOUS
  <2>2. ASSUME NEW o \in Objects, Lookup(TopicOf[p], o), pobj' = [pobj EXCEPT ![p] = o],
               rateVisitor' = [rateVisitor EXCEPT ![o] = CurrentRateVisitor(o)],
               ppc' = [ppc EXCEPT ![p] = "resolved"]
        PROVE  TypeOK'
    <3>1. rateVisitor' \in [Objects -> Visitors \cup {None}]
      BY <2>2, CurrentRateVisitorType DEF TypeOK
    <3>2. pobj' \in [Publishers -> Objects \cup {None}] BY <2>2 DEF TypeOK
    <3>3. ppc' \in [Publishers -> {"idle", "resolved", "refused", "published", "copied", "done"}]
      BY <2>2 DEF TypeOK
    <3>4. \A q \in Publishers : ppc'[q] \in {"resolved", "published", "copied"} => pobj'[q] \in Objects
      BY <2>2 DEF TypeOK
    <3> QED BY <1>10, <2>1, <2>2, <3>1, <3>2, <3>3, <3>4, LookupType
            DEF TypeOK, PublishResolve, handler, cancellation
  <2>3. CASE UNCHANGED <<registry, lastAccess, rateVisitor, pobj>> /\ ppc' = [ppc EXCEPT ![p] = "refused"]
    BY <1>10, <2>3 DEF TypeOK, PublishResolve, handler, registry, cancellation
  <2> QED BY <1>10, <2>2, <2>3 DEF PublishResolve
<1>11. ASSUME NEW p \in Publishers, Publish(p) PROVE TypeOK'
  BY <1>11, CurrentRateVisitorType DEF TypeOK, Publish, handler, registry, cancellation
<1>12. ASSUME NEW p \in Publishers, FanOut(p) PROVE TypeOK'
  BY <1>12 DEF TypeOK, FanOut, handler, registry, cancellation
<1>13. ASSUME NEW p \in Publishers, NEW s \in targets[p], Forward(p, s) PROVE TypeOK'
  <2>1. s \in Handlers \X Nat BY DEF TypeOK, Slots
  <2>2. <<p, s[1], s[2]>> \in Publishers \X Handlers \X Nat BY <2>1
  <2>3. received' \subseteq Publishers \X Handlers \X Nat BY <1>13, <2>2 DEF TypeOK, Forward
  <2>4. targets' \in [Publishers -> SUBSET Slots] BY <1>13 DEF TypeOK, Forward
  <2> QED BY <1>13, <2>3, <2>4 DEF TypeOK, Forward, handler, registry, cancellation
<1>14. ASSUME NEW p \in Publishers, PublishKeepalive(p) PROVE TypeOK'
  BY <1>14 DEF TypeOK, PublishKeepalive, handler, registry, cancellation
<1>15. ASSUME NEW id \in TopicIDs, FindStale(id) PROVE TypeOK'
  BY <1>15 DEF TypeOK, FindStale, handler, registry, publisher, cancellation
<1>16. CASE DeleteStale
  BY <1>16 DEF TypeOK, DeleteStale, handler, publisher, cancellation
<1>17. ASSUME NEW id \in TopicIDs, NEW u, BeginReserve(id, u) PROVE TypeOK'
  BY <1>17, LookupType DEF TypeOK, BeginReserve, handler, publisher
<1>18. ASSUME NEW ids \in SUBSET TopicIDs, NEW u, BeginKill(ids, u) PROVE TypeOK'
  BY <1>18, SMTT(30) DEF TypeOK, BeginKill, Registered, handler, registry, publisher
<1>19. ASSUME NEW o \in canceling, CancelOn(o) PROVE TypeOK'
  <2>1. canceled' \in [Handlers -> BOOLEAN]
    <3>1. CASE canceled' = canceled BY <3>1 DEF TypeOK
    <3>2. ASSUME NEW first, canceled' = [canceled EXCEPT ![first] = TRUE] PROVE canceled' \in [Handlers -> BOOLEAN]
      BY <3>2 DEF TypeOK
    <3>3. ASSUME NEW S, canceled' = [h \in Handlers |-> canceled[h] \/ h \in S]
          PROVE  canceled' \in [Handlers -> BOOLEAN]
      <4>1. \A h \in Handlers : (canceled[h] \/ h \in S) \in BOOLEAN BY DEF TypeOK
      <4> QED BY <3>3, <4>1
    <3> QED BY <1>19, <3>1, <3>2, <3>3 DEF CancelOn
  <2> QED BY <1>19, <2>1 DEF TypeOK, CancelOn, handler, registry, publisher
<1>20. CASE Tick
  BY <1>20, SMTT(30) DEF TypeOK, Tick, handler, registry, publisher, cancellation
<1>21. CASE UNCHANGED vars
  BY <1>21 DEF TypeOK, vars
<1> QED BY <1>1, <1>2, <1>3, <1>4, <1>5, <1>6, <1>7, <1>8, <1>9, <1>10, <1>11, <1>12, <1>13, <1>14,
           <1>15, <1>16, <1>17, <1>18, <1>19, <1>20, <1>21 DEF Next

-----------------------------------------------------------------------------
(* Topic objects are never mixed up *)

\* A registered topic object carries the ID it is registered for.
RegistryOK == \A id \in TopicIDs : topics[id] # None => topics[id] \in Objects /\ idOf[topics[id]] = id

\* A handler holds the objects of the topics in its path, in their order.
HandlersOK ==
  \A h \in Handlers :
    /\ Len(objs[h]) <= Len(TopicsOf[h])
    /\ pc[h] \in {"resolved", "subscribing", "streaming"} => Len(objs[h]) = Len(TopicsOf[h])
    /\ \A i \in 1..Len(objs[h]) : idOf[objs[h][i]] = TopicsOf[h][i]

\* A publisher holds an object of its topic, and calls only subscribers of its topic.
PublishersOK ==
  \A p \in Publishers :
    /\ pobj[p] # None => idOf[pobj[p]] = TopicOf[p]
    /\ \A s \in targets[p] : TopicsOf[s[1]][s[2]] = TopicOf[p]

\* Once allocated, a topic object keeps its ID.
KeepsIDs == \A o \in Objects : idOf[o] # None => idOf'[o] = idOf[o]

\* topicsFromIDs returns an object with the ID asked for and registers it under it.
LEMMA LookupOK ==
  ASSUME TypeOK, RegistryOK, NEW id \in TopicIDs, NEW o \in Objects, Lookup(id, o)
  PROVE  RegistryOK' /\ KeepsIDs /\ idOf'[o] = id
<1>1. CASE topics[id] = o /\ UNCHANGED <<topics, idOf, lastAccess>>
  BY <1>1, TopicsAssumption DEF RegistryOK, KeepsIDs, TypeOK
<1>2. CASE /\ topics[id] = None /\ idOf[o] = None
           /\ topics' = [topics EXCEPT ![id] = o] /\ idOf' = [idOf EXCEPT ![o] = id]
  BY <1>2, TopicsAssumption, SMTT(30) DEF RegistryOK, KeepsIDs, TypeOK
<1> QED BY <1>1, <1>2 DEF Lookup

\* No step breaks the registry or renames an object.
LEMMA RegistryStep == TypeOK /\ RegistryOK /\ [Next]_vars => RegistryOK' /\ KeepsIDs
<1> SUFFICES ASSUME TypeOK, RegistryOK, [Next]_vars PROVE RegistryOK' /\ KeepsIDs
  OBVIOUS
<1> USE TopicsAssumption
<1>0. ASSUME UNCHANGED registry PROVE RegistryOK' /\ KeepsIDs
  BY <1>0 DEF RegistryOK, KeepsIDs, registry
<1>1. ASSUME NEW h \in Handlers, ResolveNext(h) PROVE RegistryOK' /\ KeepsIDs
  <2>1. ASSUME NEW k \in 1..Len(TopicsOf[h]) PROVE TopicsOf[h][k] \in TopicIDs BY SMTT(30)
  <2>2. Len(objs[h]) + 1 \in Nat \ {0}
    <3>1. objs[h] \in Seq(Objects) BY DEF TypeOK
    <3> QED BY <3>1, SMTT(30)
  <2> QED BY <1>0, <1>1, <2>1, <2>2, LookupOK, SMTT(30) DEF ResolveNext
<1>2. ASSUME NEW p \in Publishers, PublishResolve(p) PROVE RegistryOK' /\ KeepsIDs
  <2>1. TopicOf[p] \in TopicIDs OBVIOUS
  <2> QED BY <1>0, <1>2, <2>1, LookupOK DEF PublishResolve
<1>3. ASSUME NEW id \in TopicIDs, NEW u, BeginReserve(id, u) PROVE RegistryOK' /\ KeepsIDs
  BY <1>3, LookupOK DEF BeginReserve
<1>4. CASE DeleteStale
  BY <1>4, SMTT(30) DEF DeleteStale, RegistryOK, KeepsIDs, TypeOK
<1>5. CASE \E h \in Handlers :
             \/ AllowSubscription(h) \/ SetRateVisitors(h) \/ Poll(h)
             \/ \E i \in 1..Len(TopicsOf[h]) : Subscribe(h, i) \/ Unsubscribe(h, i)
             \/ HandlerKeepalive(h) \/ EndStream(h) \/ RemoveSubscription(h)
  BY <1>0, <1>5 DEF AllowSubscription, SetRateVisitors, Poll, Subscribe, Unsubscribe, HandlerKeepalive,
     EndStream, RemoveSubscription
<1>6. CASE \E p \in Publishers :
             \/ Publish(p) \/ FanOut(p) \/ PublishKeepalive(p)
             \/ \E s \in targets[p] : Forward(p, s)
  BY <1>0, <1>6 DEF Publish, FanOut, PublishKeepalive, Forward
<1>7. CASE \/ \E id \in TopicIDs : FindStale(id)
           \/ \E u \in Cancelers : \E ids \in SUBSET TopicIDs : BeginKill(ids, u)
           \/ \E o \in canceling : CancelOn(o)
           \/ Tick \/ UNCHANGED vars
  BY <1>0, <1>7 DEF FindStale, BeginKill, CancelOn, Tick, vars, registry
<1> QED BY <1>1, <1>2, <1>3, <1>4, <1>5, <1>6, <1>7 DEF Next

\* What handlers hold stays theirs: only ResolveNext adds to it.
LEMMA HandlersStep ==
  TypeOK /\ RegistryOK /\ HandlersOK /\ [Next]_vars => HandlersOK'
<1> SUFFICES ASSUME TypeOK, RegistryOK, HandlersOK, [Next]_vars PROVE HandlersOK'
  OBVIOUS
<1> USE TopicsAssumption
<1>a. KeepsIDs BY RegistryStep
<1>b. \A h \in Handlers : \A i \in 1..Len(objs[h]) : idOf'[objs[h][i]] = TopicsOf[h][i]
  <2> TAKE h \in Handlers
  <2> TAKE i \in 1..Len(objs[h])
  <2>1. objs[h] \in Seq(Objects) /\ TopicsOf[h] \in Seq(TopicIDs) BY DEF TypeOK
  <2>2. i \in 1..Len(TopicsOf[h]) BY <2>1, SMTT(30) DEF HandlersOK
  <2>3. objs[h][i] \in Objects /\ TopicsOf[h][i] \in TopicIDs BY <2>1, <2>2, SMTT(30)
  <2> QED BY <1>a, <2>3, SMTT(30) DEF HandlersOK, KeepsIDs
<1>0. ASSUME UNCHANGED objs,
             \A h \in Handlers : pc'[h] \in {"resolved", "subscribing", "streaming"} =>
                                   Len(objs[h]) = Len(TopicsOf[h])
      PROVE  HandlersOK'
  BY <1>0, <1>b DEF HandlersOK
<1>1. ASSUME NEW h \in Handlers, ResolveNext(h) PROVE HandlersOK'
  <2>1. objs[h] \in Seq(Objects) /\ Len(objs[h]) \in Nat /\ Len(TopicsOf[h]) \in Nat
    BY SMTT(30) DEF TypeOK
  <2>2. ASSUME NEW o \in Objects, Len(objs[h]) + 1 <= Len(TopicsOf[h]), UNCHANGED pc,
               Lookup(TopicsOf[h][Len(objs[h]) + 1], o), objs' = [objs EXCEPT ![h] = Append(@, o)],
               pc[h] = "allowed"
        PROVE  HandlersOK'
    <3>1. TopicsOf[h][Len(objs[h]) + 1] \in TopicIDs BY <2>1, <2>2, SMTT(30)
    <3>2. idOf'[o] = TopicsOf[h][Len(objs[h]) + 1] BY <2>2, <3>1, LookupOK
    <3>3. objs'[h] = Append(objs[h], o) /\ \A g \in Handlers \ {h} : objs'[g] = objs[g]
      BY <2>2 DEF TypeOK
    <3>4. Len(objs'[h]) = Len(objs[h]) + 1 BY <2>1, <3>3, SMTT(30)
    <3>5. \A i \in 1..Len(objs'[h]) : idOf'[objs'[h][i]] = TopicsOf[h][i]
      <4> TAKE i \in 1..Len(objs'[h])
      <4>1. CASE i \in 1..Len(objs[h]) BY <1>b, <2>1, <3>3, <4>1, SMTT(30)
      <4>2. CASE i = Len(objs[h]) + 1 BY <2>1, <3>2, <3>3, <4>2, SMTT(30)
      <4> QED BY <2>1, <3>4, <4>1, <4>2, SMTT(30)
    <3> QED BY <1>b, <2>2, <3>3, <3>4, <3>5, SMTT(30) DEF HandlersOK
  <2>3. CASE UNCHANGED objs /\ pc' = [pc EXCEPT ![h] = "closing"]
    <3>1. \A g \in Handlers : pc'[g] = pc[g] \/ pc'[g] = "closing" BY <2>3 DEF TypeOK
    <3> QED BY <1>0, <2>3, <3>1 DEF HandlersOK
  <2>4. CASE UNCHANGED objs /\ Len(objs[h]) + 1 > Len(TopicsOf[h]) /\ pc' = [pc EXCEPT ![h] = "resolved"]
    <3>1. \A g \in Handlers : pc'[g] = pc[g] \/ g = h BY <2>4 DEF TypeOK
    <3>2. Len(objs[h]) = Len(TopicsOf[h]) BY <2>1, <2>4, SMTT(30) DEF HandlersOK
    <3> QED BY <1>0, <2>4, <3>1, <3>2 DEF HandlersOK
  <2> QED BY <1>1, <2>2, <2>3, <2>4 DEF ResolveNext
<1>2. CASE \E h \in Handlers :
             \/ AllowSubscription(h) \/ SetRateVisitors(h) \/ Poll(h)
             \/ \E i \in 1..Len(TopicsOf[h]) : Subscribe(h, i) \/ Unsubscribe(h, i)
             \/ HandlerKeepalive(h) \/ EndStream(h) \/ RemoveSubscription(h)
  <2>1. UNCHANGED objs
    BY <1>2 DEF AllowSubscription, SetRateVisitors, Poll, Subscribe, Unsubscribe, HandlerKeepalive,
       EndStream, RemoveSubscription, handler
  <2>2. PICK h \in Handlers :
          \/ pc' = pc
          \/ \E c \in {"allowed", "closing", "closed"} : pc' = [pc EXCEPT ![h] = c]
          \/ pc[h] \in {"resolved", "subscribing"} /\ \E c \in {"subscribing", "streaming"} : pc' = [pc EXCEPT ![h] = c]
    <3>1. ASSUME NEW h \in Handlers, NEW i \in 1..Len(TopicsOf[h]), Subscribe(h, i)
          PROVE  pc[h] = "subscribing" /\ \E c \in {"subscribing", "streaming"} : pc' = [pc EXCEPT ![h] = c]
      <4>1. pc[h] = "subscribing" /\ pc' = [pc EXCEPT ![h] = IF i = Len(objs[h]) THEN "streaming" ELSE pc[h]]
        BY <3>1 DEF Subscribe
      <4> QED BY <4>1
    <3> QED BY <1>2, <3>1 DEF AllowSubscription, SetRateVisitors, Poll, Unsubscribe, HandlerKeepalive,
            EndStream, RemoveSubscription, handler
  <2>3. \A g \in Handlers : pc'[g] \in {"resolved", "subscribing", "streaming"} =>
                              pc[g] \in {"resolved", "subscribing", "streaming"}
    BY <2>2 DEF TypeOK
  <2> QED BY <1>0, <2>1, <2>3 DEF HandlersOK
<1>3. CASE \/ \E p \in Publishers :
                \/ PublishResolve(p) \/ Publish(p) \/ FanOut(p) \/ PublishKeepalive(p)
                \/ \E s \in targets[p] : Forward(p, s)
           \/ \E id \in TopicIDs : FindStale(id)
           \/ DeleteStale
           \/ \E u \in Cancelers :
                \/ \E id \in TopicIDs : BeginReserve(id, u)
                \/ \E ids \in SUBSET TopicIDs : BeginKill(ids, u)
           \/ \E o \in canceling : CancelOn(o)
           \/ Tick \/ UNCHANGED vars
  <2>1. UNCHANGED handler
    BY <1>3 DEF PublishResolve, Publish, FanOut, PublishKeepalive, Forward, FindStale, DeleteStale,
       BeginReserve, BeginKill, CancelOn, Tick, vars, handler
  <2> QED BY <1>0, <2>1 DEF handler, HandlersOK
<1> QED BY <1>1, <1>2, <1>3 DEF Next

-----------------------------------------------------------------------------
(* Subscribers *)

\* Subscribers come with Subscribe and go with Unsubscribe, together with the
\* handler's own record of them.
LEMMA SubscribersStep ==
  TypeOK /\ HandlersOK /\ SubscribersAreConnected /\ [Next]_vars => SubscribersAreConnected'
<1> SUFFICES ASSUME TypeOK, HandlersOK, SubscribersAreConnected, [Next]_vars
             PROVE  SubscribersAreConnected'
  OBVIOUS
<1> USE TopicsAssumption
<1>0. ASSUME UNCHANGED <<subscribers, subscribed, objs>>,
             \A h \in Handlers :
               /\ pc'[h] \notin {"subscribing", "streaming", "closing"} => subscribed[h] = {}
               /\ pc'[h] = "streaming" => subscribed[h] = 1..Len(TopicsOf[h])
      PROVE  SubscribersAreConnected'
  BY <1>0, SMTT(30) DEF SubscribersAreConnected
<1>1. ASSUME NEW h \in Handlers, ResolveNext(h) PROVE SubscribersAreConnected'
  <2>1. subscribed[h] = {} /\ UNCHANGED <<subscribers, subscribed>>
    BY <1>1 DEF SubscribersAreConnected, ResolveNext
  <2>2. \A g \in Handlers \ {h} : objs'[g] = objs[g] /\ pc'[g] = pc[g]
    BY <1>1, SMTT(30) DEF ResolveNext, TypeOK
  <2>3. pc'[h] \in {"allowed", "closing", "resolved"}
    BY <1>1 DEF ResolveNext, TypeOK
  <2>4. \A o \in Objects : \A g \in Handlers : \A i \in 1..Len(TopicsOf[g]) :
          <<g, i>> \in subscribers'[o] <=> i \in subscribed'[g] /\ objs'[g][i] = o
    <3> TAKE o \in Objects
    <3> TAKE g \in Handlers
    <3> TAKE i \in 1..Len(TopicsOf[g])
    <3>1. <<g, i>> \in subscribers[o] <=> i \in subscribed[g] /\ objs[g][i] = o
      BY DEF SubscribersAreConnected
    <3>2. CASE g = h BY <2>1, <3>1, <3>2
    <3>3. CASE g # h BY <2>1, <2>2, <3>1, <3>3
    <3> QED BY <3>2, <3>3
  <2>5. \A g \in Handlers :
          /\ subscribed'[g] \subseteq 1..Len(objs'[g])
          /\ pc'[g] \notin {"subscribing", "streaming", "closing"} => subscribed'[g] = {}
          /\ pc'[g] = "streaming" => subscribed'[g] = 1..Len(TopicsOf[g])
    BY <2>1, <2>2, <2>3 DEF SubscribersAreConnected
  <2> QED BY <2>4, <2>5 DEF SubscribersAreConnected
<1>2. ASSUME NEW h \in Handlers, NEW i \in 1..Len(TopicsOf[h]), Subscribe(h, i)
      PROVE  SubscribersAreConnected'
  <2>1. Len(objs[h]) = Len(TopicsOf[h]) /\ objs[h] \in Seq(Objects) /\ Len(TopicsOf[h]) \in Nat
    <3>1. pc[h] = "subscribing" BY <1>2 DEF Subscribe
    <3>2. objs[h] \in Seq(Objects) BY DEF TypeOK
    <3> QED BY <3>1, <3>2, SMTT(30) DEF HandlersOK
  <2>2. objs[h][i] \in Objects BY <2>1, SMTT(30)
  <2>3. subscribed'[h] = subscribed[h] \cup {i} /\ \A g \in Handlers \ {h} : subscribed'[g] = subscribed[g]
    BY <1>2 DEF Subscribe, TypeOK
  <2>4. \A o \in Objects : \A g \in Handlers : \A j \in 1..Len(TopicsOf[g]) :
          <<g, j>> \in subscribers'[o] <=> j \in subscribed'[g] /\ objs'[g][j] = o
    <3> TAKE o \in Objects
    <3> TAKE g \in Handlers
    <3> TAKE j \in 1..Len(TopicsOf[g])
    <3>1. <<g, j>> \in subscribers'[o] <=>
            <<g, j>> \in subscribers[o] \/ (o = objs[h][i] /\ g = h /\ j = i)
      BY <1>2, <2>2 DEF Subscribe, TypeOK
    <3>2. j \in subscribed'[g] <=> j \in subscribed[g] \/ (g = h /\ j = i)
      BY <2>3
    <3> QED BY <1>2, <3>1, <3>2 DEF SubscribersAreConnected, Subscribe
  <2>5. \A g \in Handlers \ {h} : pc'[g] = pc[g]
    BY <1>2 DEF Subscribe, TypeOK
  <2>6. /\ subscribed'[h] \subseteq 1..Len(objs[h])
        /\ pc'[h] \in {"subscribing", "streaming"}
        /\ pc'[h] = "streaming" => subscribed'[h] = 1..Len(TopicsOf[h])
    <3>0. subscribed'[h] = 1..(i - 1) \cup {i} BY <1>2, <2>3 DEF Subscribe
    <3>1. subscribed'[h] = 1..i BY <2>1, <3>0, SMTT(30)
    <3>2. pc'[h] = (IF i = Len(objs[h]) THEN "streaming" ELSE "subscribing")
      BY <1>2 DEF Subscribe, TypeOK
    <3> QED BY <2>1, <3>1, <3>2, SMTT(30)
  <2>7. \A g \in Handlers :
          /\ subscribed'[g] \subseteq 1..Len(objs'[g])
          /\ pc'[g] \notin {"subscribing", "streaming", "closing"} => subscribed'[g] = {}
          /\ pc'[g] = "streaming" => subscribed'[g] = 1..Len(TopicsOf[g])
    <3>1. objs' = objs BY <1>2 DEF Subscribe
    <3> QED BY <2>3, <2>5, <2>6, <3>1 DEF SubscribersAreConnected
  <2> QED BY <2>4, <2>7 DEF SubscribersAreConnected
<1>3. ASSUME NEW h \in Handlers, NEW i \in 1..Len(TopicsOf[h]), Unsubscribe(h, i)
      PROVE  SubscribersAreConnected'
  <2>1. objs[h][i] \in Objects
    BY <1>3, SMTT(30) DEF Unsubscribe, SubscribersAreConnected, TypeOK
  <2>3. subscribed'[h] = subscribed[h] \ {i} /\ \A g \in Handlers \ {h} : subscribed'[g] = subscribed[g]
    BY <1>3 DEF Unsubscribe, TypeOK
  <2>4. \A o \in Objects : \A g \in Handlers : \A j \in 1..Len(TopicsOf[g]) :
          <<g, j>> \in subscribers'[o] <=> j \in subscribed'[g] /\ objs'[g][j] = o
    <3> TAKE o \in Objects
    <3> TAKE g \in Handlers
    <3> TAKE j \in 1..Len(TopicsOf[g])
    <3>1. <<g, j>> \in subscribers'[o] <=>
            <<g, j>> \in subscribers[o] /\ ~ (o = objs[h][i] /\ g = h /\ j = i)
      BY <1>3, <2>1 DEF Unsubscribe, TypeOK
    <3>2. j \in subscribed'[g] <=> j \in subscribed[g] /\ ~ (g = h /\ j = i)
      BY <2>3
    <3>3. <<g, j>> \in subscribers[o] <=> j \in subscribed[g] /\ objs[g][j] = o
      BY DEF SubscribersAreConnected
    <3>4. objs' = objs BY <1>3 DEF Unsubscribe
    <3> QED BY <3>1, <3>2, <3>3, <3>4
  <2> QED BY <1>3, <2>3, <2>4, SMTT(30) DEF SubscribersAreConnected, Unsubscribe
<1>4. CASE \E h \in Handlers :
             \/ AllowSubscription(h) \/ SetRateVisitors(h) \/ Poll(h)
             \/ HandlerKeepalive(h) \/ EndStream(h) \/ RemoveSubscription(h)
  <2>1. UNCHANGED <<subscribers, subscribed, objs>>
    BY <1>4 DEF AllowSubscription, SetRateVisitors, Poll, HandlerKeepalive, EndStream,
       RemoveSubscription, handler
  <2>2. PICK h \in Handlers :
          \/ pc' = pc
          \/ pc[h] \notin {"subscribing", "streaming", "closing"} /\ pc' \in {[pc EXCEPT ![h] = "allowed"],
                [pc EXCEPT ![h] = "closed"], [pc EXCEPT ![h] = "subscribing"]}
          \/ pc' = [pc EXCEPT ![h] = "closing"]
          \/ subscribed[h] = {} /\ pc' = [pc EXCEPT ![h] = "closed"]
    BY <1>4 DEF AllowSubscription, SetRateVisitors, Poll, HandlerKeepalive, EndStream,
       RemoveSubscription, handler
  <2>3. \A g \in Handlers : g # h => pc'[g] = pc[g]
    BY <2>2 DEF TypeOK
  <2>4. \/ pc'[h] = pc[h]
        \/ subscribed[h] = {} /\ pc'[h] # "streaming"
        \/ pc'[h] = "closing"
    <3>1. pc[h] \notin {"subscribing", "streaming", "closing"} => subscribed[h] = {}
      BY DEF SubscribersAreConnected
    <3>2. pc \in [Handlers -> Open \cup {"idle", "closed"}] BY DEF TypeOK
    <3> QED BY <2>2, <3>1, <3>2
  <2>5. \A g \in Handlers :
          /\ pc[g] \notin {"subscribing", "streaming", "closing"} => subscribed[g] = {}
          /\ pc[g] = "streaming" => subscribed[g] = 1..Len(TopicsOf[g])
    BY DEF SubscribersAreConnected
  <2> QED BY <1>0, <2>1, <2>3, <2>4, <2>5
<1>5. CASE \/ \E p \in Publishers :
                \/ PublishResolve(p) \/ Publish(p) \/ FanOut(p) \/ PublishKeepalive(p)
                \/ \E s \in targets[p] : Forward(p, s)
           \/ \E id \in TopicIDs : FindStale(id)
           \/ DeleteStale
           \/ \E u \in Cancelers :
                \/ \E id \in TopicIDs : BeginReserve(id, u)
                \/ \E ids \in SUBSET TopicIDs : BeginKill(ids, u)
           \/ \E o \in canceling : CancelOn(o)
           \/ Tick \/ UNCHANGED vars
  <2>1. UNCHANGED <<handler, subscribers>>
    BY <1>5 DEF PublishResolve, Publish, FanOut, PublishKeepalive, Forward, FindStale, DeleteStale,
       BeginReserve, BeginKill, CancelOn, Tick, vars, handler
  <2> QED BY <1>0, <2>1 DEF handler, SubscribersAreConnected
<1> QED BY <1>1, <1>2, <1>3, <1>4, <1>5 DEF Next

\* A publisher's targets are subscribers of its topic, and so is whoever received.
LEMMA PublishersStep ==
  TypeOK /\ RegistryOK /\ HandlersOK /\ SubscribersAreConnected /\ PublishersOK /\ NoCrossTopicDelivery
    /\ [Next]_vars => PublishersOK' /\ NoCrossTopicDelivery'
<1> SUFFICES ASSUME TypeOK, RegistryOK, HandlersOK, SubscribersAreConnected, PublishersOK,
                    NoCrossTopicDelivery, [Next]_vars
             PROVE  PublishersOK' /\ NoCrossTopicDelivery'
  OBVIOUS
<1> USE TopicsAssumption
<1>a. \A p \in Publishers : pobj[p] # None => idOf'[pobj[p]] = TopicOf[p]
  <2> TAKE p \in Publishers
  <2>1. TopicOf[p] \in TopicIDs /\ TopicOf[p] # None OBVIOUS
  <2>2. pobj[p] \in Objects \cup {None} BY DEF TypeOK
  <2> QED BY <2>1, <2>2, RegistryStep DEF KeepsIDs, PublishersOK
<1>0. ASSUME UNCHANGED <<pobj, targets, received>> PROVE PublishersOK' /\ NoCrossTopicDelivery'
  BY <1>0, <1>a DEF PublishersOK, NoCrossTopicDelivery
<1>1. ASSUME NEW p \in Publishers, PublishResolve(p) PROVE PublishersOK' /\ NoCrossTopicDelivery'
  <2>1. ASSUME NEW o \in Objects, Lookup(TopicOf[p], o), pobj' = [pobj EXCEPT ![p] = o],
               UNCHANGED <<targets, received>>
        PROVE  PublishersOK' /\ NoCrossTopicDelivery'
    <3>1. TopicOf[p] \in TopicIDs OBVIOUS
    <3>2. idOf'[o] = TopicOf[p] BY <2>1, <3>1, LookupOK
    <3> QED BY <1>a, <2>1, <3>2 DEF PublishersOK, NoCrossTopicDelivery, TypeOK
  <2> QED BY <1>0, <1>1, <2>1 DEF PublishResolve
<1>2. ASSUME NEW p \in Publishers, FanOut(p) PROVE PublishersOK' /\ NoCrossTopicDelivery'
  <2>1. pobj[p] \in Objects /\ pobj[p] # None BY <1>2 DEF FanOut, TypeOK
  <2>2. ASSUME NEW s \in subscribers[pobj[p]] PROVE TopicsOf[s[1]][s[2]] = TopicOf[p]
    <3>1. s \in Slots BY <2>1 DEF TypeOK
    <3>2. s = <<s[1], s[2]>> /\ s[1] \in Handlers /\ s[2] \in 1..Len(TopicsOf[s[1]])
      BY <3>1, SMTT(30) DEF Slots
    <3>3. s[2] \in subscribed[s[1]] /\ objs[s[1]][s[2]] = pobj[p]
      BY <2>1, <2>2, <3>2, SMTT(30) DEF SubscribersAreConnected
    <3>4. s[2] \in 1..Len(objs[s[1]]) BY <3>2, <3>3 DEF SubscribersAreConnected
    <3>5. idOf[objs[s[1]][s[2]]] = TopicsOf[s[1]][s[2]] BY <3>2, <3>4 DEF HandlersOK
    <3> QED BY <2>1, <3>3, <3>5 DEF PublishersOK
  <2>3. targets'[p] = subscribers[pobj[p]] /\ \A q \in Publishers \ {p} : targets'[q] = targets[q]
    BY <1>2 DEF FanOut, TypeOK
  <2> QED BY <1>2, <1>a, <2>2, <2>3 DEF FanOut, PublishersOK, NoCrossTopicDelivery
<1>3. ASSUME NEW p \in Publishers, NEW s \in targets[p], Forward(p, s)
      PROVE  PublishersOK' /\ NoCrossTopicDelivery'
  <2>1. TopicsOf[s[1]][s[2]] = TopicOf[p] BY DEF PublishersOK
  <2>2. NoCrossTopicDelivery'
    <3>1. \A x \in received' : x \in received \/ x = <<p, s[1], s[2]>> BY <1>3 DEF Forward
    <3> QED BY <2>1, <3>1, SMTT(30) DEF NoCrossTopicDelivery
  <2>3. \A q \in Publishers : targets'[q] \subseteq targets[q] BY <1>3 DEF Forward, TypeOK
  <2>4. PublishersOK' BY <1>3, <1>a, <2>3 DEF Forward, PublishersOK
  <2> QED BY <2>2, <2>4
<1>4. CASE \E h \in Handlers :
             \/ AllowSubscription(h) \/ ResolveNext(h) \/ SetRateVisitors(h) \/ Poll(h)
             \/ \E i \in 1..Len(TopicsOf[h]) : Subscribe(h, i) \/ Unsubscribe(h, i)
             \/ HandlerKeepalive(h) \/ EndStream(h) \/ RemoveSubscription(h)
  BY <1>0, <1>4 DEF AllowSubscription, ResolveNext, SetRateVisitors, Poll, Subscribe, Unsubscribe,
     HandlerKeepalive, EndStream, RemoveSubscription, publisher
<1>5. CASE \/ \E p \in Publishers : Publish(p) \/ PublishKeepalive(p)
           \/ \E id \in TopicIDs : FindStale(id)
           \/ DeleteStale
           \/ \E u \in Cancelers :
                \/ \E id \in TopicIDs : BeginReserve(id, u)
                \/ \E ids \in SUBSET TopicIDs : BeginKill(ids, u)
           \/ \E o \in canceling : CancelOn(o)
           \/ Tick \/ UNCHANGED vars
  BY <1>0, <1>5 DEF Publish, PublishKeepalive, FindStale, DeleteStale, BeginReserve, BeginKill,
     CancelOn, Tick, vars, publisher
<1> QED BY <1>1, <1>2, <1>3, <1>4, <1>5 DEF Next

-----------------------------------------------------------------------------
(* Counters *)

\* Only topicsFromIDs adds to s.topics, one topic at a time and below the limit.
LEMMA BoundedStep ==
  TypeOK /\ IsFiniteSet(Registered) /\ TopicsBounded /\ [Next]_vars
    => IsFiniteSet(Registered') /\ TopicsBounded'
<1> SUFFICES ASSUME TypeOK, IsFiniteSet(Registered), TopicsBounded, [Next]_vars
             PROVE  IsFiniteSet(Registered') /\ TopicsBounded'
  OBVIOUS
<1> USE TopicsAssumption
<1>0. ASSUME UNCHANGED topics PROVE IsFiniteSet(Registered') /\ TopicsBounded'
  BY <1>0 DEF Registered, TopicsBounded
<1>1. ASSUME NEW id \in TopicIDs, NEW o \in Objects, Lookup(id, o)
      PROVE  IsFiniteSet(Registered') /\ TopicsBounded'
  <2>1. CASE UNCHANGED topics BY <1>0, <2>1
  <2>2. CASE /\ topics[id] = None /\ Cardinality(Registered) < TotalTopicLimit
             /\ topics' = [topics EXCEPT ![id] = o]
    <3>1. Registered' = Registered \cup {id} /\ id \notin Registered
      <4>1. topics \in [TopicIDs -> Objects \cup {None}] /\ o # None BY DEF TypeOK
      <4> QED BY <2>2, <4>1, SMTT(30) DEF Registered
    <3>2. IsFiniteSet(Registered') /\ Cardinality(Registered') = Cardinality(Registered) + 1
      BY <3>1, FS_AddElement
    <3>3. Cardinality(Registered) \in Nat BY FS_CardinalityType
    <3> QED BY <2>2, <3>2, <3>3, SMTT(30) DEF TopicsBounded
  <2> QED BY <1>1, <2>1, <2>2 DEF Lookup
<1>2. ASSUME NEW h \in Handlers, ResolveNext(h) PROVE IsFiniteSet(Registered') /\ TopicsBounded'
  <2>1. ASSUME NEW k \in 1..Len(TopicsOf[h]) PROVE TopicsOf[h][k] \in TopicIDs BY SMTT(30)
  <2>2. Len(objs[h]) + 1 \in Nat \ {0}
    <3>1. objs[h] \in Seq(Objects) BY DEF TypeOK
    <3> QED BY <3>1, SMTT(30)
  <2> QED BY <1>0, <1>1, <1>2, <2>1, <2>2, SMTT(30) DEF ResolveNext, registry
<1>3. ASSUME NEW p \in Publishers, PublishResolve(p) PROVE IsFiniteSet(Registered') /\ TopicsBounded'
  <2>1. TopicOf[p] \in TopicIDs OBVIOUS
  <2> QED BY <1>0, <1>1, <1>3, <2>1 DEF PublishResolve, registry
<1>4. ASSUME NEW id \in TopicIDs, NEW u, BeginReserve(id, u)
      PROVE  IsFiniteSet(Registered') /\ TopicsBounded'
  BY <1>1, <1>4 DEF BeginReserve
<1>5. CASE DeleteStale
  <2>1. Registered' \subseteq Registered BY <1>5 DEF DeleteStale, Registered, TypeOK
  <2>2. IsFiniteSet(Registered') /\ Cardinality(Registered') <= Cardinality(Registered)
    BY <2>1, FS_Subset
  <2>3. Cardinality(Registered) \in Nat /\ Cardinality(Registered') \in Nat
    BY <2>2, FS_CardinalityType
  <2> QED BY <2>2, <2>3, SMTT(30) DEF TopicsBounded
<1>6. CASE \E h \in Handlers :
             \/ AllowSubscription(h) \/ SetRateVisitors(h) \/ Poll(h)
             \/ \E i \in 1..Len(TopicsOf[h]) : Subscribe(h, i) \/ Unsubscribe(h, i)
             \/ HandlerKeepalive(h) \/ EndStream(h) \/ RemoveSubscription(h)
  BY <1>0, <1>6 DEF AllowSubscription, SetRateVisitors, Poll, Subscribe, Unsubscribe,
     HandlerKeepalive, EndStream, RemoveSubscription, registry
<1>7. CASE \/ \E p \in Publishers :
                \/ Publish(p) \/ FanOut(p) \/ PublishKeepalive(p)
                \/ \E s \in targets[p] : Forward(p, s)
           \/ \E id \in TopicIDs : FindStale(id)
           \/ \E u \in Cancelers : \E ids \in SUBSET TopicIDs : BeginKill(ids, u)
           \/ \E o \in canceling : CancelOn(o)
           \/ Tick \/ UNCHANGED vars
  BY <1>0, <1>7 DEF Publish, FanOut, PublishKeepalive, Forward, FindStale, BeginKill,
     CancelOn, Tick, vars, registry
<1> QED BY <1>2, <1>3, <1>4, <1>5, <1>6, <1>7 DEF Next

\* The open requests of a visitor.
OpenOf(v) == {h \in Handlers : VisitorOf[h] = v /\ pc[h] \in Open}

Counted ==
  \A v \in Visitors :
    /\ IsFiniteSet(OpenOf(v))
    /\ active[v] = Cardinality(OpenOf(v))
    /\ active[v] <= SubscriptionLimit

\* A request is counted when it is allowed and until RemoveSubscription.
LEMMA CountedStep == TypeOK /\ Counted /\ [Next]_vars => Counted'
<1> SUFFICES ASSUME TypeOK, Counted, [Next]_vars PROVE Counted'
  OBVIOUS
<1> USE TopicsAssumption
<1>0. ASSUME UNCHANGED active, \A h \in Handlers : pc'[h] \in Open <=> pc[h] \in Open PROVE Counted'
  <2>1. \A v : OpenOf(v)' = OpenOf(v) BY <1>0 DEF OpenOf
  <2> QED BY <1>0, <2>1 DEF Counted
<1>1. ASSUME NEW h \in Handlers, AllowSubscription(h) PROVE Counted'
  <2>v. VisitorOf[h] \in Visitors OBVIOUS
  <2>1. CASE UNCHANGED active /\ pc' = [pc EXCEPT ![h] = "closed"]
    BY <1>0, <1>1, <2>1 DEF AllowSubscription, TypeOK, Open
  <2>2. CASE /\ active[VisitorOf[h]] < SubscriptionLimit
             /\ active' = [active EXCEPT ![VisitorOf[h]] = @ + 1]
             /\ pc' = [pc EXCEPT ![h] = "allowed"]
    <3>1. OpenOf(VisitorOf[h])' = OpenOf(VisitorOf[h]) \cup {h} /\ h \notin OpenOf(VisitorOf[h])
      <4>1. pc[h] = "idle" BY <1>1 DEF AllowSubscription
      <4>2. pc'[h] = "allowed" /\ \A g \in Handlers \ {h} : pc'[g] = pc[g] BY <2>2 DEF TypeOK
      <4> QED BY <4>1, <4>2 DEF OpenOf, Open
    <3>2. /\ IsFiniteSet(OpenOf(VisitorOf[h])')
          /\ Cardinality(OpenOf(VisitorOf[h])') = Cardinality(OpenOf(VisitorOf[h])) + 1
      BY <2>v, <3>1, FS_AddElement, SMTT(30) DEF Counted
    <3>3. \A v \in Visitors \ {VisitorOf[h]} : OpenOf(v)' = OpenOf(v) /\ active'[v] = active[v]
      BY <2>2 DEF OpenOf, TypeOK
    <3>4. active'[VisitorOf[h]] = active[VisitorOf[h]] + 1 /\ active[VisitorOf[h]] \in Int
      BY <2>v, <2>2 DEF TypeOK
    <3>5. /\ active'[VisitorOf[h]] = Cardinality(OpenOf(VisitorOf[h])')
          /\ active'[VisitorOf[h]] <= SubscriptionLimit
      BY <2>v, <2>2, <3>2, <3>4, SMTT(30) DEF Counted
    <3> QED BY <3>2, <3>3, <3>5 DEF Counted
  <2> QED BY <1>1, <2>1, <2>2 DEF AllowSubscription
<1>2. ASSUME NEW h \in Handlers, RemoveSubscription(h) PROVE Counted'
  <2>v. VisitorOf[h] \in Visitors OBVIOUS
  <2>1. OpenOf(VisitorOf[h])' = OpenOf(VisitorOf[h]) \ {h} /\ h \in OpenOf(VisitorOf[h])
    BY <1>2 DEF RemoveSubscription, OpenOf, Open, TypeOK
  <2>2. /\ IsFiniteSet(OpenOf(VisitorOf[h])')
        /\ Cardinality(OpenOf(VisitorOf[h])') = Cardinality(OpenOf(VisitorOf[h])) - 1
    <3>1. IsFiniteSet(OpenOf(VisitorOf[h])) BY <2>v DEF Counted
    <3>2. /\ IsFiniteSet(OpenOf(VisitorOf[h]) \ {h})
          /\ Cardinality(OpenOf(VisitorOf[h]) \ {h}) = Cardinality(OpenOf(VisitorOf[h])) - 1
      BY <2>1, <3>1, FS_RemoveElement
    <3> QED BY <2>1, <3>2
  <2>3. \A v \in Visitors \ {VisitorOf[h]} : OpenOf(v)' = OpenOf(v) /\ active'[v] = active[v]
    <3>1. \A g \in Handlers \ {h} : pc'[g] = pc[g] BY <1>2 DEF RemoveSubscription, TypeOK
    <3>2. \A v \in Visitors \ {VisitorOf[h]} : OpenOf(v)' = OpenOf(v) BY <3>1 DEF OpenOf
    <3>3. \A v \in Visitors \ {VisitorOf[h]} : active'[v] = active[v]
      BY <1>2 DEF RemoveSubscription, TypeOK
    <3> QED BY <3>2, <3>3
  <2>4. active'[VisitorOf[h]] = active[VisitorOf[h]] - 1 /\ active[VisitorOf[h]] \in Int
    BY <2>v, <1>2 DEF RemoveSubscription, TypeOK
  <2>5. /\ active'[VisitorOf[h]] = Cardinality(OpenOf(VisitorOf[h])')
        /\ active'[VisitorOf[h]] <= SubscriptionLimit
    <3>1. active[VisitorOf[h]] = Cardinality(OpenOf(VisitorOf[h])) /\ active[VisitorOf[h]] <= SubscriptionLimit
      BY <2>v DEF Counted
    <3> QED BY <2>2, <2>4, <3>1, SMTT(30)
  <2> QED BY <2>2, <2>3, <2>5 DEF Counted
<1>3. ASSUME NEW h \in Handlers,
             \/ ResolveNext(h) \/ SetRateVisitors(h) \/ Poll(h)
             \/ \E i \in 1..Len(TopicsOf[h]) : Subscribe(h, i) \/ Unsubscribe(h, i)
             \/ HandlerKeepalive(h) \/ EndStream(h)
      PROVE  Counted'
  <2>1. UNCHANGED active
    BY <1>3 DEF ResolveNext, SetRateVisitors, Poll, Subscribe, Unsubscribe, HandlerKeepalive, EndStream
  <2>2. \/ pc' = pc
        \/ pc[h] \in Open /\ \E c \in Open : pc' = [pc EXCEPT ![h] = c]
    BY <1>3 DEF ResolveNext, SetRateVisitors, Poll, Subscribe, Unsubscribe, HandlerKeepalive, EndStream,
       Open, handler
  <2>3. \A g \in Handlers : pc'[g] \in Open <=> pc[g] \in Open BY <2>2 DEF TypeOK
  <2> QED BY <1>0, <2>1, <2>3
<1>4. CASE \/ \E p \in Publishers :
                \/ PublishResolve(p) \/ Publish(p) \/ FanOut(p) \/ PublishKeepalive(p)
                \/ \E s \in targets[p] : Forward(p, s)
           \/ \E id \in TopicIDs : FindStale(id)
           \/ DeleteStale
           \/ \E u \in Cancelers :
                \/ \E id \in TopicIDs : BeginReserve(id, u)
                \/ \E ids \in SUBSET TopicIDs : BeginKill(ids, u)
           \/ \E o \in canceling : CancelOn(o)
           \/ Tick \/ UNCHANGED vars
  BY <1>0, <1>4 DEF PublishResolve, Publish, FanOut, PublishKeepalive, Forward, FindStale, DeleteStale,
     BeginReserve, BeginKill, CancelOn, Tick, vars, handler
<1> QED BY <1>1, <1>2, <1>3, <1>4 DEF Next

-----------------------------------------------------------------------------
(* Publishers find the topics of streams *)

\* Whether a handler is subscribed with the i-th topic it has looked up, or about to be.
Holds(h, i) == pc[h] \in {"allowed", "resolved", "subscribing"} \/ i \in subscribed[h]

\* What a handler holds is registered and not about to be deleted, or has strayed.
FoundOK ==
  \A h \in Handlers :
    /\ pc[h] = "idle" => Len(objs[h]) = 0
    /\ \A i \in 1..Len(objs[h]) : Holds(h, i) =>
         \/ <<h, i>> \in strayed
         \/ topics[TopicsOf[h][i]] = objs[h][i] /\ ~(smu = Manager /\ deleting = TopicsOf[h][i])

\* Looking a topic up does not replace one that is registered.
LEMMA LookupKeeps ==
  ASSUME TypeOK, NEW id \in TopicIDs, NEW o \in Objects, Lookup(id, o)
  PROVE  /\ topics'[id] = o
         /\ \A x \in TopicIDs : topics[x] \in Objects => topics'[x] = topics[x]
BY TopicsAssumption, SMTT(30) DEF TypeOK, Lookup

\* Only the manager takes topics away, and only those that no handler is subscribed with.
LEMMA FoundStep ==
  TypeOK /\ HandlersOK /\ SubscribersAreConnected /\ FoundOK /\ [Next]_vars => FoundOK'
<1> SUFFICES ASSUME TypeOK, HandlersOK, SubscribersAreConnected, FoundOK, [Next]_vars
             PROVE  FoundOK'
  OBVIOUS
<1> USE TopicsAssumption
<1>a. \A h \in Handlers : \A i \in 1..Len(objs[h]) :
        TopicsOf[h][i] \in TopicIDs /\ objs[h][i] \in Objects
  <2> TAKE h \in Handlers
  <2> TAKE i \in 1..Len(objs[h])
  <2>1. objs[h] \in Seq(Objects) /\ TopicsOf[h] \in Seq(TopicIDs) BY DEF TypeOK
  <2>2. i \in 1..Len(TopicsOf[h]) BY <2>1, SMTT(30) DEF HandlersOK
  <2> QED BY <2>1, <2>2, SMTT(30)
<1>0. ASSUME UNCHANGED <<objs, strayed, smu, deleting>>,
             \A x \in TopicIDs : topics[x] \in Objects => topics'[x] = topics[x],
             \A h \in Handlers : pc'[h] = "idle" => pc[h] = "idle",
             \A h \in Handlers : \A i \in 1..Len(objs[h]) : Holds(h, i)' => Holds(h, i)
      PROVE  FoundOK'
  <2>1. \A h \in Handlers : pc'[h] = "idle" => Len(objs'[h]) = 0
    BY <1>0 DEF FoundOK
  <2>2. ASSUME NEW h \in Handlers, NEW i \in 1..Len(objs[h]), Holds(h, i)'
        PROVE  \/ <<h, i>> \in strayed
               \/ topics'[TopicsOf[h][i]] = objs[h][i] /\ ~(smu = Manager /\ deleting = TopicsOf[h][i])
    <3>1. \/ <<h, i>> \in strayed
          \/ topics[TopicsOf[h][i]] = objs[h][i] /\ ~(smu = Manager /\ deleting = TopicsOf[h][i])
      BY <1>0, <2>2 DEF FoundOK
    <3>2. TopicsOf[h][i] \in TopicIDs /\ objs[h][i] \in Objects
      BY <1>a
    <3> QED BY <1>0, <3>1, <3>2
  <2> QED BY <1>0, <2>1, <2>2 DEF FoundOK
<1>1. ASSUME NEW h \in Handlers, AllowSubscription(h) PROVE FoundOK'
  <2>1. UNCHANGED <<topics, objs, strayed, smu, deleting, subscribed>>
    BY <1>1 DEF AllowSubscription, registry
  <2>2. Len(objs[h]) = 0 BY <1>1 DEF AllowSubscription, FoundOK
  <2>3. \A g \in Handlers \ {h} : pc'[g] = pc[g] BY <1>1 DEF AllowSubscription, TypeOK
  <2>4. pc'[h] # "idle" BY <1>1 DEF AllowSubscription, TypeOK
  <2>5. ASSUME NEW g \in Handlers, NEW i \in 1..Len(objs[g]), Holds(g, i)' PROVE Holds(g, i)
    <3>1. g # h BY <2>2, SMTT(30)
    <3> QED BY <2>1, <2>3, <2>5, <3>1 DEF Holds
  <2>6. \A g \in Handlers : pc'[g] = "idle" => pc[g] = "idle" BY <2>3, <2>4
  <2> QED BY <1>0, <2>1, <2>5, <2>6
<1>2. ASSUME NEW h \in Handlers, ResolveNext(h) PROVE FoundOK'
  <2>1. objs[h] \in Seq(Objects) /\ Len(objs[h]) \in Nat /\ Len(TopicsOf[h]) \in Nat
    BY SMTT(30) DEF TypeOK
  <2>2. UNCHANGED <<strayed, subscribed, deleting>> /\ smu \in {None, h} /\ smu' \in {None, h} /\ pc[h] = "allowed"
    BY <1>2 DEF ResolveNext
  <2>3. smu # Manager /\ smu' # Manager BY <2>2, SMTT(30)
  <2>4. CASE UNCHANGED <<topics, objs>> /\ \E c \in {"closing", "resolved"} : pc' = [pc EXCEPT ![h] = c]
    <3>1. PICK c \in {"closing", "resolved"} : pc' = [pc EXCEPT ![h] = c] BY <2>4
    <3>2. pc'[h] = c /\ \A g \in Handlers \ {h} : pc'[g] = pc[g] BY <3>1 DEF TypeOK
    <3>3. \A g \in Handlers : \A i : Holds(g, i)' => Holds(g, i) BY <2>2, <3>2 DEF Holds
    <3>4. \A g \in Handlers : pc'[g] = "idle" => pc[g] = "idle" BY <3>2
    <3>5. ASSUME NEW g \in Handlers, NEW i \in 1..Len(objs[g]), Holds(g, i)'
          PROVE  <<g, i>> \in strayed' \/ topics'[TopicsOf[g][i]] = objs'[g][i]
      BY <2>2, <2>4, <3>3, <3>5 DEF FoundOK
    <3>6. \A g \in Handlers : pc'[g] = "idle" => Len(objs'[g]) = 0
      BY <2>4, <3>4 DEF FoundOK
    <3>7. objs' = objs BY <2>4
    <3> QED BY <2>3, <3>5, <3>6, <3>7 DEF FoundOK
  <2>5. ASSUME NEW o \in Objects, Len(objs[h]) + 1 <= Len(TopicsOf[h]), UNCHANGED pc,
               Lookup(TopicsOf[h][Len(objs[h]) + 1], o), objs' = [objs EXCEPT ![h] = Append(@, o)]
        PROVE  FoundOK'
    <3>1. TopicsOf[h][Len(objs[h]) + 1] \in TopicIDs BY <2>1, <2>5, SMTT(30)
    <3>2. /\ topics'[TopicsOf[h][Len(objs[h]) + 1]] = o
          /\ \A x \in TopicIDs : topics[x] \in Objects => topics'[x] = topics[x]
      BY <2>5, <3>1, LookupKeeps
    <3>3. objs'[h] = Append(objs[h], o) /\ \A g \in Handlers \ {h} : objs'[g] = objs[g]
      BY <2>5 DEF TypeOK
    <3>4. Len(objs'[h]) = Len(objs[h]) + 1 BY <2>1, <3>3, SMTT(30)
    <3> SUFFICES ASSUME NEW g \in Handlers, NEW i \in 1..Len(objs'[g]), Holds(g, i)'
                 PROVE  <<g, i>> \in strayed' \/ topics'[TopicsOf[g][i]] = objs'[g][i]
      BY <2>2, <2>3, <2>5, <3>3, SMTT(30) DEF FoundOK
    <3>5. Holds(g, i) BY <2>2, <2>5 DEF Holds
    <3>6. CASE i \in 1..Len(objs[g])
      <4>1. objs'[g][i] = objs[g][i]
        <5>1. CASE g = h BY <2>1, <3>3, <3>6, <5>1, SMTT(30)
        <5>2. CASE g # h BY <3>3, <5>2
        <5> QED BY <5>1, <5>2
      <4> QED BY <1>a, <2>2, <3>2, <3>5, <3>6, <4>1 DEF FoundOK
    <3>7. CASE g = h /\ i = Len(objs[h]) + 1
      <4>1. objs'[g][i] = o BY <2>1, <3>3, <3>7, SMTT(30)
      <4> QED BY <3>2, <3>7, <4>1
    <3> QED BY <2>1, <3>3, <3>4, <3>6, <3>7, SMTT(30)
  <2> QED BY <1>2, <2>4, <2>5 DEF ResolveNext, registry
<1>3. ASSUME NEW h \in Handlers, NEW i \in 1..Len(TopicsOf[h]), Subscribe(h, i) PROVE FoundOK'
  <2>1. UNCHANGED <<topics, objs, strayed, smu, deleting>>
    BY <1>3 DEF Subscribe, registry
  <2>2. \A g \in Handlers : \/ pc'[g] = pc[g] /\ subscribed'[g] = subscribed[g]
                            \/ g = h /\ pc[h] = "subscribing" /\ pc'[h] \in {"subscribing", "streaming"}
    BY <1>3 DEF Subscribe, TypeOK
  <2> QED BY <1>0, <2>1, <2>2 DEF Holds
<1>4. CASE \E h \in Handlers :
             \/ SetRateVisitors(h) \/ Poll(h)
             \/ \E i \in 1..Len(TopicsOf[h]) : Unsubscribe(h, i)
             \/ HandlerKeepalive(h) \/ EndStream(h) \/ RemoveSubscription(h)
  <2>1. UNCHANGED <<topics, objs, strayed, smu, deleting>>
    BY <1>4 DEF SetRateVisitors, Poll, Unsubscribe, HandlerKeepalive, EndStream, RemoveSubscription,
       registry, handler
  <2>2. PICK h \in Handlers :
          /\ \/ pc' = pc
             \/ pc[h] = "resolved" /\ pc' = [pc EXCEPT ![h] = "subscribing"]
             \/ \E c \in {"closing", "closed"} : pc' = [pc EXCEPT ![h] = c]
          /\ subscribed' = subscribed \/ \E i : subscribed' = [subscribed EXCEPT ![h] = @ \ {i}]
    BY <1>4 DEF SetRateVisitors, Poll, Unsubscribe, HandlerKeepalive, EndStream,
                RemoveSubscription, handler
  <2>3. \A g \in Handlers : /\ pc'[g] = "idle" => pc[g] = "idle"
                            /\ pc'[g] \in {"allowed", "resolved", "subscribing"} =>
                                 pc[g] \in {"allowed", "resolved", "subscribing"}
    BY <2>2 DEF TypeOK
  <2>4. \A g \in Handlers : subscribed'[g] \subseteq subscribed[g]
    <3>1. CASE subscribed' = subscribed BY <3>1
    <3>2. ASSUME NEW i, subscribed' = [subscribed EXCEPT ![h] = @ \ {i}]
          PROVE  \A g \in Handlers : subscribed'[g] \subseteq subscribed[g]
      <4>1. \A g \in Handlers : subscribed'[g] = IF g = h THEN subscribed[h] \ {i} ELSE subscribed[g]
        BY <3>2 DEF TypeOK
      <4> QED BY <4>1
    <3> QED BY <2>2, <3>1, <3>2
  <2> QED BY <1>0, <2>1, <2>3, <2>4 DEF Holds
<1>5. ASSUME NEW p \in Publishers, PublishResolve(p) PROVE FoundOK'
  <2>1. TopicOf[p] \in TopicIDs OBVIOUS
  <2>2. UNCHANGED <<handler, strayed, smu, deleting>> BY <1>5 DEF PublishResolve
  <2>3. \A x \in TopicIDs : topics[x] \in Objects => topics'[x] = topics[x]
    BY <1>5, <2>1, LookupKeeps DEF PublishResolve, registry
  <2> QED BY <1>0, <2>2, <2>3 DEF handler, Holds
<1>6. ASSUME NEW id \in TopicIDs, NEW u, BeginReserve(id, u) PROVE FoundOK'
  <2>1. UNCHANGED <<handler, strayed, smu, deleting>> BY <1>6 DEF BeginReserve
  <2>2. \A x \in TopicIDs : topics[x] \in Objects => topics'[x] = topics[x]
    BY <1>6, LookupKeeps DEF BeginReserve
  <2> QED BY <1>0, <2>1, <2>2 DEF handler, Holds
<1>7. ASSUME NEW id \in TopicIDs, FindStale(id) PROVE FoundOK'
  <2>1. /\ UNCHANGED <<topics, pc, objs, subscribed>> /\ deleting' = id
        /\ strayed' = strayed \cup Between(topics[id]) /\ topics[id] # None
        /\ subscribers[topics[id]] = {}
    BY <1>7 DEF FindStale, Stale, registry, handler
  <2>2. topics[id] \in Objects BY <2>1 DEF TypeOK
  <2>3. ASSUME NEW h \in Handlers, NEW i \in 1..Len(objs[h]), Holds(h, i), TopicsOf[h][i] = id,
               topics[id] = objs[h][i]
        PROVE  <<h, i>> \in Between(topics[id])
    <3>1. Len(objs[h]) \in Nat /\ Len(TopicsOf[h]) \in Nat BY SMTT(30) DEF TypeOK
    <3>2. Len(objs[h]) <= Len(TopicsOf[h]) BY DEF HandlersOK
    <3>3. i \in 1..Len(TopicsOf[h]) BY <3>1, <3>2, SMTT(30)
    <3>4. <<h, i>> \in subscribers[topics[id]] <=> i \in subscribed[h] /\ objs[h][i] = topics[id]
      BY <2>2, <3>3 DEF SubscribersAreConnected
    <3>5. i \notin subscribed[h] BY <2>1, <2>3, <3>4
    <3> QED BY <2>3, <3>5, SMTT(30) DEF Between, Holds
  <2>4. ASSUME NEW h \in Handlers, NEW i \in 1..Len(objs'[h]), Holds(h, i)'
        PROVE  \/ <<h, i>> \in strayed'
               \/ topics'[TopicsOf[h][i]] = objs'[h][i] /\ TopicsOf[h][i] # deleting'
    <3>1. objs' = objs /\ topics' = topics /\ deleting' = id BY <2>1
    <3>2. i \in 1..Len(objs[h]) BY <3>1
    <3>3. Holds(h, i) BY <2>1, <2>4 DEF Holds
    <3>4. <<h, i>> \in strayed \/ topics[TopicsOf[h][i]] = objs[h][i]
      BY <3>2, <3>3 DEF FoundOK
    <3>5. CASE TopicsOf[h][i] = id /\ topics[id] = objs[h][i]
      BY <2>1, <2>3, <3>2, <3>3, <3>5
    <3>6. CASE <<h, i>> \in strayed
      BY <2>1, <3>6
    <3>7. CASE TopicsOf[h][i] # id /\ topics[TopicsOf[h][i]] = objs[h][i]
      BY <3>1, <3>7
    <3> QED BY <3>4, <3>5, <3>6, <3>7
  <2>5. \A h \in Handlers : pc'[h] = "idle" => Len(objs'[h]) = 0
    BY <2>1 DEF FoundOK
  <2> QED BY <2>4, <2>5 DEF FoundOK
<1>8. CASE DeleteStale
  <2>1. UNCHANGED <<pc, objs, subscribed, strayed>> /\ smu = Manager /\ smu' = None
        /\ topics' = [topics EXCEPT ![deleting] = None]
    BY <1>8 DEF DeleteStale, handler
  <2>2. \A x \in TopicIDs : x # deleting => topics'[x] = topics[x] BY <2>1 DEF TypeOK
  <2>3. ASSUME NEW h \in Handlers, NEW i \in 1..Len(objs[h]), Holds(h, i)'
        PROVE  <<h, i>> \in strayed \/ topics'[TopicsOf[h][i]] = objs[h][i]
    <3>1. Holds(h, i) BY <2>1, <2>3 DEF Holds
    <3>2. <<h, i>> \in strayed \/ (topics[TopicsOf[h][i]] = objs[h][i] /\ deleting # TopicsOf[h][i])
      BY <2>1, <3>1 DEF FoundOK
    <3> QED BY <1>a, <2>2, <3>2
  <2>4. smu' # Manager BY <2>1
  <2>5. \A h \in Handlers : pc'[h] = "idle" => Len(objs'[h]) = 0 BY <2>1 DEF FoundOK
  <2>6. \A h \in Handlers : \A i \in 1..Len(objs'[h]) : Holds(h, i)' =>
          \/ <<h, i>> \in strayed'
          \/ topics'[TopicsOf[h][i]] = objs'[h][i] /\ ~(smu' = Manager /\ deleting' = TopicsOf[h][i])
    <3>1. objs' = objs /\ strayed' = strayed BY <2>1
    <3> QED BY <2>3, <2>4, <3>1
  <2> QED BY <2>5, <2>6 DEF FoundOK
<1>9. CASE \/ \E p \in Publishers :
                \/ Publish(p) \/ FanOut(p) \/ PublishKeepalive(p)
                \/ \E s \in targets[p] : Forward(p, s)
           \/ \E u \in Cancelers : \E ids \in SUBSET TopicIDs : BeginKill(ids, u)
           \/ \E o \in canceling : CancelOn(o)
           \/ Tick \/ UNCHANGED vars
  <2>1. UNCHANGED <<topics, pc, objs, subscribed, strayed, smu, deleting>>
    BY <1>9 DEF Publish, FanOut, PublishKeepalive, Forward, BeginKill, CancelOn, Tick, vars,
                handler, registry
  <2> QED BY <1>0, <2>1 DEF Holds
<1> QED BY <1>1, <1>2, <1>3, <1>4, <1>5, <1>6, <1>7, <1>8, <1>9 DEF Next

-----------------------------------------------------------------------------
(* The theorems *)

IInv ==
  /\ TypeOK
  /\ RegistryOK
  /\ HandlersOK
  /\ SubscribersAreConnected
  /\ PublishersOK
  /\ NoCrossTopicDelivery
  /\ IsFiniteSet(Registered) /\ TopicsBounded
  /\ Counted
  /\ FoundOK

\* The inductive invariant holds at first: nothing is registered or open.
LEMMA InitIInv == Init => IInv
<1> SUFFICES ASSUME Init PROVE IInv
  OBVIOUS
<1> USE TopicsAssumption
<1>1. TypeOK
  <2>1. \A h \in Handlers : <<>> \in Seq(Objects) BY SMTT(30)
  <2>2. objs \in [Handlers -> Seq(Objects)] BY <2>1 DEF Init
  <2>3. canceled \in [Handlers -> BOOLEAN] BY DEF Init
  <2>4. pc \in [Handlers -> Open \cup {"idle", "closed"}] BY DEF Init
  <2>5. smu \in Handlers \cup {Manager, None} /\ deleting \in TopicIDs \cup {None}
        /\ (smu = Manager => deleting \in TopicIDs)
    BY DEF Init
  <2>6. now \in 0..MaxTime /\ 0 \in 0..MaxTime BY SMTT(30) DEF Init
  <2>7. /\ lastAccess \in [Objects -> 0..MaxTime] /\ seen \in [Visitors -> 0..MaxTime]
    BY <2>6 DEF Init
  <2>8. active \in [Visitors -> Int] BY SMTT(30) DEF Init
  <2>9. /\ topics \in [TopicIDs -> Objects \cup {None}]
        /\ idOf \in [Objects -> TopicIDs \cup {None}]
        /\ rateVisitor \in [Objects -> Visitors \cup {None}]
        /\ subscribers \in [Objects -> SUBSET Slots]
        /\ subscribed \in [Handlers -> SUBSET Nat]
        /\ canceling \subseteq Objects
    BY DEF Init
  <2>10. /\ ppc \in [Publishers -> {"idle", "resolved", "refused", "published", "copied", "done"}]
         /\ pobj \in [Publishers -> Objects \cup {None}]
         /\ targets \in [Publishers -> SUBSET Slots]
         /\ received \subseteq Publishers \X Handlers \X Nat
    BY DEF Init
  <2>11. \A q \in Publishers : ppc[q] \in {"resolved", "published", "copied"} => pobj[q] \in Objects
    BY DEF Init
  <2> QED BY <2>2, <2>3, <2>4, <2>5, <2>6, <2>7, <2>8, <2>9, <2>10, <2>11 DEF TypeOK
<1>2. RegistryOK BY DEF Init, RegistryOK
<1>3. HandlersOK
  <2>1. \A h \in Handlers : Len(objs[h]) = 0 /\ Len(TopicsOf[h]) \in Nat /\ pc[h] = "idle"
    BY SMTT(30) DEF Init
  <2> QED BY <2>1, SMTT(30) DEF HandlersOK
<1>4. SubscribersAreConnected BY DEF Init, SubscribersAreConnected
<1>5. PublishersOK /\ NoCrossTopicDelivery BY DEF Init, PublishersOK, NoCrossTopicDelivery
<1>6. Registered = {} BY DEF Init, Registered
<1>7. IsFiniteSet(Registered) /\ TopicsBounded BY <1>6, FS_EmptySet, SMTT(30) DEF TopicsBounded
<1>8. \A v : OpenOf(v) = {} BY DEF Init, OpenOf, Open
<1>9. Counted
  <2> SUFFICES ASSUME NEW v \in Visitors
               PROVE  /\ IsFiniteSet(OpenOf(v))
                      /\ active[v] = Cardinality(OpenOf(v))
                      /\ active[v] <= SubscriptionLimit
    BY DEF Counted
  <2>1. active[v] = 0 BY DEF Init
  <2>2. IsFiniteSet(OpenOf(v)) /\ Cardinality(OpenOf(v)) = 0 BY <1>8, FS_EmptySet
  <2> QED BY <2>1, <2>2, SMTT(30)
<1>10. FoundOK
  <2> SUFFICES ASSUME NEW h \in Handlers
               PROVE  Len(objs[h]) = 0 /\ 1..Len(objs[h]) = {}
    BY DEF FoundOK
  <2>1. Len(objs[h]) = 0 BY DEF Init
  <2> QED BY <2>1, SMTT(30)
<1> QED BY <1>1, <1>2, <1>3, <1>4, <1>5, <1>7, <1>9, <1>10 DEF IInv

\* Every step of handlers, publishers and manager keeps the invariant.
LEMMA Inductive == Spec => []IInv
<1>1. IInv /\ [Next]_vars => IInv'
  BY TypeStep, RegistryStep, HandlersStep, SubscribersStep, PublishersStep, BoundedStep, CountedStep,
     FoundStep DEF IInv
<1> QED BY InitIInv, <1>1, PTL DEF Spec

\* The state is well typed, however many goroutines share it.
THEOREM TypeCorrect == Spec => []TypeOK
BY Inductive, PTL DEF IInv

\* A topic's subscribers are exactly the open handlers subscribed to that object.
THEOREM SubscribersExact == Spec => []SubscribersAreConnected
BY Inductive, PTL DEF IInv

\* Publishers find the topic a handler is subscribed to, unless the manager found it stale
\* between its lookup and its Subscribe.
THEOREM StreamsFound == Spec => []StreamsAreFound
<1>1. IInv => StreamsAreFound
  <2> SUFFICES ASSUME IInv, NEW h \in Handlers, NEW i \in subscribed[h]
               PROVE  topics[TopicsOf[h][i]] = objs[h][i] \/ <<h, i>> \in strayed
    BY DEF StreamsAreFound
  <2>1. i \in 1..Len(objs[h]) BY DEF IInv, SubscribersAreConnected
  <2> QED BY <2>1 DEF IInv, FoundOK, Holds
<1> QED BY Inductive, <1>1, PTL

\* No message reaches a subscriber of another topic, though objects outlive their
\* place in s.topics.
THEOREM NoMixUp == Spec => []NoCrossTopicDelivery
BY Inductive, PTL DEF IInv

\* The number of topics respects its limit.
THEOREM TopicLimit == Spec => []TopicsBounded
BY Inductive, PTL DEF IInv

\* A visitor's subscription counter is the number of its open requests.
THEOREM CounterExact == Spec => []SubscriptionsCounted
<1>1. IInv => SubscriptionsCounted
  BY DEF IInv, Counted, OpenOf, SubscriptionsCounted
<1> QED BY Inductive, <1>1, PTL

-------------------------------------------------------------------------------
(* The topics that are pushed to a browser *)


\* What a tab may show, and its updates.
Views == [topics : (SUBSET Pushable) \cup {None}, possible : {"yes", "no", None}]
Updates == [step : {"idle", "started", "sent", "answered"}, view : Views, endpoint : Nat, behind : Nat]

\* The types.
PushTyped ==
  /\ wanted \in SUBSET Pushable /\ granted \in {"yes", "no"}
  /\ endpoint \in Nat /\ used \in Nat /\ endpoint <= used /\ used <= MaxEndpoints
  /\ server \in [B!Endpoints -> (SUBSET Pushable) \cup {None}]
  /\ view \in [Tabs -> Views] /\ prev \in [Tabs -> Views]
  /\ run \in [Tabs -> [B!Runs -> Updates]]
  /\ stray \in SUBSET Updates
  /\ spoiled \in {"yes", "no"}

\* What a tab that has v and p and the updates rs may have; u endpoints were used.
Fits(v, p, rs, u) ==
  /\ v.possible = None => v.topics = None
  /\ v.topics = None => p = B!Loading /\ \A r \in B!Runs : rs[r].step = "idle"
  /\ \A r \in B!Runs :
       /\ rs[r].endpoint <= u
       /\ rs[r].step # "idle" => rs[r].view.topics # None
       /\ rs[r].step = "started" => rs[r].endpoint = 0
       /\ rs[r].step = "sent" => rs[r].endpoint # 0
       /\ rs[r].step = "answered" /\ rs[r].endpoint = 0 => rs[r].view.topics = {}

\* The answers that are on their way are in a queue, ...
Answered(rs) == {r \in B!Runs : rs[r].step = "answered"}
Queued(rs) ==
  /\ \A q, r \in Answered(rs) : rs[q].behind = rs[r].behind => q = r
  /\ \A r \in Answered(rs) : rs[r].behind < Cardinality(Answered(rs))

\* ... the updates that had no endpoint ahead of those of the endpoint e.
Apart(rs, e) ==
  e # 0 => \A q, r \in Answered(rs) :
    rs[q].endpoint = 0 /\ rs[r].endpoint = e => rs[q].behind < rs[r].behind

\* A tab that shows something else than it has sent last is about to send it to e.
Sending(v, p, rs, e) ==
  v.possible = "yes" /\ v.topics # None /\ v # p =>
    \E r \in B!Runs :
      /\ rs[r].view = v
      /\ \/ rs[r].step = "started"
         \/ (rs[r].step = "sent" \/ rs[r].step = "answered") /\ rs[r].endpoint = e
         \/ rs[r].step = "answered" /\ rs[r].endpoint = 0

\* A tab with topics to push is about to make an endpoint when there is none.
Enrolling(v, p, rs, e) ==
  e = 0 /\ v.possible = "yes" /\ v.topics # None /\ v.topics # {} =>
    \/ \E r \in B!Runs : rs[r].step = "started" /\ rs[r].view = v
    \/ v = p /\ \E r \in B!Runs : rs[r].step # "idle" /\ rs[r].view # v

\* The endpoint e has the topics x from a tab that shows them, or it is about to get others.
Latest(rs, e, x, r) ==
  /\ r \in Answered(rs) /\ rs[r].endpoint = e /\ rs[r].view.topics = x
  /\ \A q \in Answered(rs) : rs[q].endpoint = e => rs[q].behind <= rs[r].behind
Writer(v, p, rs, e, x) ==
  \/ v.topics = None
  \/ \E r \in B!Runs : rs[r].step = "started" \/ (rs[r].step = "sent" /\ rs[r].endpoint = e)
  \/ \E r \in B!Runs : Latest(rs, e, x, r)
  \/ p.topics = x /\ (v = p \/ v.possible = "no")
  \/ v.possible = "no" /\ p.possible = "no"

\* What holds of each tab, ...
TabOK(t) ==
  /\ Fits(view[t], prev[t], run[t], used)
  /\ granted = "yes" /\ view[t].possible = "no" => view[t].topics = None \/ view[t].topics = {}
  /\ spoiled = "no" =>
       /\ Queued(run[t]) /\ Apart(run[t], endpoint)
       /\ granted = "yes" =>
            Sending(view[t], prev[t], run[t], endpoint) /\ Enrolling(view[t], prev[t], run[t], endpoint)

\* ... and of the endpoint: some tab is its writer.
Covered ==
  spoiled = "no" /\ granted = "yes" /\ endpoint # 0 =>
    \E t \in Tabs : Writer(view[t], prev[t], run[t], endpoint, server[endpoint])

\* The inductive invariant.
PushOK ==
  /\ PushTyped
  /\ granted = "no" => endpoint = 0
  /\ stray # {} => spoiled = "yes"
  /\ \A t \in Tabs : TabOK(t)
  /\ Covered

-----------------------------------------------------------------------------
\* What a tab shows while its queries load.
LEMMA LoadingFields == B!Loading \in Views /\ B!Loading.topics = None /\ B!Loading.possible = None
  BY DEF B!Loading, Views

\* An update that is not under way.
LEMMA NoRunFields ==
  /\ B!NoRun \in Updates /\ B!NoRun.step = "idle" /\ B!NoRun.view = B!Loading
  /\ B!NoRun.endpoint = 0 /\ B!NoRun.behind = 0
  BY LoadingFields, SMTT(30) DEF B!NoRun, Updates

\* An update that was just started.
LEMMA StartedFields ==
  ASSUME NEW v \in Views
  PROVE  /\ B!Started(v) \in Updates /\ B!Started(v).step = "started" /\ B!Started(v).view = v
         /\ B!Started(v).endpoint = 0 /\ B!Started(v).behind = 0
  BY SMTT(30) DEF B!Started, Updates

\* Nothing is out of order where there are no answers.
LEMMA NoneAnswered ==
  ASSUME NEW rs, \A r \in B!Runs : rs[r].step # "answered"
  PROVE  Queued(rs) /\ \A e : Apart(rs, e)
  BY DEF Queued, Apart, Answered

\* The invariant holds initially: no tab has rendered anything.
LEMMA PushInit == B!Init => PushOK
<1> SUFFICES ASSUME B!Init PROVE PushOK OBVIOUS
<1>1. PushTyped
  BY PushAssumption, LoadingFields, NoRunFields, SMTT(30) DEF B!Init, PushTyped, B!Endpoints
<1>2. ASSUME NEW t \in Tabs PROVE TabOK(t)
  <2>1. view[t] = B!Loading /\ prev[t] = B!Loading /\ \A r \in B!Runs : run[t][r] = B!NoRun BY DEF B!Init
  <2>2. Queued(run[t]) /\ Apart(run[t], endpoint) BY <2>1, NoRunFields, NoneAnswered
  <2>3. 0 <= used BY <1>1, SMTT(30) DEF PushTyped
  <2>4. Fits(view[t], prev[t], run[t], used) BY <2>1, <2>3, LoadingFields, NoRunFields DEF Fits
  <2>5. view[t].possible # "no" /\ view[t].possible # "yes" BY <2>1, LoadingFields, PushAssumption
  <2>6. Sending(view[t], prev[t], run[t], endpoint) /\ Enrolling(view[t], prev[t], run[t], endpoint)
    BY <2>5 DEF Sending, Enrolling
  <2> QED BY <2>2, <2>4, <2>5, <2>6 DEF TabOK
<1>3. endpoint = 0 /\ stray = {} BY DEF B!Init
<1> QED BY <1>1, <1>2, <1>3 DEF PushOK, Covered

-----------------------------------------------------------------------------
(* The effect *)

\* What the effect makes of the updates of a tab.
EffectOn(v, p, rs, rs2) ==
  IF v.topics = None \/ v = p THEN rs2 = rs
  ELSE \E r \in B!Runs : rs[r].step = "idle" /\ rs2 = [rs EXCEPT ![r] = B!Started(v)]

\* The effect changes the updates of its own tab only.
LEMMA EffectRuns ==
  ASSUME NEW t \in Tabs, run \in [Tabs -> [B!Runs -> Updates]], NEW v \in Views, NEW p,
         NEW rs \in [B!Runs -> Updates], B!Effect(t, v, p, rs)
  PROVE  EffectOn(v, p, rs, run'[t]) /\ run' = [run EXCEPT ![t] = run'[t]]
<1>1. CASE v.topics = None \/ v = p
  BY <1>1 DEF B!Effect, EffectOn
<1>2. CASE ~(v.topics = None \/ v = p)
  <2>1. PICK r \in B!Runs : /\ rs[r].step = "idle"
                          /\ run' = [run EXCEPT ![t] = [rs EXCEPT ![r] = B!Started(v)]]
    BY <1>2 DEF B!Effect
  <2>2. run'[t] = [rs EXCEPT ![r] = B!Started(v)] BY <2>1
  <2> QED BY <1>2, <2>1, <2>2 DEF EffectOn
<1> QED BY <1>1, <1>2

\* rs2 has the updates of rs and, when v is new, another one.
Extended(v, p, rs, rs2) ==
  /\ \A r \in B!Runs : rs[r].step # "idle" => rs2[r] = rs[r]
  /\ \A r \in B!Runs : rs2[r] = rs[r] \/ (rs2[r] = B!Started(v) /\ v.topics # None)
  /\ v.topics = None \/ v = p \/ \E r \in B!Runs : rs2[r] = B!Started(v)
  /\ Answered(rs2) = Answered(rs)

\* The effect keeps the updates that are under way, and may start one.
LEMMA EffectKeeps ==
  ASSUME NEW v \in Views, NEW p, NEW rs \in [B!Runs -> Updates], NEW rs2, EffectOn(v, p, rs, rs2)
  PROVE  rs2 \in [B!Runs -> Updates] /\ Extended(v, p, rs, rs2)
<1>1. CASE v.topics = None \/ v = p
  BY <1>1 DEF EffectOn, Extended
<1>2. CASE ~(v.topics = None \/ v = p)
  <2>1. PICK r \in B!Runs : rs[r].step = "idle" /\ rs2 = [rs EXCEPT ![r] = B!Started(v)] BY <1>2 DEF EffectOn
  <2>2. rs2 \in [B!Runs -> Updates] BY <2>1, StartedFields
  <2>3. rs2[r] = B!Started(v) /\ \A q \in B!Runs : q # r => rs2[q] = rs[q] BY <2>1
  <2>4. \A q \in B!Runs : rs2[q].step = "answered" <=> rs[q].step = "answered" BY <2>1, <2>3, StartedFields
  <2> QED BY <1>2, <2>1, <2>2, <2>3, <2>4 DEF Answered, Extended
<1> QED BY <1>1, <1>2

\* An update that the effect starts is of what the tab shows.
LEMMA EffectFits ==
  ASSUME NEW v \in Views, NEW p, NEW rs \in [B!Runs -> Updates], NEW rs2, EffectOn(v, p, rs, rs2),
         NEW u \in Nat, Fits(v, p, rs, u)
  PROVE  Fits(v, p, rs2, u)
<1>1. 0 <= u BY SMTT(30)
<1>2. v.topics = None => rs2 = rs BY DEF EffectOn
<1>3. Extended(v, p, rs, rs2) BY EffectKeeps
<1>4. ASSUME NEW r \in B!Runs
      PROVE  /\ rs2[r].endpoint <= u
             /\ rs2[r].step # "idle" => rs2[r].view.topics # None
             /\ rs2[r].step = "started" => rs2[r].endpoint = 0
             /\ rs2[r].step = "sent" => rs2[r].endpoint # 0
             /\ rs2[r].step = "answered" /\ rs2[r].endpoint = 0 => rs2[r].view.topics = {}
  <2>1. CASE rs2[r] = rs[r] BY <2>1 DEF Fits
  <2>2. CASE rs2[r] = B!Started(v) /\ v.topics # None BY <1>1, <2>2, StartedFields
  <2> QED BY <1>3, <2>1, <2>2 DEF Extended
<1> QED BY <1>2, <1>4 DEF Fits

\* The effect leaves the answers as they are.
LEMMA EffectQueued ==
  ASSUME NEW v \in Views, NEW p, NEW rs \in [B!Runs -> Updates], NEW rs2, EffectOn(v, p, rs, rs2),
         Queued(rs), NEW e, Apart(rs, e)
  PROVE  Queued(rs2) /\ Apart(rs2, e)
<1>1. Extended(v, p, rs, rs2) BY EffectKeeps
<1>2. \A r \in Answered(rs) : rs2[r] = rs[r] BY <1>1 DEF Answered, Extended
<1>3. Answered(rs2) = Answered(rs) BY <1>1 DEF Extended
<1> QED BY <1>2, <1>3 DEF Queued, Apart

\* After the effect, what differs from prevUpdate is about to be sent.
LEMMA EffectSending ==
  ASSUME NEW v \in Views, NEW p, NEW rs \in [B!Runs -> Updates], NEW rs2, EffectOn(v, p, rs, rs2), NEW e
  PROVE  Sending(v, p, rs2, e)
<1>1. Extended(v, p, rs, rs2) BY EffectKeeps
<1>2. v.topics = None \/ v = p \/ \E r \in B!Runs : rs2[r] = B!Started(v) BY <1>1 DEF Extended
<1> QED BY <1>2, StartedFields DEF Sending

\* A render that changes the topics or the permission starts an update, so that an
\* endpoint is still made if there is none.
LEMMA RenderEnrolling ==
  ASSUME NEW o \in Views, NEW v \in Views, NEW p, NEW rs \in [B!Runs -> Updates], NEW rs2, NEW e, NEW u,
         EffectOn(v, p, rs, rs2), Fits(o, p, rs, u), Sending(o, p, rs, e), Enrolling(o, p, rs, e),
         o.possible = "no" => o.topics = None \/ o.topics = {},
         v.possible = o.possible \/ v.topics = o.topics
  PROVE  Enrolling(v, p, rs2, e)
<1> SUFFICES ASSUME e = 0, v.possible = "yes", v.topics # None, v.topics # {}
             PROVE  \/ \E r \in B!Runs : rs2[r].step = "started" /\ rs2[r].view = v
                    \/ v = p /\ \E r \in B!Runs : rs2[r].step # "idle" /\ rs2[r].view # v
  BY DEF Enrolling
<1>1. Extended(v, p, rs, rs2) BY EffectKeeps
<1>2. CASE v # p
  BY <1>1, <1>2, StartedFields DEF Extended
<1>3. CASE v = p /\ o = v
  BY <1>1, <1>3 DEF Extended, Enrolling
<1>4. CASE v = p /\ o # v
  <2>1. o.topics # None BY <1>4, LoadingFields DEF Fits
  <2>2. o.possible = "yes"
    <3>1. o.possible # None BY <2>1 DEF Fits
    <3>2. o.possible # "no" BY <2>1
    <3> QED BY <3>1, <3>2 DEF Views
  <2>3. PICK r \in B!Runs : rs[r].view = o /\ rs[r].step # "idle" BY <1>4, <2>1, <2>2 DEF Sending
  <2>4. rs2[r] = rs[r] BY <1>1, <2>3 DEF Extended
  <2> QED BY <1>4, <2>3, <2>4
<1> QED BY <1>2, <1>3, <1>4

\* After a render the endpoint still has the topics of a tab, or is about to get others.
LEMMA RenderWriter ==
  ASSUME NEW o \in Views, NEW v \in Views, NEW p, NEW rs \in [B!Runs -> Updates], NEW rs2, NEW e, NEW x, NEW u,
         EffectOn(v, p, rs, rs2), Fits(o, p, rs, u), Writer(o, p, rs, e, x),
         v.possible = o.possible \/ v.possible = "yes"
  PROVE  Writer(v, p, rs2, e, x)
<1>1. Extended(v, p, rs, rs2) BY EffectKeeps
<1>2. CASE v.topics = None BY <1>2 DEF Writer
<1>3. CASE v.topics # None /\ v # p BY <1>1, <1>3, StartedFields DEF Extended, Writer
<1>4. CASE v.topics # None /\ v = p
  <2>1. rs2 = rs BY <1>4 DEF EffectOn
  <2>2. o.topics # None BY <1>4, LoadingFields DEF Fits
  <2>3. CASE o.possible = "no" /\ p.possible = "no"
    BY <1>4, <2>3 DEF Writer
  <2> QED BY <1>4, <2>1, <2>2, <2>3 DEF Writer
<1> QED BY <1>2, <1>3, <1>4

\* A tab is as before where nothing of it, and nothing it relies on, changes.
LEMMA OtherTab ==
  ASSUME NEW t \in Tabs, TabOK(t), view'[t] = view[t], prev'[t] = prev[t], run'[t] = run[t],
         granted' = granted, endpoint' = endpoint, used' = used, spoiled' = "no" => spoiled = "no"
  PROVE  TabOK(t)'
  BY DEF TabOK

\* A render keeps the invariant, if what it shows changes in one of its two parts.
LEMMA RenderStep ==
  ASSUME PushOK, NEW t \in Tabs, NEW v \in Views, B!Render(t, v),
         v.possible # None, view[t].topics # None => v.topics # None,
         granted = "yes" /\ v.possible = "no" => v.topics = None \/ v.topics = {},
         v.possible = view[t].possible \/ (v.possible = granted /\ v.topics = view[t].topics)
  PROVE  PushOK'
<1>0. PushTyped /\ \A q \in Tabs : TabOK(q) BY DEF PushOK
<1>1. view[t] \in Views /\ prev[t] \in Views /\ run[t] \in [B!Runs -> Updates] /\ used \in Nat
      /\ run \in [Tabs -> [B!Runs -> Updates]] /\ view \in [Tabs -> Views]
  BY <1>0 DEF PushTyped
<1>2. /\ view' = [view EXCEPT ![t] = v] /\ B!Effect(t, v, prev[t], run[t])
      /\ UNCHANGED <<wanted, granted, endpoint, used, server, prev, stray, changes, faults, spoiled>>
  BY DEF B!Render
<1>3. EffectOn(v, prev[t], run[t], run'[t]) /\ run' = [run EXCEPT ![t] = run'[t]]
  BY <1>1, <1>2, EffectRuns
<1>4. run'[t] \in [B!Runs -> Updates] BY <1>1, <1>3, EffectKeeps
<1>5. run' \in [Tabs -> [B!Runs -> Updates]] BY <1>1, <1>3, <1>4
<1>6. PushTyped' BY <1>0, <1>1, <1>2, <1>5 DEF PushTyped
<1>7. view'[t] = v BY <1>1, <1>2
<1>8. ASSUME NEW q \in Tabs, q # t PROVE view'[q] = view[q] /\ run'[q] = run[q]
  BY <1>1, <1>2, <1>3, <1>8
<1>9. Fits(view[t], prev[t], run[t], used) BY <1>0 DEF TabOK
<1>10. TabOK(t)'
  <2>1. Fits(v, prev[t], run[t], used) BY <1>9 DEF Fits
  <2>2. Fits(v, prev[t], run'[t], used) BY <1>1, <1>3, <2>1, EffectFits
  <2>3. ASSUME spoiled = "no" PROVE Queued(run'[t]) /\ Apart(run'[t], endpoint)
    <3>1. Queued(run[t]) /\ Apart(run[t], endpoint) BY <1>0, <2>3 DEF TabOK
    <3> QED BY <1>1, <1>3, <3>1, EffectQueued
  <2>4. Sending(v, prev[t], run'[t], endpoint) BY <1>1, <1>3, EffectSending
  <2>5. ASSUME spoiled = "no", granted = "yes" PROVE Enrolling(v, prev[t], run'[t], endpoint)
    <3>1. /\ Sending(view[t], prev[t], run[t], endpoint) /\ Enrolling(view[t], prev[t], run[t], endpoint)
          /\ view[t].possible = "no" => view[t].topics = None \/ view[t].topics = {}
      BY <1>0, <2>5 DEF TabOK
    <3> QED BY <1>1, <1>3, <1>9, <3>1, RenderEnrolling
  <2> QED BY <1>2, <1>7, <2>2, <2>3, <2>4, <2>5 DEF TabOK
<1>11. \A q \in Tabs : TabOK(q)' BY <1>0, <1>2, <1>8, <1>10, OtherTab
<1>12. Covered'
  <2> SUFFICES ASSUME spoiled = "no", granted = "yes", endpoint # 0
               PROVE  \E q \in Tabs : Writer(view'[q], prev[q], run'[q], endpoint, server[endpoint])
    BY <1>2 DEF Covered
  <2>1. PICK q \in Tabs : Writer(view[q], prev[q], run[q], endpoint, server[endpoint])
    BY DEF PushOK, Covered
  <2>2. CASE q # t BY <1>8, <2>1, <2>2
  <2>3. CASE q = t
    <3>1. v.possible = view[t].possible \/ v.possible = "yes" OBVIOUS
    <3>2. Writer(v, prev[t], run'[t], endpoint, server[endpoint])
      BY <1>1, <1>3, <1>9, <2>1, <2>3, <3>1, RenderWriter
    <3> QED BY <1>7, <3>2
  <2> QED BY <2>2, <2>3
<1> QED BY <1>2, <1>6, <1>11, <1>12 DEF PushOK

\* A tab notices the permission.
LEMMA PossibleStep ==
  ASSUME PushOK, NEW t \in Tabs, B!PushPossible(t)
  PROVE  PushOK'
<1> DEFINE v == [view[t] EXCEPT !.possible = granted]
<1>1. view[t] \in Views /\ granted \in {"yes", "no"} BY DEF PushOK, PushTyped
<1>2. v \in Views /\ v.possible = granted /\ v.topics = view[t].topics BY <1>1 DEF Views
<1>3. v.possible # None BY <1>1, <1>2, PushAssumption
<1>4. B!Render(t, v) BY DEF B!PushPossible
<1>5. ~(granted = "yes" /\ v.possible = "no") BY <1>2
<1> HIDE DEF v
<1> QED BY <1>2, <1>3, <1>4, <1>5, RenderStep

\* The live query of a tab has the topics.
LEMMA QueryStep ==
  ASSUME PushOK, NEW t \in Tabs, B!LiveQuery(t)
  PROVE  PushOK'
<1> DEFINE v == [view[t] EXCEPT !.topics = B!WebPushTopics(view[t].possible)]
<1>1. view[t] \in Views /\ wanted \in SUBSET Pushable BY DEF PushOK, PushTyped
<1>2. /\ B!WebPushTopics(view[t].possible) \in SUBSET Pushable
      /\ view[t].possible = "no" => B!WebPushTopics(view[t].possible) = {}
  BY <1>1 DEF B!WebPushTopics
<1>3. v \in Views /\ v.possible = view[t].possible /\ v.topics = B!WebPushTopics(view[t].possible)
  BY <1>1, <1>2 DEF Views
<1>4. B!Render(t, v) /\ v.possible # None BY <1>3 DEF B!LiveQuery
<1>5. v.topics # None BY <1>2, <1>3, PushAssumption
<1>6. v.possible = "no" => v.topics = {} BY <1>2, <1>3
<1> HIDE DEF v
<1> QED BY <1>3, <1>4, <1>5, <1>6, RenderStep

-----------------------------------------------------------------------------
(* The user, and a tab that is loaded again *)

\* The user changes the topics; the tabs do not know of it yet.
LEMMA ChangeStep ==
  ASSUME PushOK, NEW W \in SUBSET Pushable, B!Change(W)
  PROVE  PushOK'
<1>1. /\ wanted' = W
      /\ UNCHANGED <<granted, endpoint, used, server, view, prev, run, stray, faults, spoiled>>
  BY DEF B!Change
<1>2. PushTyped' BY <1>1 DEF PushOK, PushTyped
<1>3. \A t \in Tabs : TabOK(t)' BY <1>1, OtherTab DEF PushOK
<1>4. Covered' BY <1>1 DEF PushOK, Covered
<1> QED BY <1>1, <1>2, <1>3, <1>4 DEF PushOK

\* The permission is given or taken back, which ends the endpoint.
LEMMA PermissionStep ==
  ASSUME PushOK, B!SetPermission
  PROVE  PushOK'
<1>1. /\ \A t \in Tabs : view[t] = B!Loading \/ view[t] = B!Current
      /\ granted' = (IF granted = "yes" THEN "no" ELSE "yes") /\ endpoint' = 0
      /\ UNCHANGED <<wanted, used, server, view, prev, run, stray, faults, spoiled>>
  BY DEF B!SetPermission
<1>2. granted \in {"yes", "no"} /\ used \in Nat BY DEF PushOK, PushTyped
<1>3. granted' \in {"yes", "no"} BY <1>1
<1>4. 0 <= used BY <1>2, SMTT(30)
<1>5. PushTyped' BY <1>1, <1>3, <1>4 DEF PushOK, PushTyped
<1>6. ASSUME NEW t \in Tabs PROVE TabOK(t)'
  <2>1. TabOK(t) BY DEF PushOK
  <2>2. Fits(view[t], prev[t], run[t], used) BY <2>1 DEF TabOK
  <2>3. ASSUME spoiled = "no" PROVE Queued(run[t]) /\ Apart(run[t], 0)
    BY <2>1, <2>3 DEF TabOK, Apart
  <2>4. ASSUME granted' = "yes" PROVE view[t].possible # "yes" /\ (view[t].topics = None \/ view[t].topics = {})
    <3>1. granted = "no" BY <1>1, <1>2, <2>4
    <3>2. B!Current.topics = {} /\ B!Current.possible = "no" BY <3>1 DEF B!Current, B!WebPushTopics
    <3> QED BY <1>1, <3>2, LoadingFields, PushAssumption
  <2>5. ASSUME granted' = "yes" PROVE Sending(view[t], prev[t], run[t], 0) /\ Enrolling(view[t], prev[t], run[t], 0)
    BY <2>4, <2>5 DEF Sending, Enrolling
  <2> QED BY <1>1, <2>2, <2>3, <2>4, <2>5 DEF TabOK
<1> QED BY <1>1, <1>5, <1>6 DEF PushOK, Covered

\* A tab is loaded again, and leaves its requests behind.
LEMMA ReloadStep ==
  ASSUME PushOK, NEW t \in Tabs, B!Reload(t)
  PROVE  PushOK'
<1> DEFINE sent == {r \in B!Runs : run[t][r].step = "sent"}
           none == [r \in B!Runs |-> B!NoRun]
<1>1. /\ stray' = stray \cup {run[t][r] : r \in sent}
      /\ spoiled' = (IF sent = {} THEN spoiled ELSE "yes")
      /\ view' = [view EXCEPT ![t] = B!Loading] /\ prev' = [prev EXCEPT ![t] = B!Loading]
      /\ run' = [run EXCEPT ![t] = none]
      /\ UNCHANGED <<wanted, granted, endpoint, used, server, changes>>
  BY DEF B!Reload
<1>2. PushTyped /\ \A q \in Tabs : TabOK(q) BY DEF PushOK
<1>3. view \in [Tabs -> Views] /\ prev \in [Tabs -> Views] /\ run \in [Tabs -> [B!Runs -> Updates]]
  BY <1>2 DEF PushTyped
<1>4. spoiled' = "no" => spoiled = "no" BY <1>1
<1>5. none \in [B!Runs -> Updates] BY NoRunFields
<1>6. PushTyped'
  <2>1. view' \in [Tabs -> Views] /\ prev' \in [Tabs -> Views] BY <1>1, <1>3, LoadingFields
  <2>2. run' \in [Tabs -> [B!Runs -> Updates]] BY <1>1, <1>3, <1>5
  <2>3. stray \in SUBSET Updates /\ \A r \in sent : run[t][r] \in Updates BY <1>2, <1>3 DEF PushTyped
  <2>4. spoiled' \in {"yes", "no"} BY <1>1, <1>2 DEF PushTyped
  <2>5. stray' \in SUBSET Updates BY <1>1, <2>3
  <2> QED BY <1>1, <1>2, <2>1, <2>2, <2>4, <2>5 DEF PushTyped
<1>7. stray' # {} => spoiled' = "yes" BY <1>1 DEF PushOK
<1>8. view'[t] = B!Loading /\ prev'[t] = B!Loading /\ run'[t] = none BY <1>1, <1>3
<1>9. ASSUME NEW q \in Tabs, q # t PROVE view'[q] = view[q] /\ prev'[q] = prev[q] /\ run'[q] = run[q]
  BY <1>1, <1>3, <1>9
<1>10. TabOK(t)'
  <2>1. \A r \in B!Runs : none[r] = B!NoRun OBVIOUS
  <2>2. used \in Nat BY <1>2 DEF PushTyped
  <2>3. 0 <= used BY <2>2, SMTT(30)
  <2> HIDE DEF none
  <2>4. Fits(B!Loading, B!Loading, none, used) BY <2>1, <2>3, NoRunFields, LoadingFields DEF Fits
  <2>5. Queued(none) /\ Apart(none, endpoint) BY <2>1, NoRunFields, NoneAnswered
  <2>6. B!Loading.possible # "yes" /\ B!Loading.possible # "no" BY LoadingFields, PushAssumption
  <2>7. Sending(B!Loading, B!Loading, none, endpoint) /\ Enrolling(B!Loading, B!Loading, none, endpoint)
    BY <2>6 DEF Sending, Enrolling
  <2> QED BY <1>1, <1>8, <2>4, <2>5, <2>6, <2>7 DEF TabOK
<1>11. \A q \in Tabs : TabOK(q)' BY <1>1, <1>2, <1>4, <1>9, <1>10, OtherTab
<1>12. Covered'
  <2>1. Writer(view'[t], prev'[t], run'[t], endpoint, server[endpoint]) BY <1>8, LoadingFields DEF Writer
  <2> QED BY <1>1, <2>1 DEF Covered
<1> QED BY <1>1, <1>6, <1>7, <1>11, <1>12 DEF PushOK

\* The server handles a request of a tab that is gone.
LEMMA StrayStep ==
  ASSUME PushOK, NEW s \in stray, B!HandleStray(s)
  PROVE  PushOK'
<1>1. /\ stray' = stray \ {s} /\ server' = [server EXCEPT ![s.endpoint] = s.view.topics]
      /\ UNCHANGED <<wanted, granted, endpoint, used, view, prev, run, changes, faults, spoiled>>
  BY DEF B!HandleStray
<1>2. PushTyped /\ spoiled = "yes" /\ \A q \in Tabs : TabOK(q) BY DEF PushOK
<1>3. s.view.topics \in (SUBSET Pushable) \cup {None} BY <1>2 DEF PushTyped, Updates, Views
<1>4. server' \in [B!Endpoints -> (SUBSET Pushable) \cup {None}] BY <1>1, <1>2, <1>3 DEF PushTyped
<1>5. PushTyped' BY <1>1, <1>2, <1>4 DEF PushTyped
<1>6. \A t \in Tabs : TabOK(t)' BY <1>1, <1>2, OtherTab
<1> QED BY <1>1, <1>2, <1>5, <1>6 DEF PushOK, Covered

-----------------------------------------------------------------------------
(* A step of one update *)

\* The update r has got to the step s, with e and b.
Moved(rs, rs2, r, s, e, b) ==
  /\ rs2 \in [B!Runs -> Updates]
  /\ \A q \in B!Runs : q # r => rs2[q] = rs[q]
  /\ rs2[r].step = s /\ rs2[r].view = rs[r].view /\ rs2[r].endpoint = e /\ rs2[r].behind = b

\* There are finitely many updates.
LEMMA RunsFinite == IsFiniteSet(B!Runs)
<1>1. 1 \in Int /\ MaxRuns \in Int BY PushAssumption, SMTT(30)
<1> QED BY <1>1, FS_Interval DEF B!Runs

\* The server's answer to an update is last in the queue.
LEMMA AnswerMoves ==
  ASSUME run \in [Tabs -> [B!Runs -> Updates]], NEW t \in Tabs, NEW r \in B!Runs, B!Answer(t, r)
  PROVE  /\ Moved(run[t], run'[t], r, "answered", run[t][r].endpoint, Cardinality(Answered(run[t])))
         /\ run' = [run EXCEPT ![t] = run'[t]]
<1> DEFINE n == Cardinality({q \in B!Runs : run[t][q].step = "answered"})
<1>1. n = Cardinality(Answered(run[t])) BY DEF Answered
<1>2. n \in Nat
  <2>1. IsFiniteSet(B!Runs) BY RunsFinite
  <2>2. IsFiniteSet({q \in B!Runs : run[t][q].step = "answered"}) BY <2>1, FS_Subset
  <2> QED BY <2>2, FS_CardinalityType
<1>3. run' = [run EXCEPT ![t][r].step = "answered", ![t][r].behind = n]
  BY DEF B!Answer, B!Cardinality, Cardinality, B!IsFiniteSet, IsFiniteSet
<1> HIDE DEF n
<1>4. run'[t] = [run[t] EXCEPT ![r].step = "answered", ![r].behind = n] BY <1>3
<1>5. run'[t][r] = [run[t][r] EXCEPT !.step = "answered", !.behind = n] BY <1>4
<1>6. run[t][r] \in Updates OBVIOUS
<1>7. /\ run'[t][r] \in Updates /\ run'[t][r].step = "answered" /\ run'[t][r].view = run[t][r].view
      /\ run'[t][r].endpoint = run[t][r].endpoint /\ run'[t][r].behind = n
  BY <1>2, <1>5, <1>6 DEF Updates
<1>8. run'[t] \in [B!Runs -> Updates]
  <2>1. run[t] \in [B!Runs -> Updates] OBVIOUS
  <2>2. run'[t] = [run[t] EXCEPT ![r] = run'[t][r]] BY <1>4, <1>5
  <2> QED BY <1>7, <2>1, <2>2
<1>9. \A q \in B!Runs : q # r => run'[t][q] = run[t][q] BY <1>4
<1>10. run' = [run EXCEPT ![t] = run'[t]] BY <1>3, <1>4
<1> QED BY <1>1, <1>7, <1>8, <1>9, <1>10 DEF Moved

\* An update is sent to an endpoint.
LEMMA SentMoves ==
  ASSUME run \in [Tabs -> [B!Runs -> Updates]], NEW t \in Tabs, NEW r \in B!Runs, NEW e \in Nat,
         run' = [run EXCEPT ![t][r].step = "sent", ![t][r].endpoint = e]
  PROVE  Moved(run[t], run'[t], r, "sent", e, run[t][r].behind) /\ run' = [run EXCEPT ![t] = run'[t]]
<1>4. run'[t] = [run[t] EXCEPT ![r].step = "sent", ![r].endpoint = e] OBVIOUS
<1>5. run'[t][r] = [run[t][r] EXCEPT !.step = "sent", !.endpoint = e] BY <1>4
<1>6. run[t][r] \in Updates OBVIOUS
<1>7. /\ run'[t][r] \in Updates /\ run'[t][r].step = "sent" /\ run'[t][r].view = run[t][r].view
      /\ run'[t][r].endpoint = e /\ run'[t][r].behind = run[t][r].behind
  BY <1>5, <1>6 DEF Updates
<1>8. run'[t] \in [B!Runs -> Updates]
  <2>1. run[t] \in [B!Runs -> Updates] OBVIOUS
  <2>2. run'[t] = [run[t] EXCEPT ![r] = run'[t][r]] BY <1>4, <1>5
  <2> QED BY <1>7, <2>1, <2>2
<1>9. \A q \in B!Runs : q # r => run'[t][q] = run[t][q] BY <1>4
<1>10. run' = [run EXCEPT ![t] = run'[t]] BY <1>4
<1> QED BY <1>7, <1>8, <1>9, <1>10 DEF Moved

\* An answer more in the queue.
\* A new answer is last in the queue, and all others are ahead of it.
LEMMA AnswerQueued ==
  ASSUME NEW rs \in [B!Runs -> Updates], NEW rs2, NEW r \in B!Runs, NEW e, NEW f,
         rs[r].step # "answered", rs[r].endpoint = f,
         Moved(rs, rs2, r, "answered", f, Cardinality(Answered(rs))),
         Queued(rs), Apart(rs, e), e # 0 => f # 0
  PROVE  /\ Queued(rs2) /\ Apart(rs2, e)
         /\ \A q \in Answered(rs2) : rs2[q].behind <= rs2[r].behind
<1> DEFINE A == Answered(rs)
           n == Cardinality(A)
<1>1. IsFiniteSet(A)
  <2>1. IsFiniteSet(B!Runs) BY RunsFinite
  <2> QED BY <2>1, FS_Subset DEF Answered
<1>2. r \notin A BY DEF Answered
<1>3. Answered(rs2) = A \cup {r} BY DEF Answered, Moved
<1>4. n \in Nat /\ Cardinality(Answered(rs2)) = n + 1
  BY <1>1, <1>2, <1>3, FS_AddElement, FS_CardinalityType
<1>5. \A q \in A : rs2[q] = rs[q] /\ rs[q].behind < n /\ rs[q].behind \in Nat
  BY <1>2 DEF Moved, Queued, Updates, Answered
<1>6. rs2[r].behind = n /\ rs2[r].endpoint = f BY DEF Moved
<1>7. ASSUME NEW q \in A, NEW s \in A, rs[q].behind = rs[s].behind PROVE q = s BY <1>7 DEF Queued
<1> HIDE DEF A, n
<1>8. \A q \in Answered(rs2) : rs2[q].behind < Cardinality(Answered(rs2)) /\ rs2[q].behind <= rs2[r].behind
  BY <1>3, <1>4, <1>5, <1>6, SMTT(30)
<1>9. \A q \in A : rs2[q].behind # rs2[r].behind BY <1>4, <1>5, <1>6, SMTT(30)
<1>10. \A q, s \in Answered(rs2) : rs2[q].behind = rs2[s].behind => q = s
  BY <1>3, <1>5, <1>7, <1>9
<1>11. ASSUME e # 0, NEW q \in Answered(rs2), NEW s \in Answered(rs2), rs2[q].endpoint = 0, rs2[s].endpoint = e
       PROVE  rs2[q].behind < rs2[s].behind
  <2>1. q \in A BY <1>3, <1>6, <1>11
  <2>2. CASE s = r BY <1>5, <1>6, <2>1, <2>2
  <2>3. CASE s # r BY <1>3, <1>5, <1>11, <2>1, <2>3 DEF Apart, A
  <2> QED BY <2>2, <2>3
<1> QED BY <1>8, <1>10, <1>11 DEF Queued, Apart

\* An update that gets on, and no other, keeps what is said of its tab.
\* An update that is sent or answered has an endpoint, unless it has no topics.
LEMMA MovedFits ==
  ASSUME NEW v, NEW p, NEW rs \in [B!Runs -> Updates], NEW rs2, NEW r \in B!Runs, NEW u, NEW s, NEW e, NEW b,
         Fits(v, p, rs, u), Moved(rs, rs2, r, s, e, b), rs[r].step # "idle",
         s = "sent" \/ s = "answered", e <= u, e # 0 \/ (s = "answered" /\ rs[r].view.topics = {})
  PROVE  Fits(v, p, rs2, u)
<1>1. v.topics # None BY DEF Fits
<1>2. ASSUME NEW q \in B!Runs
      PROVE  /\ rs2[q].endpoint <= u
             /\ rs2[q].step # "idle" => rs2[q].view.topics # None
             /\ rs2[q].step = "started" => rs2[q].endpoint = 0
             /\ rs2[q].step = "sent" => rs2[q].endpoint # 0
             /\ rs2[q].step = "answered" /\ rs2[q].endpoint = 0 => rs2[q].view.topics = {}
  <2>1. CASE q = r BY <2>1 DEF Fits, Moved
  <2>2. CASE q # r BY <2>2 DEF Fits, Moved
  <2> QED BY <2>1, <2>2
<1> QED BY <1>1, <1>2 DEF Fits

\* An update that goes on is still about to be at its endpoint.
LEMMA MovedSending ==
  ASSUME NEW v, NEW p, NEW rs \in [B!Runs -> Updates], NEW rs2, NEW r \in B!Runs, NEW u, NEW s, NEW e, NEW f, NEW b,
         Fits(v, p, rs, u), Sending(v, p, rs, e), Moved(rs, rs2, r, s, f, b),
         \/ rs[r].step = "started" /\ (f = e \/ (s = "answered" /\ f = 0))
         \/ rs[r].step = "sent" /\ f = rs[r].endpoint,
         s = "sent" \/ s = "answered"
  PROVE  Sending(v, p, rs2, e)
<1> SUFFICES ASSUME v.possible = "yes", v.topics # None, v # p
             PROVE  \E q \in B!Runs :
                      /\ rs2[q].view = v
                      /\ \/ rs2[q].step = "started"
                         \/ (rs2[q].step = "sent" \/ rs2[q].step = "answered") /\ rs2[q].endpoint = e
                         \/ rs2[q].step = "answered" /\ rs2[q].endpoint = 0
  BY DEF Sending
<1>1. PICK q \in B!Runs :
        /\ rs[q].view = v
        /\ \/ rs[q].step = "started"
           \/ (rs[q].step = "sent" \/ rs[q].step = "answered") /\ rs[q].endpoint = e
           \/ rs[q].step = "answered" /\ rs[q].endpoint = 0
  BY DEF Sending
<1>2. CASE q # r BY <1>1, <1>2 DEF Moved
<1>3. CASE q = r BY <1>1, <1>3 DEF Moved
<1> QED BY <1>2, <1>3

\* An update with topics that is answered is not the one that makes an endpoint.
LEMMA AnsweredEnrolling ==
  ASSUME NEW v, NEW p, NEW rs \in [B!Runs -> Updates], NEW rs2, NEW r \in B!Runs, NEW e, NEW f, NEW b,
         Enrolling(v, p, rs, e), Moved(rs, rs2, r, "answered", f, b),
         rs[r].step = "started" => rs[r].view.topics = {}
  PROVE  Enrolling(v, p, rs2, e)
<1> SUFFICES ASSUME e = 0, v.possible = "yes", v.topics # None, v.topics # {}
             PROVE  \/ \E q \in B!Runs : rs2[q].step = "started" /\ rs2[q].view = v
                    \/ v = p /\ \E q \in B!Runs : rs2[q].step # "idle" /\ rs2[q].view # v
  BY DEF Enrolling
<1>1. CASE \E q \in B!Runs : rs[q].step = "started" /\ rs[q].view = v
  BY <1>1 DEF Moved
<1>2. CASE v = p /\ \E q \in B!Runs : rs[q].step # "idle" /\ rs[q].view # v
  <2>1. PICK q \in B!Runs : rs[q].step # "idle" /\ rs[q].view # v BY <1>2
  <2>2. rs2[q].step # "idle" /\ rs2[q].view # v BY <2>1 DEF Moved
  <2> QED BY <1>2, <2>2
<1> QED BY <1>1, <1>2 DEF Enrolling

\* The steps of an update that change nothing of its tab but that update.
\* For a step of an update it suffices to look at its own tab and at the endpoint.
LEMMA UpdateStep ==
  ASSUME PushOK, NEW t \in Tabs, NEW r \in B!Runs, run' \in [Tabs -> [B!Runs -> Updates]],
         \A q \in Tabs : q # t => run'[q] = run[q],
         TabOK(t)', Covered', server' \in [B!Endpoints -> (SUBSET Pushable) \cup {None}],
         UNCHANGED <<wanted, granted, endpoint, used, view, prev, stray, changes, faults, spoiled>>
  PROVE  PushOK'
<1>1. PushTyped' BY DEF PushOK, PushTyped
<1>2. \A q \in Tabs : TabOK(q)' BY OtherTab DEF PushOK
<1> QED BY <1>1, <1>2 DEF PushOK

\* The server handles an update: the endpoint has its topics, and its answer is the last.
LEMMA HandleStep ==
  ASSUME PushOK, NEW t \in Tabs, NEW r \in B!Runs, B!Handle(t, r)
  PROVE  PushOK'
<1> DEFINE f == run[t][r].endpoint
<1>1. /\ run[t][r].step = "sent" /\ server' = [server EXCEPT ![f] = run[t][r].view.topics] /\ B!Answer(t, r)
      /\ UNCHANGED <<wanted, granted, endpoint, used, view, prev, stray, changes, faults, spoiled>>
  BY DEF B!Handle
<1>2. PushTyped /\ TabOK(t) BY DEF PushOK
<1>3. /\ run \in [Tabs -> [B!Runs -> Updates]] /\ run[t] \in [B!Runs -> Updates] /\ run[t][r] \in Updates
      /\ server \in [B!Endpoints -> (SUBSET Pushable) \cup {None}]
  BY <1>2 DEF PushTyped
<1>4. /\ Moved(run[t], run'[t], r, "answered", f, Cardinality(Answered(run[t])))
      /\ run' = [run EXCEPT ![t] = run'[t]]
  BY <1>1, <1>3, AnswerMoves
<1>5. run' \in [Tabs -> [B!Runs -> Updates]] /\ \A q \in Tabs : q # t => run'[q] = run[q]
  BY <1>3, <1>4 DEF Moved
<1>6. server' \in [B!Endpoints -> (SUBSET Pushable) \cup {None}]
  BY <1>1, <1>3 DEF Updates, Views
<1>7. Fits(view[t], prev[t], run[t], used) BY <1>2 DEF TabOK
<1>8. f # 0 /\ f <= used BY <1>1, <1>7 DEF Fits
<1>9. f \in B!Endpoints
  <2>1. f \in Nat BY <1>3 DEF Updates
  <2>2. used \in Nat /\ used <= MaxEndpoints BY <1>2 DEF PushTyped
  <2> HIDE DEF f
  <2> QED BY <1>8, <2>1, <2>2, PushAssumption, SMTT(30) DEF B!Endpoints
<1>10. ASSUME spoiled = "no"
       PROVE  /\ Queued(run'[t]) /\ Apart(run'[t], endpoint)
              /\ \A q \in Answered(run'[t]) : run'[t][q].behind <= run'[t][r].behind
  <2>1. Queued(run[t]) /\ Apart(run[t], endpoint) BY <1>2, <1>10 DEF TabOK
  <2>2. run[t][r].step # "answered" BY <1>1
  <2> HIDE DEF f
  <2> QED BY <1>3, <1>4, <1>8, <2>1, <2>2, AnswerQueued DEF f
<1>11. TabOK(t)'
  <2>1. Fits(view[t], prev[t], run'[t], used)
    <3> DEFINE b == Cardinality(Answered(run[t]))
    <3>1. Moved(run[t], run'[t], r, "answered", f, b) BY <1>4
    <3> HIDE DEF b, f
    <3> QED BY <1>1, <1>3, <1>7, <1>8, <3>1, MovedFits
  <2>2. ASSUME spoiled = "no", granted = "yes"
        PROVE  Sending(view[t], prev[t], run'[t], endpoint) /\ Enrolling(view[t], prev[t], run'[t], endpoint)
    <3>1. Sending(view[t], prev[t], run[t], endpoint) /\ Enrolling(view[t], prev[t], run[t], endpoint)
      BY <1>2, <2>2 DEF TabOK
    <3> DEFINE b == Cardinality(Answered(run[t]))
    <3>2. Moved(run[t], run'[t], r, "answered", f, b) BY <1>4
    <3>3. f = run[t][r].endpoint OBVIOUS
    <3> HIDE DEF b, f
    <3>4. Sending(view[t], prev[t], run'[t], endpoint) BY <1>1, <1>3, <1>7, <3>1, <3>2, <3>3, MovedSending
    <3>5. Enrolling(view[t], prev[t], run'[t], endpoint) BY <1>1, <1>3, <3>1, <3>2, AnsweredEnrolling
    <3> QED BY <3>4, <3>5
  <2> QED BY <1>1, <1>2, <1>10, <2>1, <2>2 DEF TabOK
<1>12. Covered'
  <2> SUFFICES ASSUME spoiled = "no", granted = "yes", endpoint # 0
               PROVE  \E q \in Tabs : Writer(view[q], prev[q], run'[q], endpoint, server'[endpoint])
    BY <1>1 DEF Covered
  <2>1. CASE f = endpoint
    <3>1. server'[endpoint] = run[t][r].view.topics BY <1>1, <1>3, <1>9, <2>1
    <3>2. /\ r \in Answered(run'[t]) /\ run'[t][r].endpoint = endpoint
          /\ run'[t][r].view.topics = server'[endpoint]
      BY <1>4, <2>1, <3>1 DEF Moved, Answered
    <3>3. Latest(run'[t], endpoint, server'[endpoint], r) BY <1>10, <3>2 DEF Latest
    <3> QED BY <3>3 DEF Writer
  <2>2. CASE f # endpoint
    <3>1. server'[endpoint] = server[endpoint]
      <4>1. endpoint \in B!Endpoints
        <5>1. endpoint \in Nat /\ used \in Nat /\ endpoint <= used /\ used <= MaxEndpoints BY <1>2 DEF PushTyped
        <5> QED BY <5>1, PushAssumption, SMTT(30) DEF B!Endpoints
      <4> QED BY <1>1, <1>3, <2>2, <4>1
    <3>2. PICK q \in Tabs : Writer(view[q], prev[q], run[q], endpoint, server[endpoint])
      BY DEF PushOK, Covered
    <3>3. CASE q # t BY <1>5, <3>1, <3>2, <3>3
    <3>4. CASE q = t
      <4>1. Writer(view[t], prev[t], run'[t], endpoint, server[endpoint])
        <5>1. \A z \in B!Runs : z = r \/ run'[t][z] = run[t][z] BY <1>4 DEF Moved
        <5>2. run'[t][r].endpoint = f /\ run'[t][r].step = "answered" BY <1>4 DEF Moved
        <5>3. ASSUME NEW z \in B!Runs, Latest(run[t], endpoint, server[endpoint], z)
              PROVE  Latest(run'[t], endpoint, server[endpoint], z)
          <6>1. z # r BY <1>1, <5>3 DEF Latest, Answered
          <6> QED BY <2>2, <5>1, <5>2, <5>3, <6>1 DEF Latest, Answered
        <5>4. ASSUME NEW z \in B!Runs, run[t][z].step = "started" \/ (run[t][z].step = "sent" /\ run[t][z].endpoint = endpoint)
              PROVE  run'[t][z] = run[t][z]
          BY <1>1, <2>2, <5>1, <5>4
        <5> QED BY <3>2, <3>4, <5>3, <5>4 DEF Writer
      <4> QED BY <3>1, <4>1
    <3> QED BY <3>3, <3>4
  <2> QED BY <2>1, <2>2
<1> QED BY <1>1, <1>5, <1>6, <1>11, <1>12, UpdateStep

-----------------------------------------------------------------------------
(* The subscription of the browser *)

\* An update that is sent is not in the queue.
\* Sending an update leaves the answers as they are.
LEMMA SentQueued ==
  ASSUME NEW rs \in [B!Runs -> Updates], NEW rs2, NEW r \in B!Runs, NEW e, NEW f, NEW b,
         Queued(rs), Apart(rs, e), rs[r].step = "started", Moved(rs, rs2, r, "sent", f, b)
  PROVE  Queued(rs2) /\ Apart(rs2, e)
<1>1. Answered(rs2) = Answered(rs) BY DEF Answered, Moved
<1>2. \A q \in Answered(rs) : rs2[q] = rs[q] BY DEF Answered, Moved
<1> QED BY <1>1, <1>2 DEF Queued, Apart

\* What a tab has when it has sent an update to e, ...
Sent(v, p, rs, rs2, e, u) ==
  /\ Fits(v, p, rs2, u)
  /\ Sending(v, p, rs, e) => Sending(v, p, rs2, e)
  /\ Enrolling(v, p, rs2, e)
  /\ \A x : Writer(v, p, rs2, e, x)

\* ... which is the endpoint of the browser.
\* An update that was sent makes its tab a writer of its endpoint.
LEMMA SentTab ==
  ASSUME NEW v, NEW p, NEW rs \in [B!Runs -> Updates], NEW rs2, NEW r \in B!Runs, NEW e, NEW u, NEW b,
         Fits(v, p, rs, u), rs[r].step = "started", Moved(rs, rs2, r, "sent", e, b), e # 0, e <= u
  PROVE  Sent(v, p, rs, rs2, e, u)
<1>1. Fits(v, p, rs2, u) BY MovedFits
<1>2. ASSUME Sending(v, p, rs, e) PROVE Sending(v, p, rs2, e) BY <1>2, MovedSending
<1>3. Enrolling(v, p, rs2, e) BY DEF Enrolling
<1>4. rs2[r].step = "sent" /\ rs2[r].endpoint = e BY DEF Moved
<1> QED BY <1>1, <1>2, <1>3, <1>4 DEF Sent, Writer

\* A tab when the browser gets its next endpoint.
\* No update is of an endpoint that was not used yet.
LEMMA NewEndpoint ==
  ASSUME NEW v, NEW p, NEW rs \in [B!Runs -> Updates], NEW u \in Nat, Fits(v, p, rs, u)
  PROVE  /\ Fits(v, p, rs, u + 1) /\ Apart(rs, u + 1) /\ Enrolling(v, p, rs, u + 1)
         /\ Sending(v, p, rs, 0) => Sending(v, p, rs, u + 1)
<1>1. \A r \in B!Runs : rs[r].endpoint <= u /\ rs[r].endpoint \in Nat BY DEF Fits, Updates
<1>2. u + 1 # 0 /\ \A r \in B!Runs : rs[r].endpoint # u + 1 /\ rs[r].endpoint <= u + 1 BY <1>1, SMTT(30)
<1>3. Fits(v, p, rs, u + 1) BY <1>2 DEF Fits
<1>4. Apart(rs, u + 1) BY <1>2 DEF Apart, Answered
<1>5. Enrolling(v, p, rs, u + 1) BY <1>2 DEF Enrolling
<1>6. ASSUME Sending(v, p, rs, 0) PROVE Sending(v, p, rs, u + 1)
  <2> SUFFICES ASSUME v.possible = "yes", v.topics # None, v # p
               PROVE  \E r \in B!Runs : /\ rs[r].view = v
                                      /\ \/ rs[r].step = "started"
                                         \/ rs[r].step = "answered" /\ rs[r].endpoint = 0
    BY DEF Sending
  <2> QED BY <1>6 DEF Sending, Fits
<1> QED BY <1>3, <1>4, <1>5, <1>6

\* An update finds the endpoint of the browser.
LEMMA KnownStep ==
  ASSUME PushOK, NEW t \in Tabs, NEW r \in B!Runs, run[t][r].step = "started", endpoint # 0,
         run' = [run EXCEPT ![t][r].step = "sent", ![t][r].endpoint = endpoint],
         UNCHANGED <<endpoint, used, wanted, granted, server, view, prev, stray, changes, faults, spoiled>>
  PROVE  PushOK'
<1>1. PushTyped /\ TabOK(t) BY DEF PushOK
<1>2. /\ run \in [Tabs -> [B!Runs -> Updates]] /\ run[t] \in [B!Runs -> Updates]
      /\ server \in [B!Endpoints -> (SUBSET Pushable) \cup {None}] /\ endpoint \in Nat /\ endpoint <= used
  BY <1>1 DEF PushTyped
<1> DEFINE b == run[t][r].behind
<1>3. Moved(run[t], run'[t], r, "sent", endpoint, b) /\ run' = [run EXCEPT ![t] = run'[t]]
  BY <1>2, SentMoves
<1>4. run' \in [Tabs -> [B!Runs -> Updates]] /\ \A q \in Tabs : q # t => run'[q] = run[q]
  BY <1>2, <1>3 DEF Moved
<1> HIDE DEF b
<1>5. Fits(view[t], prev[t], run[t], used) BY <1>1 DEF TabOK
<1>6. Sent(view[t], prev[t], run[t], run'[t], endpoint, used)
  BY <1>2, <1>3, <1>5, SentTab
<1>7. ASSUME spoiled = "no" PROVE Queued(run'[t]) /\ Apart(run'[t], endpoint)
  <2>1. Queued(run[t]) /\ Apart(run[t], endpoint) BY <1>1, <1>7 DEF TabOK
  <2> QED BY <1>2, <1>3, <2>1, SentQueued
<1>8. TabOK(t)' BY <1>1, <1>6, <1>7 DEF TabOK, Sent
<1>9. Covered' BY <1>6 DEF Covered, Sent
<1> QED BY <1>2, <1>4, <1>8, <1>9, UpdateStep

\* An update makes an endpoint.
LEMMA MadeStep ==
  ASSUME PushOK, NEW t \in Tabs, NEW r \in B!Runs, run[t][r].step = "started",
         endpoint = 0, granted = "yes", used < MaxEndpoints, endpoint' = used + 1, used' = used + 1,
         run' = [run EXCEPT ![t][r].step = "sent", ![t][r].endpoint = used + 1],
         UNCHANGED <<wanted, granted, server, view, prev, stray, changes, faults, spoiled>>
  PROVE  PushOK'
<1>1. PushTyped /\ \A q \in Tabs : TabOK(q) BY DEF PushOK
<1>2. /\ run \in [Tabs -> [B!Runs -> Updates]] /\ \A q \in Tabs : run[q] \in [B!Runs -> Updates]
      /\ used \in Nat
  BY <1>1 DEF PushTyped
<1> DEFINE e == used + 1
           b == run[t][r].behind
<1>3. e \in Nat /\ e # 0 /\ e <= e /\ e <= MaxEndpoints BY <1>2, PushAssumption, SMTT(30)
<1>4. endpoint' = e /\ used' = e /\ run' = [run EXCEPT ![t][r].step = "sent", ![t][r].endpoint = e] OBVIOUS
<1>5. \A q \in Tabs : Fits(view[q], prev[q], run[q], used) BY <1>1 DEF TabOK
<1>6. ASSUME NEW q \in Tabs
      PROVE  /\ Fits(view[q], prev[q], run[q], e) /\ Apart(run[q], e) /\ Enrolling(view[q], prev[q], run[q], e)
             /\ Sending(view[q], prev[q], run[q], 0) => Sending(view[q], prev[q], run[q], e)
  BY <1>2, <1>5, NewEndpoint
<1> HIDE DEF e
<1>7. Moved(run[t], run'[t], r, "sent", e, b) /\ run' = [run EXCEPT ![t] = run'[t]]
  BY <1>2, <1>3, <1>4, SentMoves
<1>8. run' \in [Tabs -> [B!Runs -> Updates]] /\ \A q \in Tabs : q # t => run'[q] = run[q]
  BY <1>2, <1>7 DEF Moved
<1> HIDE DEF b
<1>9. PushTyped' BY <1>1, <1>3, <1>4, <1>8 DEF PushTyped
<1>10. Sent(view[t], prev[t], run[t], run'[t], e, e)
  BY <1>2, <1>3, <1>6, <1>7, SentTab
<1>11. ASSUME spoiled = "no" PROVE Queued(run'[t]) /\ Apart(run'[t], e)
  <2>1. Queued(run[t]) /\ Apart(run[t], e) BY <1>1, <1>6, <1>11 DEF TabOK
  <2> QED BY <1>2, <1>7, <2>1, SentQueued
<1>12. ASSUME NEW q \in Tabs, spoiled = "no" PROVE Sending(view[q], prev[q], run[q], e)
  <2>1. Sending(view[q], prev[q], run[q], 0) BY <1>1, <1>12 DEF TabOK
  <2> QED BY <1>6, <2>1
<1>13. TabOK(t)' BY <1>1, <1>4, <1>10, <1>11, <1>12 DEF TabOK, Sent
<1>14. ASSUME NEW q \in Tabs, q # t PROVE TabOK(q)'
  <2>1. spoiled = "no" => Queued(run[q]) BY <1>1 DEF TabOK
  <2>2. run'[q] = run[q] BY <1>8, <1>14
  <2> QED BY <1>1, <1>4, <1>6, <1>12, <2>1, <2>2 DEF TabOK
<1>15. Covered' BY <1>4, <1>10 DEF Covered, Sent
<1>16. granted' = "yes" /\ stray' = stray /\ spoiled' = spoiled OBVIOUS
<1> QED BY <1>9, <1>13, <1>14, <1>15, <1>16 DEF PushOK

\* An update without topics needs no endpoint.
LEMMA NeedlessStep ==
  ASSUME PushOK, NEW t \in Tabs, NEW r \in B!Runs, run[t][r].step = "started", run[t][r].view.topics = {},
         endpoint = 0, B!Answer(t, r),
         UNCHANGED <<endpoint, used, wanted, granted, server, view, prev, stray, changes, faults, spoiled>>
  PROVE  PushOK'
<1>1. PushTyped /\ TabOK(t) BY DEF PushOK
<1>2. /\ run \in [Tabs -> [B!Runs -> Updates]] /\ run[t] \in [B!Runs -> Updates]
      /\ server \in [B!Endpoints -> (SUBSET Pushable) \cup {None}]
  BY <1>1 DEF PushTyped
<1>3. Fits(view[t], prev[t], run[t], used) BY <1>1 DEF TabOK
<1>4. run[t][r].endpoint = 0 /\ run[t][r].endpoint <= used BY <1>3 DEF Fits
<1> DEFINE f == run[t][r].endpoint
           b == Cardinality(Answered(run[t]))
<1>5. Moved(run[t], run'[t], r, "answered", f, b) /\ run' = [run EXCEPT ![t] = run'[t]]
  BY <1>2, <1>4, AnswerMoves
<1>6. run' \in [Tabs -> [B!Runs -> Updates]] /\ \A q \in Tabs : q # t => run'[q] = run[q]
  BY <1>2, <1>5 DEF Moved
<1>7. ASSUME spoiled = "no" PROVE Queued(run'[t]) /\ Apart(run'[t], endpoint)
  <2>1. Queued(run[t]) /\ Apart(run[t], endpoint) BY <1>1, <1>7 DEF TabOK
  <2>2. run[t][r].step # "answered" OBVIOUS
  <2>3. Moved(run[t], run'[t], r, "answered", f, Cardinality(Answered(run[t]))) BY <1>5
  <2>4. run[t][r].endpoint = f /\ (endpoint # 0 => f # 0) OBVIOUS
  <2> HIDE DEF b, f
  <2> QED BY <1>2, <2>1, <2>2, <2>3, <2>4, AnswerQueued
<1>8. f = 0 /\ f <= used BY <1>4
<1> HIDE DEF b, f
<1>9. Fits(view[t], prev[t], run'[t], used)
  <2>1. run[t][r].step # "idle" OBVIOUS
  <2>2. run[t][r].view.topics = {} OBVIOUS
  <2>3. Moved(run[t], run'[t], r, "answered", f, b) BY <1>5
  <2> QED BY <1>2, <1>3, <1>8, <2>1, <2>2, <2>3, MovedFits
<1>10. ASSUME spoiled = "no", granted = "yes"
       PROVE  Sending(view[t], prev[t], run'[t], endpoint) /\ Enrolling(view[t], prev[t], run'[t], endpoint)
  <2>1. Sending(view[t], prev[t], run[t], endpoint) /\ Enrolling(view[t], prev[t], run[t], endpoint)
    BY <1>1, <1>10 DEF TabOK
  <2>2. Sending(view[t], prev[t], run'[t], endpoint) BY <1>2, <1>3, <1>5, <1>8, <2>1, MovedSending
  <2>3. Enrolling(view[t], prev[t], run'[t], endpoint) BY <1>2, <1>5, <2>1, AnsweredEnrolling
  <2> QED BY <2>2, <2>3
<1>11. TabOK(t)' BY <1>1, <1>7, <1>9, <1>10 DEF TabOK
<1>12. Covered' BY DEF Covered
<1> QED BY <1>2, <1>6, <1>11, <1>12, UpdateStep

\* An update without the permission ends, and leaves no endpoint to care for.
LEMMA RefusedStep ==
  ASSUME PushOK, NEW t \in Tabs, NEW r \in B!Runs, run[t][r].step = "started", granted = "no",
         run' = [run EXCEPT ![t][r] = B!NoRun],
         UNCHANGED <<endpoint, used, wanted, granted, server, view, prev, stray, changes, faults, spoiled>>
  PROVE  PushOK'
<1>1. PushTyped /\ TabOK(t) BY DEF PushOK
<1>2. /\ run \in [Tabs -> [B!Runs -> Updates]] /\ run[t] \in [B!Runs -> Updates] /\ used \in Nat
      /\ server \in [B!Endpoints -> (SUBSET Pushable) \cup {None}]
  BY <1>1 DEF PushTyped
<1>3. run'[t] = [run[t] EXCEPT ![r] = B!NoRun] BY <1>2
<1>4. run'[t] \in [B!Runs -> Updates] BY <1>2, <1>3, NoRunFields
<1>5. run' = [run EXCEPT ![t] = run'[t]] BY <1>3
<1>6. run' \in [Tabs -> [B!Runs -> Updates]] /\ \A q \in Tabs : q # t => run'[q] = run[q]
  BY <1>2, <1>4, <1>5
<1>7. run'[t][r] = B!NoRun /\ \A q \in B!Runs : q # r => run'[t][q] = run[t][q] BY <1>2, <1>3
<1>8. 0 <= used BY <1>2, SMTT(30)
<1>9. Fits(view[t], prev[t], run'[t], used)
  <2>1. Fits(view[t], prev[t], run[t], used) BY <1>1 DEF TabOK
  <2>2. view[t].topics # None BY <2>1 DEF Fits
  <2>3. ASSUME NEW q \in B!Runs
        PROVE  /\ run'[t][q].endpoint <= used
               /\ run'[t][q].step # "idle" => run'[t][q].view.topics # None
               /\ run'[t][q].step = "started" => run'[t][q].endpoint = 0
               /\ run'[t][q].step = "sent" => run'[t][q].endpoint # 0
               /\ run'[t][q].step = "answered" /\ run'[t][q].endpoint = 0 => run'[t][q].view.topics = {}
    <3>1. CASE q = r BY <1>7, <1>8, <3>1, NoRunFields
    <3>2. CASE q # r BY <1>7, <2>1, <3>2 DEF Fits
    <3> QED BY <3>1, <3>2
  <2> QED BY <2>1, <2>2, <2>3 DEF Fits
<1>10. Answered(run'[t]) = Answered(run[t]) /\ \A q \in Answered(run[t]) : run'[t][q] = run[t][q]
  BY <1>7, NoRunFields DEF Answered
<1>11. TabOK(t)'
  <2>1. Queued(run[t]) => Queued(run'[t]) BY <1>10 DEF Queued
  <2>2. endpoint = 0 BY DEF PushOK
  <2>3. Apart(run'[t], endpoint) BY <2>2 DEF Apart
  <2> QED BY <1>1, <1>9, <2>1, <2>3 DEF TabOK
<1>12. Covered' BY DEF Covered
<1> QED BY <1>2, <1>6, <1>11, <1>12, UpdateStep

\* The step of an update that looks for an endpoint (Notifier.webPushSubscription).
LEMMA SubscriptionStep ==
  ASSUME PushOK, NEW t \in Tabs, NEW r \in B!Runs, B!WebPushSubscription(t, r)
  PROVE  PushOK'
<1>1. run[t][r].step = "started" /\ UNCHANGED <<wanted, granted, server, view, prev, stray, changes, faults, spoiled>>
  BY DEF B!WebPushSubscription
<1>2. CASE /\ endpoint # 0 /\ run' = [run EXCEPT ![t][r].step = "sent", ![t][r].endpoint = endpoint]
           /\ UNCHANGED <<endpoint, used>>
  BY <1>1, <1>2, KnownStep
<1>3. CASE /\ endpoint = 0 /\ granted = "yes" /\ used < MaxEndpoints
           /\ endpoint' = used + 1 /\ used' = used + 1
           /\ run' = [run EXCEPT ![t][r].step = "sent", ![t][r].endpoint = used + 1]
  BY <1>1, <1>3, MadeStep
<1>4. CASE granted = "no" /\ run' = [run EXCEPT ![t][r] = B!NoRun] /\ UNCHANGED <<endpoint, used>>
  BY <1>1, <1>4, RefusedStep
<1>5. CASE endpoint = 0 /\ run[t][r].view.topics = {} /\ B!Answer(t, r) /\ UNCHANGED <<endpoint, used>>
  BY <1>1, <1>5, NeedlessStep
<1> QED BY <1>2, <1>3, <1>4, <1>5 DEF B!WebPushSubscription

-----------------------------------------------------------------------------
(* The end of an update *)

\* rs2 has the updates of rs but for r, which has ended.
Without(rs, rs2, r) ==
  /\ rs2 \in [B!Runs -> Updates] /\ rs2[r] = B!NoRun
  /\ \A q \in B!Runs : q # r =>
       rs2[q].step = rs[q].step /\ rs2[q].view = rs[q].view /\ rs2[q].endpoint = rs[q].endpoint

\* An update that ends is idle, and the answers that came after its own move up.
LEMMA EndedFields ==
  ASSUME run \in [Tabs -> [B!Runs -> Updates]], NEW t \in Tabs, NEW r \in B!Runs
  PROVE  /\ Without(run[t], B!Ended(t, r), r)
         /\ \A q \in B!Runs : q # r =>
              B!Ended(t, r)[q].behind =
                IF run[t][q].behind > run[t][r].behind THEN run[t][q].behind - 1 ELSE run[t][q].behind
<1>1. \A q \in B!Runs : run[t][q] \in Updates OBVIOUS
<1>2. B!Ended(t, r)[r] = B!NoRun BY DEF B!Ended
<1>3. ASSUME NEW q \in B!Runs, q # r
      PROVE  /\ B!Ended(t, r)[q] \in Updates
             /\ B!Ended(t, r)[q].step = run[t][q].step /\ B!Ended(t, r)[q].view = run[t][q].view
             /\ B!Ended(t, r)[q].endpoint = run[t][q].endpoint
             /\ B!Ended(t, r)[q].behind =
                  IF run[t][q].behind > run[t][r].behind THEN run[t][q].behind - 1 ELSE run[t][q].behind
  <2> DEFINE m == run[t][q]
             n == run[t][r].behind
  <2>1. m \in Updates /\ m.behind \in Nat /\ n \in Nat BY <1>1 DEF Updates
  <2>2. CASE m.behind > n
    <3>1. B!Ended(t, r)[q] = [m EXCEPT !.behind = m.behind - 1] BY <1>3, <2>2 DEF B!Ended
    <3>2. m.behind - 1 \in Nat BY <2>1, <2>2, SMTT(30)
    <3> HIDE DEF m, n
    <3>3. /\ [m EXCEPT !.behind = m.behind - 1] \in Updates
          /\ [m EXCEPT !.behind = m.behind - 1].step = m.step /\ [m EXCEPT !.behind = m.behind - 1].view = m.view
          /\ [m EXCEPT !.behind = m.behind - 1].endpoint = m.endpoint
          /\ [m EXCEPT !.behind = m.behind - 1].behind = m.behind - 1
      BY <2>1, <3>2 DEF Updates
    <3> QED BY <2>2, <3>1, <3>3 DEF m, n
  <2>3. CASE ~(m.behind > n)
    <3>1. B!Ended(t, r)[q] = m BY <1>3, <2>3 DEF B!Ended
    <3> QED BY <2>1, <2>3, <3>1
  <2> QED BY <2>2, <2>3
<1>4. \A q \in B!Runs : B!Ended(t, r)[q] \in Updates BY <1>2, <1>3, NoRunFields
<1>5. B!Ended(t, r) = [q \in B!Runs |-> B!Ended(t, r)[q]] BY DEF B!Ended
<1>6. B!Ended(t, r) \in [B!Runs -> Updates] BY <1>4, <1>5
<1> QED BY <1>2, <1>3, <1>6 DEF Without

\* The other updates of a tab fit it whatever it has sent last.
LEMMA WithoutFits ==
  ASSUME NEW v, NEW p, NEW rs \in [B!Runs -> Updates], NEW rs2, NEW r \in B!Runs, NEW u \in Nat,
         Fits(v, p, rs, u), rs[r].step # "idle", Without(rs, rs2, r)
  PROVE  \A m : Fits(v, m, rs2, u)
<1>1. v.topics # None BY DEF Fits
<1>2. 0 <= u BY SMTT(30)
<1>3. ASSUME NEW q \in B!Runs
      PROVE  /\ rs2[q].endpoint <= u
             /\ rs2[q].step # "idle" => rs2[q].view.topics # None
             /\ rs2[q].step = "started" => rs2[q].endpoint = 0
             /\ rs2[q].step = "sent" => rs2[q].endpoint # 0
             /\ rs2[q].step = "answered" /\ rs2[q].endpoint = 0 => rs2[q].view.topics = {}
  <2>1. CASE q = r BY <1>2, <2>1, NoRunFields DEF Without
  <2>2. CASE q # r BY <2>2 DEF Fits, Without
  <2> QED BY <2>1, <2>2
<1> QED BY <1>1, <1>3 DEF Fits

\* An update fails, which nobody repeats.
LEMMA FailStep ==
  ASSUME PushOK, NEW t \in Tabs, NEW r \in B!Runs, B!Fail(t, r)
  PROVE  PushOK'
<1>1. /\ run[t][r].step # "idle" /\ run' = [run EXCEPT ![t] = B!Ended(t, r)] /\ spoiled' = "yes"
      /\ UNCHANGED <<wanted, granted, endpoint, used, server, view, prev, stray, changes>>
  BY DEF B!Fail
<1>2. PushTyped /\ \A q \in Tabs : TabOK(q) BY DEF PushOK
<1>3. run \in [Tabs -> [B!Runs -> Updates]] /\ run[t] \in [B!Runs -> Updates] /\ used \in Nat BY <1>2 DEF PushTyped
<1>4. run'[t] = B!Ended(t, r) /\ \A q \in Tabs : q # t => run'[q] = run[q] BY <1>1, <1>3
<1>5. Without(run[t], run'[t], r) BY <1>3, <1>4, EndedFields
<1>6. run' \in [Tabs -> [B!Runs -> Updates]] BY <1>1, <1>3, <1>4, <1>5 DEF Without
<1>7. PushTyped' BY <1>1, <1>2, <1>6 DEF PushTyped
<1>8. Fits(view[t], prev[t], run'[t], used)
  <2>1. Fits(view[t], prev[t], run[t], used) BY <1>2 DEF TabOK
  <2> QED BY <1>1, <1>3, <1>5, <2>1, WithoutFits
<1>9. TabOK(t)' BY <1>1, <1>2, <1>8 DEF TabOK
<1>10. \A q \in Tabs : TabOK(q)' BY <1>1, <1>2, <1>4, <1>9, OtherTab
<1> QED BY <1>1, <1>7, <1>10 DEF PushOK, Covered

\* The answers after that of r move up.
Shifted(rs, rs2, r) ==
  \A q \in B!Runs : q # r => rs2[q].behind = IF rs[q].behind > rs[r].behind THEN rs[q].behind - 1 ELSE rs[q].behind
\* The answer of r was the first, and is dealt with.
FirstOut(rs, rs2, r) ==
  /\ Answered(rs2) = Answered(rs) \ {r}
  /\ \A q \in Answered(rs2) : rs[q].behind \in Nat /\ rs2[q].behind = rs[q].behind - 1

\* When the first of the answers is dealt with, the others are still a queue.
LEMMA EndedQueued ==
  ASSUME NEW rs \in [B!Runs -> Updates], NEW rs2, NEW r \in B!Runs, NEW e,
         Without(rs, rs2, r), rs[r].step = "answered", rs[r].behind = 0, Queued(rs), Apart(rs, e), Shifted(rs, rs2, r)
  PROVE  Queued(rs2) /\ Apart(rs2, e) /\ FirstOut(rs, rs2, r)
<1> USE DEF Shifted, FirstOut
<1> DEFINE A == Answered(rs)
<1>1. Answered(rs2) = A \ {r} BY NoRunFields DEF Answered, Without
<1>2. IsFiniteSet(A) /\ r \in A
  <2>1. IsFiniteSet(B!Runs) BY RunsFinite
  <2> QED BY <2>1, FS_Subset DEF Answered
<1>3. Cardinality(A) \in Nat /\ Cardinality(Answered(rs2)) = Cardinality(A) - 1
  BY <1>1, <1>2, FS_RemoveElement, FS_CardinalityType
<1>4. ASSUME NEW q \in A, q # r
      PROVE  rs[q].behind \in Nat /\ rs2[q].behind = rs[q].behind - 1 /\ rs[q].behind < Cardinality(A)
  <2>1. q \in B!Runs /\ rs[q].behind \in Nat BY DEF Answered, Updates
  <2>2. rs[q].behind # 0 BY <1>2, <1>4 DEF Queued
  <2>3. rs2[q].behind = IF rs[q].behind > 0 THEN rs[q].behind - 1 ELSE rs[q].behind BY <1>4, <2>1
  <2>4. rs[q].behind < Cardinality(A) BY DEF Queued
  <2> HIDE DEF A
  <2> QED BY <2>1, <2>2, <2>3, <2>4, SMTT(30)
<1>5. ASSUME NEW q \in A, NEW s \in A, rs[q].behind = rs[s].behind PROVE q = s BY <1>5 DEF Queued
<1>6. ASSUME e # 0, NEW q \in A, NEW s \in A, rs[q].endpoint = 0, rs[s].endpoint = e
      PROVE  rs[q].behind < rs[s].behind
  BY <1>6 DEF Apart
<1>7. \A q \in Answered(rs2) : rs2[q].endpoint = rs[q].endpoint BY <1>1 DEF Without, Answered
<1> HIDE DEF A
<1>8. \A q \in Answered(rs2) : rs2[q].behind < Cardinality(Answered(rs2))
  BY <1>1, <1>3, <1>4, SMTT(30)
<1>9. \A q, s \in Answered(rs2) : rs2[q].behind = rs2[s].behind => q = s
  BY <1>1, <1>4, <1>5, SMTT(30)
<1>10. e # 0 => \A q, s \in Answered(rs2) :
         rs2[q].endpoint = 0 /\ rs2[s].endpoint = e => rs2[q].behind < rs2[s].behind
  BY <1>1, <1>4, <1>6, <1>7, SMTT(30)
<1>11. Queued(rs2) /\ Apart(rs2, e) BY <1>8, <1>9, <1>10 DEF Queued, Apart
<1> QED BY <1>1, <1>4, <1>11 DEF A

\* The tab has set prevUpdate to w, the view of the first update of the queue.
SetTo(v, p, w, rs1, rs2) == IF w = p THEN rs2 = rs1 ELSE EffectOn(v, w, rs1, rs2)

\* Once an answer is dealt with, what differs from the new prevUpdate is about to be sent.
LEMMA SetSending ==
  ASSUME NEW v \in Views, NEW p, NEW rs \in [B!Runs -> Updates], NEW rs1, NEW rs2, NEW r \in B!Runs, NEW e,
         Without(rs, rs1, r), SetTo(v, p, rs[r].view, rs1, rs2), Sending(v, p, rs, e)
  PROVE  Sending(v, rs[r].view, rs2, e)
<1> DEFINE w == rs[r].view
<1>1. rs1 \in [B!Runs -> Updates] BY DEF Without
<1>2. CASE w # p
  <2>1. EffectOn(v, w, rs1, rs2) BY <1>2 DEF SetTo
  <2> QED BY <1>1, <2>1, EffectSending
<1>3. CASE w = p
  <2>1. rs2 = rs1 BY <1>3 DEF SetTo
  <2>2. \A q \in B!Runs : rs[q].view # w => q # r OBVIOUS
  <2> HIDE DEF w
  <2>3. Sending(v, w, rs1, e) BY <1>3, <2>2 DEF Sending, Without
  <2> QED BY <2>1, <2>3 DEF w
<1> QED BY <1>2, <1>3

\* Once an answer is dealt with, an endpoint is still made if there is none.
LEMMA SetEnrolling ==
  ASSUME NEW v \in Views, NEW p, NEW rs \in [B!Runs -> Updates], NEW rs1, NEW rs2, NEW r \in B!Runs, NEW e,
         Without(rs, rs1, r), SetTo(v, p, rs[r].view, rs1, rs2), rs[r].step = "answered", Enrolling(v, p, rs, e)
  PROVE  Enrolling(v, rs[r].view, rs2, e)
<1> DEFINE w == rs[r].view
<1> SUFFICES ASSUME e = 0, v.possible = "yes", v.topics # None, v.topics # {}
             PROVE  \/ \E q \in B!Runs : rs2[q].step = "started" /\ rs2[q].view = v
                    \/ v = w /\ \E q \in B!Runs : rs2[q].step # "idle" /\ rs2[q].view # v
  BY DEF Enrolling
<1>1. rs1 \in [B!Runs -> Updates] BY DEF Without
<1>2. ASSUME NEW q \in B!Runs, rs[q].step = "started" PROVE rs1[q].step = "started" /\ rs1[q].view = rs[q].view
  BY <1>2 DEF Without
<1>3. CASE w = p
  <2>1. rs2 = rs1 BY <1>3 DEF SetTo
  <2>2. CASE \E q \in B!Runs : rs[q].step = "started" /\ rs[q].view = v BY <1>2, <2>1, <2>2
  <2>3. CASE v = p /\ \E q \in B!Runs : rs[q].step # "idle" /\ rs[q].view # v
    <3>1. PICK q \in B!Runs : rs[q].step # "idle" /\ rs[q].view # v BY <2>3
    <3>2. q # r BY <1>3, <2>3, <3>1
    <3>3. rs1[q].step # "idle" /\ rs1[q].view # v BY <3>1, <3>2 DEF Without
    <3> QED BY <1>3, <2>1, <2>3, <3>3
  <2> QED BY <2>2, <2>3 DEF Enrolling
<1>4. CASE w # p
  <2>1. EffectOn(v, w, rs1, rs2) BY <1>4 DEF SetTo
  <2>2. Extended(v, w, rs1, rs2) BY <1>1, <2>1, EffectKeeps
  <2>3. CASE v # w
    <3>1. PICK q \in B!Runs : rs2[q] = B!Started(v) BY <2>2, <2>3 DEF Extended
    <3>2. rs2[q].step = "started" /\ rs2[q].view = v
      <4>1. B!Started(v).step = "started" /\ B!Started(v).view = v BY StartedFields
      <4> QED BY <3>1, <4>1
    <3> HIDE DEF w
    <3> QED BY <3>2
  <2>4. CASE v = w
    <3>1. PICK q \in B!Runs : rs[q].step = "started" /\ rs[q].view = v BY <1>4, <2>4 DEF Enrolling
    <3>2. rs1[q].step = "started" /\ rs1[q].view = v BY <1>2, <3>1
    <3>3. rs2[q] = rs1[q] BY <2>2, <3>2 DEF Extended
    <3> QED BY <3>2, <3>3
  <2> QED BY <2>3, <2>4
<1> QED BY <1>3, <1>4

\* Once the first of the answers is dealt with, the endpoint still has the topics of a tab,
\* or is about to get others: no later update was answered before.
LEMMA SetWriter ==
  ASSUME NEW v \in Views, NEW p, NEW rs \in [B!Runs -> Updates], NEW rs1, NEW rs2, NEW r \in B!Runs, NEW e, NEW x, NEW u,
         Without(rs, rs1, r), SetTo(v, p, rs[r].view, rs1, rs2), rs[r].step = "answered", rs[r].behind = 0,
         Fits(v, p, rs, u), Queued(rs), Apart(rs, e), e # 0, Sending(v, p, rs, e), Writer(v, p, rs, e, x),
         FirstOut(rs, rs1, r)
  PROVE  Writer(v, rs[r].view, rs2, e, x)
<1> USE DEF FirstOut
<1> DEFINE w == rs[r].view
<1>1. rs1 \in [B!Runs -> Updates] BY DEF Without
<1>2. v.topics # None BY DEF Fits
<1>3. CASE w # p /\ w # v
  <2>1. Extended(v, w, rs1, rs2) BY <1>1, <1>3, EffectKeeps DEF SetTo
  <2>2. PICK q \in B!Runs : rs2[q] = B!Started(v) BY <1>2, <1>3, <2>1 DEF Extended
  <2>3. rs2[q].step = "started" BY <2>2, StartedFields
  <2> QED BY <2>3 DEF Writer
<1>4. ASSUME w = p \/ w = v PROVE rs2 = rs1
  BY <1>4 DEF SetTo, EffectOn
<1>5. ASSUME NEW q \in B!Runs, rs2 = rs1, rs[q].step = "started" \/ (rs[q].step = "sent" /\ rs[q].endpoint = e)
      PROVE  Writer(v, w, rs2, e, x)
  <2>1. q # r BY <1>5
  <2>2. rs2[q].step = rs[q].step /\ rs2[q].endpoint = rs[q].endpoint BY <1>5, <2>1 DEF Without
  <2> QED BY <1>5, <2>2 DEF Writer
<1>6. ASSUME w = p \/ w = v PROVE Writer(v, w, rs2, e, x)
  <2>1. rs2 = rs1 BY <1>4, <1>6
  <2>2. CASE \E q \in B!Runs : rs[q].step = "started" \/ (rs[q].step = "sent" /\ rs[q].endpoint = e)
    BY <1>5, <2>1, <2>2
  <2>3. ASSUME NEW q \in B!Runs, Latest(rs, e, x, q), q # r PROVE Writer(v, w, rs2, e, x)
    <3>1. q \in Answered(rs1) /\ rs1[q].endpoint = e /\ rs1[q].view.topics = x BY <2>3 DEF Latest, Without
    <3>2. ASSUME NEW z \in Answered(rs1), rs1[z].endpoint = e PROVE rs1[z].behind <= rs1[q].behind
      <4>1. z \in Answered(rs) /\ rs[z].endpoint = e BY <3>2 DEF Without, Answered
      <4>2. rs[z].behind <= rs[q].behind BY <2>3, <4>1 DEF Latest
      <4>3. /\ rs[z].behind \in Nat /\ rs1[z].behind = rs[z].behind - 1
            /\ rs[q].behind \in Nat /\ rs1[q].behind = rs[q].behind - 1
        BY <3>1, <3>2
      <4> QED BY <4>2, <4>3, SMTT(30)
    <3>3. Latest(rs1, e, x, q) BY <3>1, <3>2 DEF Latest
    <3> QED BY <2>1, <3>3 DEF Writer
  <2>4. ASSUME Latest(rs, e, x, r) PROVE Writer(v, w, rs2, e, x)
    <3>1. w.topics = x BY <2>4 DEF Latest
    <3>2. CASE w = v \/ v.possible = "no" BY <3>1, <3>2 DEF Writer
    <3>3. CASE w # v /\ v.possible # "no"
      <4>1. v.possible = "yes" BY <1>2, <3>3 DEF Fits, Views
      <4>2. v # p BY <1>6, <3>3
      <4>3. PICK q \in B!Runs :
              /\ rs[q].view = v
              /\ \/ rs[q].step = "started"
                 \/ (rs[q].step = "sent" \/ rs[q].step = "answered") /\ rs[q].endpoint = e
                 \/ rs[q].step = "answered" /\ rs[q].endpoint = 0
        BY <1>2, <4>1, <4>2 DEF Sending
      <4>4. q # r BY <3>3, <4>3
      <4>5. r \in Answered(rs) /\ rs[r].endpoint = e BY <2>4 DEF Latest
      <4>6. ASSUME rs[q].step = "answered" PROVE rs[q].behind \in Nat /\ rs[q].behind # 0
        <5>1. q \in Answered(rs) BY <4>6 DEF Answered
        <5> QED BY <4>4, <4>5, <5>1 DEF Queued, Updates
      <4>7. ASSUME rs[q].step = "answered", rs[q].endpoint = e PROVE FALSE
        <5>1. rs[q].behind <= 0 BY <2>4, <4>7 DEF Latest, Answered
        <5> QED BY <4>6, <4>7, <5>1, SMTT(30)
      <4>8. ASSUME rs[q].step = "answered", rs[q].endpoint = 0 PROVE FALSE
        <5>1. rs[q].behind < 0 BY <4>5, <4>8 DEF Apart, Answered
        <5> QED BY <4>6, <4>8, <5>1, SMTT(30)
      <4> QED BY <1>5, <2>1, <4>3, <4>7, <4>8
    <3> QED BY <3>2, <3>3
  <2>5. CASE p.topics = x /\ (v = p \/ v.possible = "no")
    BY <1>6, <2>5 DEF Writer
  <2>6. CASE v.possible = "no" /\ p.possible = "no"
    BY <1>6, <2>6 DEF Writer
  <2> QED BY <1>2, <2>2, <2>3, <2>4, <2>5, <2>6 DEF Writer
<1> QED BY <1>3, <1>6

\* An answer comes: it is prevUpdate, and the effect runs if that is new.
LEMMA SetStep ==
  ASSUME PushOK, NEW t \in Tabs, NEW r \in B!Runs, B!SetPrevUpdate(t, r)
  PROVE  PushOK'
<1> DEFINE w == run[t][r].view
           rs1 == B!Ended(t, r)
<1>1. /\ run[t][r].step = "answered" /\ prev' = [prev EXCEPT ![t] = w]
      /\ IF w = prev[t] THEN run' = [run EXCEPT ![t] = rs1] ELSE B!Effect(t, view[t], w, rs1)
      /\ spoiled' = (IF run[t][r].behind > 0 THEN "yes" ELSE spoiled)
      /\ UNCHANGED <<wanted, granted, endpoint, used, server, view, stray, changes, faults>>
  BY DEF B!SetPrevUpdate
<1>2. PushTyped /\ \A q \in Tabs : TabOK(q) BY DEF PushOK
<1>3. /\ run \in [Tabs -> [B!Runs -> Updates]] /\ run[t] \in [B!Runs -> Updates] /\ run[t][r] \in Updates
      /\ view[t] \in Views /\ prev \in [Tabs -> Views] /\ used \in Nat
  BY <1>2 DEF PushTyped
<1>4. w \in Views /\ run[t][r].behind \in Nat BY <1>3 DEF Updates
<1>5. Without(run[t], rs1, r) BY <1>3, EndedFields
<1>6. rs1 \in [B!Runs -> Updates] BY <1>5 DEF Without
<1>7. SetTo(view[t], prev[t], w, rs1, run'[t]) /\ run' = [run EXCEPT ![t] = run'[t]]
  <2>1. CASE w = prev[t] BY <1>1, <1>3, <2>1 DEF SetTo
  <2>2. CASE w # prev[t]
    <3>1. B!Effect(t, view[t], w, rs1) BY <1>1, <2>2
    <3> HIDE DEF w, rs1
    <3>2. EffectOn(view[t], w, rs1, run'[t]) /\ run' = [run EXCEPT ![t] = run'[t]]
      BY <1>3, <1>6, <3>1, EffectRuns
    <3> QED BY <2>2, <3>2 DEF SetTo
  <2> QED BY <2>1, <2>2
<1>8. ASSUME spoiled' = "no" PROVE spoiled = "no" /\ run[t][r].behind = 0
  BY <1>1, <1>4, <1>8, SMTT(30)
<1>9. Shifted(run[t], rs1, r) BY <1>3, EndedFields DEF Shifted
<1>10. prev'[t] = w /\ \A q \in Tabs : q # t => prev'[q] = prev[q] BY <1>1, <1>3
<1>11. w = run[t][r].view OBVIOUS
<1> HIDE DEF w, rs1
<1>12. run'[t] \in [B!Runs -> Updates]
  BY <1>3, <1>6, <1>7, EffectKeeps DEF SetTo
<1>13. run' \in [Tabs -> [B!Runs -> Updates]] /\ \A q \in Tabs : q # t => run'[q] = run[q]
  BY <1>3, <1>7, <1>12
<1>14. PushTyped'
  <2>1. prev' \in [Tabs -> Views] BY <1>1, <1>3, <1>4
  <2>2. spoiled' \in {"yes", "no"} BY <1>1, <1>2 DEF PushTyped
  <2> QED BY <1>1, <1>2, <1>13, <2>1, <2>2 DEF PushTyped
<1>15. Fits(view[t], prev[t], run[t], used) BY <1>2 DEF TabOK
<1>16. Fits(view[t], w, run'[t], used)
  <2>1. Fits(view[t], w, rs1, used)
    <3>1. run[t][r].step # "idle" BY <1>1
    <3> QED BY <1>3, <1>5, <1>15, <3>1, WithoutFits
  <2> QED BY <1>3, <1>6, <1>7, <2>1, EffectFits DEF SetTo
<1>17. ASSUME spoiled' = "no"
       PROVE  Queued(rs1) /\ Apart(rs1, endpoint) /\ FirstOut(run[t], rs1, r)
  <2>1. Queued(run[t]) /\ Apart(run[t], endpoint) /\ run[t][r].behind = 0 BY <1>2, <1>8, <1>17 DEF TabOK
  <2> QED BY <1>1, <1>3, <1>5, <1>9, <2>1, EndedQueued
<1>18. ASSUME spoiled' = "no" PROVE Queued(run'[t]) /\ Apart(run'[t], endpoint)
  <2>1. Queued(rs1) /\ Apart(rs1, endpoint) BY <1>17, <1>18
  <2> QED BY <1>3, <1>6, <1>7, <2>1, EffectQueued DEF SetTo
<1>19. ASSUME spoiled' = "no", granted = "yes"
       PROVE  Sending(view[t], w, run'[t], endpoint) /\ Enrolling(view[t], w, run'[t], endpoint)
  <2>1. Sending(view[t], prev[t], run[t], endpoint) /\ Enrolling(view[t], prev[t], run[t], endpoint)
    BY <1>2, <1>8, <1>19 DEF TabOK
  <2>2. Sending(view[t], w, run'[t], endpoint) BY <1>3, <1>5, <1>7, <1>11, <2>1, SetSending
  <2>3. Enrolling(view[t], w, run'[t], endpoint) BY <1>1, <1>3, <1>5, <1>7, <1>11, <2>1, SetEnrolling
  <2> QED BY <2>2, <2>3
<1>20. TabOK(t)' BY <1>1, <1>2, <1>10, <1>16, <1>18, <1>19 DEF TabOK
<1>21. \A q \in Tabs : TabOK(q)' BY <1>1, <1>2, <1>8, <1>10, <1>13, <1>20, OtherTab
<1>22. Covered'
  <2> SUFFICES ASSUME spoiled' = "no", granted = "yes", endpoint # 0
               PROVE  \E q \in Tabs : Writer(view[q], prev'[q], run'[q], endpoint, server[endpoint])
    BY <1>1 DEF Covered
  <2>1. PICK q \in Tabs : Writer(view[q], prev[q], run[q], endpoint, server[endpoint])
    BY <1>8 DEF PushOK, Covered
  <2>2. CASE q # t BY <1>10, <1>13, <2>1, <2>2
  <2>3. CASE q = t
    <3>1. /\ Sending(view[t], prev[t], run[t], endpoint) /\ Queued(run[t]) /\ Apart(run[t], endpoint)
          /\ run[t][r].behind = 0
      BY <1>2, <1>8 DEF TabOK
    <3>2. Writer(view[t], w, run'[t], endpoint, server[endpoint])
      BY <1>1, <1>3, <1>5, <1>7, <1>11, <1>15, <1>17, <2>1, <2>3, <3>1, SetWriter
    <3> QED BY <1>10, <3>2
  <2> QED BY <2>2, <2>3
<1>23. stray' # {} => spoiled' = "yes" BY <1>1 DEF PushOK
<1> QED BY <1>1, <1>14, <1>21, <1>22, <1>23 DEF PushOK

\* Every step keeps the invariant.
LEMMA PushStep == PushOK /\ [B!Next]_(B!vars) => PushOK'
<1> SUFFICES ASSUME PushOK, [B!Next]_(B!vars) PROVE PushOK' OBVIOUS
<1>1. CASE UNCHANGED B!vars
  <2>1. PushTyped' BY <1>1 DEF B!vars, PushOK, PushTyped
  <2>2. \A t \in Tabs : TabOK(t)' BY <1>1, OtherTab DEF B!vars, PushOK
  <2>3. Covered' BY <1>1 DEF B!vars, PushOK, Covered
  <2> QED BY <1>1, <2>1, <2>2, <2>3 DEF B!vars, PushOK
<1>2. CASE B!Next
  BY <1>2, ChangeStep, PermissionStep, PossibleStep, QueryStep, ReloadStep, SubscriptionStep, HandleStep,
     SetStep, FailStep, StrayStep DEF B!Next
<1> QED BY <1>1, <1>2

\* When all is quiet, only a tab that has sent what it shows can have written last.
LEMMA QuietAgrees == PushOK => TopicsReachServer
<1> SUFFICES ASSUME PushOK, B!Quiet, spoiled = "no"
             PROVE  IF endpoint = 0 THEN B!Current.topics = {} ELSE server[endpoint] = B!Current.topics
  BY DEF TopicsReachServer, B!TopicsReachServer
<1>1. /\ B!Current.topics = B!WebPushTopics(granted) /\ B!Current.possible = granted
      /\ wanted \in SUBSET Pushable /\ granted \in {"yes", "no"}
  BY DEF B!Current, PushOK, PushTyped
<1>2. B!Current.topics \in SUBSET Pushable BY <1>1 DEF B!WebPushTopics
<1>3. B!Current.topics # None BY <1>2, PushAssumption
<1>4. \A t \in Tabs : TabOK(t) /\ view[t] = B!Current /\ \A r \in B!Runs : run[t][r].step = "idle"
  BY DEF B!Quiet, PushOK
<1>5. CASE granted = "no"
  <2>1. endpoint = 0 /\ B!Current.topics = {} BY <1>1, <1>5 DEF PushOK, B!WebPushTopics
  <2> QED BY <2>1
<1>6. CASE granted = "yes" /\ endpoint = 0
  <2>1. PICK t \in Tabs : TRUE BY PushAssumption
  <2>2. Enrolling(B!Current, prev[t], run[t], 0) BY <1>4, <1>6 DEF TabOK
  <2>3. B!Current.topics = {} BY <1>1, <1>3, <1>4, <1>6, <2>2 DEF Enrolling
  <2> QED BY <1>6, <2>3
<1>7. CASE granted = "yes" /\ endpoint # 0
  <2>1. PICK t \in Tabs : Writer(view[t], prev[t], run[t], endpoint, server[endpoint])
    BY <1>7 DEF PushOK, Covered
  <2>2. view[t] = B!Current /\ view[t].possible # "no" BY <1>1, <1>4, <1>7
  <2>3. prev[t].topics = server[endpoint] /\ view[t] = prev[t]
    BY <1>3, <1>4, <2>1, <2>2 DEF Writer, Latest, Answered
  <2> QED BY <1>7, <2>2, <2>3
<1> QED BY <1>1, <1>5, <1>6, <1>7

\* Once the tabs show the topics as they are and no update is under way, the server pushes
\* exactly these to the browser (the effect of useWebPushListener), for any tabs, topics,
\* overlapping updates and endpoints, unless a request failed or was left behind, or an
\* answer overtook another.
THEOREM PushedTopics == B!Spec => []TopicsReachServer
<1>1. B!Init => PushOK BY PushInit
<1>2. PushOK /\ [B!Next]_(B!vars) => PushOK' BY PushStep
<1>3. PushOK => TopicsReachServer BY QuietAgrees
<1> QED BY <1>1, <1>2, <1>3, PTL DEF B!Spec
==============================================================================
