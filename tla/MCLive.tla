-------------------------------- MODULE MCLive --------------------------------
(***************************************************************************)
(* What must happen at last: subscribers get what is published and end     *)
(* once they are canceled (Topics), and the web app connects again         *)
(* (WebClient).  They share no state, so each behaviour is one of one      *)
(* part, which Init picks.                                                 *)
(***************************************************************************)
EXTENDS WebClient

CONSTANTS a, b, h1, h2, h3, o1, p, v1, user, manager

VARIABLES part,
          now, topics, idOf, lastAccess, rateVisitor, subscribers, smu, deleting, seen, active, pc,
          objs, subscribed, canceled, canceling, cancelUser, ppc, pobj, targets, received, strayed

topicVars == <<now, topics, idOf, lastAccess, rateVisitor, subscribers, smu, deleting, seen, active,
               pc, objs, subscribed, canceled, canceling, cancelUser, ppc, pobj, targets, received, strayed>>

\* Three requests of one user for one topic, which are canceled while a message is published.
T == INSTANCE Topics WITH
       TopicIDs <- {a, b}, UnifiedPush <- {}, Objects <- {o1}, Handlers <- {h1, h2, h3},
       Publishers <- {p}, Visitors <- {v1}, VisitorOf <- [h \in {h1, h2, h3} |-> v1],
       UserOf <- [h \in {h1, h2, h3} |-> user], TopicsOf <- [h \in {h1, h2, h3} |-> <<a>>],
       TopicOf <- [q \in {p} |-> a], Cancelers <- {user}, Manager <- manager,
       TotalTopicLimit <- 1, SubscriptionLimit <- 2, RateLimiting <- FALSE,
       ExpungeAfter <- 1, VisitorExpungeAfter <- 1, MaxTime <- 0

MCInit == Init /\ T!Init /\ part \in {"topics", "web"}

MCNext ==
  /\ \/ part = "topics" /\ T!Next /\ UNCHANGED vars
     \/ part = "web" /\ Next /\ UNCHANGED topicVars
  /\ UNCHANGED part

\* Topics' Fairness and WebClient's.
MCFairness ==
  /\ WF_topicVars(part = "topics" /\ T!FanOut(p))
  /\ WF_topicVars(part = "topics" /\ \E s \in targets[p] : T!Forward(p, s))
  /\ \A h \in {h1, h2, h3} :
       /\ WF_topicVars(part = "topics" /\ canceled[h] /\ T!EndStream(h))
       /\ WF_topicVars(part = "topics" /\ T!Unsubscribe(h, 1))
       /\ WF_topicVars(part = "topics" /\ T!RemoveSubscription(h))
  /\ WF_vars(part = "web" /\ Render /\ memo = None)
  /\ WF_vars(part = "web" /\ Refresh)
  /\ \A c \in Conns :
       /\ WF_vars(part = "web" /\ Retry(c))
       /\ WF_vars(part = "web" /\ Open(c))
       /\ WF_vars(part = "web" /\ Die(c) /\ socket[c] = "aborted")

MCSpec == MCInit /\ [][MCNext]_<<part, vars, topicVars>> /\ MCFairness

\* A handler that is streaming when a message is published to its topic gets it, unless
\* its request ends.
StreamingHandlersGetIt == T!StreamingHandlersGetIt

\* A subscriber that is canceled ends and gives back what it has: its place in the topic
\* and in the visitor's count.
CanceledHandlersClose == T!CanceledHandlersClose
==============================================================================
