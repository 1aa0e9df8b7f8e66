------------------------------- MODULE MCTopics -------------------------------
(***************************************************************************)
(* Who gets what is published to a topic: the requests that are subscribed *)
(* to it (Topics) and the browsers it is pushed to (PushTopics).  Modelled *)
(* one by one they share no state, so each behaviour is one of one part,   *)
(* which Init picks.                                                       *)
(***************************************************************************)
EXTENDS Topics, TLC

\* Of the tabs of a browser, and of the values below.
CONSTANTS Tabs, Pushable, MaxChanges, MaxRuns, MaxEndpoints, MaxFaults,
          idA, idB, idC, h1, v1, v2

\* A browser has a tab, and what a tab has not found yet is no set of topics and no answer.
ASSUME PushAssumption ==
  /\ Tabs # {} /\ MaxRuns \in Nat /\ MaxEndpoints \in Nat
  /\ \A W \in SUBSET Pushable : W # None
  /\ None \notin {"yes", "no"}

VARIABLES part,
          wanted, granted, endpoint, used, server, view, prev, run, stray, changes, faults, spoiled

pushVars == <<wanted, granted, endpoint, used, server, view, prev, run, stray, changes, faults, spoiled>>

B == INSTANCE PushTopics WITH Topics <- Pushable

MCInit ==
  /\ Init /\ B!Init
  /\ part \in {"streams", "push"}
  /\ part = "streams" => wanted = {} /\ granted = "no"

\* A bound on the tabs: two of their updates overlap, of one tab or of two.
Updating == {x \in Tabs \X (1..MaxRuns) : run[x[1]][x[2]].step # "idle"}

MCNext ==
  /\ \/ part = "streams" /\ Next /\ UNCHANGED pushVars
     \/ part = "push" /\ B!Next /\ Cardinality(Updating') <= 2 /\ UNCHANGED vars
  /\ UNCHANGED part

MCSpec == MCInit /\ [][MCNext]_<<part, vars, pushVars>>

\* Once all updates of the tabs are handled, the server pushes the topics the user wants,
\* unless a request failed or was left behind, or an answer overtook another.
TopicsReachServer == B!TopicsReachServer

-----------------------------------------------------------------------------
(* Two subscribe requests, one publisher and a clock that runs long enough *)
(* for a topic to become stale and be created again.                       *)

\* One visitor subscribes to two topics, the other to the one that is published to;
\* there is room for two topics only.
MCTopicsOf == [h \in Handlers |-> IF h = h1 THEN <<idA, idB>> ELSE <<idC>>]
ToC == [p \in Publishers |-> idC]
MCVisitorOf == [h \in Handlers |-> IF h = h1 THEN v1 ELSE v2]
MCUserOf == [h \in Handlers |-> "u"]

\* Topic objects are interchangeable: nothing tells one allocation from another.
ObjectSymmetry == Permutations(Objects)
==============================================================================
