------------------------------ MODULE PushTopics ------------------------------
(***************************************************************************)
(* How the tabs of a browser keep the server informed of the topics to     *)
(* push (useWebPushTopics and useWebPushListener of hooks.js,              *)
(* SubscriptionManager.js, Notifier.js, Api.js): each tab has the topics   *)
(* from a live query of the browser database, and an effect that sends     *)
(* them whenever they are not the ones it has sent last.  The updates of a *)
(* tab are neither cancelled nor put in order.                             *)
(*                                                                         *)
(* A topic is wanted when it is subscribed, of this server and not muted,  *)
(* and Web Push is enabled in the preferences.                             *)
(***************************************************************************)
EXTENDS Naturals, FiniteSets

CONSTANTS Tabs, Topics, None,
          MaxChanges,    \* a bound on the changes of the user
          MaxRuns,       \* a bound on the updates of a tab that overlap
          MaxEndpoints,  \* a bound on the subscriptions of the browser
          MaxFaults      \* a bound on the requests that fail and the tabs that are reloaded

VARIABLES wanted,    \* the topics in the browser database
          granted,   \* the permission: "yes" or "no"
          endpoint,  \* the subscription of the browser, 0 if there is none
          used,      \* counts the subscriptions of the browser
          server,    \* the topics the server pushes to an endpoint
          view,      \* what a tab was rendered with last: {topics, pushPossible}
          prev,      \* prevUpdate of a tab
          run,       \* the updates under way in a tab
          stray,     \* the requests of tabs that are gone
          changes, faults,
          spoiled    \* history: "yes" when a request failed or was left behind, or an answer overtook another

vars == <<wanted, granted, endpoint, used, server, view, prev, run, stray, changes, faults, spoiled>>

Endpoints == 1..MaxEndpoints
Loading == [topics |-> None, possible |-> None]
NoRun == [step |-> "idle", view |-> Loading, endpoint |-> 0, behind |-> 0]
Started(v) == [step |-> "started", view |-> v, endpoint |-> 0, behind |-> 0]
Runs == 1..MaxRuns

\* The permission and the topics may be from an earlier visit.
Init ==
  /\ wanted \in SUBSET Topics /\ granted \in {"yes", "no"}
  /\ endpoint = 0 /\ used = 0
  /\ server = [e \in Endpoints |-> {}]
  /\ view = [t \in Tabs |-> Loading] /\ prev = [t \in Tabs |-> Loading]
  /\ run = [t \in Tabs |-> [r \in Runs |-> NoRun]]
  /\ stray = {}
  /\ changes = 0 /\ faults = 0 /\ spoiled = "no"

-----------------------------------------------------------------------------
(* The user and the browser *)

WebPushTopics(possible) == IF possible = "yes" THEN wanted ELSE {}
Current == [topics |-> WebPushTopics(granted), possible |-> granted]

\* Subscribing, unsubscribing, muting, or the switch in the preferences.
Change(W) ==
  /\ W # wanted /\ changes < MaxChanges
  /\ wanted' = W
  /\ changes' = changes + 1
  /\ UNCHANGED <<granted, endpoint, used, server, view, prev, run, stray, faults, spoiled>>

\* A browser whose permission is taken away forgets its subscription.  The user is slower
\* than the event and the query that tell the tabs of the change before.
SetPermission ==
  /\ changes < MaxChanges
  /\ \A t \in Tabs : view[t] \in {Loading, Current}
  /\ changes' = changes + 1
  /\ granted' = IF granted = "yes" THEN "no" ELSE "yes"
  /\ endpoint' = 0
  /\ UNCHANGED <<wanted, used, server, view, prev, run, stray, faults, spoiled>>

-----------------------------------------------------------------------------
(* The hooks of a tab *)

\* The effect of useWebPushListener, when the tab is rendered with v and p.
Effect(t, v, p, runs) ==
  IF v.topics = None \/ v = p
  THEN run' = [run EXCEPT ![t] = runs]
  ELSE \E r \in Runs :
         /\ runs[r].step = "idle" /\ \A q \in Runs : q < r => runs[q].step # "idle"
         /\ run' = [run EXCEPT ![t] = [runs EXCEPT ![r] = Started(v)]]

Render(t, v) ==
  /\ view' = [view EXCEPT ![t] = v]
  /\ Effect(t, v, prev[t], run[t])
  /\ UNCHANGED <<wanted, granted, endpoint, used, server, prev, stray, changes, faults, spoiled>>

\* useNotificationPermissionListener.
PushPossible(t) ==
  /\ view[t].possible # granted
  /\ Render(t, [view[t] EXCEPT !.possible = granted])

\* The live query has a result, which may be the one before: it runs whenever a subscription
\* is written.
LiveQuery(t) ==
  /\ view[t].possible # None
  /\ Render(t, [view[t] EXCEPT !.topics = WebPushTopics(view[t].possible)])

-----------------------------------------------------------------------------
(* updateWebPushSubscriptions *)

\* The update is done, and behind others whose answers are on their way.
Answer(t, r) ==
  run' = [run EXCEPT ![t][r].step = "answered",
                     ![t][r].behind = Cardinality({q \in Runs : run[t][q].step = "answered"})]

\* The update of the tab has ended.
Ended(t, r) ==
  [q \in Runs |->
     IF q = r THEN NoRun
     ELSE IF run[t][q].behind > run[t][r].behind THEN [run[t][q] EXCEPT !.behind = @ - 1]
     ELSE run[t][q]]

\* webPushSubscription finds a subscription, makes one, or there is nothing to do; making
\* one fails without the permission.
WebPushSubscription(t, r) ==
  /\ run[t][r].step = "started"
  /\ LET has == run[t][r].view.topics # {} IN
     \/ /\ endpoint # 0
        /\ run' = [run EXCEPT ![t][r].step = "sent", ![t][r].endpoint = endpoint]
        /\ UNCHANGED <<endpoint, used>>
     \/ /\ endpoint = 0 /\ has /\ granted = "yes" /\ used < MaxEndpoints
        /\ endpoint' = used + 1 /\ used' = used + 1
        /\ run' = [run EXCEPT ![t][r].step = "sent", ![t][r].endpoint = used + 1]
     \/ /\ endpoint = 0 /\ has /\ granted = "no"
        /\ run' = [run EXCEPT ![t][r] = NoRun]
        /\ UNCHANGED <<endpoint, used>>
     \/ /\ endpoint = 0 /\ ~has
        /\ Answer(t, r)
        /\ UNCHANGED <<endpoint, used>>
  /\ UNCHANGED <<wanted, granted, server, view, prev, stray, changes, faults, spoiled>>

\* The server replaces the topics of the endpoint, or deletes them (no topics).
Handle(t, r) ==
  /\ run[t][r].step = "sent"
  /\ server' = [server EXCEPT ![run[t][r].endpoint] = run[t][r].view.topics]
  /\ Answer(t, r)
  /\ UNCHANGED <<wanted, granted, endpoint, used, view, prev, stray, changes, faults, spoiled>>

\* Mutant: the result of an update that is out of date is ignored.
SetCurrentUpdate(t, r) ==
  /\ run[t][r].step = "answered"
  /\ LET v == run[t][r].view
         p == IF v = view[t] THEN v ELSE prev[t] IN
     /\ prev' = [prev EXCEPT ![t] = p]
     /\ IF v = view[t]
        THEN Effect(t, view[t], v, Ended(t, r))
        ELSE run' = [run EXCEPT ![t] = Ended(t, r)]
  /\ UNCHANGED <<wanted, granted, endpoint, used, server, view, stray, changes, faults, spoiled>>

\* setPrevUpdate, whatever the tab shows by now; the effect runs when that is new.
SetPrevUpdate(t, r) ==
  /\ run[t][r].step = "answered"
  /\ LET v == run[t][r].view IN
     /\ prev' = [prev EXCEPT ![t] = v]
     /\ IF v = prev[t]
        THEN run' = [run EXCEPT ![t] = Ended(t, r)]
        ELSE Effect(t, view[t], v, Ended(t, r))
  /\ spoiled' = IF run[t][r].behind > 0 THEN "yes" ELSE spoiled
  /\ UNCHANGED <<wanted, granted, endpoint, used, server, view, stray, changes, faults>>

\* A request fails, before or after the server has handled it; the error is logged.
Fail(t, r) ==
  /\ run[t][r].step \in {"sent", "answered"} /\ faults < MaxFaults
  /\ faults' = faults + 1
  /\ run' = [run EXCEPT ![t] = Ended(t, r)]
  /\ spoiled' = "yes"
  /\ UNCHANGED <<wanted, granted, endpoint, used, server, view, prev, stray, changes>>

\* The tab is closed and opened again; a request that was sent may still be handled.
Reload(t) ==
  /\ view[t] # Loading /\ faults < MaxFaults
  /\ faults' = faults + 1
  /\ LET left == {r \in Runs : run[t][r].step = "sent"} IN
     /\ stray' = stray \cup {run[t][r] : r \in left}
     /\ spoiled' = IF left = {} THEN spoiled ELSE "yes"
  /\ view' = [view EXCEPT ![t] = Loading]
  /\ prev' = [prev EXCEPT ![t] = Loading]
  /\ run' = [run EXCEPT ![t] = [r \in Runs |-> NoRun]]
  /\ UNCHANGED <<wanted, granted, endpoint, used, server, changes>>

HandleStray(s) ==
  /\ s \in stray
  /\ stray' = stray \ {s}
  /\ server' = [server EXCEPT ![s.endpoint] = s.view.topics]
  /\ UNCHANGED <<wanted, granted, endpoint, used, view, prev, run, changes, faults, spoiled>>

Next ==
  \/ \E W \in SUBSET Topics : Change(W)
  \/ SetPermission
  \/ \E t \in Tabs : PushPossible(t) \/ LiveQuery(t) \/ Reload(t)
  \/ \E t \in Tabs, r \in Runs :
       WebPushSubscription(t, r) \/ Handle(t, r) \/ SetPrevUpdate(t, r) \/ Fail(t, r)
  \/ \E s \in stray : HandleStray(s)

Spec == Init /\ [][Next]_vars

-----------------------------------------------------------------------------
Quiet == \A t \in Tabs : view[t] = Current /\ \A r \in Runs : run[t][r].step = "idle"

\* Once the tabs show the topics as they are and no update is under way, the server pushes
\* exactly these topics to the browser, in whatever order the updates of the tabs were
\* handled (the effect of useWebPushListener), unless a request failed, which nobody
\* repeats, a tab was closed during one, or the answers to two of a tab came in another
\* order than the server gave them.
TopicsReachServer ==
  Quiet /\ spoiled = "no" =>
    IF endpoint = 0 THEN Current.topics = {} ELSE server[endpoint] = Current.topics
==============================================================================
