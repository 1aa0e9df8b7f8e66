------------------------------- MODULE WebPush -------------------------------
(***************************************************************************)
(* server/webpush_store.go and server_webpush.go: the browsers' web push   *)
(* subscriptions.  The manager starts a goroutine now and then that        *)
(* removes expired subscriptions and warns the ones that will expire, in   *)
(* steps between which requests change the table; a slow goroutine may     *)
(* overlap with later ones.                                                *)
(*                                                                         *)
(* The keys and topics of a subscription are left out: nothing here        *)
(* depends on them.                                                        *)
(***************************************************************************)
EXTENDS Naturals, FiniteSets

CONSTANTS Endpoints, Owners, Ips, None,
          Goroutines,    \* the runs of the manager that may overlap
          EndpointLimit, \* subscriptionEndpointLimitPerSubscriberIP
          WarnAfter, ExpireAfter,
          MaxTime,       \* a bound on the time
          MaxIds         \* a bound on the subscription IDs

VARIABLES row,    \* the table subscription by endpoint, or None
          time,   \* in units of which the manager completes a run in each
          ids,    \* subscription IDs drawn so far
          run,    \* the goroutines of the manager
          ran,    \* a goroutine started since the last tick has completed
          told,   \* history: endpoints that were sent a warning since their last update
          raced   \* history: endpoints that were marked for a warning sent before their last update

vars == <<row, time, ids, run, ran, told, raced>>

Subscription ==
  [id : Nat, user : Owners \cup {None}, ip : Ips, updated : Nat, warned : {"yes", "no"}]

NotRunning == [step |-> "idle", todo |-> {}, sent |-> {}, fresh |-> "no"]

Init ==
  /\ row = [e \in Endpoints |-> None]
  /\ time = 0 /\ ids = 0
  /\ run = [g \in Goroutines |-> NotRunning] /\ ran = "no"
  /\ told = {} /\ raced = {}

Rows == {e \in Endpoints : row[e] # None}

\* The table without the rows of E.
Remove(E) ==
  /\ row' = [e \in Endpoints |-> IF e \in E THEN None ELSE row[e]]
  /\ told' = told \ E /\ raced' = raced \ E

\* Time passes; the manager runs every minute and the durations are days, so that it
\* has completed a run since the last time.
Tick ==
  /\ time < MaxTime /\ ran = "yes"
  /\ time' = time + 1
  /\ ran' = "no"
  /\ run' = [g \in Goroutines |-> [run[g] EXCEPT !.fresh = "no"]]
  /\ UNCHANGED <<row, ids, told, raced>>

-----------------------------------------------------------------------------
(* Requests *)

\* Mutant: an update keeps warned_at.
UpsertKeepsWarned(e, u, ip) ==
  /\ IF e \in Rows THEN UNCHANGED ids
     ELSE /\ Cardinality({o \in Rows : row[o].ip = ip}) < EndpointLimit
          /\ ids < MaxIds /\ ids' = ids + 1
  /\ row' = [row EXCEPT ![e] =
               [id |-> IF e \in Rows THEN row[e].id ELSE ids', user |-> u, ip |-> ip,
                updated |-> time, warned |-> IF e \in Rows THEN row[e].warned ELSE "no"]]
  /\ told' = told \ {e} /\ raced' = raced \ {e}
  /\ UNCHANGED <<time, run, ran>>

\* UpsertSubscription, one transaction.
UpsertSubscription(e, u, ip) ==
  /\ IF e \in Rows THEN UNCHANGED ids
     ELSE /\ Cardinality({o \in Rows : row[o].ip = ip}) < EndpointLimit
          /\ ids < MaxIds /\ ids' = ids + 1
  /\ row' = [row EXCEPT ![e] =
               [id |-> IF e \in Rows THEN row[e].id ELSE ids', user |-> u, ip |-> ip,
                updated |-> time, warned |-> "no"]]
  /\ told' = told \ {e} /\ raced' = raced \ {e}
  /\ UNCHANGED <<time, run, ran>>

\* handleWebPushDelete, or a message could not be sent to the endpoint.
RemoveByEndpoint(e) ==
  /\ e \in Rows
  /\ Remove({e})
  /\ UNCHANGED <<time, ids, run, ran>>

\* The user's account is deleted.
RemoveByUserID(u) ==
  /\ u # None
  /\ Remove({e \in Rows : row[e].user = u})
  /\ UNCHANGED <<time, ids, run, ran>>

-----------------------------------------------------------------------------
(* pruneAndNotifyWebPushSubscriptionsInternal *)

RemoveExpired(g) ==
  /\ run[g].step = "idle"
  /\ Remove({e \in Rows : row[e].updated + ExpireAfter <= time})
  /\ run' = [run EXCEPT ![g] = [step |-> "read", todo |-> {}, sent |-> {}, fresh |-> "yes"]]
  /\ UNCHANGED <<time, ids, ran>>

\* The goroutine returns without error.
Complete(g) ==
  /\ run' = [run EXCEPT ![g] = NotRunning]
  /\ ran' = IF run[g].fresh = "yes" THEN "yes" ELSE ran

\* The goroutine has the endpoints and IDs todo still to warn, and has warned the IDs sent.
Sending(g, todo, sent) ==
  run' = [run EXCEPT ![g] = [step |-> "send", todo |-> todo, sent |-> sent, fresh |-> run[g].fresh]]

Expiring ==
  {e \in Rows : row[e].warned = "no" /\ row[e].updated + WarnAfter <= time}

SubscriptionsExpiring(g) ==
  /\ run[g].step = "read"
  /\ IF Expiring = {} THEN Complete(g)
     ELSE Sending(g, {<<e, row[e].id>> : e \in Expiring}, {}) /\ UNCHANGED ran
  /\ UNCHANGED <<row, time, ids, told, raced>>

\* sendWebPushNotification, to any of the endpoints left.
Send(g) == \E x \in run[g].todo :
  /\ run[g].step = "send"
  /\ \/ /\ Sending(g, run[g].todo \ {x}, run[g].sent \cup {x[2]})
        /\ told' = told \cup ({x[1]} \cap Rows)
        /\ UNCHANGED <<row, raced>>
     \/ /\ Sending(g, run[g].todo \ {x}, run[g].sent)
        /\ Remove({x[1]})
  /\ UNCHANGED <<time, ids, ran>>

MarkExpiryWarningSent(g) ==
  /\ run[g].step = "send" /\ run[g].todo = {}
  /\ row' = [e \in Endpoints |-> IF e \in Rows /\ row[e].id \in run[g].sent
                                 THEN [row[e] EXCEPT !.warned = "yes"] ELSE row[e]]
  /\ raced' = raced \cup {e \in Rows \ told : row[e].id \in run[g].sent}
  /\ Complete(g)
  /\ UNCHANGED <<time, ids, told>>

\* The database fails at any step.
Abort(g) ==
  /\ run[g].step \in {"read", "send"}
  /\ run' = [run EXCEPT ![g] = NotRunning]
  /\ UNCHANGED <<row, time, ids, ran, told, raced>>

Next ==
  \/ Tick
  \/ \E e \in Endpoints :
       \/ \E u \in Owners \cup {None}, ip \in Ips : UpsertSubscription(e, u, ip)
       \/ RemoveByEndpoint(e)
  \/ \E u \in Owners : RemoveByUserID(u)
  \/ \E g \in Goroutines :
       \/ RemoveExpired(g) \/ SubscriptionsExpiring(g) \/ Send(g)
       \/ MarkExpiryWarningSent(g) \/ Abort(g)

Spec == Init /\ [][Next]_vars

-----------------------------------------------------------------------------
(* Property *)

\* "Unused subscriptions will send out a warning after 55 days, and will automatically
\* expire after 60 days" (docs/config.md:981): a subscription that is due to be removed was
\* sent a warning since its last update, unless that update came between a warning and its
\* mark, which then stands for a warning that was never sent.
ExpiredWereWarned ==
  \A e \in Rows : row[e].updated + ExpireAfter <= time => e \in told \cup raced
==============================================================================
