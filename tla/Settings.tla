------------------------------- MODULE Settings -------------------------------
(***************************************************************************)
(* A setting of the web app (web/src/components/Preferences.jsx, Prefs.js): *)
(* the sound, the minimum priority, the age at which notifications are     *)
(* deleted, or the language.  It is changed in the browser database first, *)
(* and then sent to the account; the server announces the change, and      *)
(* every device of the user fetches the account and takes the setting over *)
(* (AccountApi.sync).  The settings are handled one by one and are alike,  *)
(* but that 0, the age that stands for "never", is not taken over.         *)
(*                                                                         *)
(* Requests of a device may overtake each other.  The handlers of the      *)
(* server that race for the user object are the subject of AccountSync.    *)
(***************************************************************************)
EXTENDS Naturals, FiniteSets

CONSTANTS Devices, Values, None,
          Default,     \* the value of a setting that was not changed
          Zero,        \* the value that is 0, or None
          MaxChanges,  \* a bound on the changes of the user
          MaxFetches,  \* a bound on the runs of sync() that overlap on a device
          MaxLoads,    \* a bound on the pages loaded
          MaxFaults    \* a bound on the requests that fail and the events that miss a device

VARIABLES account,  \* the setting in the account, or None
          local,    \* the setting in the browser database by device
          request,  \* the values on their way to the server by device
          events,   \* sync events on their way to each device
          fetch,    \* the runs of sync() by device
          changes, loads, faults,
          spoiled   \* history: devices that cannot be expected to be up to date

vars == <<account, local, request, events, fetch, changes, loads, faults, spoiled>>

Fetches == 1..MaxFetches
Idle == [step |-> "idle", value |-> None]

Init ==
  /\ account = None
  /\ local = [d \in Devices |-> Default]
  /\ request = [d \in Devices |-> {}]
  /\ events = [d \in Devices |-> 0]
  /\ fetch = [d \in Devices |-> [f \in Fetches |-> Idle]]
  /\ changes = 0 /\ loads = 0 /\ faults = 0
  /\ spoiled = {}

\* handleChange: the browser database, then the account.
Change(d, v) ==
  /\ v # local[d] /\ changes < MaxChanges
  /\ changes' = changes + 1
  /\ local' = [local EXCEPT ![d] = v]
  /\ request' = [request EXCEPT ![d] = @ \cup {v}]
  /\ UNCHANGED <<account, events, fetch, loads, faults, spoiled>>

\* Mutant: the server does not announce the change.
SaveOnly(d, v) ==
  /\ v \in request[d]
  /\ request' = [request EXCEPT ![d] = @ \ {v}]
  /\ account' = v
  /\ UNCHANGED <<faults, events, spoiled, local, fetch, changes, loads>>

\* handleAccountSettingsChange, and the event on the sync topic, which is not stored for
\* the devices L that are not connected.
Save(d, v) ==
  /\ v \in request[d]
  /\ request' = [request EXCEPT ![d] = @ \ {v}]
  /\ account' = v
  /\ \E L \in SUBSET Devices :
       /\ faults + Cardinality(L) <= MaxFaults
       /\ faults' = faults + Cardinality(L)
       /\ events' = [e \in Devices |-> IF e \in L THEN events[e] ELSE events[e] + 1]
       /\ spoiled' = spoiled \cup L
  /\ UNCHANGED <<local, fetch, changes, loads>>

\* maybeUpdateAccountSettings logs an error, and the change stays on the device.
Fail(d, v) ==
  /\ v \in request[d] /\ faults < MaxFaults
  /\ request' = [request EXCEPT ![d] = @ \ {v}]
  /\ faults' = faults + 1
  /\ spoiled' = spoiled \cup {d}
  /\ UNCHANGED <<account, local, events, fetch, changes, loads>>

Syncing(d) == \E f \in Fetches : fetch[d][f].step # "idle"

\* sync() begins.  It catches up with what there was before, unless another one is under
\* way.
Sync(d, f) ==
  /\ fetch[d][f].step = "idle" /\ \A e \in Fetches : e < f => fetch[d][e].step # "idle"
  /\ fetch' = [fetch EXCEPT ![d][f].step = "get"]
  /\ spoiled' = IF Syncing(d) THEN spoiled \cup {d} ELSE spoiled \ {d}
  /\ UNCHANGED <<account, local, request, changes, faults>>

OnSyncEvent(d, f) ==
  /\ events[d] > 0
  /\ events' = [events EXCEPT ![d] = @ - 1]
  /\ Sync(d, f)
  /\ UNCHANGED loads

OnPageLoad(d, f) ==
  /\ loads < MaxLoads
  /\ loads' = loads + 1
  /\ Sync(d, f)
  /\ UNCHANGED events

Get(d, f) ==
  /\ fetch[d][f].step = "get"
  /\ fetch' = [fetch EXCEPT ![d][f] = [step |-> "apply", value |-> account]]
  /\ UNCHANGED <<account, local, request, events, changes, loads, faults, spoiled>>

\* A setting that is missing, or 0, is not taken over.
Apply(d, f) ==
  /\ fetch[d][f].step = "apply"
  /\ local' = [local EXCEPT ![d] = IF fetch[d][f].value \in {None, Zero} THEN @ ELSE fetch[d][f].value]
  /\ fetch' = [fetch EXCEPT ![d][f] = Idle]
  /\ UNCHANGED <<account, request, events, changes, loads, faults, spoiled>>

Next ==
  \E d \in Devices :
    \/ \E v \in Values : Change(d, v) \/ Save(d, v) \/ Fail(d, v)
    \/ \E f \in Fetches : OnSyncEvent(d, f) \/ OnPageLoad(d, f) \/ Get(d, f) \/ Apply(d, f)

Spec == Init /\ [][Next]_vars

-----------------------------------------------------------------------------
Settled(d) == (\A e \in Devices : request[e] = {}) /\ events[d] = 0 /\ ~Syncing(d)

\* Once nothing is on its way a device has the setting of the account (sync), also one
\* where the user has changed it during a sync, unless it is the age "never", or since its
\* last sync a request has failed or an event was lost, or its syncs have overlapped.
SettingsConverge ==
  \A d \in Devices :
    Settled(d) /\ d \notin spoiled /\ account \notin {None, Zero} => local[d] = account
==============================================================================
