-------------------------------- MODULE Details --------------------------------
(***************************************************************************)
(* What a device shows of a subscription it shares with the account        *)
(* besides its topic: the display name and the reservation.  They are      *)
(* changed in the menu of the subscription (SubscriptionPopup.jsx,         *)
(* ReserveDialogs.jsx) or in the preferences (Preferences.jsx), the server *)
(* announces the change, and the devices fetch the account.  The account   *)
(* itself is what the preferences show; the menu and the list of topics    *)
(* show what the browser database has (SubscriptionManager.js).            *)
(***************************************************************************)
EXTENDS Naturals, FiniteSets

CONSTANTS Devices, Names,
          Permissions,  \* what everyone else may do with a reserved topic
          None,         \* no subscription, name or reservation
          MaxChanges, MaxLoads, MaxFaults

VARIABLES account,  \* the name and the reservation in the account
          local,    \* the subscription in each browser database, or None
          seen,     \* the account as each page has it
          request,  \* the changes on their way to the server by device
          events,   \* sync events on their way to each device
          fetch,    \* the run of sync() of each device
          changes, loads, faults,
          spoiled   \* history: devices that cannot be expected to be up to date

vars == <<account, local, seen, request, events, fetch, changes, loads, faults, spoiled>>

Plain == [name |-> None, reservation |-> None]
Idle == [step |-> "idle", value |-> Plain]

Init ==
  /\ account = Plain
  /\ local \in [Devices -> {<<>>, <<Plain>>}]
  /\ seen = [d \in Devices |-> Plain]
  /\ request = [d \in Devices |-> {}]
  /\ events = [d \in Devices |-> 0]
  /\ fetch = [d \in Devices |-> Idle]
  /\ changes = 0 /\ loads = 0 /\ faults = 0
  /\ spoiled = {d \in Devices : local[d] = <<>>}

\* A request with a new name or reservation.
Ask(d, field, value) ==
  /\ changes < MaxChanges
  /\ changes' = changes + 1
  /\ request' = [request EXCEPT ![d] = @ \cup {[field |-> field, value |-> value]}]
  /\ UNCHANGED <<account, seen, events, fetch, loads, faults, spoiled>>

\* handleSave of the dialog for the name: the browser database, then the account.
SetDisplayName(d, n) ==
  /\ local[d] # <<>> /\ n # local[d][1].name
  /\ local' = [local EXCEPT ![d][1].name = n]
  /\ Ask(d, "name", n)

\* The menu goes by the browser database: it offers to reserve a topic, or to edit or to
\* delete the reservation.
Reserved(d) == local[d][1].reservation # None

\* The dialog that reserves refuses what the account, as the page has it, has already.
UpsertReservation(d, p) ==
  /\ local[d] # <<>>
  /\ Reserved(d) \/ seen[d].reservation = None
  /\ Ask(d, "reservation", p) /\ UNCHANGED local

DeleteReservation(d) ==
  /\ local[d] # <<>> /\ Reserved(d)
  /\ Ask(d, "reservation", None) /\ UNCHANGED local

\* The table in the preferences goes by the account; there too a topic is reserved, and
\* its reservation edited or deleted.
ChangeInPreferences(d, p) ==
  /\ p = None => seen[d].reservation # None
  /\ Ask(d, "reservation", p) /\ UNCHANGED local

\* handleAccountSubscriptionChange, handleAccountReservationAdd and -Delete, and the event
\* on the sync topic, which is not stored for the devices L that are not connected.
Save(d, r) ==
  /\ r \in request[d]
  /\ request' = [request EXCEPT ![d] = @ \ {r}]
  /\ account' = [account EXCEPT ![r.field] = r.value]
  /\ \E L \in SUBSET Devices :
       /\ faults + Cardinality(L) <= MaxFaults
       /\ faults' = faults + Cardinality(L)
       /\ events' = [e \in Devices |-> IF e \in L THEN events[e] ELSE events[e] + 1]
       /\ spoiled' = spoiled \cup L
  /\ UNCHANGED <<local, seen, fetch, changes, loads>>

\* The server refuses, or the request does not reach it.
Fail(d, r) ==
  /\ r \in request[d] /\ faults < MaxFaults
  /\ request' = [request EXCEPT ![d] = @ \ {r}]
  /\ faults' = faults + 1
  /\ spoiled' = spoiled \cup {d}
  /\ UNCHANGED <<account, local, seen, events, fetch, changes, loads>>

\* sync(), one at a time (Settings has those that overlap): on an event or a page load
Sync(d) ==
  /\ fetch[d].step = "idle"
  /\ \/ events[d] > 0 /\ events' = [events EXCEPT ![d] = @ - 1] /\ UNCHANGED loads
     \/ loads < MaxLoads /\ loads' = loads + 1 /\ UNCHANGED events
  /\ fetch' = [fetch EXCEPT ![d].step = "get"]
  /\ spoiled' = spoiled \ {d}
  /\ UNCHANGED <<account, local, seen, request, changes, faults>>

Get(d) ==
  /\ fetch[d].step = "get"
  /\ fetch' = [fetch EXCEPT ![d] = [step |-> "apply", value |-> account]]
  /\ seen' = [seen EXCEPT ![d] = account]
  /\ UNCHANGED <<account, local, request, events, changes, loads, faults, spoiled>>

\* syncFromRemote hands the name and the reservation to add(), which does nothing if there
\* is such a subscription.
Apply(d) ==
  /\ fetch[d].step = "apply"
  /\ local' = [local EXCEPT ![d] = IF @ = <<>> THEN <<fetch[d].value>> ELSE @]
  /\ fetch' = [fetch EXCEPT ![d] = Idle]
  /\ UNCHANGED <<account, seen, request, events, changes, loads, faults, spoiled>>

Next ==
  \E d \in Devices :
    \/ \E n \in Names : SetDisplayName(d, n)
    \/ \E p \in Permissions : UpsertReservation(d, p)
    \/ DeleteReservation(d)
    \/ \E p \in Permissions \cup {None} : ChangeInPreferences(d, p)
    \/ \E r \in request[d] : Save(d, r) \/ Fail(d, r)
    \/ Sync(d) \/ Get(d) \/ Apply(d)

Spec == Init /\ [][Next]_vars

-----------------------------------------------------------------------------
Settled(d) == (\A e \in Devices : request[e] = {}) /\ events[d] = 0 /\ fetch[d].step = "idle"

\* docs/releases.md: "Once logged in, topic subscriptions and user settings are stored
\* server-side in the user account (as opposed to only in the browser storage)".  Once
\* nothing is on its way a device shows the name and the reservation that the account has,
\* unless since its last sync a request has failed or an event was lost.
DetailsReachDevices ==
  \A d \in Devices : Settled(d) /\ d \notin spoiled => local[d] = <<account>>
==============================================================================
