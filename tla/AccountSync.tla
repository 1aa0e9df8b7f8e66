----------------------------- MODULE AccountSync -----------------------------
(***************************************************************************)
(* The subscriptions of an account, which the server keeps in the user's   *)
(* prefs (server_account.go), and the copies of them that web apps on      *)
(* several devices keep (AccountApi.js, SubscriptionManager.js).  A web    *)
(* app changes its copy and then sends the change; the server announces a  *)
(* change on the user's sync topic, and a web app that hears of it fetches *)
(* the account and makes its copy the same.                                *)
(*                                                                         *)
(* Every request of the account loads the user anew and hands it to the    *)
(* visitor that all of them share, so that a handler works on the object   *)
(* of the last request that came in.  Display names and the other prefs    *)
(* are left out.                                                           *)
(***************************************************************************)
EXTENDS Naturals, FiniteSets

CONSTANTS Devices, Topics, None,
          Initial,    \* the subscriptions the account begins with
          MaxChanges, \* a bound on the requests that change subscriptions
          MaxFetches, \* a bound on the runs of sync() that overlap on a device
          MaxLoads,   \* a bound on the syncs nobody has announced (page loads)
          MaxFaults   \* a bound on the requests that fail and the events that miss a device

VARIABLES prefs,    \* the subscriptions in the user database
          object,   \* the subscriptions of the user objects in memory
          current,  \* the object of the visitor
          change,   \* the requests of Changes
          fetch,    \* the runs of sync() by device
          local,    \* the subscriptions in the browser database by device
          events,   \* sync events on their way to each device
          loads, faults,
          wanted,   \* history: the subscriptions as the saved changes would have them
          raced,    \* history: "yes" when two changes were handled at a time
          spoiled   \* history: devices that cannot be expected to be up to date

serverVars == <<prefs, object, current, wanted, raced>>
vars == <<serverVars, change, fetch, local, events, loads, faults, spoiled>>

Changes == 1..MaxChanges
Fetches == 1..MaxFetches

\* The visitor and each handler has one object at most, and there is a new one.
Objects == 0..(MaxChanges + 1)

Done == [step |-> "done", op |-> None, topic |-> None, device |-> None, user |-> None, list |-> {}]
Unsent == [step |-> "unsent", op |-> None, topic |-> None, device |-> None, user |-> None, list |-> {}]
Idle == [step |-> "idle", list |-> {}]

Init ==
  /\ prefs = Initial /\ wanted = Initial
  /\ object = [o \in Objects |-> IF o = 0 THEN Initial ELSE {}] /\ current = 0
  /\ change = [c \in Changes |-> Unsent]
  /\ fetch = [d \in Devices |-> [f \in Fetches |-> Idle]]
  /\ local = [d \in Devices |-> Initial]
  /\ events = [d \in Devices |-> 0]
  /\ loads = 0 /\ faults = 0
  /\ raced = "no" /\ spoiled = {}

-----------------------------------------------------------------------------
(* The server *)

InUse == {current} \cup {change[c].user : c \in Changes}

NewObject == CHOOSE o \in Objects : o \notin InUse

\* Mutant: the visitor keeps the user it has.
KeepUser == UNCHANGED <<object, current>>

\* The user is read from the database and becomes the one of the visitor.
SetUser ==
  /\ object' = [o \in Objects |-> IF o = NewObject THEN prefs ELSE IF o \in InUse THEN object[o] ELSE {}]
  /\ current' = NewObject

Handled(c) == change[c].step \in {"authenticated", "read", "assigned"}

\* The request goes on with another step, user and list.
Goes(c, step, user, list) ==
  change' = [change EXCEPT ![c] = [step |-> step, op |-> @.op, topic |-> @.topic,
                                   device |-> @.device, user |-> user, list |-> list]]
Ends(c) == change' = [change EXCEPT ![c] = Done]

Authenticate(c) ==
  /\ change[c].step = "sent"
  /\ SetUser
  /\ Goes(c, "authenticated", None, {})
  /\ raced' = IF \E e \in Changes : Handled(e) THEN "yes" ELSE raced
  /\ UNCHANGED <<prefs, wanted, fetch, local, events, loads, faults, spoiled>>

\* The handler takes the visitor's user and goes through the subscriptions.  One that is
\* there is not added again, which is an error; one that is not there is not removed.
Read(c) ==
  /\ change[c].step = "authenticated"
  /\ LET list == object[current]
         found == change[c].topic \in list
     IN \/ change[c].op = "add" /\ found /\ Ends(c)
        \/ change[c].op = "delete" /\ ~found /\ Goes(c, "saved", None, {})
        \/ change[c].op = "add" /\ ~found /\ Goes(c, "read", current, list)
        \/ change[c].op = "delete" /\ found /\ Goes(c, "read", current, list)
  /\ UNCHANGED <<serverVars, fetch, local, events, loads, faults, spoiled>>

Changed(c, list) ==
  IF change[c].op = "add" THEN list \cup {change[c].topic} ELSE list \ {change[c].topic}

\* Only the visitor's pointer to the user has a lock: the object may have changed since.
Assign(c) ==
  /\ change[c].step = "read"
  /\ object' = [object EXCEPT ![change[c].user] = Changed(c, change[c].list)]
  /\ Goes(c, "assigned", change[c].user, {})
  /\ UNCHANGED <<prefs, current, wanted, raced, fetch, local, events, loads, faults, spoiled>>

\* All prefs of the object are written.
ChangeSettings(c) ==
  /\ change[c].step = "assigned"
  /\ prefs' = object[change[c].user]
  /\ wanted' = Changed(c, wanted)
  /\ Goes(c, "saved", None, {})
  /\ UNCHANGED <<object, current, raced, fetch, local, events, loads, faults, spoiled>>

\* A request does not get through, or the database refuses the write: no event, and the
\* web app only logs it.
Fail(c) ==
  /\ change[c].step \in {"sent", "assigned"} /\ faults < MaxFaults
  /\ faults' = faults + 1
  /\ Ends(c)
  /\ spoiled' = IF change[c].step = "sent" THEN spoiled \cup {change[c].device} ELSE Devices
  /\ UNCHANGED <<serverVars, fetch, local, events, loads>>

\* Mutant: only the other devices are told.
TellOthers(c) ==
  /\ change[c].step = "saved"
  /\ \E L \in SUBSET Devices :
       /\ faults + Cardinality(L) <= MaxFaults
       /\ faults' = faults + Cardinality(L)
       /\ events' = [d \in Devices |-> IF d \in L \cup {change[c].device} THEN events[d] ELSE events[d] + 1]
       /\ spoiled' = spoiled \cup L
  /\ Ends(c)
  /\ UNCHANGED <<serverVars, fetch, local, loads>>

\* The event goes to the devices that are connected; it is not stored for the others.
PublishSyncEvent(c) ==
  /\ change[c].step = "saved"
  /\ \E L \in SUBSET Devices :
       /\ faults + Cardinality(L) <= MaxFaults
       /\ faults' = faults + Cardinality(L)
       /\ events' = [d \in Devices |-> IF d \in L THEN events[d] ELSE events[d] + 1]
       /\ spoiled' = spoiled \cup L
  /\ Ends(c)
  /\ UNCHANGED <<serverVars, fetch, local, loads>>

-----------------------------------------------------------------------------
(* The web app on a device *)

Send(c, d, t, op) ==
  /\ change[c].step = "unsent"
  /\ \A b \in Changes : b < c => change[b].step # "unsent"
  /\ change' = [change EXCEPT ![c] = [step |-> "sent", op |-> op, topic |-> t, device |-> d,
                                      user |-> None, list |-> {}]]
  /\ UNCHANGED <<serverVars, fetch, events, loads, faults, spoiled>>

\* The dialog does not let the user subscribe to a topic again.
Subscribe(c, d, t) ==
  /\ t \notin local[d]
  /\ local' = [local EXCEPT ![d] = @ \cup {t}]
  /\ Send(c, d, t, "add")

Unsubscribe(c, d, t) ==
  /\ t \in local[d]
  /\ local' = [local EXCEPT ![d] = @ \ {t}]
  /\ Send(c, d, t, "delete")

Fetching(d, f, step, list) == fetch' = [fetch EXCEPT ![d][f] = [step |-> step, list |-> list]]
Syncing(d) == \E f \in Fetches : fetch[d][f].step # "idle"

\* sync() begins, and its request is authenticated.  It catches up with all there was
\* before, unless another one is under way.
Sync(d, f) ==
  /\ fetch[d][f].step = "idle"
  /\ \A e \in Fetches : e < f => fetch[d][e].step # "idle"
  /\ SetUser
  /\ Fetching(d, f, "get", {})
  /\ spoiled' = IF Syncing(d) THEN spoiled \cup {d} ELSE spoiled \ {d}
  /\ UNCHANGED <<prefs, wanted, raced, change, local, faults>>

OnSyncEvent(d, f) ==
  /\ events[d] > 0
  /\ events' = [events EXCEPT ![d] = @ - 1]
  /\ Sync(d, f)
  /\ UNCHANGED loads

OnPageLoad(d, f) ==
  /\ loads < MaxLoads
  /\ loads' = loads + 1
  /\ Sync(d, f)
  /\ UNCHANGED events

\* handleAccountGet answers with the subscriptions of the visitor's user; an empty list
\* is left out of the answer, and then the web app leaves its copy alone.
Get(d, f) ==
  /\ fetch[d][f].step = "get"
  /\ IF object[current] = {} THEN Fetching(d, f, "idle", {}) ELSE Fetching(d, f, "add", object[current])
  /\ UNCHANGED <<serverVars, change, local, events, loads, faults, spoiled>>

\* syncFromRemote adds the subscriptions that only the server has ...
AddRemote(d, f) ==
  /\ fetch[d][f].step = "add"
  /\ local' = [local EXCEPT ![d] = @ \cup fetch[d][f].list]
  /\ Fetching(d, f, "remove", fetch[d][f].list)
  /\ UNCHANGED <<serverVars, change, events, loads, faults, spoiled>>

\* ... and removes those that it does not have.
RemoveLocal(d, f) ==
  /\ fetch[d][f].step = "remove"
  /\ local' = [local EXCEPT ![d] = @ \cap fetch[d][f].list]
  /\ Fetching(d, f, "idle", {})
  /\ UNCHANGED <<serverVars, change, events, loads, faults, spoiled>>

Next ==
  \/ \E c \in Changes : \/ Authenticate(c) \/ Read(c) \/ Assign(c) \/ ChangeSettings(c)
                        \/ Fail(c) \/ PublishSyncEvent(c)
                        \/ \E d \in Devices, t \in Topics : Subscribe(c, d, t) \/ Unsubscribe(c, d, t)
  \/ \E d \in Devices, f \in Fetches : \/ OnSyncEvent(d, f) \/ OnPageLoad(d, f) \/ Get(d, f)
                                       \/ AddRemote(d, f) \/ RemoveLocal(d, f)

Spec == Init /\ [][Next]_vars

-----------------------------------------------------------------------------
\* Every change that was saved is in the database and stays there (ChangeSettings writes
\* all prefs, from a user that was loaded before), unless changes were handled at a time.
ChangesKept == raced = "no" => prefs = wanted

\* Nothing is on its way that could change the copy of d.
Settled(d) ==
  /\ \A c \in Changes : change[c].step \in {"unsent", "done"}
  /\ events[d] = 0
  /\ ~Syncing(d)

\* Once nothing is on its way a device has the subscriptions of the account
\* (syncFromRemote), unless there are none, or since its last sync a request has failed or
\* an event was lost, or its syncs have overlapped.
DevicesConverge ==
  \A d \in Devices : Settled(d) /\ d \notin spoiled /\ prefs # {} => local[d] = prefs
=============================================================================
