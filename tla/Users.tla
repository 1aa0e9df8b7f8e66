--------------------------------- MODULE Users ---------------------------------
(***************************************************************************)
(* What users set up: reservations on the server, and in the web app their *)
(* session (Session), their subscriptions (Subscribing) and the settings   *)
(* of their account (Settings).  Modelled one by one they share no state,  *)
(* so each behaviour is one of one part, which Init picks.                 *)
(***************************************************************************)
EXTENDS Reservations

\* Of the browser's session, of the dialog that subscribes and of the settings.
CONSTANTS None,
          Tabs, MaxPages,
          Servers, Home, SessionUser, Readable, Taken, MaxKey, MaxRuns, MaxEdits,
          Devices, Values, Default, Zero, MaxChanges, MaxFetches, MaxLoads, MaxFaults,
          Parts   \* the parts that are looked at

\* The web app's own server is one of the servers.
ASSUME SubscribingAssumption ==
  Home \in Servers /\ SessionUser \in Users \cup {None} /\ MaxKey \in Nat

\* A setting that was not changed has a value, and that it is not in the account is none.
ASSUME SettingsAssumption == Default \in Values /\ None \notin Values

VARIABLES part,
          local, replica, page, data, loads, moved, mixed, torn,
          subscriptions, users, dialog, run, edits, changed, strayed,
          account, setting, save, events, fetch, schanges, sloads, sfaults, spoiled

sessionVars == <<local, replica, page, data, loads, moved, mixed, torn>>
subscribingVars == <<subscriptions, users, dialog, run, edits, changed, strayed>>
settingsVars == <<account, setting, save, events, fetch, schanges, sloads, sfaults, spoiled>>

L == INSTANCE Session WITH MaxLoads <- MaxPages
S == INSTANCE Subscribing
E == INSTANCE Settings WITH
       local <- setting, request <- save, changes <- schanges, loads <- sloads, faults <- sfaults

Unreserved == tier = [u \in Users |-> NoTier] /\ ops = {"reserve", "grant"}

\* Nothing tells the users of a browser apart: the first session is nobody's or that of
\* one of them.
UsersInit ==
  /\ Init /\ L!Init /\ S!Init /\ E!Init
  /\ part \in Parts
  /\ part # "reservations" => Unreserved
  /\ local = None \/ (part = "session" /\ local = SessionUser)

\* A bound on the dialog: handlers that overlap are of one topic.
Busy == {r \in 1..MaxRuns : run[r].kind # "idle"}
Met == {x[2] : x \in subscriptions} \cup {run[r].topic : r \in Busy} \cup {dialog.topic}
Bounded == Cardinality(Busy') > 1 => Cardinality(Met' \ {None}) <= 1

UsersNext ==
  /\ \/ /\ part = "reservations" /\ Next
        /\ UNCHANGED <<sessionVars, subscribingVars, settingsVars>>
     \/ part = "session" /\ L!Next /\ UNCHANGED <<vars, subscribingVars, settingsVars>>
     \/ part = "subscribe" /\ S!Next /\ Bounded /\ UNCHANGED <<vars, sessionVars, settingsVars>>
     \/ part = "settings" /\ E!Next /\ UNCHANGED <<vars, sessionVars, subscribingVars>>
  /\ UNCHANGED part

usersVars == <<part, vars, sessionVars, subscribingVars, settingsVars>>
UsersSpec == UsersInit /\ [][UsersNext]_usersVars

-----------------------------------------------------------------------------
(* Properties *)

\* Users of a browser stay apart: a database has only the data of its user, but for tabs
\* whose session another tab changed (db.js opens one database per user), and the service
\* worker finds the user whose session it is, unless a change was cut short.
UsersApart == L!OwnData /\ L!WorkerKnowsUser

\* The topics that the dialog has subscribed to can be read with the user that is stored
\* for their server, unless that user was replaced or a page came up for another server.
SubscribedAreReadable == S!SubscribedAreReadable

\* Once all requests and events are handled, devices have the setting of the account.
SettingsConverge == E!SettingsConverge
==============================================================================
