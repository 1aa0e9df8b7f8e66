-------------------------------- MODULE WebApp --------------------------------
(***************************************************************************)
(* The web app: the messages of a subscription (WebClient), the list of an *)
(* account's subscriptions on several devices (AccountSync) and the dialog *)
(* that publishes (PublishDialog).  Modelled one by one they share no      *)
(* state, so each behaviour is one of one part, which Init picks.          *)
(***************************************************************************)
EXTENDS WebClient

\* Of the account and of the dialog; the dialog's topics have a name of their own.
CONSTANTS Devices, Topics, Initial, MaxChanges, MaxFetches, MaxLoads, MaxFaults,
          DialogTopics, Rows, Files, Large, MaxKey, MaxRequests, MaxFiles

\* The account begins with some of the topics, and None is no object of a user.
ASSUME AccountAssumption ==
  MaxChanges \in Nat /\ MaxFetches \in Nat /\ Initial \subseteq Topics /\ None \notin Nat

\* None is not a file.
ASSUME DialogAssumption == None \notin Files

VARIABLES part,
          prefs, object, current, change, fetch, local, events, loads, faults,
          wanted, raced, spoiled,
          selected, mode, key, form, dropZone, checks, request, active, attached

syncVars == <<prefs, object, current, change, fetch, local, events, loads, faults,
              wanted, raced, spoiled>>
dialogVars == <<selected, mode, key, form, dropZone, checks, request, active, attached>>

A == INSTANCE AccountSync
D == INSTANCE PublishDialog WITH Topics <- DialogTopics

WebAppInit ==
  /\ Init /\ A!Init /\ D!Init
  /\ part \in {"messages", "account", "dialog"}
  /\ part # "dialog" => selected = None

\* A bound on the messages: the user of the connection changes at the cost of two.
Bounded == published' + 2 * version' <= MaxMessages

WebAppNext ==
  /\ \/ part = "messages" /\ Next /\ Bounded /\ UNCHANGED <<syncVars, dialogVars>>
     \/ part = "account" /\ A!Next /\ UNCHANGED <<vars, dialogVars>>
     \/ part = "dialog" /\ D!Next /\ UNCHANGED <<vars, syncVars>>
  /\ UNCHANGED part

WebAppSpec == WebAppInit /\ [][WebAppNext]_<<part, vars, syncVars, dialogVars>>

-----------------------------------------------------------------------------
(* Properties *)

\* Every saved change of an account's subscriptions stays, unless changes were handled
\* at a time.
ChangesKept == A!ChangesKept

\* Devices to which nothing is on its way have the subscriptions of the account, unless
\* it has none, or since their last sync something was lost or syncs have overlapped.
DevicesConverge == A!DevicesConverge

\* What the dialog sends is what it shows, but for a file that is hidden by the row for URLs.
SentAsShown == D!SentAsShown
===============================================================================
