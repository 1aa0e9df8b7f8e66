----------------------------- MODULE Subscribing -----------------------------
(***************************************************************************)
(* How a topic gets among the subscriptions of the web app: the dialog     *)
(* (SubscribeDialog.jsx, opened by Navigation.jsx), which asks the server  *)
(* whether the topic may be read and lets the user log in, reserves the    *)
(* topic if asked to, and subscribes; and the users of other servers, which *)
(* the dialog and the preferences keep (UserManager.js, Preferences.jsx).  *)
(* The page of a topic subscribes to it without asking (useAutoSubscribe   *)
(* of hooks.js): that, and unsubscribing, is left out.                     *)
(*                                                                         *)
(* A handler has the values its page was rendered with when the button was *)
(* pressed, and goes on when the dialog is cancelled.                      *)
(***************************************************************************)
EXTENDS Naturals, FiniteSets

CONSTANTS Servers, Topics, Users, None,
          Home,         \* the server the web app is from
          SessionUser,  \* the user who is logged in there, or None
          Readable,     \* who may read what: triples of a user or None, server and topic
          Taken,        \* the topics of Home that others have reserved
          MaxKey,       \* a bound on the dialogs that are opened
          MaxRuns,      \* a bound on the handlers that are under way
          MaxEdits      \* a bound on the changes of users in the preferences

VARIABLES subscriptions,  \* the subscriptions in the browser database
          users,          \* the stored user of each server, or None
          dialog,         \* the dialog: its state and that of the page it shows
          run,            \* the runs of handleSubscribe and handleLogin
          edits,
          changed,        \* history: servers whose user was replaced
          strayed         \* history: "yes" once a page was shown for another server than the user meant

vars == <<subscriptions, users, dialog, run, edits, changed, strayed>>

Runs == 1..MaxRuns
Idle == [kind |-> "idle", step |-> "idle", server |-> None, target |-> None, topic |-> None,
         user |-> None, reserve |-> "no", key |-> 0]

\* A dialog, whose page is a new one.
NewDialog(key, open, baseUrl, topic) ==
  [key |-> key, open |-> open, baseUrl |-> baseUrl, topic |-> topic, login |-> "no",
   another |-> "no", reserve |-> "no"]

Init ==
  /\ subscriptions = {}
  /\ users = [s \in Servers |-> None]
  /\ dialog = NewDialog(0, "no", None, None)
  /\ run = [r \in Runs |-> Idle]
  /\ edits = 0
  /\ changed = {} /\ strayed = "no"

\* userManager.get: the user of a session goes before a stored one.
GetUser(s) == IF s = Home /\ SessionUser # None THEN SessionUser ELSE users[s]

historyVars == <<changed, strayed>>
dataVars == <<subscriptions, users>>

-----------------------------------------------------------------------------
(* The dialog and its pages *)

Dialog(d) ==
  /\ dialog.open = "yes"
  /\ dialog' = d
  /\ UNCHANGED <<dataVars, run, edits>>

OpenDialog ==
  /\ dialog.open = "no" /\ dialog.key < MaxKey
  /\ dialog' = [dialog EXCEPT !.open = "yes"]
  /\ UNCHANGED <<dataVars, run, edits, historyVars>>

\* handleSubscribeReset: the next dialog is a new one.
Reset == NewDialog(IF dialog.key < MaxKey THEN dialog.key + 1 ELSE MaxKey, "no", None, None)

Cancel ==
  /\ Dialog(Reset)
  /\ UNCHANGED historyVars

SetTopic(t) ==
  /\ dialog.login = "no"
  /\ Dialog([dialog EXCEPT !.topic = t])
  /\ UNCHANGED historyVars

SetReserve(x) ==
  /\ dialog.login = "no" /\ SessionUser # None /\ dialog.another = "no"
  /\ Dialog([dialog EXCEPT !.reserve = x])
  /\ UNCHANGED historyVars

\* handleUseAnotherChanged
UseAnother(x) ==
  /\ dialog.login = "no" /\ dialog.reserve = "no"
  /\ Dialog([dialog EXCEPT !.baseUrl = None, !.another = x])
  /\ UNCHANGED historyVars

SetBaseUrl(s) ==
  /\ dialog.login = "no" /\ dialog.another = "yes"
  /\ Dialog([dialog EXCEPT !.baseUrl = s])
  /\ UNCHANGED historyVars

\* The back button of the login page: the page that comes is a new one, the server stays.
Back ==
  /\ dialog.login = "yes"
  /\ Dialog(NewDialog(dialog.key, "yes", dialog.baseUrl, dialog.topic))
  /\ strayed' = "yes"
  /\ UNCHANGED changed

-----------------------------------------------------------------------------
(* handleSubscribe and handleLogin *)

\* The server of the page, and the one that handleSuccess takes.
PageServer == IF dialog.another = "yes" THEN dialog.baseUrl ELSE Home
TargetServer == IF dialog.baseUrl = None THEN Home ELSE dialog.baseUrl

Start(r, h) ==
  /\ run[r].kind = "idle" /\ \A q \in Runs : q < r => run[q].kind # "idle"
  /\ run' = [run EXCEPT ![r] = h]
  /\ UNCHANGED <<dataVars, dialog, edits, historyVars>>

Subscribe(r) ==
  /\ dialog.open = "yes" /\ dialog.login = "no"
  /\ dialog.topic # None /\ PageServer # None /\ <<PageServer, dialog.topic>> \notin subscriptions
  /\ Start(r, [kind |-> "subscribe", step |-> "user", server |-> PageServer, target |-> TargetServer,
               topic |-> dialog.topic, user |-> None, reserve |-> dialog.reserve, key |-> dialog.key])

\* On the login page
Login(r, u) ==
  /\ dialog.open = "yes" /\ dialog.login = "yes"
  /\ Start(r, [kind |-> "login", step |-> "auth", server |-> TargetServer, target |-> TargetServer,
               topic |-> dialog.topic, user |-> u, reserve |-> "no", key |-> dialog.key])

\* The run goes on, or ends.
Go(r, step, user) == run' = [run EXCEPT ![r].step = step, ![r].user = user]
Ends(r) == run' = [run EXCEPT ![r] = Idle]

LookUpUser(r) ==
  /\ run[r].step = "user"
  /\ Go(r, "auth", GetUser(run[r].server))
  /\ UNCHANGED <<dataVars, dialog, edits, historyVars>>

MayRead(u, s, t) == <<u, s, t>> \in Readable \/ <<None, s, t>> \in Readable

\* The handler is about to subscribe.
Adds(r) == run' = [run EXCEPT ![r].step = "add", ![r].user = None, ![r].reserve = "no"]

\* Api.topicAuth says yes.  handleSubscribe reserves the topic if asked to, and only that
\* it is taken ends the run; handleLogin stores the user.
Authorized(r) ==
  \/ run[r].kind = "login" /\ Go(r, "save", run[r].user)
  \/ run[r].kind = "subscribe" /\ Adds(r)
  \/ run[r].reserve = "yes" /\ run[r].server = Home /\ run[r].topic \in Taken /\ Ends(r)

\* Mutant: any answer will do.
TopicAuthAny(r) ==
  /\ run[r].step = "auth"
  /\ Authorized(r)
  /\ UNCHANGED <<dataVars, dialog, edits, historyVars>>

\* The login page, for the server of the dialog, if it is still the same dialog.
NeedsLogin(r) ==
  /\ run[r].kind = "subscribe" /\ run[r].user = None /\ run[r].key = dialog.key
  /\ dialog' = [dialog EXCEPT !.login = "yes"]
  /\ strayed' = IF TargetServer = run[r].server THEN strayed ELSE "yes"

\* It says yes; no, and then there is an error or, without a user, the login page; or it
\* throws.
TopicAuth(r) ==
  /\ run[r].step = "auth"
  /\ \/ /\ MayRead(run[r].user, run[r].server, run[r].topic)
        /\ Authorized(r)
        /\ UNCHANGED <<dialog, strayed>>
     \/ /\ ~MayRead(run[r].user, run[r].server, run[r].topic)
        /\ Ends(r)
        /\ NeedsLogin(r)
     \/ Ends(r) /\ UNCHANGED <<dialog, strayed>>
  /\ UNCHANGED <<dataVars, edits, changed>>

\* userManager.save
SaveUser(r) ==
  /\ run[r].step = "save"
  /\ users' = IF run[r].server = Home /\ SessionUser # None THEN users
              ELSE [users EXCEPT ![run[r].server] = run[r].user]
  /\ changed' = IF users[run[r].server] \in {None, run[r].user} THEN changed ELSE changed \cup {run[r].server}
  /\ Adds(r)
  /\ UNCHANGED <<subscriptions, dialog, edits, strayed>>

\* subscribeTopic: in the browser ...
AddSubscription(r) ==
  /\ run[r].step = "add"
  /\ subscriptions' = subscriptions \cup {<<run[r].target, run[r].topic>>}
  /\ run' = [run EXCEPT ![r] = [Idle EXCEPT !.kind = run[r].kind, !.step = "account"]]
  /\ UNCHANGED <<users, dialog, edits, historyVars>>

\* ... and in the account (see AccountSync); then the dialog is closed, whichever it is.
AddToAccount(r) ==
  /\ run[r].step = "account"
  /\ dialog' = Reset
  /\ Ends(r)
  /\ UNCHANGED <<dataVars, edits, historyVars>>

-----------------------------------------------------------------------------
(* Elsewhere *)

\* The users in the preferences: one is added, edited or deleted; the one of the session
\* is not there to be edited.
EditUser(s, u) ==
  /\ ~(s = Home /\ SessionUser # None) /\ users[s] # u /\ edits < MaxEdits
  /\ users' = [users EXCEPT ![s] = u]
  /\ edits' = edits + 1
  /\ changed' = changed \cup {s}
  /\ UNCHANGED <<subscriptions, dialog, run, strayed>>

Next ==
  \/ OpenDialog \/ Cancel \/ Back
  \/ \E t \in Topics : SetTopic(t)
  \/ \E x \in {"yes", "no"} : SetReserve(x) \/ UseAnother(x)
  \/ \E s \in Servers : SetBaseUrl(s)
  \/ \E r \in Runs : \/ Subscribe(r) \/ LookUpUser(r) \/ TopicAuth(r) \/ SaveUser(r)
                     \/ AddSubscription(r) \/ AddToAccount(r)
                     \/ \E u \in Users : Login(r, u)
  \/ \E s \in Servers, u \in Users \cup {None} : EditUser(s, u)

Spec == Init /\ [][Next]_vars

-----------------------------------------------------------------------------
\* The topics that the dialog has subscribed to can be read with the user that is stored
\* for their server, with whom the app connects (handleSubscribe, handleLogin), unless that
\* user was replaced, in the preferences or by another login, or a page came up for another
\* server: the user went back from the login page, or changed the dialog under a handler.
SubscribedAreReadable ==
  \A x \in subscriptions :
    x[1] \in changed \/ strayed = "yes" \/ MayRead(GetUser(x[1]), x[1], x[2])
==============================================================================
