------------------------------- MODULE Messages -------------------------------
(***************************************************************************)
(* The way of a message: a publish request (Publish) or a mail (Mail); the *)
(* fan-out and the cache (Delivery); and what the command line client      *)
(* (Client) and the web app (Notifications) do with it.  Modelled one by   *)
(* one they share no state, so each behaviour is one of one part, which    *)
(* Init picks.                                                             *)
(***************************************************************************)
EXTENDS Delivery

\* Of the publish requests, of the command line client, of the mails and of the web app.
CONSTANTS Requests, Asks, Configurations, MessageLimit, CallLimit, EmailBurst, MaxRateChanges,
          Subscriptions, ChannelSize, MaxMessages, MaxConnections,
          Topics, Credentials, Bodies, MaxCalls,
          Tabs, Notes, MaxPolls, MaxClicks,
          Parts   \* the parts that are looked at

\* No text is no kind of text, and no tab and no notification are none.
ASSUME MailAssumption == None # "html"
ASSUME NotificationsAssumption ==
  /\ None \notin Tabs
  /\ None \notin [new : {"yes", "no", "unset"}, progress : {"none", "ongoing", "success", "failed"}]

VARIABLES part,
          services, rateVisitor, changes, left, req, ask, params, vrate, due, row, effects,
          switched, late,
          csince, cpublished, phase, cconn, lines, held, channel, running, handled, canceled,
          received, lost,
          topic, token, basicAuth, dialogue, success, failure, post, calls, login, address,
          subscribed, nrow, handler, push, poll, polls, click, shown, overtaken, deleted

publishVars == <<services, rateVisitor, changes, left, req, ask, params, vrate, due, row, effects,
                 switched, late>>
clientVars == <<csince, cpublished, phase, cconn, lines, held, channel, running, handled, canceled,
                received, lost>>
mailVars == <<topic, token, basicAuth, dialogue, success, failure, post, calls, login, address>>
notificationVars == <<subscribed, nrow, handler, push, poll, polls, click, shown, overtaken, deleted>>

P == INSTANCE Publish
C == INSTANCE Client WITH
       since <- csince, published <- cpublished, conn <- cconn, Messages <- channel
M == INSTANCE Mail
N == INSTANCE Notifications WITH Messages <- Notes, row <- nrow

\* One of the requests and one of the options that there may be.
Unasked ==
  /\ services = CHOOSE c \in Configurations : TRUE
  /\ rateVisitor = None
  /\ ask = [r \in Requests |-> CHOOSE a \in Asks[r] : TRUE]
Unsubscribed == csince = [s \in Subscriptions |-> "none"]

MessagesInit ==
  /\ part \in Parts
  /\ part # "publish" => Unasked
  /\ part # "client" => Unsubscribed
  /\ Init /\ P!Init /\ C!Init /\ M!Init /\ N!Init

MessagesNext ==
  /\ \/ /\ part = "delivery" /\ Next
        /\ UNCHANGED <<publishVars, clientVars, mailVars, notificationVars>>
     \/ part = "publish" /\ P!Next /\ UNCHANGED <<vars, clientVars, mailVars, notificationVars>>
     \/ part = "client" /\ C!Next /\ UNCHANGED <<vars, publishVars, mailVars, notificationVars>>
     \/ part = "mail" /\ M!Next /\ UNCHANGED <<vars, publishVars, clientVars, notificationVars>>
     \/ part = "notifications" /\ N!Next /\ UNCHANGED <<vars, publishVars, clientVars, mailVars>>
  /\ UNCHANGED part

messagesVars == <<part, vars, publishVars, clientVars, mailVars, notificationVars>>
MessagesSpec == MessagesInit /\ [][MessagesNext]_messagesVars

-----------------------------------------------------------------------------
(* Properties *)

\* A refused publish request leaves no trace but its charges; the message of an accepted
\* one was charged to whom it should be and went to the services that were asked for, or
\* will when it is due.
AsAsked == P!AsAsked /\ P!SubscriberPays

\* Messages are handled once: the command line client runs the command of its subscription
\* for each message of a connection, in order, and the tabs and the worker of a browser
\* show a message once, unless they overtook each other.
HandledOnce == C!OncePerConnection /\ N!ShownOnce

\* A mail is published with the topic and the credentials of its own address and session.
OwnMail == M!OwnMail

\* What was read does not become unread again, but by the answer of a button pressed before.
ReadStaysRead == N!ReadStaysRead
==============================================================================
