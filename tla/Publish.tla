------------------------------- MODULE Publish -------------------------------
(***************************************************************************)
(* A publish request in the steps of its handler: its topic and rate       *)
(* visitor (limitRequestsWithTopic), its parameters, what it is charged,   *)
(* what becomes of its body, and whom the message is handed to, at once or *)
(* when it is due (handlePublishInternal in server/server.go).             *)
(*                                                                         *)
(* All requests publish to one UnifiedPush topic, on a server with         *)
(* visitor-subscriber-rate-limiting.  Who may write is the matter of       *)
(* Reservations, the quota of attachments that of FileCache, the table of  *)
(* messages and its failures that of MessageCache: here each of them may   *)
(* accept or refuse.                                                       *)
(***************************************************************************)
EXTENDS Naturals

CONSTANTS Requests, None,
          Asks,            \* the parameters each request may have
          Configurations,  \* the services a server may be configured with
          MessageLimit, CallLimit, EmailBurst,
          MaxRateChanges   \* a bound on changes of the topic's rate visitor

VARIABLES services,     \* the services of this server
          rateVisitor,  \* t.rateVisitor, None if it is unset or stale
          changes,      \* how often it has changed
          left,         \* what each visitor's limiters still allow
          req,          \* where each request is
          ask,          \* its parameters as received
          params,       \* its parameters as parsed
          vrate,        \* the visitor it is charged to
          due,          \* whether the time it was delayed to has come
          row,          \* its row in the cache: "no", "unpublished" or "published"
          effects,      \* whom the message was handed to
          switched,     \* history: requests during which the rate visitor was set
          late          \* history: messages whose time came between decision and insert

vars == <<services, rateVisitor, changes, left, req, ask, params, vrate, due, row, effects,
          switched, late>>

Publisher == "publisher"
Subscriber == "subscriber"

Init ==
  /\ services \in Configurations
  /\ rateVisitor \in {None, Subscriber} /\ changes = 0
  /\ left = [v \in {Publisher, Subscriber} |->
               [message |-> MessageLimit, email |-> EmailBurst, call |-> CallLimit]]
  /\ req = [r \in Requests |-> "new"]
  /\ ask \in [Requests -> UNION {Asks[r] : r \in Requests}] /\ \A r \in Requests : ask[r] \in Asks[r]
  /\ params = [r \in Requests |-> {}]
  /\ vrate = [r \in Requests |-> None]
  /\ due = [r \in Requests |-> "no"]
  /\ row = [r \in Requests |-> "no"]
  /\ effects = [r \in Requests |-> {}]
  /\ switched = {} /\ late = {}

Goto(r, stage) == req' = [req EXCEPT ![r] = stage]

-----------------------------------------------------------------------------
(* The topic and its rate visitor *)

\* A subscriber's visitor is set, or it has not been seen for too long.
ChangeRateVisitor ==
  /\ changes < MaxRateChanges /\ changes' = changes + 1
  /\ rateVisitor' = IF rateVisitor = None THEN Subscriber ELSE None
  /\ switched' = IF rateVisitor = None
                 THEN switched \cup {r \in Requests : req[r] \in {"limited", "parsed"}}
                 ELSE switched
  /\ UNCHANGED <<services, left, req, ask, params, vrate, due, row, effects, late>>

\* limitRequestsWithTopic
LimitRequests(r) ==
  /\ req[r] = "new"
  /\ Goto(r, "limited")
  /\ vrate' = [vrate EXCEPT ![r] = IF rateVisitor = None THEN Publisher ELSE rateVisitor]
  /\ UNCHANGED <<services, rateVisitor, changes, left, ask, params, due, row, effects, switched, late>>

\* The request is one too many, or the user may not write to the topic.
Refuse(r) ==
  /\ req[r] \in {"new", "limited"}
  /\ Goto(r, "refused")
  /\ UNCHANGED <<services, rateVisitor, changes, left, ask, params, vrate, due, row, effects,
                 switched, late>>

-----------------------------------------------------------------------------
(* parsePublishParams *)

\* A delayed message needs the cache, which keeps neither address nor phone number.
BadRequest(flags) ==
  \/ "malformed" \in flags
  \/ ({"email", "call"} \cap flags) \ services # {}
  \/ "delay" \in flags /\ ("cache" \notin flags \/ {"email", "call"} \cap flags # {})

\* What is left of the flags: UnifiedPush messages do not go to Firebase, and poll
\* requests are neither UnifiedPush messages nor cached nor sent by email.
Parsed(flags) ==
  (IF "unifiedpush" \in flags THEN flags \ {"firebase"} ELSE flags)
    \ (IF "poll" \in flags THEN {"unifiedpush", "cache", "email"} ELSE {})

ParseParams(r) ==
  /\ req[r] = "limited"
  /\ \/ BadRequest(ask[r].flags) /\ Goto(r, "refused") /\ UNCHANGED params
     \/ /\ ~ BadRequest(ask[r].flags)
        /\ params' = [params EXCEPT ![r] = Parsed(ask[r].flags)]
        /\ Goto(r, "parsed")
  /\ UNCHANGED <<services, rateVisitor, changes, left, ask, vrate, due, row, effects, switched, late>>

\* The time a message was delayed to comes, which a slow body may well outlast.
Due(r) ==
  /\ "delay" \in params[r] /\ due[r] = "no"
  /\ due' = [due EXCEPT ![r] = "yes"]
  /\ UNCHANGED <<services, rateVisitor, changes, left, req, ask, params, vrate, row, effects,
                 switched, late>>

-----------------------------------------------------------------------------
(* The charges *)

\* Mutant: a UnifiedPush message does not need a subscriber.
CheckNothing(r) ==
  /\ req[r] = "parsed"
  /\ Goto(r, "message")
  /\ UNCHANGED <<services, rateVisitor, changes, left, ask, params, vrate, due, row, effects,
                 switched, late>>

\* A UnifiedPush message is refused if the topic has no rate visitor (now).
CheckRateVisitor(r) ==
  /\ req[r] = "parsed"
  /\ Goto(r, IF "unifiedpush" \in params[r] /\ rateVisitor = None THEN "refused" ELSE "message")
  /\ UNCHANGED <<services, rateVisitor, changes, left, ask, params, vrate, due, row, effects,
                 switched, late>>

\* The charges still to come after the given one, and then the body.
After(r, kind) ==
  IF kind = "message" /\ "email" \in params[r] THEN "email"
  ELSE IF kind # "call" /\ "call" \in params[r] THEN "call"
  ELSE "body"

\* MessageAllowed, EmailAllowed or CallAllowed of the rate visitor.  A call is made to
\* a verified number of the publisher only.
Charge(r, kind) ==
  /\ req[r] = kind
  /\ \/ /\ left[vrate[r]][kind] = 0 \/ (kind = "call" /\ "unverified" \in params[r])
        /\ Goto(r, "refused")
        /\ UNCHANGED left
     \/ /\ left[vrate[r]][kind] > 0 /\ ~ (kind = "call" /\ "unverified" \in params[r])
        /\ left' = [left EXCEPT ![vrate[r]][kind] = @ - 1]
        /\ Goto(r, After(r, kind))
  /\ UNCHANGED <<services, rateVisitor, changes, ask, params, vrate, due, row, effects, switched, late>>

-----------------------------------------------------------------------------
(* handlePublishBody *)

\* What the body is taken for.
BodyOf(r) ==
  IF "poll" \in params[r] THEN "nothing"
  ELSE IF "unifiedpush" \in params[r] THEN "any"
  ELSE IF ask[r].attach = "url" THEN "text"
  ELSE IF ask[r].attach = "file" THEN "attachment"
  ELSE IF "template" \in params[r] THEN "template"
  ELSE IF ask[r].body = "text" THEN "text"
  ELSE "attachment"

BodyAccepted(r) ==
  /\ BodyOf(r) = "text" => ask[r].body # "binary"
  /\ BodyOf(r) = "attachment" => "attachments" \in services

\* Mutant: a poll request stays delayed.
HandleBodyDelayed(r) ==
  /\ req[r] = "body"
  /\ \/ /\ BodyAccepted(r)
        /\ effects' = [effects EXCEPT ![r] = IF BodyOf(r) = "attachment" THEN {"file"} ELSE {}]
        /\ Goto(r, "send")
     \/ /\ BodyOf(r) \in {"attachment", "template"} \/ ~ BodyAccepted(r)
        /\ Goto(r, "refused")
        /\ UNCHANGED effects
  /\ UNCHANGED <<services, rateVisitor, changes, left, ask, params, vrate, due, row, switched, late>>

\* A poll request is a new message, of this very second.  An attachment may exceed a
\* quota, and a template may not fit the body.
HandleBody(r) ==
  /\ req[r] = "body"
  /\ \/ /\ BodyAccepted(r)
        /\ effects' = [effects EXCEPT ![r] = IF BodyOf(r) = "attachment" THEN {"file"} ELSE {}]
        /\ Goto(r, "send")
     \/ /\ BodyOf(r) \in {"attachment", "template"} \/ ~ BodyAccepted(r)
        /\ Goto(r, "refused")
        /\ UNCHANGED effects
  /\ params' = [params EXCEPT ![r] = IF "poll" \in @ THEN @ \ {"delay"} ELSE @]
  /\ UNCHANGED <<services, rateVisitor, changes, left, ask, vrate, due, row, switched, late>>

-----------------------------------------------------------------------------
(* Sending and storing *)

Delayed(r) == "delay" \in params[r] /\ due[r] = "no"

\* The services a message goes to at once; its topic's subscribers are one of them.
Immediate(r) ==
  {"topic"} \cup (services \cap params[r] \cap {"firebase", "email", "call"})
            \cup (services \cap {"webpush"})
            \cup (IF "unifiedpush" \in params[r] THEN {} ELSE services \cap {"upstream"})

Send(r) ==
  /\ req[r] = "send"
  /\ Goto(r, IF Delayed(r) THEN "waiting" ELSE "sent")
  /\ effects' = [effects EXCEPT ![r] = IF Delayed(r) THEN @ ELSE @ \cup Immediate(r)]
  /\ UNCHANGED <<services, rateVisitor, changes, left, ask, params, vrate, due, row, switched, late>>

\* AddMessage, which may fail, and the answer.
AddMessage(r) ==
  /\ req[r] \in {"waiting", "sent"}
  /\ \/ /\ "cache" \notin params[r]
        /\ Goto(r, "accepted")
        /\ UNCHANGED <<row, late>>
     \/ /\ "cache" \in params[r]
        /\ row' = [row EXCEPT ![r] = IF Delayed(r) THEN "unpublished" ELSE "published"]
        /\ late' = IF req[r] = "waiting" /\ due[r] = "yes" THEN late \cup {r} ELSE late
        /\ Goto(r, "accepted")
     \/ /\ "cache" \in params[r]
        /\ Goto(r, "failed")
        /\ UNCHANGED <<row, late>>
  /\ UNCHANGED <<services, rateVisitor, changes, left, ask, params, vrate, due, effects, switched>>

\* sendDelayedMessage knows the row only, not the parameters of its request.
SendDelayed(r) ==
  /\ row[r] = "unpublished" /\ due[r] = "yes"
  /\ effects' = [effects EXCEPT ![r] =
                   @ \cup {"topic"} \cup (services \cap {"firebase", "upstream", "webpush"})]
  /\ row' = [row EXCEPT ![r] = "published"]
  /\ UNCHANGED <<services, rateVisitor, changes, left, req, ask, params, vrate, due, switched, late>>

Next ==
  \/ ChangeRateVisitor
  \/ \E r \in Requests :
       \/ LimitRequests(r) \/ Refuse(r) \/ ParseParams(r) \/ Due(r) \/ CheckRateVisitor(r)
       \/ \E kind \in {"message", "email", "call"} : Charge(r, kind)
       \/ HandleBody(r) \/ Send(r) \/ AddMessage(r) \/ SendDelayed(r)

Spec == Init /\ [][Next]_vars

-----------------------------------------------------------------------------
(* Properties *)

\* The services a request asks for, read off its parameters and not off the handler: all
\* that are configured, but Firebase and email and phone calls on demand, no UnifiedPush
\* message to Firebase or upstream, and no email about a poll request.  A delayed message
\* that is sent when it is due goes to Firebase and upstream in any case, "Firebase: no"
\* or not: the row does not tell.
Wanted(r, scheduled) ==
  {"topic"} \cup
  {s \in services \cap {"firebase", "upstream", "webpush", "email", "call"} :
     LET flags == ask[r].flags
         push == "unifiedpush" \in flags
     IN /\ s = "firebase" => scheduled \/ ("firebase" \in flags /\ ~ push)
        /\ s = "upstream" => scheduled \/ ~ push \/ "poll" \in flags
        /\ s = "email" => "email" \in flags /\ "poll" \notin flags
        /\ s = "call" => "call" \in flags}

\* A refused request leaves no trace but its charges.  The message of an accepted one has
\* gone to exactly the services the request asked for, or it is stored and will go there
\* when it is due.  (A message whose time comes between the decision to delay it and its
\* insert is stored as published and goes nowhere, which MessageCache has too.)
AsAsked ==
  \A r \in Requests :
    /\ req[r] = "refused" => effects[r] = {} /\ row[r] = "no"
    /\ req[r] = "accepted" /\ r \notin late =>
         \/ row[r] = "unpublished" /\ effects[r] \subseteq {"file"}
         \/ effects[r] \ {"file"} = Wanted(r, FALSE)
         \/ "delay" \in ask[r].flags /\ row[r] = "published" /\ effects[r] \ {"file"} = Wanted(r, TRUE)

\* The messages of a UnifiedPush topic count for its subscriber (docs/config.md:1190ff):
\* an accepted UnifiedPush message was charged to the subscriber's visitor, unless that was
\* set between the choice of the visitor to charge and the check that there is one.
SubscriberPays ==
  \A r \in Requests :
    req[r] = "accepted" /\ "unifiedpush" \in params[r] => vrate[r] = Subscriber \/ r \in switched
==============================================================================
