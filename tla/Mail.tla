-------------------------------- MODULE Mail ---------------------------------
(***************************************************************************)
(* Publishing by mail (server/smtp_server.go): a client logs in or not,    *)
(* sends mails one after the other, each to one address topic[+token] of   *)
(* the server's domain, and the session object publishes each with the     *)
(* topic and the credentials it holds.                                     *)
(*                                                                         *)
(* The SMTP dialogue itself is external: go-smtp calls Rcpt after MAIL     *)
(* FROM, for one recipient at most (MaxRecipients, server/server.go:1677), *)
(* Data only if a recipient was accepted, and Reset after Data and RSET.   *)
(***************************************************************************)
EXTENDS Naturals, Sequences

CONSTANTS Topics, Credentials, None,
          Bodies,     \* the bodies mails may have: trees of parts
          MaxCalls    \* a bound on the mails, logins, connections and refusals

VARIABLES topic, token, basicAuth,  \* the fields of the session
          dialogue,   \* go-smtp's: "greeted", "from", "rcpt" or "closed"
          success, failure,
          post,       \* the last request made to the publish handler
          calls,
          login,      \* history: the credentials the client gave in this session
          address     \* history: the address accepted for this mail

vars == <<topic, token, basicAuth, dialogue, success, failure, post, calls, login, address>>

\* Addresses: a topic of this domain, or something that is refused (another domain,
\* another prefix, no topic), with or without a token.
Addresses == [topic : Topics \cup {None}, token : Credentials \cup {None}]

Init ==
  /\ topic = None /\ token = None /\ basicAuth = None
  /\ dialogue = "greeted"
  /\ success = 0 /\ failure = 0 /\ post = <<>> /\ calls = 0
  /\ login = None /\ address = None

Counted == calls < MaxCalls /\ calls' = calls + 1

NewSession ==
  /\ Counted /\ dialogue = "closed"
  /\ topic' = None /\ token' = None /\ basicAuth' = None
  /\ dialogue' = "greeted"
  /\ login' = None /\ address' = None
  /\ UNCHANGED <<success, failure, post>>

\* The password is checked when a mail is published.
AuthPlain(c) ==
  /\ Counted /\ dialogue # "closed" /\ login = None
  /\ basicAuth' = c /\ login' = c
  /\ UNCHANGED <<topic, token, dialogue, success, failure, post, address>>

MailFrom ==
  /\ Counted /\ dialogue = "greeted"
  /\ dialogue' = "from"
  /\ UNCHANGED <<topic, token, basicAuth, success, failure, post, login, address>>

\* Mutant: the token is set only if the address has one.
RcptKeepsToken(a) ==
  /\ dialogue = "from"
  /\ \/ /\ a.topic = None
        /\ Counted /\ failure' = failure + 1
        /\ UNCHANGED <<topic, token, dialogue, address>>
     \/ /\ a.topic # None
        /\ topic' = a.topic /\ token' = IF a.token = None THEN token ELSE a.token
        /\ dialogue' = "rcpt" /\ address' = a
        /\ UNCHANGED <<failure, calls>>
  /\ UNCHANGED <<basicAuth, success, post, login>>

Rcpt(a) ==
  /\ dialogue = "from"
  /\ \/ /\ a.topic = None
        /\ Counted /\ failure' = failure + 1
        /\ UNCHANGED <<topic, token, dialogue, address>>
     \/ /\ a.topic # None
        /\ topic' = a.topic /\ token' = a.token
        /\ dialogue' = "rcpt" /\ address' = a
        /\ UNCHANGED <<failure, calls>>
  /\ UNCHANGED <<basicAuth, success, post, login>>

-----------------------------------------------------------------------------
(* The body *)

\* A part is a plain text, an HTML text, something else or a multipart.
Leaf(kind) == [kind |-> kind, parts |-> <<>>]
Multi(parts) == [kind |-> "multipart", parts |-> parts]
Multipart(part) == part.kind = "multipart"

\* readMultipartMailBodyParts: the kinds of text it puts in its map before it comes to a nested
\* multipart, ...
Texts(parts) ==
  {parts[i].kind : i \in {k \in DOMAIN parts : \A j \in 1 .. k : ~ Multipart(parts[j])}} \ {"other"}

\* ... and the parts of that multipart, if there is one.  Reading it ends with io.EOF at best,
\* which ends the enclosing one too: what follows is not read.
Nested(parts) ==
  {parts[i].parts : i \in {k \in DOMAIN parts :
     Multipart(parts[k]) /\ \A j \in 1 .. k - 1 : ~ Multipart(parts[j])}}

\* maxMultipartDepth is 2: a multipart nested in a nested one is an error.
NestedTooDeep(parts) == \E inner \in Nested(parts) : Nested(inner) # {}

Preferred(texts) ==
  IF "plain" \in texts THEN "plain" ELSE IF "html" \in texts THEN "html" ELSE None

\* readMailBody: the kind of text that becomes the message, None if there is an error.
readMailBody(body) ==
  IF ~ Multipart(body) THEN Preferred({body.kind})
  ELSE IF NestedTooDeep(body.parts) THEN None
  ELSE Preferred(UNION {Texts(parts) : parts \in {body.parts} \cup Nested(body.parts)})

-----------------------------------------------------------------------------

\* Data, with publishMessage: a fake HTTP request whose Authorization is the token, or
\* else the login, and which the handler may refuse; and then Reset.  A mail that cannot be
\* read is not published.
Data(body) ==
  /\ dialogue = "rcpt"
  /\ \/ /\ readMailBody(body) # None
        /\ post' = <<[topic |-> topic, auth |-> IF token # None THEN token ELSE basicAuth,
                     kind |-> readMailBody(body), to |-> address, login |-> login, body |-> body]>>
        /\ \/ success' = success + 1 /\ UNCHANGED failure
           \/ failure' = failure + 1 /\ UNCHANGED success
     \/ failure' = failure + 1 /\ UNCHANGED <<post, success>>
  /\ topic' = None
  /\ dialogue' = "greeted" /\ address' = None
  /\ UNCHANGED <<token, basicAuth, calls, login>>

\* RSET
Reset ==
  /\ dialogue \in {"from", "rcpt"}
  /\ topic' = None
  /\ dialogue' = "greeted" /\ address' = None
  /\ UNCHANGED <<token, basicAuth, success, failure, post, calls, login>>

\* The connection ends.
Logout ==
  /\ dialogue # "closed"
  /\ basicAuth' = None
  /\ dialogue' = "closed" /\ address' = None
  /\ UNCHANGED <<topic, token, success, failure, post, calls, login>>

Next ==
  \/ NewSession \/ MailFrom \/ Reset \/ Logout
  \/ \E c \in Credentials : AuthPlain(c)
  \/ \E a \in Addresses : Rcpt(a)
  \/ \E body \in Bodies : Data(body)

Spec == Init /\ [][Next]_vars

-----------------------------------------------------------------------------

\* Every mail is published to the topic of its own address, with the token in that
\* address or, if there is none, the login of its session, and never with what an earlier
\* mail of the session or a refused recipient left behind.  HTML is published only if no
\* plain text comes with it in the same multipart.
OwnMail ==
  \A p \in {post[i] : i \in DOMAIN post} :
    /\ p.topic = p.to.topic
    /\ p.auth = IF p.to.token # None THEN p.to.token ELSE p.login
    /\ p.kind = "html" /\ Multipart(p.body) =>
         \A i \in DOMAIN p.body.parts :
           p.body.parts[i].kind = "plain" => \E j \in 1 .. i : Multipart(p.body.parts[j])
==============================================================================
