------------------------------ MODULE MCMessages ------------------------------
(***************************************************************************)
(* The way of a message for small values and, as a part of its own, the    *)
(* buttons it comes with (Actions).                                        *)
(***************************************************************************)
EXTENDS Messages, TLC

CONSTANTS q1, q2, u1, u2

-----------------------------------------------------------------------------
(* Publish: one request with up to two parameters that are not the default ones, and a
   plain one or one with an email and a call *)

Default == [flags |-> {"cache", "firebase"}, attach |-> "none", body |-> "text"]
Flags == {"unifiedpush", "poll", "delay", "cache", "firebase", "email", "call", "unverified",
          "template", "malformed"}
Toggled(F) == (Default.flags \ F) \cup (F \ Default.flags)
One == {Toggled({})} \cup {Toggled({f}) : f \in Flags}
Two == One \cup {Toggled({f, g}) : f, g \in Flags}
MCAsks ==
  (q1 :> [flags : Two, attach : {"none"}, body : {"text"}]
         \cup [flags : One, attach : {"none", "url", "file"}, body : {"text", "binary"}]) @@
  (q2 :> {Default, [Default EXCEPT !.flags = Toggled({"email", "call"})]})
AllServices == {"firebase", "email", "call", "upstream", "webpush", "attachments"}
MCConfigurations == {AllServices, {}}

-----------------------------------------------------------------------------
(* Two subscriptions, one of which connects again; mails of all shapes *)

MCConnections == (u1 :> 2) @@ (u2 :> 1)

MCBodies ==
  LET plain == M!Leaf("plain")
      html == M!Leaf("html")
      other == M!Leaf("other")
  IN {plain, other, M!Multi(<<html, plain>>), M!Multi(<<other>>),
      M!Multi(<<M!Multi(<<plain, html>>), other>>), M!Multi(<<M!Multi(<<html>>), plain>>),
      M!Multi(<<M!Multi(<<M!Multi(<<plain>>)>>)>>)}

-----------------------------------------------------------------------------
(* Actions: single buttons with all sorts of values, and lists of up to four *)

VARIABLES meant, input, pos, section, action, actions, outcome

actionsVars == <<meant, input, pos, section, action, actions, outcome>>

Values == {<<"x">>, <<"x", ",", "y">>, <<"\"", "x">>, <<"'">>, <<"\"", "'", ";">>, <<" ", "x">>,
           <<"x", "=", "y">>, <<"x", " ", "l">>, <<>>}
InOrder == <<"a", "l", "u", "b", "m">>

Writing == INSTANCE Actions WITH Buttons <- {}

\* Keys that may be left out are written or not, and values are quoted at least if they
\* have to be.
Button(fields, order, keyed, quote, space) ==
  [fields |-> fields, order |-> order,
   style |-> [i \in DOMAIN order |->
     LET k == keyed \/ i > 3 \/ (i = 3 /\ (order[3] # "u" \/ fields["a"] = <<"d">>))
     IN [keyed |-> k, space |-> space,
         quote |-> IF quote = None /\ Writing!NeedsQuotes(fields[order[i]], k) THEN "\"" ELSE quote]]]

ButtonsOf(kinds, labels, urls, bodies, methods, orders) ==
  {Button([Writing!newAction EXCEPT !["a"] = a, !["l"] = l, !["u"] = u, !["b"] = b, !["m"] = m],
          IF k THEN order ELSE InOrder, k, q, s) :
     a \in kinds, l \in labels, u \in urls, b \in bodies, m \in methods, order \in orders,
     k \in BOOLEAN, q \in Writing!Quotes \cup {None}, s \in {<<>>, <<" ">>}}

MCButtons ==
  LET any(labels, urls) ==
        ButtonsOf({<<"v">>, <<"h">>, <<"d">>}, labels, urls, {<<>>, <<"'", ",">>},
                  {<<>>, <<"g">>}, {InOrder, <<"l", "m", "a", "b", "u">>})
      all == any(Values, {<<"x">>, <<"\"", "'", ";">>}) \cup any({<<"x">>}, Values)
      few == ButtonsOf({<<"v">>, <<"x">>}, {<<"x">>, <<"x", ";", "y">>, <<"'">>}, {<<"y", ",">>},
                       {<<>>}, {<<>>}, {InOrder})
  IN {<<b>> : b \in all} \cup (few \X few)
     \cup {<<b, b, b>> : b \in few} \cup {<<b, b, b, b>> : b \in few}

A == INSTANCE Actions WITH Buttons <- MCButtons

NoActions ==
  /\ meant = None /\ input = None /\ pos = None /\ section = None /\ action = None
  /\ actions = None /\ outcome = None

-----------------------------------------------------------------------------

MCInit ==
  /\ MessagesInit
  /\ IF part = "actions" THEN A!Init ELSE NoActions

MCNext ==
  \/ MessagesNext /\ UNCHANGED actionsVars
  \/ part = "actions" /\ A!Next /\ UNCHANGED messagesVars

MCSpec == MCInit /\ [][MCNext]_<<messagesVars, actionsVars>>

\* Action buttons are read as they were meant, whatever characters their values have.
ReadAsWritten == part = "actions" => A!ReadAsWritten
==============================================================================
