-------------------------------- MODULE MCUsers --------------------------------
(***************************************************************************)
(* Two users, two topics, a pattern that matches both and two tiers that   *)
(* allow one and two reservations; two servers.                            *)
(***************************************************************************)
EXTENDS Users

CONSTANTS u1, t1, t2, star, basic, pro, home, other

MCMatches == [t \in Topics |-> Patterns \cap {t, star}]
MCLength == [p \in Patterns |-> IF p = star THEN 1 ELSE 2]
MCRank == [p \in Patterns |-> IF p = t1 THEN 1 ELSE 2]
MCLimit == [x \in Tiers \cup {NoTier} |-> CASE x = basic -> 1 [] x = pro -> 2 [] OTHER -> 0]

\* Everything users and webhooks do to reservations; reservations and subscribers;
\* an administrator's grants with reservations, and with subscribers.
MCScenarios ==
  {{"reserve", "unreserve", "billing", "tier", "delete", "role"},
   {"reserve", "unreserve", "subscribe"},
   {"reserve", "grant"}, {"subscribe", "grant"}}
Reserving == {{"reserve", "unreserve"}}

ReadWrite == {"read", "write"}
DenyOnly == {{}}
ReadOnly == {{"read"}}
DenyOrRead == {{}, {"read"}}

\* On the other server each user may read one topic.
MCReadable ==
  {<<u, home, t1>> : u \in Users} \cup {<<None, home, t>> : t \in Topics}
  \cup {<<u, other, IF u = u1 THEN t1 ELSE t2>> : u \in Users}
==============================================================================
