---------------------------- MODULE Reservations ----------------------------
(***************************************************************************)
(* Topic reservations and the access control list: the user_access table   *)
(* of user/manager.go and the handlers of server/server_account.go,        *)
(* server_admin.go and server_payments.go that change it.                  *)
(*                                                                         *)
(* A handler takes no lock: it is a sequence of queries and transactions   *)
(* of the database, each of them atomic.  Every handler runs on a worker;  *)
(* one worker is a server that serves one request at a time, two workers   *)
(* are two requests (or a request, a webhook and the command line tool).   *)
(***************************************************************************)
EXTENDS Naturals, FiniteSets

CONSTANTS
    Users,          \* accounts other than Everyone
    Everyone,       \* the anonymous user "*"
    Topics,         \* topic names
    Patterns,       \* topics and patterns the table may hold
    Matches,        \* [Topics -> SUBSET Patterns]: what LIKE finds
    Length,         \* [Patterns -> Nat]: LENGTH(topic)
    Rank,           \* [Patterns -> Nat]: ORDER BY topic
    Tiers, NoTier,  \* tiers, and having none
    ReservationLimit, \* [Tiers \cup {NoTier} -> Nat]
    System,         \* the owner of entries made by an administrator
    DefaultAccess,  \* auth-default-access
    Workers,        \* requests that run at the same time
    Conns,          \* subscribers
    Scenarios,      \* sets of operations, one of which is in use
    EveryonePerms,  \* permissions owners leave to Everyone
    GrantPerms,     \* permissions an administrator grants
    GrantPatterns,  \* and the topics and patterns they are granted for
    NoRow, NoRequest

Perms == SUBSET {"read", "write"}

Subjects == Users \cup {Everyone}

OperationNames == {"reserve", "unreserve", "billing", "delete", "tier", "role", "grant", "subscribe"}

Row == [perm : Perms, owner : Users \cup {System}]

Req == [op : {"reserve", "unreserve", "billing", "delete", "tier", "role"},
        pc : {"allow", "has", "count", "add", "kill", "remove", "excess", "tier",
              "set", "mark", "role", "clear"},
        user : Users, topics : SUBSET Topics, perm : Perms,
        tier : Tiers \cup {NoTier}, role : {"user", "admin"},
        new : Tiers \cup {NoTier, "admin", "user"}]

ASSUME ReservationsAssumption ==
    /\ Everyone \notin Users /\ System \notin Users
    /\ Topics # {} /\ Topics \subseteq Patterns
    /\ Matches \in [Topics -> SUBSET Patterns]
    /\ \A t \in Topics : Matches[t] \cap Topics = {t}
    /\ Length \in [Patterns -> Nat]
    /\ NoTier \notin Tiers
    /\ ReservationLimit \in [Tiers \cup {NoTier} -> Nat]
    /\ ReservationLimit[NoTier] = 0
    /\ DefaultAccess \in Perms
    /\ Scenarios \subseteq SUBSET OperationNames
    /\ EveryonePerms \subseteq Perms /\ GrantPerms \subseteq Perms
    /\ GrantPatterns \subseteq Patterns
    /\ NoRow \notin Row /\ NoRequest \notin Req

VARIABLES
    acl,      \* user_access: the entry of a user and a topic or pattern
    tier,     \* user.tier_id
    role,     \* user.role
    state,    \* "active", "marked" (soft-deleted) or "gone"
    req,      \* what each worker is doing
    conn,     \* subscribers: "authorized" before topic.Subscribe, then "live"
    overlap,  \* subscribers whose subscribing overlapped a reservation
    ops       \* the operations in use

vars == <<acl, tier, role, state, req, conn, overlap, ops>>

Conn == [user : Subjects, topic : Topics, st : {"none", "authorized", "live"}]

Reserved(u, t) == acl[<<u, t>>] # NoRow /\ acl[<<u, t>>].owner = u

Reservations(u) == {t \in Topics : Reserved(u, t)}

(* Mutant: entries of Everyone come first.                                 *)
BeforeSwapped(d, e) ==
    \/ d[1] = Everyone /\ e[1] # Everyone
    \/ d[1] = e[1] /\ Length[d[2]] > Length[e[2]]

(* Authorize: entries of the user before those of Everyone, longer before  *)
(* shorter, writable before others; the first one decides.                 *)
Candidates(s, t) ==
    {e \in {s, Everyone} \X Matches[t] : acl[e] # NoRow}

Before(d, e) ==
    \/ d[1] # Everyone /\ e[1] = Everyone
    \/ /\ d[1] = e[1]
       /\ \/ Length[d[2]] > Length[e[2]]
          \/ /\ Length[d[2]] = Length[e[2]]
             /\ "write" \in acl[d].perm /\ "write" \notin acl[e].perm

Deciding(s, t) ==
    {d \in Candidates(s, t) : \A e \in Candidates(s, t) : ~ Before(e, d)}

Authorize(s, t, p) ==
    \/ s \in Users /\ role[s] = "admin"
    \/ Candidates(s, t) = {} /\ p \in DefaultAccess
    \/ \E d \in Deciding(s, t) : p \in acl[d].perm

(* The rows of deleteTopicAccessQuery and deleteUserAccessQuery.           *)
Delete(rows) == acl' = [e \in DOMAIN acl |-> IF e \in rows THEN NoRow ELSE acl[e]]

RowsOf(s, ps) ==
    {e \in DOMAIN acl : /\ e[2] \in ps
                        /\ acl[e] # NoRow
                        /\ e[1] = s \/ acl[e].owner = s}
-----------------------------------------------------------------------------
Init ==
    /\ acl = [e \in Subjects \X Patterns |-> NoRow]
    /\ tier \in [Users -> Tiers \cup {NoTier}]
    /\ role = [u \in Users |-> "user"]
    /\ state = [u \in Users |-> "active"]
    /\ req = [k \in Workers |-> NoRequest]
    /\ conn = [c \in Conns |-> [user |-> Everyone,
                                topic |-> CHOOSE t \in Topics : TRUE, st |-> "none"]]
    /\ overlap = {}
    /\ ops \in Scenarios

(* A request starts with the user as authentication has read it.           *)
Begin(k, op, u, pc, ts, perm, new) ==
    /\ req[k] = NoRequest
    /\ op \in ops
    /\ state[u] = "active"
    /\ req' = [req EXCEPT ![k] = [op |-> op, pc |-> pc, user |-> u, topics |-> ts,
                                  perm |-> perm, tier |-> tier[u],
                                  role |-> role[u], new |-> new]]
    /\ UNCHANGED <<acl, tier, role, state, conn, overlap, ops>>

Goto(k, pc) == req' = [req EXCEPT ![k].pc = pc]

Finish(k) == req' = [req EXCEPT ![k] = NoRequest]

At(k, pc) == req[k] # NoRequest /\ req[k].pc = pc

(* Mutant: only entries of the system block a reservation.                 *)
AllowUnlessSystem(k) ==
    /\ At(k, "allow")
    /\ IF \E e \in DOMAIN acl : /\ e[2] \in req[k].topics
                               /\ acl[e] # NoRow /\ acl[e].owner = System
       THEN Finish(k) ELSE Goto(k, IF req[k].role = "admin" THEN "add" ELSE "has")
    /\ UNCHANGED <<acl, tier, role, state, conn, overlap, ops>>

(* handleAccountReservationAdd: a user needs a tier, an admin does not.    *)
ReservationAdd(k, u, t, everyone) ==
    /\ role[u] = "admin" \/ tier[u] # NoTier
    /\ Begin(k, "reserve", u, "allow", {t}, everyone, NoTier)

AllowReservation(k) ==
    /\ At(k, "allow")
    /\ LET r == req[k]
           others == {e \in DOMAIN acl : /\ e[2] \in UNION {Matches[t] : t \in r.topics}
                                         /\ acl[e] # NoRow
                                         /\ acl[e].owner # r.user}
       IN  IF others # {} THEN Finish(k)
           ELSE Goto(k, IF r.role = "admin" THEN "add" ELSE "has")
    /\ UNCHANGED <<acl, tier, role, state, conn, overlap, ops>>

(* HasReservation, in both handlers.                                       *)
HasReservation(k) ==
    /\ At(k, "has")
    /\ LET r == req[k]
           has == \A t \in r.topics : Reserved(r.user, t)
       IN  \/ r.op = "reserve" /\ Goto(k, IF has THEN "add" ELSE "count")
           \/ r.op = "unreserve" /\ has /\ Goto(k, "remove")
           \/ r.op = "unreserve" /\ ~ has /\ Finish(k)
    /\ UNCHANGED <<acl, tier, role, state, conn, overlap, ops>>

(* ReservationsCount, against the limit of the tier the request began with. *)
ReservationsCount(k) ==
    /\ At(k, "count")
    /\ IF Cardinality(Reservations(req[k].user)) >= ReservationLimit[req[k].tier]
       THEN Finish(k) ELSE Goto(k, "add")
    /\ UNCHANGED <<acl, tier, role, state, conn, overlap, ops>>

(* AddReservation: one transaction with two upserts.  It fails if the user *)
(* is gone, as user_id would be NULL.                                      *)
AddReservation(k) ==
    /\ At(k, "add")
    /\ LET r == req[k]
       IN  IF state[r.user] = "gone"
           THEN Finish(k) /\ UNCHANGED <<acl, overlap>>
           ELSE /\ acl' = [e \in DOMAIN acl |->
                     IF e[2] \in r.topics /\ e[1] \in {r.user, Everyone}
                     THEN [perm |-> IF e[1] = Everyone THEN r.perm ELSE {"read", "write"},
                           owner |-> r.user]
                     ELSE acl[e]]
                /\ overlap' = overlap \cup {c \in Conns : conn[c].st = "authorized"}
                /\ Goto(k, "kill")
    /\ UNCHANGED <<tier, role, state, conn, ops>>

(* Mutant: cancels the owner's subscribers instead of the others'.         *)
KillOwn(k) ==
    /\ At(k, "kill")
    /\ conn' = [c \in Conns |->
                  IF conn[c].topic \in req[k].topics /\ conn[c].user = req[k].user
                  THEN [conn[c] EXCEPT !.st = "none"] ELSE conn[c]]
    /\ Finish(k)
    /\ UNCHANGED <<acl, tier, role, state, overlap, ops>>

(* CancelSubscribersExceptUser, at the end of handleAccountReservationAdd. *)
KillSubscribers(k) ==
    /\ At(k, "kill")
    /\ conn' = [c \in Conns |->
                  IF /\ conn[c].st = "live" /\ conn[c].topic \in req[k].topics
                     /\ conn[c].user # req[k].user
                  THEN [conn[c] EXCEPT !.st = "none"] ELSE conn[c]]
    /\ overlap' = {c \in overlap : conn'[c].st # "none"}
    /\ Finish(k)
    /\ UNCHANGED <<acl, tier, role, state, ops>>

(* handleAccountReservationDelete.                                         *)
ReservationDelete(k, u, t) ==
    Begin(k, "unreserve", u, "has", {t}, {}, NoTier)

(* RemoveReservations: the entries of the user and all of Everyone's.      *)
RemoveReservations(k) ==
    /\ At(k, "remove")
    /\ Delete(RowsOf(req[k].user, req[k].topics) \cup RowsOf(Everyone, req[k].topics))
    /\ \/ req[k].op = "unreserve" /\ Finish(k)
       \/ req[k].op = "billing" /\ Goto(k, "tier")
       \/ req[k].op = "delete" /\ Goto(k, "mark")
    /\ UNCHANGED <<tier, role, state, conn, overlap, ops>>

(* updateSubscriptionAndTier, called by the webhooks of Stripe, and        *)
(* handleAccountDelete: both remove excess reservations first.             *)
SubscriptionAndTier(k, u, new) == Begin(k, "billing", u, "excess", {}, {}, new)

AccountDelete(k, u) == Begin(k, "delete", u, "excess", {}, {}, NoTier)

Continued(r, pc, ts) ==
    [op |-> r.op, pc |-> pc, user |-> r.user, topics |-> ts, perm |-> r.perm,
     tier |-> r.tier, role |-> r.role, new |-> r.new]

(* maybeRemoveMessagesAndExcessReservations keeps the first ones by name.  *)
Excess(r) ==
    {t \in Reservations(r.user) :
       Cardinality({s \in Reservations(r.user) : Rank[s] < Rank[t]}) >= ReservationLimit[r.new]}

ReadExcess(k) ==
    /\ At(k, "excess")
    /\ LET r == req[k]
           pc == IF Excess(r) # {} THEN "remove"
                 ELSE IF r.op = "billing" THEN "tier" ELSE "mark"
       IN  req' = [req EXCEPT ![k] = Continued(r, pc, Excess(r))]
    /\ UNCHANGED <<acl, tier, role, state, conn, overlap, ops>>

(* ChangeTier by an administrator.                                         *)
TierChange(k, u, new) == Begin(k, "tier", u, "tier", {}, {}, new)

(* ChangeTier and ResetTier refuse when there are too many reservations.   *)
(* The webhook skips them when the tier it began with is the new one.      *)
CheckReservationsLimit(k) ==
    /\ At(k, "tier")
    /\ LET r == req[k]
           now == tier[r.user]
       IN  IF \/ r.op = "billing" /\ r.tier = r.new
              \/ state[r.user] = "gone"
              \/ /\ now # NoTier
                 /\ ReservationLimit[r.new] < ReservationLimit[now]
                 /\ Cardinality(Reservations(r.user)) > ReservationLimit[r.new]
           THEN Finish(k) ELSE Goto(k, "set")
    /\ UNCHANGED <<acl, tier, role, state, conn, overlap, ops>>

SetTier(k) ==
    /\ At(k, "set")
    /\ tier' = [tier EXCEPT ![req[k].user] = req[k].new]
    /\ Finish(k)
    /\ UNCHANGED <<acl, role, state, conn, overlap, ops>>

(* MarkUserRemoved, one transaction; the manager deletes the user later.   *)
MarkUserRemoved(k) ==
    /\ At(k, "mark")
    /\ Delete(RowsOf(req[k].user, Patterns))
    /\ state' = [state EXCEPT ![req[k].user] = IF @ = "gone" THEN "gone" ELSE "marked"]
    /\ Finish(k)
    /\ UNCHANGED <<tier, role, conn, overlap, ops>>

RemoveDeletedUsers(u) ==
    /\ state[u] = "marked"
    /\ state' = [state EXCEPT ![u] = "gone"]
    /\ Delete(RowsOf(u, Patterns))
    /\ UNCHANGED <<tier, role, req, conn, overlap, ops>>

(* ChangeRole: two statements without a transaction.                       *)
RoleChange(k, u, admin) ==
    Begin(k, "role", u, "role", {}, {}, IF admin THEN "admin" ELSE "user")

SetRole(k) ==
    /\ At(k, "role")
    /\ role' = [role EXCEPT ![req[k].user] = req[k].new]
    /\ IF req[k].new = "admin" THEN Goto(k, "clear") ELSE Finish(k)
    /\ UNCHANGED <<acl, tier, state, conn, overlap, ops>>

ClearAccess(k) ==
    /\ At(k, "clear")
    /\ Delete(RowsOf(req[k].user, Patterns))
    /\ Finish(k)
    /\ UNCHANGED <<tier, role, state, conn, overlap, ops>>

(* handleAccessAllow: the entry is the system's afterwards, whoever owned  *)
(* it before, and no subscriber is cancelled.                              *)
AllowAccess(s, p, perm) ==
    /\ "grant" \in ops
    /\ s \in Users => state[s] # "gone"
    /\ acl' = [acl EXCEPT ![<<s, p>>] = [perm |-> perm, owner |-> System]]
    /\ UNCHANGED <<tier, role, state, req, conn, overlap, ops>>

(* handleAccessReset: CancelSubscriberUser stops at the first subscriber   *)
(* of the user on each topic.                                              *)
ResetAccess(s, p) ==
    /\ "grant" \in ops
    /\ Delete(RowsOf(s, {p}))
    /\ LET mine(t) == {c \in Conns : /\ conn[c].st = "live" /\ conn[c].topic = t
                                     /\ s \in Users /\ conn[c].user = s}
       IN  \E K \in SUBSET Conns :
             /\ \A t \in Topics : Cardinality(K \cap mine(t)) =
                    IF p \in Matches[t] /\ mine(t) # {} THEN 1 ELSE 0
             /\ K \subseteq UNION {mine(t) : t \in Topics}
             /\ conn' = [c \in Conns |-> IF c \in K THEN [conn[c] EXCEPT !.st = "none"]
                                         ELSE conn[c]]
             /\ overlap' = overlap \ K
    /\ UNCHANGED <<tier, role, state, req, ops>>

(* A client subscribes: authorizeTopicRead, and later topic.Subscribe.     *)
AuthorizeTopic(c, s, t) ==
    /\ "subscribe" \in ops
    /\ conn[c].st = "none"
    /\ s \in Users => state[s] = "active"
    /\ Authorize(s, t, "read")
    /\ conn' = [conn EXCEPT ![c] = [user |-> s, topic |-> t, st |-> "authorized"]]
    /\ UNCHANGED <<acl, tier, role, state, req, overlap, ops>>

Subscribe(c) ==
    /\ conn[c].st = "authorized"
    /\ conn' = [conn EXCEPT ![c].st = "live"]
    /\ UNCHANGED <<acl, tier, role, state, req, overlap, ops>>

Unsubscribe(c) ==
    /\ conn[c].st = "live"
    /\ conn' = [conn EXCEPT ![c].st = "none"]
    /\ overlap' = overlap \ {c}
    /\ UNCHANGED <<acl, tier, role, state, req, ops>>

Next ==
    \/ \E k \in Workers, u \in Users :
          \/ \E t \in Topics : \/ \E e \in EveryonePerms : ReservationAdd(k, u, t, e)
                              \/ ReservationDelete(k, u, t)
          \/ \E new \in Tiers \cup {NoTier} : \/ SubscriptionAndTier(k, u, new)
                                            \/ TierChange(k, u, new)
          \/ AccountDelete(k, u)
          \/ \E a \in BOOLEAN : RoleChange(k, u, a)
    \/ \E k \in Workers :
          \/ AllowReservation(k) \/ HasReservation(k) \/ ReservationsCount(k)
          \/ AddReservation(k) \/ KillSubscribers(k) \/ RemoveReservations(k)
          \/ ReadExcess(k) \/ CheckReservationsLimit(k) \/ SetTier(k)
          \/ MarkUserRemoved(k) \/ SetRole(k) \/ ClearAccess(k)
    \/ \E u \in Users : RemoveDeletedUsers(u)
    \/ \E s \in Subjects, p \in GrantPatterns :
          \/ \E perm \in GrantPerms : AllowAccess(s, p, perm)
          \/ ResetAccess(s, p)
    \/ \E c \in Conns :
          \/ \E s \in Subjects, t \in Topics : AuthorizeTopic(c, s, t)
          \/ Subscribe(c) \/ Unsubscribe(c)

Spec == Init /\ [][Next]_vars
-----------------------------------------------------------------------------
(* The types of the state.                                                 *)
TypeOK ==
    /\ acl \in [Subjects \X Patterns -> Row \cup {NoRow}]
    /\ tier \in [Users -> Tiers \cup {NoTier}]
    /\ role \in [Users -> {"user", "admin"}]
    /\ state \in [Users -> {"active", "marked", "gone"}]
    /\ req \in [Workers -> Req \cup {NoRequest}]
    /\ conn \in [Conns -> Conn]
    /\ overlap \subseteq Conns
    /\ ops \in Scenarios

(* No topic is reserved by two users: AllowReservation refuses a topic     *)
(* with an entry of anyone else.                                           *)
OneOwner ==
    \A t \in Topics, u, v \in Users : Reserved(u, t) /\ Reserved(v, t) => u = v

(* The entries of an owner work for the owner, and nobody else gets more   *)
(* than the owner left to Everyone, whatever was reserved, given back,     *)
(* downgraded or deleted before.                                           *)
OwnerDecides ==
    "grant" \notin ops =>
      \A t \in Topics, u \in Users, p \in {"read", "write"} :
        Reserved(u, t) =>
          /\ Authorize(u, t, p)
          /\ \A s \in Subjects \ {u} :
               Authorize(s, t, p) =>
                 p \in acl[<<Everyone, t>>].perm \/ (s \in Users /\ role[s] = "admin")

(* Reserving a topic ends the subscriptions of others: once a reservation  *)
(* is made, a subscriber that may not read the topic is one whose request  *)
(* was between its authorization and topic.Subscribe at that moment, as    *)
(* long as no administrator edits the list or takes a role away.           *)
SubscribersKilled ==
    ops \cap {"grant", "role"} = {} => \A c \in Conns, u \in Users :
      LET t == conn[c].topic
      IN  /\ conn[c].st = "live" /\ Reserved(u, t)
          /\ ~ \E k \in Workers : At(k, "kill") /\ t \in req[k].topics
          /\ ~ Authorize(conn[c].user, t, "read")
          => c \in overlap
=============================================================================
