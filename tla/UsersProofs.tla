----------------------------- MODULE UsersProofs -----------------------------
(***************************************************************************)
(* Proofs about the parts of Users.  A topic has one owner for any users,  *)
(* topics, tiers and patterns and any number of requests, unless two users *)
(* claim it at the same time; the users of a browser stay apart, for any   *)
(* number of tabs and users; the dialog subscribes to what can be read,    *)
(* for any servers, topics and handlers that overlap; and devices have the *)
(* settings of the account, for any devices and values.                    *)
(***************************************************************************)
EXTENDS Users, TLAPS

\* Zenon proves what no other prover is named for.
USE ZenonT(30)

(* A request to reserve whose AllowReservation has found no other owner    *)
(* and whose AddReservation is still to come.                              *)
Claiming(k) ==
    /\ req[k] # NoRequest
    /\ \/ req[k].pc \in {"count", "add"}
       \/ req[k].pc = "has" /\ req[k].op = "reserve"

(* No two users claim the same topic.                                      *)
ClaimsApart ==
    \A j, k \in Workers :
        Claiming(j) /\ Claiming(k) /\ req[j].user # req[k].user
            => req[j].topics \cap req[k].topics = {}

(* What a request to reserve relies on after AllowReservation: nobody else *)
(* has come to own its topics.                                             *)
ClaimsFree ==
    \A k \in Workers, v \in Users, t \in Topics :
        Claiming(k) /\ t \in req[k].topics /\ Reserved(v, t) => v = req[k].user

Typed ==
    /\ acl \in [Subjects \X Patterns -> Row \cup {NoRow}]
    /\ tier \in [Users -> Tiers \cup {NoTier}]
    /\ role \in [Users -> {"user", "admin"}]
    /\ req \in [Workers -> Req \cup {NoRequest}]

(* Requests that set a tier carry one, and those that set a role carry one. *)
Staged ==
    \A k \in Workers : req[k] # NoRequest =>
        /\ req[k].pc \in {"tier", "set"} => req[k].op \in {"billing", "tier"}
        /\ req[k].op \in {"billing", "tier"} => req[k].new \in Tiers \cup {NoTier}
        /\ req[k].pc = "role" => req[k].op = "role"
        /\ req[k].op = "role" => req[k].new \in {"admin", "user"}

OwnerInv == Typed /\ Staged /\ ClaimsFree /\ OneOwner

-----------------------------------------------------------------------------
(* No topic becomes somebody's in this step.                               *)
NoneReserved == \A v \in Users, t \in Topics : Reserved(v, t)' => Reserved(v, t)

(* No request becomes a claim in this step, and claims stay as they are.   *)
NoneClaims ==
    \A k \in Workers : Claiming(k)' =>
        Claiming(k) /\ req'[k].topics = req[k].topics /\ req'[k].user = req[k].user

\* A user's entry for a topic is one of the list.
LEMMA Entries ==
    ASSUME NEW v \in Users, NEW t \in Topics
    PROVE  <<v, t>> \in Subjects \X Patterns
BY ReservationsAssumption DEF Subjects

(* A step that gives no topic away and starts no claim keeps both parts.   *)
LEMMA Kept ==
    ASSUME ClaimsFree, OneOwner, NoneReserved, NoneClaims
    PROVE  ClaimsFree' /\ OneOwner'
<1>1. ClaimsFree'
  BY DEF ClaimsFree, NoneReserved, NoneClaims
<1>2. OneOwner'
  BY DEF OneOwner, NoneReserved
<1>. QED
  BY <1>1, <1>2

(* Rows that are deleted reserve nothing afterwards.                       *)
LEMMA Deleted ==
    ASSUME Typed, NEW rows, Delete(rows)
    PROVE  acl' \in [Subjects \X Patterns -> Row \cup {NoRow}] /\ NoneReserved
<1>1. acl' \in [Subjects \X Patterns -> Row \cup {NoRow}]
  BY DEF Delete, Typed
<1>2. ASSUME NEW v \in Users, NEW t \in Topics, Reserved(v, t)'
      PROVE  Reserved(v, t)
  BY <1>2, Entries DEF Delete, Typed, Reserved
<1>. QED
  BY <1>1, <1>2 DEF NoneReserved

\* The same list reserves no topic more.
LEMMA Same ==
    ASSUME acl' = acl
    PROVE  NoneReserved
BY DEF NoneReserved, Reserved

(* A request that ends, or goes on to a step that claims nothing.          *)
LEMMA Finished ==
    ASSUME Typed, Staged, NEW k \in Workers, Finish(k)
    PROVE  req' \in [Workers -> Req \cup {NoRequest}] /\ Staged' /\ NoneClaims
<1>1. req' \in [Workers -> Req \cup {NoRequest}]
  BY DEF Finish, Typed
<1>2. \A j \in Workers : req'[j] = NoRequest \/ req'[j] = req[j]
  BY DEF Finish, Typed
<1>3. Staged'
  BY <1>2 DEF Staged
<1>4. NoneClaims
  BY <1>2 DEF NoneClaims, Claiming
<1>. QED
  BY <1>1, <1>3, <1>4

\* One request goes on, and the others stay where they are.
LEMMA WentOn ==
    ASSUME Typed, NEW k \in Workers, req[k] # NoRequest,
           NEW pc \in {"allow", "has", "count", "add", "kill", "remove", "excess", "tier",
                       "set", "mark", "role", "clear"},
           Goto(k, pc)
    PROVE  /\ req' \in [Workers -> Req \cup {NoRequest}]
           /\ req'[k] = [req[k] EXCEPT !.pc = pc]
           /\ req[k] \in Req
           /\ \A j \in Workers \ {k} : req'[j] = req[j]
<1>1. req[k] \in Req
  BY DEF Typed
<1>2. [req[k] EXCEPT !.pc = pc] \in Req
  BY <1>1 DEF Req
<1>. QED
  BY <1>1, <1>2 DEF Goto, Typed

(* A request that goes on to a step for which it carries what is set.      *)
LEMMA WentOnStaged ==
    ASSUME Typed, Staged, NEW k \in Workers, req[k] # NoRequest,
           NEW pc \in {"allow", "has", "count", "add", "kill", "remove", "excess", "tier",
                       "set", "mark", "role", "clear"},
           pc \in {"tier", "set"} => req[k].op \in {"billing", "tier"},
           pc # "role",
           Goto(k, pc)
    PROVE  Staged'
<1>1. req'[k] = [req[k] EXCEPT !.pc = pc] /\ req[k] \in Req
      /\ \A j \in Workers \ {k} : req'[j] = req[j]
  BY WentOn
<1>2. req'[k].pc = pc /\ req'[k].op = req[k].op /\ req'[k].new = req[k].new
  BY <1>1 DEF Req
<1>3. /\ req[k].op \in {"billing", "tier"} => req[k].new \in Tiers \cup {NoTier}
      /\ req[k].op = "role" => req[k].new \in {"admin", "user"}
  BY DEF Staged
<1>4. \A j \in Workers \ {k} : req'[j] # NoRequest =>
        /\ req'[j].pc \in {"tier", "set"} => req'[j].op \in {"billing", "tier"}
        /\ req'[j].op \in {"billing", "tier"} => req'[j].new \in Tiers \cup {NoTier}
        /\ req'[j].pc = "role" => req'[j].op = "role"
        /\ req'[j].op = "role" => req'[j].new \in {"admin", "user"}
  BY <1>1 DEF Staged
<1>. QED
  BY <1>2, <1>3, <1>4 DEF Staged

\* One that is beyond AddReservation claims nothing.
LEMMA WentOnUnclaimed ==
    ASSUME Typed, NEW k \in Workers, req[k] # NoRequest,
           NEW pc \in {"kill", "remove", "tier", "set", "mark", "clear"},
           Goto(k, pc)
    PROVE  NoneClaims
<1>1. req'[k] = [req[k] EXCEPT !.pc = pc] /\ req[k] \in Req
      /\ \A j \in Workers \ {k} : req'[j] = req[j]
  BY WentOn
<1>2. req'[k].pc = pc
  BY <1>1 DEF Req
<1>. QED
  BY <1>1, <1>2 DEF NoneClaims, Claiming

(* A claim that takes its next step is the claim it was.                   *)
LEMMA WentOnClaiming ==
    ASSUME Typed, NEW k \in Workers, Claiming(k),
           NEW pc \in {"count", "add"},
           Goto(k, pc)
    PROVE  NoneClaims
<1>0. req[k] # NoRequest
  BY DEF Claiming
<1>1. req'[k] = [req[k] EXCEPT !.pc = pc] /\ req[k] \in Req
      /\ \A j \in Workers \ {k} : req'[j] = req[j]
  BY <1>0, WentOn
<1>2. req'[k].topics = req[k].topics /\ req'[k].user = req[k].user
  BY <1>1 DEF Req
<1>3. ASSUME NEW j \in Workers, Claiming(j)'
      PROVE  Claiming(j) /\ req'[j].topics = req[j].topics /\ req'[j].user = req[j].user
  <2>1. CASE j = k
    BY <2>1, <1>2
  <2>2. CASE j # k
    BY <2>2, <1>1, <1>3 DEF Claiming
  <2>. QED
    BY <2>1, <2>2
<1>. QED
  BY <1>3 DEF NoneClaims

(* A request that begins claims nothing yet.                               *)
LEMMA Began ==
    ASSUME Typed, Staged, ClaimsFree, OneOwner,
           NEW k \in Workers, NEW u \in Users,
           NEW op \in {"reserve", "unreserve", "billing", "delete", "tier", "role"},
           NEW pc \in {"allow", "has", "excess", "tier", "role"},
           NEW ts \in SUBSET Topics, NEW perm \in Perms,
           NEW new \in Tiers \cup {NoTier, "admin", "user"},
           pc = "has" => op = "unreserve",
           pc = "tier" => op = "tier",
           pc = "role" => op = "role",
           op \in {"billing", "tier"} => new \in Tiers \cup {NoTier},
           op = "role" => new \in {"admin", "user"},
           Begin(k, op, u, pc, ts, perm, new)
    PROVE  OwnerInv'
<1>. DEFINE r == [op |-> op, pc |-> pc, user |-> u, topics |-> ts, perm |-> perm,
                  tier |-> tier[u], role |-> role[u], new |-> new]
<1>1. r \in Req
  BY DEF Typed, Req
<1>2. req' = [req EXCEPT ![k] = r]
  BY DEF Begin
<1>3. r.op = op /\ r.pc = pc /\ r.new = new
  OBVIOUS
<1>. HIDE DEF r
<1>4. Typed'
  BY <1>1, <1>2 DEF Typed, Begin
<1>5. req'[k] = r /\ \A j \in Workers \ {k} : req'[j] = req[j]
  BY <1>2 DEF Typed
<1>6. Staged'
  BY <1>3, <1>5 DEF Staged
<1>7. NoneClaims
  BY <1>3, <1>5 DEF NoneClaims, Claiming
<1>8. NoneReserved
  BY Same DEF Begin
<1>. QED
  BY <1>4, <1>6, <1>7, <1>8, Kept DEF OwnerInv

-----------------------------------------------------------------------------
(* The two steps that matter.  AllowReservation sees every entry for a     *)
(* name that matches the topic, so it sees whoever reserved it.            *)
LEMMA AllowedIsFree ==
    ASSUME OwnerInv, NEW k \in Workers, AllowReservation(k)
    PROVE  OwnerInv'
<1>. USE DEF OwnerInv
<1>1. req[k] # NoRequest /\ acl' = acl /\ tier' = tier /\ role' = role
  BY DEF AllowReservation, At
<1>2. NoneReserved
  BY <1>1, Same
<1>3. CASE Finish(k)
  BY <1>1, <1>2, <1>3, Finished, Kept DEF Typed
<1>4. ASSUME NEW pc \in {"add", "has"}, Goto(k, pc),
             {e \in DOMAIN acl : /\ e[2] \in UNION {Matches[t] : t \in req[k].topics}
                                 /\ acl[e] # NoRow
                                 /\ acl[e].owner # req[k].user} = {}
      PROVE  OwnerInv'
  <2>1. /\ req' \in [Workers -> Req \cup {NoRequest}]
        /\ req'[k] = [req[k] EXCEPT !.pc = pc] /\ req[k] \in Req
        /\ \A j \in Workers \ {k} : req'[j] = req[j]
    BY <1>1, <1>4, WentOn
  <2>2. req'[k].topics = req[k].topics /\ req'[k].user = req[k].user
    BY <2>1 DEF Req
  <2>3. ASSUME NEW v \in Users, NEW t \in Topics, t \in req[k].topics, Reserved(v, t)
        PROVE  v = req[k].user
    <3>1. t \in Matches[t]
      BY ReservationsAssumption
    <3>2. <<v, t>> \in DOMAIN acl /\ acl[<<v, t>>] # NoRow /\ acl[<<v, t>>].owner = v
      BY <2>3, Entries DEF Typed, Reserved
    <3>. QED
      BY <1>4, <2>3, <3>1, <3>2
  <2>4. ClaimsFree'
    <3>. SUFFICES ASSUME NEW j \in Workers, NEW v \in Users, NEW t \in Topics,
                         Claiming(j)', t \in req'[j].topics, Reserved(v, t)'
                  PROVE  v = req'[j].user
      BY DEF ClaimsFree
    <3>1. Reserved(v, t)
      BY <1>2 DEF NoneReserved
    <3>2. CASE j = k
      BY <3>1, <3>2, <2>2, <2>3
    <3>3. CASE j # k
      BY <3>1, <3>3, <2>1 DEF ClaimsFree, Claiming
    <3>. QED
      BY <3>2, <3>3
  <2>5. OneOwner'
    BY <1>2 DEF OneOwner, NoneReserved
  <2>6. Staged'
    BY <1>1, <1>4, WentOnStaged
  <2>. QED
    BY <1>1, <2>1, <2>4, <2>5, <2>6 DEF Typed
<1>. QED
  BY <1>3, <1>4 DEF AllowReservation

(* AddReservation makes topics the user's that nobody else has reserved,   *)
(* and that no other user claims.                                          *)
LEMMA AddedIsFree ==
    ASSUME OwnerInv, ClaimsApart, NEW k \in Workers, AddReservation(k)
    PROVE  OwnerInv'
<1>. USE DEF OwnerInv
<1>1. req[k] # NoRequest /\ req[k].pc = "add" /\ tier' = tier /\ role' = role
  BY DEF AddReservation, At
<1>2. Claiming(k)
  BY <1>1 DEF Claiming
<1>3. CASE Finish(k) /\ acl' = acl
  BY <1>1, <1>3, Same, Finished, Kept DEF Typed
<1>4. ASSUME acl' = [e \in DOMAIN acl |->
                IF e[2] \in req[k].topics /\ e[1] \in {req[k].user, Everyone}
                THEN [perm |-> IF e[1] = Everyone THEN req[k].perm ELSE {"read", "write"},
                      owner |-> req[k].user]
                ELSE acl[e]],
             Goto(k, "kill")
      PROVE  OwnerInv'
  <2>1. /\ req' \in [Workers -> Req \cup {NoRequest}]
        /\ req[k] \in Req
    BY <1>1, <1>4, WentOn
  <2>2. NoneClaims /\ Staged'
    BY <1>1, <1>4, WentOnUnclaimed, WentOnStaged
  <2>3. Typed'
    <3>1. req[k].perm \in Perms /\ req[k].user \in Users
      BY <2>1 DEF Req
    <3>2. {"read", "write"} \in Perms
      BY DEF Perms
    <3>3. \A p \in Perms : [perm |-> p, owner |-> req[k].user] \in Row
      BY <3>1 DEF Row
    <3>4. acl' \in [Subjects \X Patterns -> Row \cup {NoRow}]
      BY <1>4, <3>1, <3>2, <3>3 DEF Typed
    <3>. QED
      BY <1>1, <2>1, <3>4 DEF Typed
  <2>4. ASSUME NEW v \in Users, NEW t \in Topics, Reserved(v, t)'
        PROVE  Reserved(v, t) \/ (t \in req[k].topics /\ v = req[k].user)
    <3>1. <<v, t>> \in DOMAIN acl /\ v # Everyone
      BY Entries, ReservationsAssumption DEF Typed
    <3>. QED
      BY <1>4, <2>4, <3>1 DEF Reserved
  <2>5. ASSUME NEW v \in Users, NEW t \in Topics, t \in req[k].topics, Reserved(v, t)'
        PROVE  v = req[k].user
    BY <1>2, <2>4, <2>5 DEF ClaimsFree
  <2>6. OneOwner'
    BY <2>4, <2>5 DEF OneOwner
  <2>7. ClaimsFree'
    <3>. SUFFICES ASSUME NEW j \in Workers, NEW v \in Users, NEW t \in Topics,
                         Claiming(j)', t \in req'[j].topics, Reserved(v, t)'
                  PROVE  v = req'[j].user
      BY DEF ClaimsFree
    <3>1. Claiming(j) /\ t \in req[j].topics /\ req'[j].user = req[j].user
      BY <2>2 DEF NoneClaims
    <3>2. CASE Reserved(v, t)
      BY <3>1, <3>2 DEF ClaimsFree
    <3>3. CASE t \in req[k].topics /\ v = req[k].user
      BY <1>2, <3>1, <3>3 DEF ClaimsApart
    <3>. QED
      BY <2>4, <3>2, <3>3
  <2>. QED
    BY <2>2, <2>3, <2>6, <2>7
<1>. QED
  BY <1>3, <1>4 DEF AddReservation

-----------------------------------------------------------------------------
(* Every other step only removes entries or hands them to the system.      *)
LEMMA BeginsKeep ==
    ASSUME OwnerInv, NEW k \in Workers, NEW u \in Users,
           \/ \E t \in Topics : \/ \E e \in EveryonePerms : ReservationAdd(k, u, t, e)
                               \/ ReservationDelete(k, u, t)
           \/ \E new \in Tiers \cup {NoTier} : \/ SubscriptionAndTier(k, u, new)
                                             \/ TierChange(k, u, new)
           \/ AccountDelete(k, u)
           \/ \E a \in BOOLEAN : RoleChange(k, u, a)
    PROVE  OwnerInv'
<1>. USE DEF OwnerInv
<1>0. {} \in Perms /\ {} \in SUBSET Topics
  BY DEF Perms
<1>1. ASSUME NEW t \in Topics, NEW e \in EveryonePerms, ReservationAdd(k, u, t, e)
      PROVE  OwnerInv'
  <2>1. e \in Perms /\ {t} \in SUBSET Topics
    BY ReservationsAssumption
  <2>. QED
    BY <1>1, <2>1, Began DEF ReservationAdd
<1>2. ASSUME NEW t \in Topics, ReservationDelete(k, u, t)
      PROVE  OwnerInv'
  BY <1>0, <1>2, Began DEF ReservationDelete
<1>3. ASSUME NEW new \in Tiers \cup {NoTier},
             SubscriptionAndTier(k, u, new) \/ TierChange(k, u, new)
      PROVE  OwnerInv'
  BY <1>0, <1>3, Began DEF SubscriptionAndTier, TierChange
<1>4. CASE AccountDelete(k, u)
  BY <1>0, <1>4, Began DEF AccountDelete
<1>5. ASSUME NEW a \in BOOLEAN, RoleChange(k, u, a)
      PROVE  OwnerInv'
  <2>. DEFINE new == IF a THEN "admin" ELSE "user"
  <2>1. new \in {"admin", "user"}
    OBVIOUS
  <2>2. Begin(k, "role", u, "role", {}, {}, new)
    BY <1>5 DEF RoleChange
  <2>. HIDE DEF new
  <2>. QED
    BY <1>0, <2>1, <2>2, Began
<1>. QED
  BY <1>1, <1>2, <1>3, <1>4, <1>5

(* Steps of a request that leave the list alone.                           *)
LEMMA ReadsKeep ==
    ASSUME OwnerInv, NEW k \in Workers,
           \/ HasReservation(k) \/ ReservationsCount(k) \/ KillSubscribers(k)
           \/ CheckReservationsLimit(k)
    PROVE  OwnerInv'
<1>. USE DEF OwnerInv
<1>1. req[k] # NoRequest /\ NoneReserved /\ acl' = acl /\ tier' = tier /\ role' = role
  BY Same DEF HasReservation, ReservationsCount, KillSubscribers, CheckReservationsLimit, At
<1>2. CASE Finish(k)
  BY <1>1, <1>2, Finished, Kept DEF Typed
<1>3. ASSUME NEW pc \in {"count", "add"}, Claiming(k), Goto(k, pc)
      PROVE  OwnerInv'
  <2>1. NoneClaims
    BY <1>3, WentOnClaiming
  <2>2. Staged' /\ req' \in [Workers -> Req \cup {NoRequest}]
    BY <1>1, <1>3, WentOnStaged, WentOn
  <2>. QED
    BY <1>1, <2>1, <2>2, Kept DEF Typed
<1>4. ASSUME NEW pc \in {"remove", "set"}, Goto(k, pc),
             pc = "set" => req[k].op \in {"billing", "tier"}
      PROVE  OwnerInv'
  <2>1. NoneClaims
    BY <1>1, <1>4, WentOnUnclaimed
  <2>2. Staged' /\ req' \in [Workers -> Req \cup {NoRequest}]
    BY <1>1, <1>4, WentOnStaged, WentOn
  <2>. QED
    BY <1>1, <2>1, <2>2, Kept DEF Typed
<1>5. CASE HasReservation(k)
  <2>1. CASE req[k].op = "reserve" /\ \E pc \in {"count", "add"} : Goto(k, pc)
    BY <1>3, <1>5, <2>1 DEF HasReservation, At, Claiming
  <2>. QED
    BY <1>2, <1>4, <1>5, <2>1 DEF HasReservation
<1>6. CASE ReservationsCount(k)
  BY <1>2, <1>3, <1>6 DEF ReservationsCount, At, Claiming
<1>7. CASE KillSubscribers(k)
  BY <1>2, <1>7 DEF KillSubscribers
<1>8. CASE CheckReservationsLimit(k)
  <2>1. req[k].op \in {"billing", "tier"}
    BY <1>8 DEF CheckReservationsLimit, At, Staged
  <2>. QED
    BY <1>2, <1>4, <1>8, <2>1 DEF CheckReservationsLimit
<1>. QED
  BY <1>5, <1>6, <1>7, <1>8

(* Steps of a request that delete entries, and that set a tier or a role.  *)
LEMMA RemovesKeep ==
    ASSUME OwnerInv, NEW k \in Workers,
           RemoveReservations(k) \/ MarkUserRemoved(k) \/ ClearAccess(k)
    PROVE  OwnerInv'
<1>. USE DEF OwnerInv
<1>1. req[k] # NoRequest /\ tier' = tier /\ role' = role
  BY DEF RemoveReservations, MarkUserRemoved, ClearAccess, At
<1>2. acl' \in [Subjects \X Patterns -> Row \cup {NoRow}] /\ NoneReserved
  BY Deleted DEF RemoveReservations, MarkUserRemoved, ClearAccess
<1>3. CASE Finish(k)
  BY <1>1, <1>2, <1>3, Finished, Kept DEF Typed
<1>4. ASSUME NEW pc \in {"tier", "mark"}, Goto(k, pc),
             pc = "tier" => req[k].op = "billing"
      PROVE  OwnerInv'
  <2>1. NoneClaims
    BY <1>1, <1>4, WentOnUnclaimed
  <2>2. Staged' /\ req' \in [Workers -> Req \cup {NoRequest}]
    BY <1>1, <1>4, WentOnStaged, WentOn
  <2>. QED
    BY <1>1, <1>2, <2>1, <2>2, Kept DEF Typed
<1>. QED
  BY <1>3, <1>4 DEF RemoveReservations, MarkUserRemoved, ClearAccess

\* ChangeTier and ChangeRole leave the list alone.
LEMMA SetsKeep ==
    ASSUME OwnerInv, NEW k \in Workers, SetTier(k) \/ SetRole(k)
    PROVE  OwnerInv'
<1>. USE DEF OwnerInv
<1>1. req[k] # NoRequest /\ acl' = acl /\ NoneReserved /\ req[k] \in Req
  BY Same DEF SetTier, SetRole, At, Typed
<1>2. req[k].user \in Users
  BY <1>1 DEF Req
<1>3. tier' \in [Users -> Tiers \cup {NoTier}] /\ role' \in [Users -> {"user", "admin"}]
  <2>1. CASE SetTier(k)
    <3>1. req[k].new \in Tiers \cup {NoTier}
      BY <2>1 DEF SetTier, At, Staged
    <3>. QED
      BY <1>2, <2>1, <3>1 DEF SetTier, Typed
  <2>2. CASE SetRole(k)
    <3>1. req[k].new \in {"admin", "user"}
      BY <2>2 DEF SetRole, At, Staged
    <3>. QED
      BY <1>2, <2>2, <3>1 DEF SetRole, Typed
  <2>. QED
    BY <2>1, <2>2
<1>4. CASE Finish(k)
  BY <1>1, <1>3, <1>4, Finished, Kept DEF Typed
<1>5. CASE Goto(k, "clear")
  <2>1. NoneClaims
    BY <1>1, <1>5, WentOnUnclaimed
  <2>2. Staged' /\ req' \in [Workers -> Req \cup {NoRequest}]
    BY <1>1, <1>5, WentOnStaged, WentOn
  <2>. QED
    BY <1>1, <1>3, <2>1, <2>2, Kept DEF Typed
<1>. QED
  BY <1>4, <1>5 DEF SetTier, SetRole

(* The topics that are removed, or none, replace those of the request.     *)
LEMMA ExcessRead ==
    ASSUME NEW k \in Workers, ReadExcess(k)
    PROVE  \E ts \in SUBSET Reservations(req[k].user), pc \in {"remove", "tier", "mark"} :
             /\ pc = "tier" => req[k].op = "billing"
             /\ req' = [req EXCEPT ![k] = Continued(req[k], pc, ts)]
<1>. DEFINE pc == IF Excess(req[k]) # {} THEN "remove"
                  ELSE IF req[k].op = "billing" THEN "tier" ELSE "mark"
<1>1. Excess(req[k]) \in SUBSET Reservations(req[k].user)
  BY DEF Excess
<1>2. pc \in {"remove", "tier", "mark"} /\ (pc = "tier" => req[k].op = "billing")
  OBVIOUS
<1>3. req' = [req EXCEPT ![k] = Continued(req[k], pc, Excess(req[k]))]
  BY DEF ReadExcess
<1>. HIDE DEF pc
<1>. QED
  BY <1>1, <1>2, <1>3

\* Reading what is over the new limit leaves the list alone.
LEMMA ExcessKeeps ==
    ASSUME OwnerInv, NEW k \in Workers, ReadExcess(k)
    PROVE  OwnerInv'
<1>. USE DEF OwnerInv
<1>1. req[k] # NoRequest /\ acl' = acl /\ tier' = tier /\ role' = role /\ NoneReserved
      /\ req[k] \in Req
  BY Same DEF ReadExcess, At, Typed
<1>2. PICK ts \in SUBSET Topics, pc \in {"remove", "tier", "mark"} :
         /\ pc = "tier" => req[k].op = "billing"
         /\ req' = [req EXCEPT ![k] = Continued(req[k], pc, ts)]
  BY ExcessRead DEF Reservations
<1>. DEFINE r == Continued(req[k], pc, ts)
<1>3. r \in Req /\ r.pc = pc /\ r.op = req[k].op /\ r.new = req[k].new
  BY <1>1, SMTT(30) DEF Req, Continued
<1>4. req' = [req EXCEPT ![k] = r]
  BY <1>2 DEF Typed
<1>. HIDE DEF r
<1>5. /\ req' \in [Workers -> Req \cup {NoRequest}] /\ req'[k] = r
      /\ \A j \in Workers \ {k} : req'[j] = req[j]
  BY <1>3, <1>4 DEF Typed
<1>6. /\ req[k].op \in {"billing", "tier"} => req[k].new \in Tiers \cup {NoTier}
      /\ req[k].op = "role" => req[k].new \in {"admin", "user"}
  BY <1>1 DEF Staged
<1>7. \A j \in Workers \ {k} : req'[j] # NoRequest =>
        /\ req'[j].pc \in {"tier", "set"} => req'[j].op \in {"billing", "tier"}
        /\ req'[j].op \in {"billing", "tier"} => req'[j].new \in Tiers \cup {NoTier}
        /\ req'[j].pc = "role" => req'[j].op = "role"
        /\ req'[j].op = "role" => req'[j].new \in {"admin", "user"}
  BY <1>5 DEF Staged
<1>8. Staged'
  BY <1>2, <1>3, <1>5, <1>6, <1>7, SMTT(30) DEF Staged
<1>9. NoneClaims
  BY <1>2, <1>3, <1>5 DEF NoneClaims, Claiming
<1>. QED
  BY <1>1, <1>5, <1>8, <1>9, Kept DEF Typed

(* Steps that belong to no request.                                        *)
LEMMA OthersKeep ==
    ASSUME OwnerInv, req' = req, tier' = tier, role' = role, NoneReserved,
           acl' \in [Subjects \X Patterns -> Row \cup {NoRow}]
    PROVE  OwnerInv'
<1>1. NoneClaims
  BY DEF NoneClaims, Claiming
<1>2. Typed' /\ Staged'
  BY DEF OwnerInv, Typed, Staged
<1>. QED
  BY <1>1, <1>2, Kept DEF OwnerInv

\* An administrator edits the list.
LEMMA GrantKeeps ==
    ASSUME OwnerInv, NEW s \in Subjects, NEW p \in GrantPatterns, NEW perm \in GrantPerms,
           AllowAccess(s, p, perm)
    PROVE  OwnerInv'
<1>. USE DEF OwnerInv
<1>. DEFINE row == [perm |-> perm, owner |-> System]
<1>1. row \in Row /\ row.owner = System
  BY ReservationsAssumption DEF Row
<1>2. acl' = [acl EXCEPT ![<<s, p>>] = row]
  BY DEF AllowAccess
<1>. HIDE DEF row
<1>3. acl' \in [Subjects \X Patterns -> Row \cup {NoRow}]
  BY <1>1, <1>2 DEF Typed
<1>4. ASSUME NEW v \in Users, NEW t \in Topics, Reserved(v, t)'
      PROVE  Reserved(v, t)
  <2>1. v # System /\ <<v, t>> \in Subjects \X Patterns
    BY Entries, ReservationsAssumption
  <2>2. acl'[<<v, t>>] # row
    BY <1>1, <1>4, <2>1 DEF Reserved
  <2>3. acl'[<<v, t>>] = acl[<<v, t>>]
    BY <1>2, <2>1, <2>2 DEF Typed
  <2>. QED
    BY <1>4, <2>3 DEF Reserved
<1>. QED
  BY <1>3, <1>4, OthersKeep DEF AllowAccess, NoneReserved

\* Every step keeps the invariant of the owners, unless claims meet.
LEMMA StepKeeps ==
    ASSUME OwnerInv, ClaimsApart, [Next]_vars
    PROVE  OwnerInv'
<1>0. acl \in [Subjects \X Patterns -> Row \cup {NoRow}]
  BY DEF OwnerInv, Typed
<1>1. ASSUME NEW k \in Workers,
             \/ AllowReservation(k) \/ HasReservation(k) \/ ReservationsCount(k)
             \/ AddReservation(k) \/ KillSubscribers(k) \/ RemoveReservations(k)
             \/ ReadExcess(k) \/ CheckReservationsLimit(k) \/ SetTier(k)
             \/ MarkUserRemoved(k) \/ SetRole(k) \/ ClearAccess(k)
      PROVE  OwnerInv'
  BY <1>1, AllowedIsFree, AddedIsFree, ReadsKeep, RemovesKeep, SetsKeep, ExcessKeeps
<1>2. ASSUME NEW u \in Users, RemoveDeletedUsers(u)
      PROVE  OwnerInv'
  BY <1>2, Deleted, OthersKeep DEF RemoveDeletedUsers, OwnerInv
<1>3. ASSUME NEW s \in Subjects, NEW p \in GrantPatterns, ResetAccess(s, p)
      PROVE  OwnerInv'
  BY <1>3, Deleted, OthersKeep DEF ResetAccess, OwnerInv
<1>4. ASSUME NEW c \in Conns,
             \/ \E s \in Subjects, t \in Topics : AuthorizeTopic(c, s, t)
             \/ Subscribe(c) \/ Unsubscribe(c)
      PROVE  OwnerInv'
  BY <1>0, <1>4, Same, OthersKeep DEF AuthorizeTopic, Subscribe, Unsubscribe
<1>5. CASE UNCHANGED vars
  BY <1>0, <1>5, Same, OthersKeep DEF vars
<1>. QED
  BY <1>1, <1>2, <1>3, <1>4, <1>5, BeginsKeep, GrantKeeps DEF Next

\* The list is empty at first.
LEMMA Starts == Init => OwnerInv
<1>. SUFFICES ASSUME Init PROVE OwnerInv
  OBVIOUS
<1>1. Typed
  BY DEF Init, Typed
<1>2. Staged /\ ClaimsFree
  BY DEF Init, Staged, ClaimsFree, Claiming
<1>3. OneOwner
  BY Entries DEF Init, OneOwner, Reserved
<1>. QED
  BY <1>1, <1>2, <1>3 DEF OwnerInv

(* Only two users who claim the same topic at the same time can both come  *)
(* to own it: AllowReservation and AddReservation are no transaction, but  *)
(* nothing else the server does with the list makes a second owner.        *)
THEOREM OneOwnerUnlessClaimsMeet == Spec /\ []ClaimsApart => []OneOwner
<1>1. OwnerInv /\ ClaimsApart /\ [Next]_vars => OwnerInv'
  BY StepKeeps
<1>2. OwnerInv => OneOwner
  BY DEF OwnerInv
<1>. QED
  BY <1>1, <1>2, Starts, PTL DEF Spec

(* A server that handles one request at a time gives a topic one owner,    *)
(* whatever users, webhooks and administrators do.                         *)
THEOREM OneOwnerOneRequest ==
    ASSUME NEW w, Workers = {w}
    PROVE  Spec => []OneOwner
<1>1. ClaimsApart
  BY DEF ClaimsApart
<1>. QED
  BY <1>1, OneOwnerUnlessClaimsMeet, PTL
-----------------------------------------------------------------------------
(* Who decides.  From here on requests do not overlap, though subscribers  *)
(* and the removal of deleted users come at any time between their steps.  *)

Alone == \A j, k \in Workers : req[j] # NoRequest /\ req[k] # NoRequest => j = k

(* Without an administrator the entries are those of reservations.         *)
Entered ==
    \A e \in Subjects \X Patterns : acl[e] # NoRow =>
        /\ e[2] \in Topics /\ acl[e].owner \in Users
        /\ e[1] \in Users => acl[e].owner = e[1] /\ acl[e].perm = {"read", "write"}

(* Whoever reserves a topic owns what Everyone may do with it.             *)
Paired ==
    \A u \in Users, t \in Topics :
        Reserved(u, t) <=> acl[<<Everyone, t>>] # NoRow /\ acl[<<Everyone, t>>].owner = u

(* A request is of a user who is there, and removes, or cancels the        *)
(* subscribers of, topics that the user has reserved.                      *)
Serving ==
    \A k \in Workers : req[k] # NoRequest =>
        /\ state[req[k].user] = "active"
        /\ req[k].pc \in {"remove", "kill"} => \A t \in req[k].topics : Reserved(req[k].user, t)

ListInv ==
    /\ state \in [Users -> {"active", "marked", "gone"}]
    /\ "grant" \notin ops => Entered /\ Paired /\ Serving

(* Authorize for a topic that u has reserved: u may do everything, and the *)
(* others what Everyone may.                                               *)
Authority ==
    \A u \in Users, t \in Topics, s \in Subjects, p \in {"read", "write"} :
        Reserved(u, t) =>
            (Authorize(s, t, p) <=> \/ s \in Users /\ role[s] = "admin"
                                    \/ s = u
                                    \/ p \in acl[<<Everyone, t>>].perm)

\* No entry goes before itself.
LEMMA Irreflexive ==
    ASSUME NEW e \in Subjects \X Patterns
    PROVE  ~ Before(e, e)
<1>1. Length[e[2]] \in Nat
  BY ReservationsAssumption
<1>. QED
  BY <1>1, SMTT(30) DEF Before

\* What Authorize says about a reserved topic.
LEMMA Decided ==
    ASSUME Typed, Entered, Paired, NEW u \in Users, NEW t \in Topics, NEW s \in Subjects,
           NEW p \in {"read", "write"}, Reserved(u, t)
    PROVE  Authorize(s, t, p) <=> \/ s \in Users /\ role[s] = "admin"
                                  \/ s = u
                                  \/ p \in acl[<<Everyone, t>>].perm
<1>1. /\ Everyone \in Subjects /\ u \in Subjects /\ u # Everyone
      /\ <<Everyone, t>> \in Subjects \X Patterns /\ <<u, t>> \in Subjects \X Patterns
      /\ <<s, t>> \in Subjects \X Patterns
  BY ReservationsAssumption DEF Subjects
<1>2. t \in Matches[t] /\ Matches[t] \subseteq Patterns /\ \A q \in Matches[t] : q \in Topics => q = t
  BY ReservationsAssumption
<1>3. acl[<<Everyone, t>>] # NoRow /\ acl[<<Everyone, t>>].owner = u
  BY DEF Paired
<1>4. <<Everyone, t>> \in Candidates(s, t)
  BY <1>2, <1>3 DEF Candidates
<1>5. ASSUME NEW e \in Candidates(s, t)
      PROVE  e = <<s, t>> \/ e = <<Everyone, t>>
  <2>1. e \in {s, Everyone} \X Matches[t] /\ acl[e] # NoRow
    BY DEF Candidates
  <2>2. e \in Subjects \X Patterns
    BY <1>1, <1>2, <2>1
  <2>3. e[2] = t
    BY <1>2, <2>1, <2>2 DEF Entered
  <2>. QED
    BY <2>1, <2>3, SMTT(30)
<1>6. CASE s = u
  <2>1. acl[<<u, t>>] # NoRow /\ acl[<<u, t>>].perm = {"read", "write"}
    BY <1>1 DEF Reserved, Entered
  <2>2. <<u, t>> \in Candidates(s, t)
    BY <1>2, <1>6, <2>1 DEF Candidates
  <2>3. ~ Before(<<Everyone, t>>, <<u, t>>)
    BY <1>1 DEF Before
  <2>4. ~ Before(<<u, t>>, <<u, t>>)
    BY <1>1, Irreflexive
  <2>5. <<u, t>> \in Deciding(s, t)
    BY <1>5, <1>6, <2>2, <2>3, <2>4 DEF Deciding
  <2>. QED
    BY <1>6, <2>1, <2>5 DEF Authorize
<1>7. CASE s # u
  <2>1. ASSUME s \in Users PROVE acl[<<s, t>>] = NoRow
    BY <1>1, <1>3, <1>7, <2>1 DEF Entered, Paired, Reserved
  <2>2. ASSUME NEW e \in Candidates(s, t) PROVE e = <<Everyone, t>>
    <3>1. acl[e] # NoRow
      BY DEF Candidates
    <3>. QED
      BY <1>5, <2>1, <3>1 DEF Subjects
  <2>3. ~ Before(<<Everyone, t>>, <<Everyone, t>>)
    BY <1>1, Irreflexive
  <2>4. <<Everyone, t>> \in Deciding(s, t)
    BY <1>4, <2>2, <2>3 DEF Deciding
  <2>5. \A d \in Deciding(s, t) : d = <<Everyone, t>>
    BY <2>2 DEF Deciding
  <2>. QED
    BY <1>4, <1>7, <2>4, <2>5 DEF Authorize
<1>. QED
  BY <1>6, <1>7

\* As long as no administrator edits the list, owners decide.
LEMMA AuthorityHolds == OwnerInv /\ ListInv => ("grant" \notin ops => Authority)
BY Decided DEF OwnerInv, ListInv, Authority
(* A step deletes all entries of a topic or none.                          *)
Whole ==
    /\ \A e \in Subjects \X Patterns : acl'[e] = acl[e] \/ acl'[e] = NoRow
    /\ \A t \in Topics : \/ \A s \in Subjects : acl'[<<s, t>>] = acl[<<s, t>>]
                         \/ \A s \in Subjects : acl'[<<s, t>>] = NoRow

\* Removing reservations as a whole keeps the entries paired.
LEMMA WholeKeeps ==
    ASSUME Entered, Paired, Whole
    PROVE  Entered' /\ Paired'
<1>1. Entered'
  BY DEF Entered, Whole
<1>2. ASSUME NEW u \in Users, NEW t \in Topics
      PROVE  (Reserved(u, t) <=> acl[<<Everyone, t>>] # NoRow /\ acl[<<Everyone, t>>].owner = u)'
  <2>1. u \in Subjects /\ Everyone \in Subjects
    BY DEF Subjects
  <2>2. CASE \A s \in Subjects : acl'[<<s, t>>] = acl[<<s, t>>]
    BY <2>1, <2>2, SMTT(30) DEF Paired, Reserved
  <2>3. CASE \A s \in Subjects : acl'[<<s, t>>] = NoRow
    BY <2>1, <2>3 DEF Reserved
  <2>. QED
    BY <2>2, <2>3 DEF Whole
<1>3. Paired'
  BY <1>2 DEF Paired
<1>. QED
  BY <1>1, <1>3

\* The same list has no reservation removed in part.
LEMMA SameWhole ==
    ASSUME acl' = acl
    PROVE  Whole
BY DEF Whole

(* Who has entries for a topic that u has reserved.                        *)
LEMMA OnlyTheirs ==
    ASSUME Typed, Entered, Paired, NEW u \in Users, NEW t \in Topics, Reserved(u, t),
           NEW s \in Subjects, acl[<<s, t>>] # NoRow
    PROVE  (s = u \/ s = Everyone) /\ acl[<<s, t>>].owner = u
<1>1. <<s, t>> \in Subjects \X Patterns
  BY ReservationsAssumption
<1>2. acl[<<Everyone, t>>].owner = u
  BY DEF Paired
<1>3. CASE s \in Users
  <2>1. acl[<<s, t>>].owner = s
    BY <1>1, <1>3 DEF Entered
  <2>2. Reserved(s, t)
    BY <2>1 DEF Reserved
  <2>. QED
    BY <1>2, <1>3, <2>1, <2>2 DEF Paired
<1>. QED
  BY <1>2, <1>3 DEF Subjects

(* The entries of a user, and those that the user owns.                    *)
LEMMA UserDeleted ==
    ASSUME Typed, Entered, Paired, NEW u \in Users, Delete(RowsOf(u, Patterns))
    PROVE  /\ Whole
           /\ \A v \in Users, t \in Topics : v # u /\ Reserved(v, t) => Reserved(v, t)'
<1>1. \A e \in Subjects \X Patterns :
        acl'[e] = IF acl[e] # NoRow /\ (e[1] = u \/ acl[e].owner = u) THEN NoRow ELSE acl[e]
  BY DEF Typed, Delete, RowsOf
<1>2. ASSUME NEW t \in Topics
      PROVE  \/ \A s \in Subjects : acl'[<<s, t>>] = acl[<<s, t>>]
             \/ \A s \in Subjects : acl'[<<s, t>>] = NoRow
  <2>1. \A s \in Subjects : <<s, t>> \in Subjects \X Patterns
    BY ReservationsAssumption
  <2>2. CASE Reserved(u, t)
    <3>1. ASSUME NEW s \in Subjects PROVE acl'[<<s, t>>] = NoRow
      BY <1>1, <2>1, <2>2, OnlyTheirs
    <3>. QED
      BY <3>1
  <2>3. CASE ~ Reserved(u, t)
    <3>1. ASSUME NEW s \in Subjects PROVE acl'[<<s, t>>] = acl[<<s, t>>]
      <4>1. acl[<<s, t>>] # NoRow => s # u /\ acl[<<s, t>>].owner # u
        BY <2>1, <2>3, SMTT(30) DEF Entered, Paired, Reserved, Subjects
      <4>. QED
        BY <1>1, <2>1, <4>1
    <3>. QED
      BY <3>1
  <2>. QED
    BY <2>2, <2>3
<1>3. Whole
  BY <1>1, <1>2 DEF Whole
<1>4. ASSUME NEW v \in Users, NEW t \in Topics, v # u, Reserved(v, t)
      PROVE  Reserved(v, t)'
  BY <1>1, <1>4, Entries DEF Reserved
<1>. QED
  BY <1>3, <1>4

(* The reservations of a user, with what they left to Everyone.            *)
LEMMA ReservationsDeleted ==
    ASSUME Typed, Entered, Paired, NEW u \in Users, NEW ts \in SUBSET Topics,
           \A t \in ts : Reserved(u, t),
           Delete(RowsOf(u, ts) \cup RowsOf(Everyone, ts))
    PROVE  Whole
<1>1. \A e \in Subjects \X Patterns :
        acl'[e] = IF /\ acl[e] # NoRow /\ e[2] \in ts
                     /\ e[1] = u \/ acl[e].owner = u \/ e[1] = Everyone \/ acl[e].owner = Everyone
                  THEN NoRow ELSE acl[e]
  BY DEF Typed, Delete, RowsOf
<1>2. ASSUME NEW t \in Topics
      PROVE  \/ \A s \in Subjects : acl'[<<s, t>>] = acl[<<s, t>>]
             \/ \A s \in Subjects : acl'[<<s, t>>] = NoRow
  <2>1. \A s \in Subjects : <<s, t>> \in Subjects \X Patterns
    BY ReservationsAssumption
  <2>2. CASE t \in ts
    <3>1. ASSUME NEW s \in Subjects PROVE acl'[<<s, t>>] = NoRow
      BY <1>1, <2>1, <2>2, OnlyTheirs
    <3>. QED
      BY <3>1
  <2>3. CASE t \notin ts
    BY <1>1, <2>1, <2>3
  <2>. QED
    BY <2>2, <2>3
<1>. QED
  BY <1>1, <1>2 DEF Whole
(* What a step of a request leaves of the others: there are none.          *)
LEMMA ServingFinished ==
    ASSUME Typed, Alone, NEW k \in Workers, req[k] # NoRequest, Finish(k)
    PROVE  Serving'
<1>1. \A j \in Workers : req'[j] = NoRequest
  BY DEF Alone, Finish, Typed
<1>. QED
  BY <1>1 DEF Serving

\* A request goes on that is the only one.
LEMMA ServingWentOn ==
    ASSUME Typed, Serving, Alone, NEW k \in Workers, req[k] # NoRequest, NEW u \in Users, req[k].user = u,
           NEW pc \in {"allow", "has", "count", "add", "kill", "remove", "excess", "tier",
                       "set", "mark", "role", "clear"},
           Goto(k, pc), state' = state,
           pc \in {"remove", "kill"} => \A t \in req[k].topics : Reserved(u, t)'
    PROVE  Serving'
<1>1. req'[k] = [req[k] EXCEPT !.pc = pc] /\ req[k] \in Req
      /\ \A j \in Workers \ {k} : req'[j] = req[j]
  BY WentOn
<1>2. req'[k].pc = pc /\ req'[k].user = u /\ req'[k].topics = req[k].topics
  BY <1>1 DEF Req
<1>3. \A j \in Workers \ {k} : req'[j] = NoRequest
  BY <1>1 DEF Alone
<1>4. state'[u] = "active"
  BY DEF Serving
<1>5. pc \in {"remove", "kill"} => \A t \in req'[k].topics : Reserved(u, t)'
  BY <1>2
<1>. QED
  BY <1>2, <1>3, <1>4, <1>5, SMTT(30) DEF Serving, Reserved

\* A request begins.
LEMMA ServingBegan ==
    ASSUME Typed, Serving, NEW k \in Workers, NEW u \in Users, NEW op,
           NEW pc \in {"allow", "has", "excess", "tier", "role"}, NEW ts, NEW perm, NEW new,
           Begin(k, op, u, pc, ts, perm, new)
    PROVE  Serving' /\ acl' = acl /\ state' = state /\ ops' = ops
<1>. DEFINE r == [op |-> op, pc |-> pc, user |-> u, topics |-> ts, perm |-> perm,
                  tier |-> tier[u], role |-> role[u], new |-> new]
<1>1. req' = [req EXCEPT ![k] = r] /\ state[u] = "active"
      /\ acl' = acl /\ state' = state /\ ops' = ops
  BY DEF Begin
<1>2. r.pc = pc /\ r.user = u
  OBVIOUS
<1>. HIDE DEF r
<1>3. req'[k] = r /\ \A j \in Workers \ {k} : req'[j] = req[j]
  BY <1>1 DEF Typed
<1>4. Serving'
  BY <1>1, <1>2, <1>3, SMTT(30) DEF Serving, Reserved
<1>. QED
  BY <1>1, <1>4

(* AddReservation: both entries of each topic become the user's.           *)
LEMMA AddedIsPaired ==
    ASSUME OwnerInv, Entered, Paired, Serving, Alone, NEW k \in Workers, AddReservation(k)
    PROVE  Entered' /\ Paired' /\ Serving'
<1>. USE DEF OwnerInv
<1>1. req[k] # NoRequest /\ req[k].pc = "add" /\ state' = state
  BY DEF AddReservation, At
<1>2. Claiming(k) /\ req[k] \in Req
  BY <1>1 DEF Claiming, Typed
<1>3. CASE Finish(k) /\ acl' = acl
  BY <1>1, <1>3, SameWhole, WholeKeeps, ServingFinished
<1>4. ASSUME acl' = [e \in DOMAIN acl |->
                IF e[2] \in req[k].topics /\ e[1] \in {req[k].user, Everyone}
                THEN [perm |-> IF e[1] = Everyone THEN req[k].perm ELSE {"read", "write"},
                      owner |-> req[k].user]
                ELSE acl[e]],
             Goto(k, "kill")
      PROVE  Entered' /\ Paired' /\ Serving'
  <2>1. PICK u \in Users, ts \in SUBSET Topics, perm \in Perms :
          u = req[k].user /\ ts = req[k].topics /\ perm = req[k].perm
    BY <1>2 DEF Req
  <2>. DEFINE new(s) == [perm |-> IF s = Everyone THEN perm ELSE {"read", "write"}, owner |-> u]
  <2>2. \A e \in Subjects \X Patterns :
          acl'[e] = IF e[2] \in ts /\ e[1] \in {u, Everyone} THEN new(e[1]) ELSE acl[e]
    BY <1>4, <2>1 DEF Typed
  <2>3. ASSUME NEW s \in Subjects
        PROVE  /\ new(s) # NoRow /\ new(s).owner = u
               /\ s # Everyone => new(s).perm = {"read", "write"}
    <3>1. new(s) \in Row
      BY DEF Row, Perms
    <3>2. new(s) # NoRow
      BY <3>1, ReservationsAssumption
    <3>. QED
      BY <3>2
  <2>. HIDE DEF new
  <2>4. u # Everyone /\ u \in Subjects /\ Everyone \in Subjects /\ Everyone \notin Users
    BY ReservationsAssumption DEF Subjects
  <2>5. Entered'
    <3>. SUFFICES ASSUME NEW e \in Subjects \X Patterns, acl'[e] # NoRow
                  PROVE  /\ e[2] \in Topics /\ acl'[e].owner \in Users
                         /\ e[1] \in Users => acl'[e].owner = e[1] /\ acl'[e].perm = {"read", "write"}
      BY DEF Entered
    <3>1. CASE e[2] \in ts /\ e[1] \in {u, Everyone}
      BY <2>2, <2>3, <2>4, <3>1
    <3>2. CASE ~ (e[2] \in ts /\ e[1] \in {u, Everyone})
      BY <2>2, <3>2 DEF Entered
    <3>. QED
      BY <3>1, <3>2
  <2>6. ASSUME NEW v \in Users, NEW t \in Topics
        PROVE  (Reserved(v, t) <=> acl[<<Everyone, t>>] # NoRow /\ acl[<<Everyone, t>>].owner = v)'
    <3>1. <<v, t>> \in Subjects \X Patterns /\ <<Everyone, t>> \in Subjects \X Patterns
          /\ v # Everyone
      BY <2>4, Entries, ReservationsAssumption
    <3>2. CASE t \notin ts
      <4>1. acl'[<<v, t>>] = acl[<<v, t>>] /\ acl'[<<Everyone, t>>] = acl[<<Everyone, t>>]
        BY <2>2, <3>1, <3>2
      <4>. QED
        BY <4>1, SMTT(30) DEF Paired, Reserved
    <3>3. CASE t \in ts /\ v = u
      <4>1. acl'[<<v, t>>] = new(v) /\ acl'[<<Everyone, t>>] = new(Everyone)
        BY <2>2, <3>1, <3>3
      <4>. QED
        BY <2>3, <2>4, <3>3, <4>1 DEF Reserved
    <3>4. CASE t \in ts /\ v # u
      <4>1. acl'[<<v, t>>] = acl[<<v, t>>] /\ acl'[<<Everyone, t>>] = new(Everyone)
        BY <2>2, <3>1, <3>4
      <4>2. ~ Reserved(v, t)
        BY <1>2, <2>1, <3>4 DEF ClaimsFree
      <4>. QED
        BY <2>3, <2>4, <3>4, <4>1, <4>2, SMTT(30) DEF Reserved
    <3>. QED
      BY <3>2, <3>3, <3>4
  <2>7. Paired'
    BY <2>6 DEF Paired
  <2>8. ASSUME NEW t \in ts PROVE Reserved(u, t)'
    <3>1. <<u, t>> \in Subjects \X Patterns
      BY Entries
    <3>. QED
      BY <2>2, <2>3, <2>4, <3>1 DEF Reserved
  <2>9. Serving'
    BY <1>1, <1>4, <2>1, <2>8, ServingWentOn
  <2>. QED
    BY <2>5, <2>7, <2>9
<1>. QED
  BY <1>3, <1>4 DEF AddReservation
(* One step.                                                               *)
Kinds == Entered /\ Paired /\ Serving

\* The handlers begin, ...
LEMMA BeginsServe ==
    ASSUME OwnerInv, Kinds, NEW k \in Workers, NEW u \in Users,
           \/ \E t \in Topics : \/ \E e \in EveryonePerms : ReservationAdd(k, u, t, e)
                               \/ ReservationDelete(k, u, t)
           \/ \E new \in Tiers \cup {NoTier} : \/ SubscriptionAndTier(k, u, new)
                                             \/ TierChange(k, u, new)
           \/ AccountDelete(k, u)
           \/ \E a \in BOOLEAN : RoleChange(k, u, a)
    PROVE  Kinds' /\ state' = state
<1>. USE DEF OwnerInv, Kinds
<1>1. ASSUME NEW op, NEW pc \in {"allow", "has", "excess", "tier", "role"}, NEW ts, NEW perm,
             NEW new, Begin(k, op, u, pc, ts, perm, new)
      PROVE  Kinds' /\ state' = state
  BY <1>1, ServingBegan, SameWhole, WholeKeeps
<1>2. ASSUME NEW t \in Topics, NEW e \in EveryonePerms, ReservationAdd(k, u, t, e)
      PROVE  Kinds' /\ state' = state
  BY <1>1, <1>2 DEF ReservationAdd
<1>3. ASSUME NEW t \in Topics, ReservationDelete(k, u, t)
      PROVE  Kinds' /\ state' = state
  BY <1>1, <1>3 DEF ReservationDelete
<1>4. ASSUME NEW new \in Tiers \cup {NoTier},
             SubscriptionAndTier(k, u, new) \/ TierChange(k, u, new)
      PROVE  Kinds' /\ state' = state
  BY <1>1, <1>4 DEF SubscriptionAndTier, TierChange
<1>5. CASE AccountDelete(k, u)
  BY <1>1, <1>5 DEF AccountDelete
<1>6. ASSUME NEW a \in BOOLEAN, RoleChange(k, u, a)
      PROVE  Kinds' /\ state' = state
  BY <1>1, <1>6 DEF RoleChange
<1>. QED
  BY <1>2, <1>3, <1>4, <1>5, <1>6

\* ... read, ...
LEMMA ReadsServe ==
    ASSUME OwnerInv, Kinds, Alone, NEW k \in Workers,
           \/ AllowReservation(k) \/ HasReservation(k) \/ ReservationsCount(k)
           \/ KillSubscribers(k) \/ CheckReservationsLimit(k) \/ SetTier(k) \/ SetRole(k)
    PROVE  Kinds' /\ state' = state
<1>. USE DEF OwnerInv, Kinds
<1>1. req[k] # NoRequest /\ acl' = acl /\ state' = state
  BY DEF AllowReservation, HasReservation, ReservationsCount, KillSubscribers,
         CheckReservationsLimit, SetTier, SetRole, At
<1>2. PICK u \in Users : req[k].user = u
  BY <1>1 DEF Typed, Req
<1>3. Entered' /\ Paired'
  BY <1>1, SameWhole, WholeKeeps
<1>4. CASE Finish(k)
  BY <1>1, <1>3, <1>4, ServingFinished
<1>5. ASSUME NEW pc \in {"add", "has", "count", "set", "clear"}, Goto(k, pc)
      PROVE  Serving'
  BY <1>1, <1>2, <1>5, ServingWentOn
<1>6. ASSUME Goto(k, "remove"), \A t \in req[k].topics : Reserved(u, t)
      PROVE  Serving'
  <2>1. \A t \in req[k].topics : Reserved(u, t)'
    BY <1>1, <1>6 DEF Reserved
  <2>. QED
    BY <1>1, <1>2, <1>6, <2>1, ServingWentOn
<1>7. CASE HasReservation(k)
  BY <1>1, <1>2, <1>3, <1>4, <1>5, <1>6, <1>7 DEF HasReservation
<1>8. CASE ~ HasReservation(k)
  BY <1>1, <1>3, <1>4, <1>5, <1>8 DEF AllowReservation, ReservationsCount, KillSubscribers,
     CheckReservationsLimit, SetTier, SetRole
<1>. QED
  BY <1>7, <1>8

\* ... look for reservations over a limit ...
LEMMA ExcessServes ==
    ASSUME OwnerInv, Kinds, Alone, NEW k \in Workers, ReadExcess(k)
    PROVE  Kinds' /\ state' = state
<1>1. /\ req[k] # NoRequest /\ acl' = acl /\ state' = state /\ req[k] \in Req
      /\ req \in [Workers -> Req \cup {NoRequest}]
  BY DEF ReadExcess, At, OwnerInv, Typed
<1>2. PICK u \in Users : req[k].user = u
  BY <1>1 DEF Req
<1>3. PICK ts \in SUBSET Reservations(req[k].user), pc \in {"remove", "tier", "mark"} :
         req' = [req EXCEPT ![k] = Continued(req[k], pc, ts)]
  BY ExcessRead
<1>4. ts \in SUBSET Topics /\ \A t \in ts : Reserved(u, t)
  BY <1>2 DEF Reservations
<1>. DEFINE r == Continued(req[k], pc, ts)
<1>5. r.pc = pc /\ r.user = u /\ r.topics = ts
  BY <1>2 DEF Continued
<1>6. req' = [req EXCEPT ![k] = r]
  BY <1>1, <1>3
<1>. HIDE DEF r
<1>7. req'[k] = r /\ \A j \in Workers \ {k} : req'[j] = NoRequest
  BY <1>1, <1>6 DEF Alone
<1>8. state'[u] = "active" /\ \A t \in ts : Reserved(u, t)'
  BY <1>1, <1>2, <1>4 DEF Kinds, Serving, Reserved
<1>9. Serving'
  BY <1>5, <1>7, <1>8 DEF Serving, Reserved
<1>. QED
  BY <1>1, <1>9, SameWhole, WholeKeeps DEF OwnerInv, Kinds

\* ... and remove reservations.
LEMMA RemovesServe ==
    ASSUME OwnerInv, ListInv, Kinds, Alone, NEW k \in Workers,
           RemoveReservations(k) \/ MarkUserRemoved(k) \/ ClearAccess(k)
    PROVE  Whole /\ Kinds' /\ state' \in [Users -> {"active", "marked", "gone"}]
<1>. USE DEF OwnerInv, Kinds
<1>1. req[k] # NoRequest /\ req[k] \in Req
  BY DEF RemoveReservations, MarkUserRemoved, ClearAccess, At, Typed
<1>2. PICK u \in Users, ts \in SUBSET Topics : req[k].user = u /\ req[k].topics = ts
  BY <1>1 DEF Req
<1>3. CASE RemoveReservations(k)
  <2>1. \A t \in ts : Reserved(u, t)
    BY <1>2, <1>3 DEF RemoveReservations, At, Serving
  <2>2. Whole
    BY <1>2, <1>3, <2>1, ReservationsDeleted DEF RemoveReservations
  <2>3. Serving'
    BY <1>1, <1>2, <1>3, ServingFinished, ServingWentOn DEF RemoveReservations
  <2>. QED
    BY <1>3, <2>2, <2>3, WholeKeeps DEF RemoveReservations, ListInv
<1>4. CASE MarkUserRemoved(k) \/ ClearAccess(k)
  <2>1. Delete(RowsOf(u, Patterns)) /\ Finish(k)
    BY <1>2, <1>4 DEF MarkUserRemoved, ClearAccess
  <2>2. Whole
    BY <2>1, UserDeleted
  <2>3. Serving'
    BY <1>1, <2>1, ServingFinished
  <2>4. state' \in [Users -> {"active", "marked", "gone"}]
    BY <1>2, <1>4 DEF MarkUserRemoved, ClearAccess, ListInv
  <2>. QED
    BY <2>2, <2>3, <2>4, WholeKeeps
<1>. QED
  BY <1>3, <1>4

(* The manager deletes users who are marked, and no request is theirs.     *)
LEMMA DeletedServe ==
    ASSUME OwnerInv, ListInv, Kinds, NEW u \in Users, RemoveDeletedUsers(u)
    PROVE  Whole /\ Kinds' /\ state' \in [Users -> {"active", "marked", "gone"}]
<1>. USE DEF OwnerInv, Kinds
<1>1. /\ state[u] = "marked" /\ state' = [state EXCEPT ![u] = "gone"] /\ req' = req
      /\ Delete(RowsOf(u, Patterns))
  BY DEF RemoveDeletedUsers
<1>2. Whole /\ \A v \in Users, t \in Topics : v # u /\ Reserved(v, t) => Reserved(v, t)'
  BY <1>1, UserDeleted
<1>3. \A k \in Workers : req[k] # NoRequest => req[k] \in Req
  BY DEF Typed
<1>4. \A k \in Workers : req[k] # NoRequest =>
        req[k].user \in Users /\ req[k].topics \in SUBSET Topics /\ req[k].user # u
  BY <1>1, <1>3 DEF Req, Serving
<1>5. Serving'
  <2>. SUFFICES ASSUME NEW k \in Workers, req[k] # NoRequest
                PROVE  /\ state'[req[k].user] = "active"
                       /\ req[k].pc \in {"remove", "kill"} =>
                            \A t \in req[k].topics : acl'[<<req[k].user, t>>] # NoRow
                                                     /\ acl'[<<req[k].user, t>>].owner = req[k].user
    BY <1>1 DEF Serving, Reserved
  <2>1. PICK v \in Users : v = req[k].user /\ v # u
    BY <1>4
  <2>2. state'[v] = "active"
    BY <1>1, <2>1 DEF Serving, ListInv
  <2>3. req[k].pc \in {"remove", "kill"} => \A t \in req[k].topics : Reserved(v, t)'
    BY <1>2, <1>4, <2>1 DEF Serving
  <2>. QED
    BY <2>1, <2>2, <2>3 DEF Reserved
<1>. QED
  BY <1>1, <1>2, <1>5, WholeKeeps DEF ListInv
(* The operations in use are fixed, and who is there is one of three.      *)
LEMMA Stays ==
    ASSUME OwnerInv, ListInv, [Next]_vars
    PROVE  ops' = ops /\ state' \in [Users -> {"active", "marked", "gone"}]
<1>. DEFINE Goal == ops' = ops /\ state' \in [Users -> {"active", "marked", "gone"}]
<1>0. state \in [Users -> {"active", "marked", "gone"}]
  BY DEF ListInv
<1>1. ASSUME NEW k \in Workers, NEW u \in Users,
             \/ \E t \in Topics : \/ \E e \in EveryonePerms : ReservationAdd(k, u, t, e)
                                 \/ ReservationDelete(k, u, t)
             \/ \E new \in Tiers \cup {NoTier} : \/ SubscriptionAndTier(k, u, new)
                                               \/ TierChange(k, u, new)
             \/ AccountDelete(k, u)
             \/ \E a \in BOOLEAN : RoleChange(k, u, a)
      PROVE  Goal
  <2>1. ops' = ops /\ state' = state
    BY <1>1 DEF ReservationAdd, ReservationDelete, SubscriptionAndTier, TierChange,
                       AccountDelete, RoleChange, Begin
  <2>. QED
    BY <1>0, <2>1
<1>2. ASSUME NEW k \in Workers,
             \/ AllowReservation(k) \/ HasReservation(k) \/ ReservationsCount(k)
             \/ AddReservation(k) \/ KillSubscribers(k) \/ RemoveReservations(k)
             \/ ReadExcess(k) \/ CheckReservationsLimit(k) \/ SetTier(k)
             \/ SetRole(k) \/ ClearAccess(k)
      PROVE  Goal
  <2>1. ops' = ops /\ state' = state
    BY <1>2 DEF AllowReservation, HasReservation, ReservationsCount, AddReservation,
         KillSubscribers, RemoveReservations, ReadExcess, CheckReservationsLimit, SetTier,
         SetRole, ClearAccess
  <2>. QED
    BY <1>0, <2>1
<1>3. ASSUME NEW k \in Workers, MarkUserRemoved(k)
      PROVE  Goal
  <2>. DEFINE st == IF state[req[k].user] = "gone" THEN "gone" ELSE "marked"
  <2>1. ops' = ops /\ state' = [state EXCEPT ![req[k].user] = st]
    BY <1>3 DEF MarkUserRemoved
  <2>2. st \in {"active", "marked", "gone"}
    OBVIOUS
  <2>. HIDE DEF st
  <2>3. req[k] \in Req
    BY <1>3 DEF MarkUserRemoved, At, OwnerInv, Typed
  <2>4. req[k].user \in Users
    BY <2>3 DEF Req
  <2>. QED
    BY <1>0, <2>1, <2>2, <2>4
<1>4. ASSUME NEW u \in Users, RemoveDeletedUsers(u)
      PROVE  Goal
  BY <1>0, <1>4 DEF RemoveDeletedUsers
<1>5. ASSUME NEW s \in Subjects, NEW p \in GrantPatterns,
             \/ \E perm \in GrantPerms : AllowAccess(s, p, perm)
             \/ ResetAccess(s, p)
      PROVE  Goal
  <2>1. ops' = ops /\ state' = state
    BY <1>5 DEF AllowAccess, ResetAccess
  <2>. QED
    BY <1>0, <2>1
<1>6. ASSUME NEW c \in Conns,
             \/ \E s \in Subjects, t \in Topics : AuthorizeTopic(c, s, t)
             \/ Subscribe(c) \/ Unsubscribe(c)
      PROVE  Goal
  BY <1>0, <1>6 DEF AuthorizeTopic, Subscribe, Unsubscribe
<1>7. ASSUME UNCHANGED vars
      PROVE  Goal
  BY <1>0, <1>7 DEF vars
<1>. HIDE DEF Goal
<1>8. Goal
  BY <1>1, <1>2, <1>3, <1>4, <1>5, <1>6, <1>7 DEF Next
<1>. QED
  BY <1>8 DEF Goal

\* Every step keeps the list well formed, one request at a time.
LEMMA ListStep ==
    ASSUME OwnerInv, Alone, ListInv, [Next]_vars
    PROVE  ListInv'
<1>1. SUFFICES ASSUME "grant" \notin ops PROVE Kinds'
  BY Stays DEF ListInv, Kinds
<1>2. Kinds
  BY <1>1 DEF ListInv, Kinds
<1>3. ASSUME NEW k \in Workers, AddReservation(k)
      PROVE  Kinds'
  BY <1>2, <1>3, AddedIsPaired DEF Kinds
<1>4. ASSUME NEW k \in Workers,
             \/ AllowReservation(k) \/ HasReservation(k) \/ ReservationsCount(k)
             \/ KillSubscribers(k) \/ RemoveReservations(k) \/ ReadExcess(k)
             \/ CheckReservationsLimit(k) \/ SetTier(k)
             \/ MarkUserRemoved(k) \/ SetRole(k) \/ ClearAccess(k)
      PROVE  Kinds'
  BY <1>2, <1>4, ReadsServe, ExcessServes, RemovesServe
<1>5. ASSUME NEW s \in Subjects, NEW p \in GrantPatterns,
             \/ \E perm \in GrantPerms : AllowAccess(s, p, perm)
             \/ ResetAccess(s, p)
      PROVE  FALSE
  BY <1>1, <1>5 DEF AllowAccess, ResetAccess
<1>6. ASSUME acl' = acl /\ req' = req /\ state' = state
      PROVE  Kinds'
  BY <1>2, <1>6 DEF Kinds, Entered, Paired, Serving, Reserved
<1>7. ASSUME NEW c \in Conns,
             \/ \E s \in Subjects, t \in Topics : AuthorizeTopic(c, s, t)
             \/ Subscribe(c) \/ Unsubscribe(c)
      PROVE  Kinds'
  BY <1>6, <1>7 DEF AuthorizeTopic, Subscribe, Unsubscribe
<1>8. CASE UNCHANGED vars
  BY <1>6, <1>8 DEF vars
<1>. QED
  BY <1>2, <1>3, <1>4, <1>5, <1>7, <1>8, BeginsServe, DeletedServe DEF Next

\* An empty list is well formed.
LEMMA ListStarts == Init => ListInv
<1>. SUFFICES ASSUME Init PROVE ListInv
  OBVIOUS
<1>1. \A e \in Subjects \X Patterns : acl[e] = NoRow
  BY DEF Init
<1>2. Everyone \in Subjects /\ \A t \in Topics : <<Everyone, t>> \in Subjects \X Patterns
  BY ReservationsAssumption DEF Subjects
<1>3. Entered
  BY <1>1 DEF Entered
<1>4. Paired
  <2>. SUFFICES ASSUME NEW u \in Users, NEW t \in Topics
                PROVE  ~ Reserved(u, t) /\ acl[<<Everyone, t>>] = NoRow
    BY DEF Paired
  <2>. QED
    BY <1>1, <1>2, Entries DEF Reserved
<1>5. Serving /\ state \in [Users -> {"active", "marked", "gone"}]
  BY DEF Init, Serving
<1>. QED
  BY <1>3, <1>4, <1>5 DEF ListInv

\* With one request at a time no two claims meet.
LEMMA AloneApart == Alone => ClaimsApart
BY DEF Alone, ClaimsApart, Claiming

\* The invariants say that owners decide.
LEMMA Decides == OwnerInv /\ ListInv => OwnerDecides
<1>. SUFFICES ASSUME OwnerInv, ListInv, "grant" \notin ops, NEW t \in Topics, NEW u \in Users,
                     NEW p \in {"read", "write"}, Reserved(u, t)
              PROVE  /\ Authorize(u, t, p)
                     /\ \A s \in Subjects \ {u} : Authorize(s, t, p) =>
                          p \in acl[<<Everyone, t>>].perm \/ (s \in Users /\ role[s] = "admin")
  BY DEF OwnerDecides
<1>1. Authority
  BY AuthorityHolds
<1>. QED
  BY <1>1 DEF Authority, Subjects

(* Authorize answers for a reserved topic as its owner wants: the owner    *)
(* may read and write, and anyone else what the owner left to Everyone,    *)
(* whatever reservations, downgrades and deletions of accounts came before *)
(* and at whatever step of them, when the requests that change the list    *)
(* come one after the other and no administrator edits it.                 *)
THEOREM OwnersDecide == Spec /\ []Alone => []OwnerDecides
<1>1. OwnerInv /\ ClaimsApart /\ [Next]_vars => OwnerInv'
  BY StepKeeps
<1>2. OwnerInv /\ Alone /\ ListInv /\ [Next]_vars => ListInv'
  BY ListStep
<1>. QED
  BY <1>1, <1>2, AloneApart, Starts, ListStarts, Decides, PTL DEF Spec
-----------------------------------------------------------------------------
(* Whom a reservation shuts out.                                           *)

Shut(c, u) ==
    /\ Reserved(u, conn[c].topic) /\ conn[c].user # u
    /\ "read" \notin acl[<<Everyone, conn[c].topic>>].perm

(* A subscriber who is shut out was overtaken by the reservation, or is    *)
(* about to be cancelled.                                                  *)
Known(c) ==
    conn[c].st # "none" /\ (\E u \in Users : Shut(c, u)) =>
        \/ c \in overlap
        \/ conn[c].st = "live" /\ \E k \in Workers : At(k, "kill") /\ conn[c].topic \in req[k].topics

NoRoles == (\A u \in Users : role[u] = "user") /\ \A k \in Workers : ~ At(k, "role")

SubsInv ==
    /\ conn \in [Conns -> Conn]
    /\ ops \cap {"grant", "role"} = {} => NoRoles /\ \A c \in Conns : Known(c)

(* Requests that are about to cancel subscribers go on to do so.           *)
KillsStay == \A j \in Workers : At(j, "kill") => At(j, "kill")' /\ req'[j] = req[j]

\* Another request's kill is still to come.
LEMMA OthersKill ==
    ASSUME NEW k \in Workers, \A j \in Workers \ {k} : req'[j] = req[j], ~ At(k, "kill")
    PROVE  KillsStay
BY DEF KillsStay, At

\* Nothing changes for the connections.
LEMMA SameKnown ==
    ASSUME \A c \in Conns : Known(c), conn \in [Conns -> Conn], Whole, KillsStay,
           conn' = conn, overlap' = overlap
    PROVE  \A c \in Conns : Known(c)'
<1>. SUFFICES ASSUME NEW c \in Conns, NEW u \in Users, conn[c].st # "none", Shut(c, u)'
              PROVE  \/ c \in overlap
                     \/ /\ conn[c].st = "live"
                        /\ \E k \in Workers : At(k, "kill")' /\ conn[c].topic \in req'[k].topics
  BY DEF Known
<1>1. u \in Subjects /\ Everyone \in Subjects /\ conn[c].topic \in Topics
  BY DEF Subjects, Conn
<1>2. \A s \in Subjects : acl'[<<s, conn[c].topic>>] = acl[<<s, conn[c].topic>>]
  BY <1>1 DEF Whole, Shut, Reserved
<1>3. Shut(c, u)
  BY <1>1, <1>2 DEF Shut, Reserved
<1>. QED
  BY <1>3 DEF Known, KillsStay

(* AddReservation: whoever is authorized then is in overlap, and the       *)
(* subscribers of the topic are cancelled next.                            *)
LEMMA AddedKnown ==
    ASSUME OwnerInv, SubsInv, \A c \in Conns : Known(c), NEW k \in Workers, AddReservation(k)
    PROVE  \A c \in Conns : Known(c)'
<1>1. req[k] # NoRequest /\ req[k].pc = "add" /\ conn' = conn /\ req[k] \in Req
  BY DEF AddReservation, At, OwnerInv, Typed
<1>2. ~ At(k, "kill")
  BY <1>1 DEF At
<1>3. CASE Finish(k) /\ acl' = acl /\ overlap' = overlap
  <2>1. KillsStay
    BY <1>2, <1>3, OthersKill DEF Finish, OwnerInv, Typed
  <2>. QED
    BY <1>1, <1>3, <2>1, SameWhole, SameKnown DEF SubsInv
<1>4. ASSUME acl' = [e \in DOMAIN acl |->
                IF e[2] \in req[k].topics /\ e[1] \in {req[k].user, Everyone}
                THEN [perm |-> IF e[1] = Everyone THEN req[k].perm ELSE {"read", "write"},
                      owner |-> req[k].user]
                ELSE acl[e]],
             overlap' = overlap \cup {c \in Conns : conn[c].st = "authorized"},
             Goto(k, "kill")
      PROVE  \A c \in Conns : Known(c)'
  <2>0. /\ req'[k] = [req[k] EXCEPT !.pc = "kill"]
        /\ \A j \in Workers \ {k} : req'[j] = req[j]
    BY <1>1, <1>4 DEF Goto, OwnerInv, Typed
  <2>1. KillsStay
    BY <1>2, <2>0, OthersKill
  <2>2. At(k, "kill")' /\ req'[k].topics = req[k].topics
    <3>1. /\ req'[k] \in Req
          /\ req'[k].pc = "kill" /\ req'[k].topics = req[k].topics
      BY <1>1, <2>0 DEF Req
    <3>. QED
      BY <3>1, ReservationsAssumption DEF At
  <2>. SUFFICES ASSUME NEW c \in Conns, NEW u \in Users, conn[c].st # "none", Shut(c, u)'
                PROVE  \/ c \in overlap'
                       \/ /\ conn[c].st = "live"
                          /\ \E j \in Workers : At(j, "kill")' /\ conn[c].topic \in req'[j].topics
    BY <1>1 DEF Known
  <2>3. conn[c] \in Conn
    BY DEF SubsInv
  <2>4. conn[c].topic \in Topics /\ conn[c].st \in {"authorized", "live"}
    BY <2>3 DEF Conn
  <2>5. CASE conn[c].topic \in req[k].topics
    BY <1>4, <2>2, <2>4, <2>5
  <2>6. CASE conn[c].topic \notin req[k].topics
    <3>1. <<Everyone, conn[c].topic>> \in Subjects \X Patterns
      BY <2>4, ReservationsAssumption DEF Subjects
    <3>2. /\ acl'[<<u, conn[c].topic>>] = acl[<<u, conn[c].topic>>]
          /\ acl'[<<Everyone, conn[c].topic>>] = acl[<<Everyone, conn[c].topic>>]
      BY <1>4, <2>4, <2>6, <3>1, Entries DEF OwnerInv, Typed
    <3>3. Shut(c, u)
      BY <1>1, <3>2 DEF Shut, Reserved
    <3>. QED
      BY <1>4, <2>1, <3>3 DEF Known, KillsStay
  <2>. QED
    BY <2>5, <2>6
<1>. QED
  BY <1>3, <1>4 DEF AddReservation

(* CancelSubscribersExceptUser leaves the owner, whom nothing shuts out.   *)
LEMMA KilledKnown ==
    ASSUME OwnerInv, Serving, Alone, SubsInv, \A c \in Conns : Known(c),
           NEW k \in Workers, KillSubscribers(k)
    PROVE  \A c \in Conns : Known(c)'
<1>1. /\ req[k] # NoRequest /\ req[k].pc = "kill" /\ acl' = acl /\ req[k] \in Req
      /\ overlap' = {c \in overlap : conn'[c].st # "none"}
  BY DEF KillSubscribers, At, OwnerInv, Typed
<1>2. PICK v \in Users : v = req[k].user
  BY <1>1 DEF Req
<1>. SUFFICES ASSUME NEW c \in Conns, NEW u \in Users, conn'[c].st # "none", Shut(c, u)'
              PROVE  c \in overlap'
  BY DEF Known
<1>3. conn[c] \in Conn
  BY DEF SubsInv
<1>4. /\ conn'[c] = conn[c]
      /\ conn[c].st = "live" /\ conn[c].topic \in req[k].topics => conn[c].user = v
  <2>1. CASE /\ conn[c].st = "live" /\ conn[c].topic \in req[k].topics
             /\ conn[c].user # req[k].user
    <3>1. conn'[c] = [conn[c] EXCEPT !.st = "none"]
      BY <2>1 DEF KillSubscribers
    <3>. QED
      BY <1>3, <3>1 DEF Conn
  <2>. QED
    BY <1>2, <2>1 DEF KillSubscribers
<1>5. Shut(c, u) /\ conn[c].st # "none"
  BY <1>1, <1>4 DEF Shut, Reserved
<1>6. ASSUME c \notin overlap
      PROVE  FALSE
  <2>1. conn[c].st = "live" /\ \E j \in Workers : At(j, "kill") /\ conn[c].topic \in req[j].topics
    BY <1>5, <1>6 DEF Known
  <2>2. conn[c].topic \in req[k].topics
    BY <1>1, <2>1 DEF Alone, At
  <2>3. Reserved(v, conn[c].topic) /\ conn[c].user = v
    BY <1>1, <1>2, <1>4, <2>1, <2>2 DEF Serving
  <2>4. conn[c].topic \in Topics
    BY <1>3 DEF Conn
  <2>. QED
    BY <1>5, <2>3, <2>4 DEF Shut, OwnerInv, OneOwner
<1>. QED
  BY <1>1, <1>4, <1>5, <1>6
(* Subscribers come and go.                                                *)
LEMMA ConnsKnown ==
    ASSUME OwnerInv, ListInv, SubsInv, NoRoles, "grant" \notin ops, \A c \in Conns : Known(c),
           NEW b \in Conns,
           \/ \E s \in Subjects, t \in Topics : AuthorizeTopic(b, s, t)
           \/ Subscribe(b) \/ Unsubscribe(b)
    PROVE  \A c \in Conns : Known(c)'
<1>1. acl' = acl /\ req' = req /\ overlap \ {b} \subseteq overlap'
  BY DEF AuthorizeTopic, Subscribe, Unsubscribe
<1>2. conn \in [Conns -> Conn]
  BY DEF SubsInv
<1>3. ASSUME NEW c \in Conns, c # b
      PROVE  Known(c)'
  <2>1. conn'[c] = conn[c]
    BY <1>2, <1>3 DEF AuthorizeTopic, Subscribe, Unsubscribe
  <2>. QED
    BY <1>1, <1>3, <2>1 DEF Known, Shut, Reserved, At
<1>4. ASSUME NEW s \in Subjects, NEW t \in Topics, AuthorizeTopic(b, s, t)
      PROVE  Known(b)'
  <2>1. conn'[b].user = s /\ conn'[b].topic = t /\ Authorize(s, t, "read")
    BY <1>2, <1>4 DEF AuthorizeTopic
  <2>2. \A u \in Users : Reserved(u, t) => s = u \/ "read" \in acl[<<Everyone, t>>].perm
    BY <2>1, AuthorityHolds DEF Authority, NoRoles
  <2>. QED
    BY <1>1, <2>1, <2>2 DEF Known, Shut, Reserved
<1>5. ASSUME Subscribe(b)
      PROVE  Known(b)'
  <2>1. conn[b] \in Conn /\ conn'[b] = [conn[b] EXCEPT !.st = "live"]
    BY <1>2, <1>5 DEF Subscribe
  <2>2. conn'[b].user = conn[b].user /\ conn'[b].topic = conn[b].topic
    BY <2>1 DEF Conn
  <2>. QED
    BY <1>1, <1>5, <2>2 DEF Subscribe, Known, Shut, Reserved
<1>6. ASSUME Unsubscribe(b)
      PROVE  Known(b)'
  <2>1. conn[b] \in Conn /\ conn'[b] = [conn[b] EXCEPT !.st = "none"]
    BY <1>2, <1>6 DEF Unsubscribe
  <2>2. conn'[b].st = "none"
    BY <2>1 DEF Conn
  <2>. QED
    BY <2>2 DEF Known
<1>. QED
  BY <1>3, <1>4, <1>5, <1>6

\* Connections stay connections.
LEMMA ConnsTyped ==
    ASSUME SubsInv, [Next]_vars
    PROVE  conn' \in [Conns -> Conn]
<1>0. conn \in [Conns -> Conn]
  BY DEF SubsInv
<1>1. ASSUME NEW k \in Workers, NEW u \in Users,
             \/ \E t \in Topics : \/ \E e \in EveryonePerms : ReservationAdd(k, u, t, e)
                                 \/ ReservationDelete(k, u, t)
             \/ \E new \in Tiers \cup {NoTier} : \/ SubscriptionAndTier(k, u, new)
                                               \/ TierChange(k, u, new)
             \/ AccountDelete(k, u)
             \/ \E a \in BOOLEAN : RoleChange(k, u, a)
      PROVE  conn' = conn
  BY <1>1 DEF ReservationAdd, ReservationDelete, SubscriptionAndTier, TierChange,
                     AccountDelete, RoleChange, Begin
<1>2. ASSUME NEW k \in Workers,
             \/ AllowReservation(k) \/ HasReservation(k) \/ ReservationsCount(k)
             \/ AddReservation(k) \/ RemoveReservations(k)
             \/ ReadExcess(k) \/ CheckReservationsLimit(k) \/ SetTier(k)
             \/ MarkUserRemoved(k) \/ SetRole(k) \/ ClearAccess(k)
      PROVE  conn' = conn
  BY <1>2 DEF AllowReservation, HasReservation, ReservationsCount, AddReservation,
       RemoveReservations, ReadExcess, CheckReservationsLimit, SetTier, MarkUserRemoved,
       SetRole, ClearAccess
<1>3. \A c \in Conns : [conn[c] EXCEPT !.st = "none"] \in Conn
  BY <1>0 DEF Conn
<1>4. ASSUME NEW k \in Workers, KillSubscribers(k)
      PROVE  conn' \in [Conns -> Conn]
  BY <1>0, <1>3, <1>4 DEF KillSubscribers
<1>5. ASSUME NEW s \in Subjects, NEW p \in GrantPatterns, ResetAccess(s, p)
      PROVE  conn' \in [Conns -> Conn]
  <2>1. PICK K \in SUBSET Conns :
          conn' = [c \in Conns |-> IF c \in K THEN [conn[c] EXCEPT !.st = "none"] ELSE conn[c]]
    BY <1>5 DEF ResetAccess
  <2>. QED
    BY <1>0, <1>3, <2>1
<1>6. ASSUME NEW c \in Conns, NEW s \in Subjects, NEW t \in Topics, AuthorizeTopic(c, s, t)
      PROVE  conn' \in [Conns -> Conn]
  BY <1>0, <1>6 DEF AuthorizeTopic, Conn
<1>7. ASSUME NEW c \in Conns, Subscribe(c) \/ Unsubscribe(c)
      PROVE  conn' \in [Conns -> Conn]
  <2>1. [conn[c] EXCEPT !.st = "none"] \in Conn /\ [conn[c] EXCEPT !.st = "live"] \in Conn
    BY <1>0 DEF Conn
  <2>. QED
    BY <1>0, <1>7, <2>1 DEF Subscribe, Unsubscribe
<1>8. ASSUME NEW u \in Users, RemoveDeletedUsers(u)
      PROVE  conn' = conn
  BY <1>8 DEF RemoveDeletedUsers
<1>9. ASSUME NEW s \in Subjects, NEW p \in GrantPatterns, NEW perm \in GrantPerms,
             AllowAccess(s, p, perm)
      PROVE  conn' = conn
  BY <1>9 DEF AllowAccess
<1>10. ASSUME UNCHANGED vars
       PROVE  conn' = conn
  BY <1>10 DEF vars
<1>. QED
  BY <1>0, <1>1, <1>2, <1>4, <1>5, <1>6, <1>7, <1>8, <1>9, <1>10 DEF Next
(* What worker k does leaves the other requests alone, and changes no role. *)
Moves(k) == (\A j \in Workers \ {k} : req'[j] = req[j]) /\ ~ At(k, "role")'

\* A request that ends or goes on moves alone.
LEMMA MovesOn ==
    ASSUME Typed, NEW k \in Workers, req[k] # NoRequest,
           Finish(k) \/ \E pc \in {"allow", "has", "count", "add", "kill", "remove", "tier",
                                   "set", "mark", "clear"} : Goto(k, pc)
    PROVE  Moves(k)
<1>1. CASE Finish(k)
  BY <1>1 DEF Finish, Typed, Moves, At
<1>2. ASSUME NEW pc \in {"allow", "has", "count", "add", "kill", "remove", "tier",
                         "set", "mark", "clear"}, Goto(k, pc)
      PROVE  Moves(k)
  <2>1. req[k] \in Req /\ req'[k] = [req[k] EXCEPT !.pc = pc]
        /\ \A j \in Workers \ {k} : req'[j] = req[j]
    BY <1>2 DEF Goto, Typed
  <2>2. req'[k].pc = pc
    BY <2>1 DEF Req
  <2>. QED
    BY <2>1, <2>2 DEF Moves, At
<1>. QED
  BY <1>1, <1>2

\* No role changes when a request moves.
LEMMA MovesRoles ==
    ASSUME NoRoles, role' = role, NEW k \in Workers, Moves(k)
    PROVE  NoRoles'
BY DEF NoRoles, Moves, At

\* Connections stay known when a request moves.
LEMMA MovesKnown ==
    ASSUME SubsInv, \A c \in Conns : Known(c), NoRoles, NEW k \in Workers, Moves(k),
           ~ At(k, "kill"), Whole, role' = role, conn' = conn, overlap' = overlap
    PROVE  NoRoles' /\ \A c \in Conns : Known(c)'
<1>1. KillsStay
  BY OthersKill DEF Moves
<1>2. NoRoles'
  BY MovesRoles
<1>. QED
  BY <1>1, <1>2, SameKnown DEF SubsInv

\* The handlers begin, ...
LEMMA BeginsMove ==
    ASSUME Typed, "role" \notin ops, NEW k \in Workers, NEW u \in Users,
           \/ \E t \in Topics : \/ \E e \in EveryonePerms : ReservationAdd(k, u, t, e)
                               \/ ReservationDelete(k, u, t)
           \/ \E new \in Tiers \cup {NoTier} : \/ SubscriptionAndTier(k, u, new)
                                             \/ TierChange(k, u, new)
           \/ AccountDelete(k, u)
           \/ \E a \in BOOLEAN : RoleChange(k, u, a)
    PROVE  /\ Moves(k) /\ ~ At(k, "kill") /\ Whole
           /\ role' = role /\ conn' = conn /\ overlap' = overlap
<1>. DEFINE Goal == /\ Moves(k) /\ ~ At(k, "kill") /\ Whole
                    /\ role' = role /\ conn' = conn /\ overlap' = overlap
<1>1. ASSUME NEW op, NEW pc \in {"allow", "has", "excess", "tier"}, NEW ts, NEW perm,
             NEW new, Begin(k, op, u, pc, ts, perm, new)
      PROVE  Goal
  <2>. DEFINE r == [op |-> op, pc |-> pc, user |-> u, topics |-> ts, perm |-> perm,
                    tier |-> tier[u], role |-> role[u], new |-> new]
  <2>1. /\ req' = [req EXCEPT ![k] = r] /\ req[k] = NoRequest /\ acl' = acl
        /\ role' = role /\ conn' = conn /\ overlap' = overlap
    BY <1>1 DEF Begin
  <2>2. r.pc = pc
    OBVIOUS
  <2>. HIDE DEF r
  <2>3. Moves(k) /\ ~ At(k, "kill")
    BY <2>1, <2>2 DEF Typed, Moves, At
  <2>. QED
    BY <2>1, <2>3, SameWhole
<1>. HIDE DEF Goal
<1>2. ASSUME NEW t \in Topics, NEW e \in EveryonePerms, ReservationAdd(k, u, t, e)
      PROVE  Goal
  BY <1>1, <1>2 DEF ReservationAdd
<1>3. ASSUME NEW t \in Topics, ReservationDelete(k, u, t)
      PROVE  Goal
  BY <1>1, <1>3 DEF ReservationDelete
<1>4. ASSUME NEW new \in Tiers \cup {NoTier},
             SubscriptionAndTier(k, u, new) \/ TierChange(k, u, new)
      PROVE  Goal
  BY <1>1, <1>4 DEF SubscriptionAndTier, TierChange
<1>5. ASSUME AccountDelete(k, u)
      PROVE  Goal
  BY <1>1, <1>5 DEF AccountDelete
<1>6. ASSUME NEW a \in BOOLEAN, RoleChange(k, u, a)
      PROVE  FALSE
  BY <1>6 DEF RoleChange, Begin
<1>7. Goal
  BY <1>2, <1>3, <1>4, <1>5, <1>6
<1>. QED
  BY <1>7 DEF Goal

\* ... and go on.
LEMMA RequestsMove ==
    ASSUME OwnerInv, NoRoles, NEW k \in Workers,
           \/ AllowReservation(k) \/ HasReservation(k) \/ ReservationsCount(k)
           \/ AddReservation(k) \/ KillSubscribers(k) \/ RemoveReservations(k)
           \/ ReadExcess(k) \/ CheckReservationsLimit(k) \/ SetTier(k)
           \/ MarkUserRemoved(k) \/ SetRole(k) \/ ClearAccess(k)
    PROVE  Moves(k) /\ role' = role
<1>1. role' = role /\ req[k] # NoRequest /\ ~ SetRole(k)
  BY DEF AllowReservation, HasReservation, ReservationsCount, AddReservation, KillSubscribers,
         RemoveReservations, ReadExcess, CheckReservationsLimit, SetTier, MarkUserRemoved,
         SetRole, ClearAccess, NoRoles, At
<1>2. CASE ReadExcess(k)
  <2>1. PICK ts \in SUBSET Reservations(req[k].user), pc \in {"remove", "tier", "mark"} :
           req' = [req EXCEPT ![k] = Continued(req[k], pc, ts)]
    BY <1>2, ExcessRead
  <2>2. Continued(req[k], pc, ts).pc = pc
    BY DEF Continued
  <2>3. Moves(k)
    BY <2>1, <2>2 DEF OwnerInv, Typed, Moves, At
  <2>. QED
    BY <1>1, <2>3
<1>3. CASE HasReservation(k) \/ RemoveReservations(k)
  <2>1. \/ Finish(k)
        \/ \E pc \in {"add", "count", "remove", "tier", "mark"} : Goto(k, pc)
    BY <1>3 DEF HasReservation, RemoveReservations
  <2>. QED
    BY <1>1, <2>1, MovesOn DEF OwnerInv
<1>4. CASE AllowReservation(k) \/ ReservationsCount(k) \/ AddReservation(k)
           \/ CheckReservationsLimit(k)
  <2>1. \/ Finish(k)
        \/ \E pc \in {"add", "has", "kill", "set"} : Goto(k, pc)
    BY <1>4 DEF AllowReservation, ReservationsCount, AddReservation, CheckReservationsLimit
  <2>. QED
    BY <1>1, <2>1, MovesOn DEF OwnerInv
<1>5. CASE KillSubscribers(k) \/ SetTier(k) \/ MarkUserRemoved(k) \/ ClearAccess(k)
  <2>1. Finish(k)
    BY <1>5 DEF KillSubscribers, SetTier, MarkUserRemoved, ClearAccess
  <2>. QED
    BY <1>1, <2>1, MovesOn DEF OwnerInv
<1>. QED
  BY <1>1, <1>2, <1>3, <1>4, <1>5
\* Every step keeps the subscribers known.
LEMMA SubsStep ==
    ASSUME OwnerInv, Alone, ListInv, SubsInv, [Next]_vars
    PROVE  SubsInv'
<1>1. SUFFICES ASSUME ops \cap {"grant", "role"} = {}
               PROVE  NoRoles' /\ \A c \in Conns : Known(c)'
  BY Stays, ConnsTyped DEF SubsInv
<1>2. "grant" \notin ops /\ "role" \notin ops
  BY <1>1
<1>3. NoRoles /\ \A c \in Conns : Known(c)
  BY <1>1 DEF SubsInv
<1>4. Kinds /\ Typed
  BY <1>2 DEF ListInv, Kinds, OwnerInv
<1>. DEFINE Goal == NoRoles' /\ \A c \in Conns : Known(c)'
<1>5. ASSUME NEW k \in Workers, NEW u \in Users,
             \/ \E t \in Topics : \/ \E e \in EveryonePerms : ReservationAdd(k, u, t, e)
                                 \/ ReservationDelete(k, u, t)
             \/ \E new \in Tiers \cup {NoTier} : \/ SubscriptionAndTier(k, u, new)
                                               \/ TierChange(k, u, new)
             \/ AccountDelete(k, u)
             \/ \E a \in BOOLEAN : RoleChange(k, u, a)
      PROVE  Goal
  <2>1. /\ Moves(k) /\ ~ At(k, "kill") /\ Whole
        /\ role' = role /\ conn' = conn /\ overlap' = overlap
    BY <1>2, <1>4, <1>5, BeginsMove
  <2>. QED
    BY <1>3, <2>1, MovesKnown
<1>6. ASSUME NEW k \in Workers, AddReservation(k)
      PROVE  Goal
  BY <1>3, <1>6, RequestsMove, MovesRoles, AddedKnown
<1>7. ASSUME NEW k \in Workers, KillSubscribers(k)
      PROVE  Goal
  BY <1>3, <1>4, <1>7, RequestsMove, MovesRoles, KilledKnown DEF Kinds
<1>8. ASSUME NEW k \in Workers,
             \/ AllowReservation(k) \/ HasReservation(k) \/ ReservationsCount(k)
             \/ RemoveReservations(k)
             \/ ReadExcess(k) \/ CheckReservationsLimit(k) \/ SetTier(k)
             \/ MarkUserRemoved(k) \/ SetRole(k) \/ ClearAccess(k)
      PROVE  Goal
  <2>1. Moves(k) /\ role' = role
    BY <1>3, <1>8, RequestsMove
  <2>2. ~ At(k, "kill") /\ conn' = conn /\ overlap' = overlap
    BY <1>8 DEF At, AllowReservation, HasReservation, ReservationsCount, RemoveReservations,
         ReadExcess, CheckReservationsLimit, SetTier, MarkUserRemoved, SetRole, ClearAccess
  <2>3. CASE RemoveReservations(k) \/ MarkUserRemoved(k) \/ ClearAccess(k)
    <3>1. Whole
      BY <1>4, <2>3, RemovesServe
    <3>. QED
      BY <1>3, <2>1, <2>2, <3>1, MovesKnown
  <2>4. CASE acl' = acl
    BY <1>3, <2>1, <2>2, <2>4, SameWhole, MovesKnown
  <2>. QED
    BY <1>8, <2>3, <2>4 DEF AllowReservation, HasReservation, ReservationsCount, ReadExcess,
       CheckReservationsLimit, SetTier, SetRole
<1>9. ASSUME req' = req, role' = role
      PROVE  NoRoles' /\ KillsStay
  BY <1>3, <1>9 DEF NoRoles, At, KillsStay
<1>10. ASSUME NEW u \in Users, RemoveDeletedUsers(u)
       PROVE  Goal
  <2>1. Whole
    BY <1>4, <1>10, DeletedServe
  <2>2. req' = req /\ role' = role /\ conn' = conn /\ overlap' = overlap
    BY <1>10 DEF RemoveDeletedUsers
  <2>. QED
    BY <1>3, <1>9, <2>1, <2>2, SameKnown DEF SubsInv
<1>11. ASSUME NEW c \in Conns,
              \/ \E s \in Subjects, t \in Topics : AuthorizeTopic(c, s, t)
              \/ Subscribe(c) \/ Unsubscribe(c)
       PROVE  Goal
  <2>1. req' = req /\ role' = role
    BY <1>11 DEF AuthorizeTopic, Subscribe, Unsubscribe
  <2>. QED
    BY <1>2, <1>3, <1>9, <1>11, <2>1, ConnsKnown
<1>12. ASSUME NEW s \in Subjects, NEW p \in GrantPatterns,
              \/ \E perm \in GrantPerms : AllowAccess(s, p, perm)
              \/ ResetAccess(s, p)
       PROVE  FALSE
  BY <1>2, <1>12 DEF AllowAccess, ResetAccess
<1>13. ASSUME UNCHANGED vars
       PROVE  Goal
  <2>1. req' = req /\ role' = role /\ conn' = conn /\ overlap' = overlap /\ acl' = acl
    BY <1>13 DEF vars
  <2>. QED
    BY <1>3, <1>9, <2>1, SameWhole, SameKnown DEF SubsInv
<1>. HIDE DEF Goal
<1>14. Goal
  BY <1>5, <1>6, <1>7, <1>8, <1>10, <1>11, <1>12, <1>13 DEF Next
<1>. QED
  BY <1>14 DEF Goal

\* Nobody is connected at first.
LEMMA SubsStart == Init => SubsInv
<1>. SUFFICES ASSUME Init PROVE SubsInv
  OBVIOUS
<1>1. (CHOOSE t \in Topics : TRUE) \in Topics
  BY ReservationsAssumption
<1>2. conn \in [Conns -> Conn]
  BY <1>1 DEF Init, Conn, Subjects
<1>3. \A c \in Conns : conn[c].st = "none"
  BY DEF Init
<1>4. NoRoles
  BY DEF Init, NoRoles, At
<1>. QED
  BY <1>2, <1>3, <1>4 DEF SubsInv, Known

\* The invariants say that subscribers are killed.
LEMMA Kills == OwnerInv /\ ListInv /\ SubsInv => SubscribersKilled
<1>. SUFFICES ASSUME OwnerInv, ListInv, SubsInv, ops \cap {"grant", "role"} = {},
                     NEW c \in Conns, NEW u \in Users,
                     conn[c].st = "live", Reserved(u, conn[c].topic),
                     ~ \E k \in Workers : At(k, "kill") /\ conn[c].topic \in req[k].topics,
                     ~ Authorize(conn[c].user, conn[c].topic, "read")
              PROVE  c \in overlap
  BY DEF SubscribersKilled
<1>1. conn[c] \in Conn /\ "grant" \notin ops
  BY DEF SubsInv
<1>2. conn[c].user \in Subjects /\ conn[c].topic \in Topics
  BY <1>1 DEF Conn
<1>3. Shut(c, u)
  BY <1>1, <1>2, AuthorityHolds DEF Authority, Shut
<1>. QED
  BY <1>3 DEF SubsInv, Known

(* Reserving a topic cancels the subscribers whom it shuts out: one that   *)
(* is left had passed its authorization and not topic.Subscribe when       *)
(* AddReservation took place, when the requests that change the list come  *)
(* one after the other, no administrator edits the list and no role is     *)
(* changed.                                                                *)
THEOREM SubscribersAreKilled == Spec /\ []Alone => []SubscribersKilled
<1>1. OwnerInv /\ ClaimsApart /\ [Next]_vars => OwnerInv'
  BY StepKeeps
<1>2. OwnerInv /\ Alone /\ ListInv /\ [Next]_vars => ListInv'
  BY ListStep
<1>3. OwnerInv /\ Alone /\ ListInv /\ SubsInv /\ [Next]_vars => SubsInv'
  BY SubsStep
<1>. QED
  BY <1>1, <1>2, <1>3, AloneApart, Starts, ListStarts, SubsStart, Kills, PTL DEF Spec

(* Both hold on a server that handles one request at a time.               *)
THEOREM OneRequestDecides ==
    ASSUME NEW w, Workers = {w}
    PROVE  Spec => [](OwnerDecides /\ SubscribersKilled)
<1>1. Alone
  BY DEF Alone
<1>. QED
  BY <1>1, OwnersDecide, SubscribersAreKilled, PTL

-------------------------------------------------------------------------------
(* The session of a browser *)

PageSteps == {"closed", "idle", "reload", "login", "signup", "store", "stored", "logout", "delete",
              "reset", "cleared"}
PageState == [step : PageSteps, user : L!Anyone, who : L!Anyone, put : L!Anyone, fetched : L!Anyone]

SessionTyped ==
  /\ local \in L!Anyone /\ replica \in L!Anyone
  /\ page \in [Tabs -> PageState]
  /\ data \in [L!Anyone -> SUBSET L!Anyone]
  /\ moved \in SUBSET Tabs /\ mixed \in SUBSET L!Anyone

\* The page is that of a user: it was not left, nor closed.
Shown(p) == p.step # "closed" /\ p.step # "reload"

\* A page whose session nobody has changed is that of the user who is logged in, and what
\* it fetched is of its user.
OwnPages ==
  \A t \in Tabs : t \notin moved =>
    /\ Shown(page[t]) => page[t].user = local
    /\ page[t].fetched # None => page[t].fetched = page[t].user

\* At most one tab is about to change the session; while none is, the replica is the
\* session, or is yet to be written for the first time.
Replicated ==
  torn = "no" =>
    /\ \A t, q \in Tabs : page[t].step \in L!Changing /\ page[q].step \in L!Changing => t = q
    /\ \A t \in Tabs : page[t].step = "stored" => replica = page[t].who
    /\ \A t \in Tabs : page[t].step = "cleared" => replica = None
    /\ (\A t \in Tabs : page[t].step \notin L!Changing) =>
         \/ replica = local
         \/ replica = None /\ \E t \in Tabs : page[t].put = local
         \/ replica = None /\ \A t \in Tabs : page[t].step = "closed"

SessionOK == SessionTyped /\ OwnPages /\ L!OwnData /\ Replicated

\* Which steps of a page change the session.
LEMMA ChangingSteps ==
  /\ "store" \in L!Changing /\ "stored" \in L!Changing /\ "reset" \in L!Changing /\ "cleared" \in L!Changing
  /\ "closed" \notin L!Changing /\ "idle" \notin L!Changing /\ "reload" \notin L!Changing
  /\ "login" \notin L!Changing /\ "signup" \notin L!Changing /\ "logout" \notin L!Changing
  /\ "delete" \notin L!Changing
BY DEF L!Changing

\* One page changes, and the others stay.
LEMMA PageStep ==
  ASSUME SessionTyped, NEW t \in Tabs, NEW r \in PageState, page' = [page EXCEPT ![t] = r]
  PROVE  /\ page' \in [Tabs -> PageState] /\ page'[t] = r
         /\ \A q \in Tabs : q # t => page'[q] = page[q]
BY DEF SessionTyped

\* Step changes the step of the page only.
LEMMA StepOK ==
  ASSUME SessionTyped, NEW t \in Tabs, NEW s \in PageSteps, L!Step(t, s)
  PROVE  \E r \in PageState :
           /\ page' = [page EXCEPT ![t] = r]
           /\ r.step = s /\ r.user = page[t].user /\ r.who = page[t].who /\ r.put = page[t].put
           /\ r.fetched = page[t].fetched
<1> DEFINE r == [page[t] EXCEPT !.step = s]
<1>1. page[t] \in PageState BY DEF SessionTyped
<1>2. r \in PageState BY <1>1 DEF PageState
<1>3. /\ r.step = s /\ r.user = page[t].user /\ r.who = page[t].who /\ r.put = page[t].put
      /\ r.fetched = page[t].fetched
  BY <1>1 DEF PageState
<1>4. page' = [page EXCEPT ![t] = r] BY DEF L!Step
<1> HIDE DEF r
<1> QED BY <1>2, <1>3, <1>4

\* A step of a page that does not change the session.
LEMMA OwnStep ==
  ASSUME SessionOK, NEW t \in Tabs, NEW r \in PageState, page' = [page EXCEPT ![t] = r],
         local' = local, moved' = moved, r.user = page[t].user,
         Shown(r) => Shown(page[t]),
         r.fetched = page[t].fetched \/ r.fetched = None \/ (r.fetched = local /\ Shown(page[t]))
  PROVE  OwnPages'
<1>1. SessionTyped /\ OwnPages BY DEF SessionOK
<1>2. page'[t] = r /\ \A q \in Tabs : q # t => page'[q] = page[q] BY <1>1, PageStep
<1>3. ASSUME NEW q \in Tabs, q \notin moved
      PROVE  /\ Shown(page'[q]) => page'[q].user = local
             /\ page'[q].fetched # None => page'[q].fetched = page'[q].user
  <2>1. /\ Shown(page[q]) => page[q].user = local
        /\ page[q].fetched # None => page[q].fetched = page[q].user
    BY <1>1, <1>3 DEF OwnPages
  <2>2. CASE q # t BY <1>2, <2>1, <2>2
  <2>3. CASE q = t BY <1>2, <2>1, <2>3
  <2> QED BY <2>2, <2>3
<1> QED BY <1>3 DEF OwnPages

\* A step that does not touch the session, of a page that is not changing it.
LEMMA CalmStep ==
  ASSUME SessionOK, NEW t \in Tabs, NEW r \in PageState, page' = [page EXCEPT ![t] = r],
         local' = local, replica' = replica, torn' = torn,
         r.step \in L!Changing <=> page[t].step \in L!Changing,
         r.step = "stored" => page[t].step = "stored" /\ r.who = page[t].who,
         r.step = "cleared" => page[t].step = "cleared",
         page[t].step = "closed" => r.step = "closed",
         r.put = page[t].put
  PROVE  Replicated'
<1>1. SessionTyped /\ Replicated BY DEF SessionOK
<1>2. page'[t] = r /\ \A q \in Tabs : q # t => page'[q] = page[q] BY <1>1, PageStep
<1>3. \A q \in Tabs : page'[q].step \in L!Changing <=> page[q].step \in L!Changing BY <1>2
<1>4. \A q \in Tabs : page'[q].put = page[q].put BY <1>2
<1>5. \A q \in Tabs : page[q].step = "closed" => page'[q].step = "closed" BY <1>2
<1>6. \A q \in Tabs : page'[q].step = "stored" => page[q].step = "stored" /\ page'[q].who = page[q].who
  BY <1>2
<1>7. \A q \in Tabs : page'[q].step = "cleared" => page[q].step = "cleared" BY <1>2
<1> SUFFICES ASSUME torn = "no" PROVE Replicated' BY DEF Replicated
<1>8. (\A q \in Tabs : page[q].step \notin L!Changing) =>
         \/ replica = local
         \/ replica = None /\ \E q \in Tabs : page[q].put = local
         \/ replica = None /\ \A q \in Tabs : page[q].step = "closed"
  BY <1>1 DEF Replicated
<1>9. (\A q \in Tabs : page'[q].step \notin L!Changing) =>
         \/ replica' = local'
         \/ replica' = None /\ \E q \in Tabs : page'[q].put = local'
         \/ replica' = None /\ \A q \in Tabs : page'[q].step = "closed"
  BY <1>3, <1>4, <1>5, <1>8
<1>10. \A p, q \in Tabs : page'[p].step \in L!Changing /\ page'[q].step \in L!Changing => p = q
  BY <1>1, <1>3 DEF Replicated
<1>11. /\ \A q \in Tabs : page'[q].step = "stored" => replica' = page'[q].who
       /\ \A q \in Tabs : page'[q].step = "cleared" => replica' = None
  BY <1>1, <1>6, <1>7 DEF Replicated
<1> QED BY <1>9, <1>10, <1>11 DEF Replicated

\* A tab begins to change the session.
LEMMA BeginStep ==
  ASSUME SessionOK, NEW t \in Tabs, NEW r \in PageState, page' = [page EXCEPT ![t] = r],
         r.step = "store" \/ r.step = "reset",
         torn' = "no" => torn = "no" /\ \A q \in Tabs : q # t => page[q].step \notin L!Changing
  PROVE  Replicated'
<1>1. SessionTyped BY DEF SessionOK
<1>2. page'[t] = r /\ \A q \in Tabs : q # t => page'[q] = page[q] BY <1>1, PageStep
<1> SUFFICES ASSUME torn' = "no" PROVE Replicated' BY DEF Replicated
<1>3. \A q \in Tabs : page'[q].step \in L!Changing => q = t BY <1>2
<1>4. page'[t].step \in L!Changing /\ page'[t].step # "stored" /\ page'[t].step # "cleared"
  BY <1>2, ChangingSteps
<1>5. \A q \in Tabs : page'[q].step # "stored" /\ page'[q].step # "cleared" BY <1>3, <1>4, ChangingSteps
<1> QED BY <1>3, <1>4, <1>5 DEF Replicated

\* A tab has changed the session: nobody else was about to.
LEMMA EndStep ==
  ASSUME SessionOK, NEW t \in Tabs, NEW r \in PageState, page' = [page EXCEPT ![t] = r],
         page[t].step \in L!Changing, r.step = "reload", torn' = torn,
         torn = "no" => replica' = local'
  PROVE  Replicated'
<1>1. SessionTyped /\ Replicated BY DEF SessionOK
<1>2. page'[t] = r /\ \A q \in Tabs : q # t => page'[q] = page[q] BY <1>1, PageStep
<1> SUFFICES ASSUME torn = "no" PROVE Replicated' BY DEF Replicated
<1>3. \A q \in Tabs : q # t => page[q].step \notin L!Changing BY <1>1 DEF Replicated
<1>4. \A q \in Tabs : page'[q].step \notin L!Changing BY <1>2, <1>3, ChangingSteps
<1>5. \A q \in Tabs : page'[q].step # "stored" /\ page'[q].step # "cleared" BY <1>4, ChangingSteps
<1> QED BY <1>4, <1>5 DEF Replicated

\* The session is another one: the others learn of it, and the tab leaves its page.
LEMMA MovedStep ==
  ASSUME SessionOK, NEW t \in Tabs, NEW r \in PageState, page' = [page EXCEPT ![t] = r],
         r.step = "reload", r.user = page[t].user, r.fetched = page[t].fetched,
         local' # local => moved' = moved \cup L!Others(t), local' = local => moved' = moved
  PROVE  OwnPages' /\ moved' \in SUBSET Tabs
<1>1. SessionTyped /\ OwnPages BY DEF SessionOK
<1>2. page'[t] = r /\ \A q \in Tabs : q # t => page'[q] = page[q] BY <1>1, PageStep
<1>3. moved' \in SUBSET Tabs BY <1>1 DEF L!Others, SessionTyped
<1>4. ASSUME NEW q \in Tabs, q \notin moved'
      PROVE  /\ Shown(page'[q]) => page'[q].user = local'
             /\ page'[q].fetched # None => page'[q].fetched = page'[q].user
  <2>1. q \notin moved BY <1>4
  <2>2. /\ Shown(page[q]) => page[q].user = local
        /\ page[q].fetched # None => page[q].fetched = page[q].user
    BY <1>1, <2>1 DEF OwnPages
  <2>3. CASE q = t BY <1>2, <2>2, <2>3 DEF Shown
  <2>4. CASE q # t /\ local' = local BY <1>2, <2>2, <2>4
  <2>5. CASE q # t /\ local' # local
    <3>1. ~Shown(page[q]) BY <1>4, <2>5 DEF L!Others, Shown
    <3> QED BY <1>2, <2>2, <2>5, <3>1
  <2> QED BY <2>3, <2>4, <2>5
<1> QED BY <1>3, <1>4 DEF OwnPages

\* The database of the session is emptied, or nothing happens to it.
LEMMA Emptied ==
  ASSUME SessionOK, data' = [data EXCEPT ![local] = {}] \/ data' = data, mixed' = mixed
  PROVE  data' \in [L!Anyone -> SUBSET L!Anyone] /\ L!OwnData'
<1>1. data \in [L!Anyone -> SUBSET L!Anyone] /\ local \in L!Anyone /\ L!OwnData BY DEF SessionOK, SessionTyped
<1>2. CASE data' = data BY <1>1, <1>2 DEF L!OwnData
<1>3. CASE data' = [data EXCEPT ![local] = {}]
  <2>1. data'[local] = {} /\ \A u \in L!Anyone : u # local => data'[u] = data[u] BY <1>1, <1>3
  <2>2. data' \in [L!Anyone -> SUBSET L!Anyone] BY <1>1, <1>3
  <2> QED BY <1>1, <2>1, <2>2 DEF L!OwnData
<1> QED BY <1>2, <1>3

\* The first page of a browser.
LEMMA SessionInit == ASSUME L!Init PROVE SessionOK
<1>1. /\ local \in L!Anyone /\ replica \in L!Anyone /\ replica \in {local, None}
      /\ page = [t \in Tabs |-> L!Closed]
      /\ data = [u \in L!Anyone |-> {u}]
      /\ moved = {} /\ mixed = {} /\ torn = "no"
  BY DEF L!Init, L!Anyone
<1>2. L!Closed \in PageState BY SMTT(30) DEF L!Closed, PageState, PageSteps, L!Anyone
<1>3. L!Closed.step = "closed" /\ L!Closed.fetched = None BY DEF L!Closed
<1> HIDE DEF L!Closed
<1>4. \A t \in Tabs : page[t] = L!Closed BY <1>1
<1>5. SessionTyped BY <1>1, <1>2 DEF SessionTyped
<1>6. OwnPages BY <1>3, <1>4 DEF OwnPages, Shown
<1>7. L!OwnData BY <1>1 DEF L!OwnData
<1>8. Replicated BY <1>1, <1>3, <1>4, ChangingSteps DEF Replicated
<1> QED BY <1>5, <1>6, <1>7, <1>8 DEF SessionOK

\* A page loads and opens a database.
LEMMA LoadStep == ASSUME SessionOK, NEW t \in Tabs, L!Load(t) PROVE SessionOK'
<1>1. SessionTyped /\ OwnPages /\ L!OwnData /\ Replicated BY DEF SessionOK
<1>2. /\ page[t].step = "closed" \/ page[t].step = "reload"
      /\ page' = [page EXCEPT ![t] = L!NewPage] /\ moved' = moved \ {t}
      /\ UNCHANGED <<local, replica, data, mixed, torn>>
  BY DEF L!Load
<1>3. L!NewPage \in PageState
  <2>1. L!Closed \in PageState BY SMTT(30) DEF L!Closed, PageState, PageSteps, L!Anyone
  <2>2. "idle" \in PageSteps /\ local \in L!Anyone BY <1>1 DEF PageSteps, SessionTyped
  <2> HIDE DEF L!Closed, PageSteps, L!Anyone
  <2> QED BY <2>1, <2>2 DEF L!NewPage, PageState
<1>4. L!NewPage.step = "idle" /\ L!NewPage.user = local /\ L!NewPage.put = local /\ L!NewPage.fetched = None
  BY DEF L!NewPage, L!Closed
<1> HIDE DEF L!NewPage
<1>5. /\ page' \in [Tabs -> PageState] /\ page'[t] = L!NewPage
      /\ \A q \in Tabs : q # t => page'[q] = page[q]
  BY <1>1, <1>2, <1>3, PageStep
<1>6. SessionTyped' BY <1>1, <1>2, <1>5 DEF SessionTyped
<1>7. OwnPages'
  <2>1. ASSUME NEW q \in Tabs, q \notin moved'
        PROVE  /\ Shown(page'[q]) => page'[q].user = local
               /\ page'[q].fetched # None => page'[q].fetched = page'[q].user
    <3>1. CASE q = t BY <1>4, <1>5, <3>1
    <3>2. CASE q # t BY <1>1, <1>2, <1>5, <2>1, <3>2 DEF OwnPages
    <3> QED BY <3>1, <3>2
  <2> QED BY <1>2, <2>1 DEF OwnPages
<1>8. L!OwnData' BY <1>1, <1>2 DEF L!OwnData
<1>9. Replicated'
  <2> SUFFICES ASSUME torn = "no" PROVE Replicated' BY <1>2 DEF Replicated
  <2>1. page[t].step \notin L!Changing /\ page'[t].step \notin L!Changing
    BY <1>2, <1>4, <1>5, ChangingSteps
  <2>2. \A q \in Tabs : page'[q].step \in L!Changing => q # t /\ page'[q] = page[q] BY <1>5, <2>1
  <2>3. \A p, q \in Tabs : page'[p].step \in L!Changing /\ page'[q].step \in L!Changing => p = q
    BY <1>1, <2>2 DEF Replicated
  <2>4. /\ \A q \in Tabs : page'[q].step = "stored" => replica' = page'[q].who
        /\ \A q \in Tabs : page'[q].step = "cleared" => replica' = None
    <3>1. page'[t].step # "stored" /\ page'[t].step # "cleared" BY <1>4, <1>5
    <3> QED BY <1>1, <1>2, <1>5, <3>1 DEF Replicated
  <2>5. (\A q \in Tabs : page'[q].step \notin L!Changing) => \A q \in Tabs : page[q].step \notin L!Changing
    BY <1>5, <2>1
  <2>6. (\A q \in Tabs : page[q].step \notin L!Changing) => replica = local \/ replica = None
    BY <1>1 DEF Replicated
  <2>7. page'[t].put = local' BY <1>2, <1>4, <1>5
  <2> QED BY <1>2, <2>3, <2>4, <2>5, <2>6, <2>7 DEF Replicated
<1> QED BY <1>6, <1>7, <1>8, <1>9 DEF SessionOK

\* The session is copied for the service worker.
LEMMA PutStep == ASSUME SessionOK, NEW t \in Tabs, L!PutReplica(t) PROVE SessionOK'
<1>1. SessionTyped /\ OwnPages /\ L!OwnData /\ Replicated BY DEF SessionOK
<1> DEFINE r == [page[t] EXCEPT !.put = None]
<1>2. /\ replica' = page[t].put /\ page' = [page EXCEPT ![t] = r]
      /\ torn' = IF local = page[t].put /\ \A q \in Tabs : page[q].step \notin L!Changing THEN "no" ELSE "yes"
      /\ UNCHANGED <<local, data, loads, moved, mixed>>
  BY DEF L!PutReplica
<1>3. page[t] \in PageState /\ page[t].put \in L!Anyone BY <1>1 DEF SessionTyped, PageState
<1>4. None \in L!Anyone BY DEF L!Anyone
<1>5. r \in PageState BY <1>3, <1>4 DEF PageState
<1>6. r.step = page[t].step /\ r.user = page[t].user /\ r.fetched = page[t].fetched BY <1>3 DEF PageState
<1> HIDE DEF r
<1>7. /\ page' \in [Tabs -> PageState] /\ page'[t] = r
      /\ \A q \in Tabs : q # t => page'[q] = page[q]
  BY <1>1, <1>2, <1>5, PageStep
<1>8. SessionTyped' BY <1>1, <1>2, <1>3, <1>7 DEF SessionTyped
<1>9. OwnPages' BY <1>2, <1>5, <1>6, OwnStep DEF Shown
<1>10. L!OwnData' BY <1>1, <1>2 DEF L!OwnData
<1>11. Replicated'
  <2> SUFFICES ASSUME torn' = "no" PROVE Replicated' BY DEF Replicated
  <2>1. local = page[t].put /\ \A q \in Tabs : page[q].step \notin L!Changing BY <1>2
  <2>2. \A q \in Tabs : page'[q].step \notin L!Changing BY <1>6, <1>7, <2>1
  <2>3. \A q \in Tabs : page'[q].step # "stored" /\ page'[q].step # "cleared" BY <2>2, ChangingSteps
  <2> QED BY <1>2, <2>1, <2>2, <2>3 DEF Replicated
<1> QED BY <1>8, <1>9, <1>10, <1>11 DEF SessionOK

\* A tab is closed.
LEMMA CloseStep == ASSUME SessionOK, NEW t \in Tabs, L!Close(t) PROVE SessionOK'
<1>1. SessionTyped /\ OwnPages /\ L!OwnData /\ Replicated BY DEF SessionOK
<1>2. /\ page[t].step # "closed" /\ page' = [page EXCEPT ![t] = L!Closed]
      /\ torn' = IF page[t].step \in L!Changing \/ page[t].put # None THEN "yes" ELSE torn
      /\ UNCHANGED <<local, replica, data, loads, moved, mixed>>
  BY DEF L!Close
<1>3. L!Closed \in PageState BY SMTT(30) DEF L!Closed, PageState, PageSteps, L!Anyone
<1>4. L!Closed.step = "closed" /\ L!Closed.fetched = None BY DEF L!Closed
<1> HIDE DEF L!Closed
<1>5. /\ page' \in [Tabs -> PageState] /\ page'[t] = L!Closed
      /\ \A q \in Tabs : q # t => page'[q] = page[q]
  BY <1>1, <1>2, <1>3, PageStep
<1>6. SessionTyped' BY <1>1, <1>2, <1>5 DEF SessionTyped
<1>7. OwnPages'
  <2>1. ASSUME NEW q \in Tabs, q \notin moved
        PROVE  /\ Shown(page'[q]) => page'[q].user = local
               /\ page'[q].fetched # None => page'[q].fetched = page'[q].user
    <3>1. CASE q = t BY <1>4, <1>5, <3>1 DEF Shown
    <3>2. CASE q # t BY <1>1, <1>5, <2>1, <3>2 DEF OwnPages
    <3> QED BY <3>1, <3>2
  <2> QED BY <1>2, <2>1 DEF OwnPages
<1>8. L!OwnData' BY <1>1, <1>2 DEF L!OwnData
<1>9. Replicated'
  <2> SUFFICES ASSUME torn' = "no" PROVE Replicated' BY DEF Replicated
  <2>1. torn = "no" /\ page[t].step \notin L!Changing /\ page[t].put = None BY <1>2
  <2>2. page'[t].step \notin L!Changing /\ page'[t].step # "stored" /\ page'[t].step # "cleared"
    BY <1>4, <1>5, ChangingSteps
  <2>3. \A p, q \in Tabs : page'[p].step \in L!Changing /\ page'[q].step \in L!Changing => p = q
    BY <1>1, <1>5, <2>1, <2>2 DEF Replicated
  <2>4. /\ \A q \in Tabs : page'[q].step = "stored" => replica' = page'[q].who
        /\ \A q \in Tabs : page'[q].step = "cleared" => replica' = None
    BY <1>1, <1>2, <1>5, <2>1, <2>2 DEF Replicated
  <2>5. ASSUME \A q \in Tabs : page'[q].step \notin L!Changing
        PROVE  \/ replica = local
               \/ replica = None /\ \E q \in Tabs : page'[q].put = local
               \/ replica = None /\ \A q \in Tabs : page'[q].step = "closed"
    <3>1. \A q \in Tabs : page[q].step \notin L!Changing BY <1>5, <2>1, <2>5
    <3>2. \/ replica = local
          \/ replica = None /\ \E q \in Tabs : page[q].put = local
          \/ replica = None /\ \A q \in Tabs : page[q].step = "closed"
      BY <1>1, <2>1, <3>1 DEF Replicated
    <3>3. ASSUME NEW q \in Tabs, page[q].put = local, replica = None, replica # local
          PROVE  page'[q].put = local
      BY <1>5, <2>1, <3>3
    <3> QED BY <1>2, <3>2, <3>3
  <2> QED BY <1>2, <2>3, <2>4, <2>5 DEF Replicated
<1> QED BY <1>6, <1>7, <1>8, <1>9 DEF SessionOK

\* The page is busy with something that does not concern the session.
LEMMA BusyStep ==
  ASSUME SessionOK, NEW t \in Tabs, NEW r \in PageState, page' = [page EXCEPT ![t] = r],
         UNCHANGED <<local, replica, data, moved, mixed, torn>>,
         r.user = page[t].user, r.put = page[t].put, Shown(page[t]), page[t].step \notin L!Changing,
         r.step \notin L!Changing,
         r.fetched = page[t].fetched \/ r.fetched = None \/ r.fetched = local
  PROVE  SessionOK'
<1>1. SessionTyped /\ OwnPages /\ L!OwnData /\ Replicated BY DEF SessionOK
<1>2. page' \in [Tabs -> PageState] BY <1>1, PageStep
<1>3. SessionTyped' BY <1>1, <1>2 DEF SessionTyped
<1>4. OwnPages' BY OwnStep
<1>5. L!OwnData' BY <1>1 DEF L!OwnData
<1>6. r.step # "stored" /\ r.step # "cleared" BY ChangingSteps
<1>7. Replicated' BY <1>6, CalmStep DEF Shown
<1> QED BY <1>3, <1>4, <1>5, <1>7 DEF SessionOK

\* The page takes the step s, which does not concern the session.
LEMMA BusyAt ==
  ASSUME SessionOK, NEW t \in Tabs, NEW s \in PageSteps, L!Step(t, s),
         UNCHANGED <<local, replica, data, moved, mixed, torn>>,
         Shown(page[t]), page[t].step \notin L!Changing, s \notin L!Changing
  PROVE  SessionOK'
<1>1. SessionTyped BY DEF SessionOK
<1>2. PICK r \in PageState :
        /\ page' = [page EXCEPT ![t] = r]
        /\ r.step = s /\ r.user = page[t].user /\ r.who = page[t].who /\ r.put = page[t].put
        /\ r.fetched = page[t].fetched
  BY <1>1, StepOK
<1> QED BY <1>2, BusyStep

\* The page begins to change the session.
LEMMA BeginAt ==
  ASSUME SessionOK, NEW t \in Tabs, NEW s \in PageSteps, L!Step(t, s), s = "store" \/ s = "reset",
         Shown(page[t]), UNCHANGED <<local, replica, moved, mixed>>,
         data' = [data EXCEPT ![local] = {}] \/ data' = data,
         torn' = "no" => torn = "no" /\ \A q \in Tabs : q # t => page[q].step \notin L!Changing
  PROVE  SessionOK'
<1>1. SessionTyped BY DEF SessionOK
<1>2. PICK r \in PageState :
        /\ page' = [page EXCEPT ![t] = r]
        /\ r.step = s /\ r.user = page[t].user /\ r.who = page[t].who /\ r.put = page[t].put
        /\ r.fetched = page[t].fetched
  BY <1>1, StepOK
<1>3. page' \in [Tabs -> PageState] BY <1>1, <1>2, PageStep
<1>4. data' \in [L!Anyone -> SUBSET L!Anyone] /\ L!OwnData' BY Emptied
<1>5. SessionTyped' BY <1>1, <1>3, <1>4 DEF SessionTyped
<1>6. OwnPages' BY <1>2, OwnStep
<1>7. Replicated' BY <1>2, BeginStep
<1> QED BY <1>4, <1>5, <1>6, <1>7 DEF SessionOK

\* BeginReset tells whether another tab is about to change the session.
LEMMA ResetAt ==
  ASSUME SessionOK, NEW t \in Tabs, L!BeginReset(t), Shown(page[t]),
         UNCHANGED <<local, replica, moved, mixed>>,
         data' = [data EXCEPT ![local] = {}] \/ data' = data
  PROVE  SessionOK'
<1>1. L!Step(t, "reset") BY DEF L!BeginReset
<1>2. torn' = "no" => torn = "no" /\ \A q \in Tabs : q # t => page[q].step \notin L!Changing
  BY DEF L!BeginReset
<1>3. "reset" \in PageSteps BY DEF PageSteps
<1> QED BY <1>1, <1>2, <1>3, BeginAt

\* Every step of the tabs keeps the invariant.
LEMMA SessionStep == ASSUME SessionOK, [L!Next]_(L!vars) PROVE SessionOK'
<1>1. SessionTyped /\ OwnPages /\ L!OwnData /\ Replicated BY DEF SessionOK
<1>2. /\ "idle" \in PageSteps /\ "reload" \in PageSteps /\ "login" \in PageSteps
      /\ "signup" \in PageSteps /\ "store" \in PageSteps /\ "stored" \in PageSteps
      /\ "logout" \in PageSteps /\ "delete" \in PageSteps /\ "cleared" \in PageSteps
  BY DEF PageSteps
<1>3. ASSUME NEW t \in Tabs, NEW u \in Users, L!Login(t, u) \/ L!SignUp(t, u) PROVE SessionOK'
  <2>1. PICK s \in {"login", "signup"} :
          page[t].step = "idle" /\ page' = [page EXCEPT ![t].step = s, ![t].who = u]
    BY <1>3 DEF L!Login, L!SignUp
  <2>2. UNCHANGED <<local, replica, data, moved, mixed, torn>> BY <1>3 DEF L!Login, L!SignUp
  <2> DEFINE r == [page[t] EXCEPT !.step = s, !.who = u]
  <2>3. page[t] \in PageState BY <1>1 DEF SessionTyped
  <2>4. s \in PageSteps /\ u \in L!Anyone BY <1>2 DEF L!Anyone
  <2>5. r \in PageState BY <2>3, <2>4 DEF PageState
  <2>6. /\ r.step = s /\ r.user = page[t].user /\ r.put = page[t].put /\ r.fetched = page[t].fetched
    BY <2>3 DEF PageState
  <2>7. page' = [page EXCEPT ![t] = r] BY <1>1, <2>1 DEF SessionTyped
  <2> HIDE DEF r
  <2>8. r.step \notin L!Changing BY <2>1, <2>6, ChangingSteps
  <2>9. Shown(page[t]) /\ page[t].step \notin L!Changing BY <2>1, ChangingSteps DEF Shown
  <2> QED BY <2>2, <2>5, <2>6, <2>7, <2>8, <2>9, BusyStep
<1>4. ASSUME NEW t \in Tabs, L!SignUpAnswered(t) PROVE SessionOK'
  <2>1. /\ page[t].step = "signup" /\ (L!Step(t, "login") \/ L!Step(t, "idle"))
        /\ UNCHANGED <<local, replica, data, moved, mixed, torn>>
    BY <1>4 DEF L!SignUpAnswered
  <2>2. Shown(page[t]) /\ page[t].step \notin L!Changing BY <2>1, ChangingSteps DEF Shown
  <2>3. CASE L!Step(t, "login") BY <1>2, <2>1, <2>2, <2>3, BusyAt, ChangingSteps
  <2>4. CASE L!Step(t, "idle") BY <1>2, <2>1, <2>2, <2>4, BusyAt, ChangingSteps
  <2> QED BY <2>1, <2>3, <2>4
<1>5. ASSUME NEW t \in Tabs, L!LoginAnswered(t) PROVE SessionOK'
  <2>1. /\ page[t].step = "login" /\ (L!Step(t, "store") \/ L!Step(t, "idle"))
        /\ torn' = IF \E q \in Tabs : page[q].step \in L!Changing /\ page'[t].step = "store" THEN "yes" ELSE torn
        /\ UNCHANGED <<local, replica, data, loads, moved, mixed>>
    BY <1>5 DEF L!LoginAnswered
  <2>2. Shown(page[t]) /\ page[t].step \notin L!Changing BY <2>1, ChangingSteps DEF Shown
  <2>3. ASSUME NEW s \in PageSteps, L!Step(t, s) PROVE page'[t].step = s
    <3>1. PICK r \in PageState :
            /\ page' = [page EXCEPT ![t] = r]
            /\ r.step = s /\ r.user = page[t].user /\ r.who = page[t].who /\ r.put = page[t].put
            /\ r.fetched = page[t].fetched
      BY <1>1, <2>3, StepOK
    <3> QED BY <1>1, <3>1, PageStep
  <2>4. CASE L!Step(t, "store")
    <3>1. page'[t].step = "store" BY <1>2, <2>3, <2>4
    <3>2. torn' = "no" => torn = "no" /\ \A q \in Tabs : q # t => page[q].step \notin L!Changing
      BY <2>1, <3>1
    <3> QED BY <1>2, <2>1, <2>2, <2>4, <3>2, BeginAt
  <2>5. CASE L!Step(t, "idle")
    <3>1. page'[t].step = "idle" BY <1>2, <2>3, <2>5
    <3>2. torn' = torn BY <2>1, <3>1
    <3> QED BY <1>2, <2>1, <2>2, <2>5, <3>2, BusyAt, ChangingSteps
  <2> QED BY <2>1, <2>4, <2>5
<1>6. ASSUME NEW t \in Tabs, L!Logout(t) \/ L!DeleteAccount(t) PROVE SessionOK'
  <2>1. /\ page[t].step = "idle" /\ (L!Step(t, "logout") \/ L!Step(t, "delete"))
        /\ UNCHANGED <<local, replica, data, moved, mixed, torn>>
    BY <1>6 DEF L!Logout, L!DeleteAccount
  <2>2. Shown(page[t]) /\ page[t].step \notin L!Changing BY <2>1, ChangingSteps DEF Shown
  <2>3. CASE L!Step(t, "logout") BY <1>2, <2>1, <2>2, <2>3, BusyAt, ChangingSteps
  <2>4. CASE L!Step(t, "delete") BY <1>2, <2>1, <2>2, <2>4, BusyAt, ChangingSteps
  <2> QED BY <2>1, <2>3, <2>4
<1>7. ASSUME NEW t \in Tabs, L!LogoutAnswered(t) PROVE SessionOK'
  <2>1. /\ page[t].step = "logout" /\ (data' = [data EXCEPT ![local] = {}] \/ data' = data)
        /\ L!BeginReset(t) /\ UNCHANGED <<local, replica, loads, moved, mixed>>
    BY <1>7 DEF L!LogoutAnswered
  <2>2. Shown(page[t]) BY <2>1 DEF Shown
  <2> QED BY <2>1, <2>2, ResetAt
<1>8. ASSUME NEW t \in Tabs, L!DeleteAnswered(t) PROVE SessionOK'
  <2>1. page[t].step = "delete" /\ UNCHANGED <<local, replica, loads, moved, mixed>>
    BY <1>8 DEF L!DeleteAnswered
  <2>2. Shown(page[t]) /\ page[t].step \notin L!Changing BY <2>1, ChangingSteps DEF Shown
  <2>3. \/ L!BeginReset(t) /\ (data' = [data EXCEPT ![local] = {}] \/ data' = data)
        \/ L!Step(t, "idle") /\ UNCHANGED <<data, torn>>
    BY <1>8 DEF L!DeleteAnswered
  <2>4. CASE L!BeginReset(t) /\ (data' = [data EXCEPT ![local] = {}] \/ data' = data)
    BY <2>1, <2>2, <2>4, ResetAt
  <2>5. CASE L!Step(t, "idle") /\ UNCHANGED <<data, torn>>
    BY <1>2, <2>1, <2>2, <2>5, BusyAt, ChangingSteps
  <2> QED BY <2>3, <2>4, <2>5
<1>9. ASSUME NEW t \in Tabs, L!Unauthorized(t) PROVE SessionOK'
  <2>1. /\ page[t].step = "idle" /\ L!BeginReset(t)
        /\ UNCHANGED <<local, replica, data, loads, moved, mixed>>
    BY <1>9 DEF L!Unauthorized
  <2>2. Shown(page[t]) BY <2>1 DEF Shown
  <2> QED BY <2>1, <2>2, ResetAt
<1>10. ASSUME NEW t \in Tabs, L!StoreReplica(t) \/ L!ResetReplica(t) PROVE SessionOK'
  <2>1. \/ page[t].step = "store" /\ replica' = page[t].who /\ L!Step(t, "stored")
        \/ page[t].step = "reset" /\ replica' = None /\ L!Step(t, "cleared")
    BY <1>10 DEF L!StoreReplica, L!ResetReplica
  <2>2. UNCHANGED <<local, data, moved, mixed, torn>> BY <1>10 DEF L!StoreReplica, L!ResetReplica
  <2>3. PICK s \in PageSteps : /\ L!Step(t, s)
                               /\ \/ s = "stored" /\ page[t].step = "store" /\ replica' = page[t].who
                                  \/ s = "cleared" /\ page[t].step = "reset" /\ replica' = None
    BY <1>2, <2>1
  <2>4. PICK r \in PageState :
          /\ page' = [page EXCEPT ![t] = r]
          /\ r.step = s /\ r.user = page[t].user /\ r.who = page[t].who /\ r.put = page[t].put
          /\ r.fetched = page[t].fetched
    BY <1>1, <2>3, StepOK
  <2>5. page[t] \in PageState BY <1>1 DEF SessionTyped
  <2>6. replica' \in L!Anyone
    <3>1. page[t].who \in L!Anyone BY <2>5 DEF PageState
    <3>2. None \in L!Anyone BY DEF L!Anyone
    <3> QED BY <2>3, <3>1, <3>2
  <2>7. /\ page' \in [Tabs -> PageState] /\ page'[t] = r
        /\ \A q \in Tabs : q # t => page'[q] = page[q]
    BY <1>1, <2>4, PageStep
  <2>8. SessionTyped' BY <1>1, <2>2, <2>6, <2>7 DEF SessionTyped
  <2>9. Shown(page[t]) /\ page[t].step \in L!Changing BY <2>3, ChangingSteps DEF Shown
  <2>10. OwnPages' BY <2>2, <2>4, <2>9, OwnStep
  <2>11. L!OwnData' BY <1>1, <2>2 DEF L!OwnData
  <2>12. Replicated'
    <3> SUFFICES ASSUME torn = "no" PROVE Replicated' BY <2>2 DEF Replicated
    <3>1. \A q \in Tabs : q # t => page[q].step \notin L!Changing BY <1>1, <2>9 DEF Replicated
    <3>2. \A q \in Tabs : page'[q].step \in L!Changing => q = t BY <2>7, <3>1
    <3>3. page'[t].step \in L!Changing BY <2>3, <2>4, <2>7, ChangingSteps
    <3>4. \A q \in Tabs : page'[q].step = "stored" \/ page'[q].step = "cleared" => q = t
      BY <3>2, ChangingSteps
    <3>5. /\ page'[t].step = "stored" => replica' = page'[t].who
          /\ page'[t].step = "cleared" => replica' = None
      BY <2>3, <2>4, <2>7
    <3> QED BY <3>2, <3>3, <3>4, <3>5 DEF Replicated
  <2> QED BY <2>8, <2>10, <2>11, <2>12 DEF SessionOK
<1>11. ASSUME NEW t \in Tabs, L!StoreLocal(t) \/ L!ResetLocal(t) PROVE SessionOK'
  <2>1. \/ page[t].step = "stored" /\ local' = page[t].who
        \/ page[t].step = "cleared" /\ local' = None
    BY <1>11 DEF L!StoreLocal, L!ResetLocal
  <2>2. L!Step(t, "reload") /\ UNCHANGED <<replica, data, mixed, torn>> BY <1>11 DEF L!StoreLocal, L!ResetLocal
  <2>3. /\ local' # local => moved' = moved \cup L!Others(t)
        /\ local' = local => moved' = moved
    BY <1>11 DEF L!StoreLocal, L!ResetLocal
  <2>4. PICK r \in PageState :
          /\ page' = [page EXCEPT ![t] = r]
          /\ r.step = "reload" /\ r.user = page[t].user /\ r.who = page[t].who /\ r.put = page[t].put
          /\ r.fetched = page[t].fetched
    BY <1>1, <1>2, <2>2, StepOK
  <2>5. page[t] \in PageState BY <1>1 DEF SessionTyped
  <2>6. local' \in L!Anyone
    <3>1. page[t].who \in L!Anyone BY <2>5 DEF PageState
    <3>2. None \in L!Anyone BY DEF L!Anyone
    <3> QED BY <2>1, <3>1, <3>2
  <2>7. page' \in [Tabs -> PageState] BY <1>1, <2>4, PageStep
  <2>8. OwnPages' /\ moved' \in SUBSET Tabs BY <2>3, <2>4, MovedStep
  <2>9. SessionTyped' BY <1>1, <2>2, <2>6, <2>7, <2>8 DEF SessionTyped
  <2>10. L!OwnData' BY <1>1, <2>2 DEF L!OwnData
  <2>11. page[t].step \in L!Changing BY <2>1, ChangingSteps
  <2>12. ASSUME torn = "no" PROVE replica' = local'
    <3>1. page[t].step = "stored" => replica = page[t].who BY <1>1, <2>12 DEF Replicated
    <3>2. page[t].step = "cleared" => replica = None BY <1>1, <2>12 DEF Replicated
    <3> QED BY <2>1, <2>2, <3>1, <3>2
  <2>13. Replicated' BY <2>2, <2>4, <2>11, <2>12, EndStep
  <2> QED BY <2>8, <2>9, <2>10, <2>13 DEF SessionOK
<1>12. ASSUME NEW t \in Tabs, L!Sync(t) PROVE SessionOK'
  <2> DEFINE r == [page[t] EXCEPT !.fetched = local]
  <2>1. /\ page[t].step = "idle" /\ page' = [page EXCEPT ![t] = r]
        /\ UNCHANGED <<local, replica, data, moved, mixed, torn>>
    BY <1>12 DEF L!Sync
  <2>2. page[t] \in PageState /\ local \in L!Anyone BY <1>1 DEF SessionTyped
  <2>3. r \in PageState BY <2>2 DEF PageState
  <2>4. r.step = page[t].step /\ r.user = page[t].user /\ r.put = page[t].put /\ r.fetched = local
    BY <2>2 DEF PageState
  <2> HIDE DEF r
  <2>5. Shown(page[t]) /\ page[t].step \notin L!Changing BY <2>1, ChangingSteps DEF Shown
  <2> QED BY <2>1, <2>3, <2>4, <2>5, BusyStep
<1>13. ASSUME NEW t \in Tabs, L!SyncAnswered(t) PROVE SessionOK'
  <2> DEFINE r == [page[t] EXCEPT !.fetched = None]
  <2>1. /\ page[t].fetched # None /\ page' = [page EXCEPT ![t] = r]
        /\ UNCHANGED <<local, replica, loads, moved, torn>>
    BY <1>13 DEF L!SyncAnswered
  <2>2. \/ /\ data' = [data EXCEPT ![page[t].user] = {page[t].fetched}]
           /\ mixed' = IF t \in moved THEN mixed \cup {page[t].user} ELSE mixed
        \/ UNCHANGED <<data, mixed>>
    BY <1>13 DEF L!SyncAnswered
  <2>3. page[t] \in PageState BY <1>1 DEF SessionTyped
  <2>4. page[t].user \in L!Anyone /\ page[t].fetched \in L!Anyone /\ None \in L!Anyone
    <3>1. None \in L!Anyone BY DEF L!Anyone
    <3> QED BY <2>3, <3>1 DEF PageState
  <2>5. r \in PageState BY <2>3, <2>4 DEF PageState
  <2>6. /\ r.step = page[t].step /\ r.user = page[t].user /\ r.who = page[t].who /\ r.put = page[t].put
        /\ r.fetched = None
    BY <2>3 DEF PageState
  <2> HIDE DEF r
  <2>7. page' \in [Tabs -> PageState] BY <1>1, <2>1, <2>5, PageStep
  <2>8. data' \in [L!Anyone -> SUBSET L!Anyone] /\ mixed' \in SUBSET L!Anyone
    <3>1. data \in [L!Anyone -> SUBSET L!Anyone] /\ mixed \in SUBSET L!Anyone BY <1>1 DEF SessionTyped
    <3>2. {page[t].fetched} \in SUBSET L!Anyone BY <2>4
    <3>3. data' \in [L!Anyone -> SUBSET L!Anyone] BY <2>2, <2>4, <3>1, <3>2
    <3> QED BY <2>2, <2>4, <3>1, <3>3
  <2>9. SessionTyped' BY <1>1, <2>1, <2>7, <2>8 DEF SessionTyped
  <2>10. OwnPages' BY <2>1, <2>5, <2>6, OwnStep DEF Shown
  <2>11. Replicated' BY <2>1, <2>5, <2>6, CalmStep
  <2>12. L!OwnData'
    <3>1. CASE UNCHANGED <<data, mixed>> BY <1>1, <3>1 DEF L!OwnData
    <3>2. CASE /\ data' = [data EXCEPT ![page[t].user] = {page[t].fetched}]
               /\ mixed' = IF t \in moved THEN mixed \cup {page[t].user} ELSE mixed
      <4>1. /\ data'[page[t].user] = {page[t].fetched}
            /\ \A u \in L!Anyone : u # page[t].user => data'[u] = data[u]
        BY <1>1, <2>4, <3>2 DEF SessionTyped
      <4>2. page[t].user \in mixed' \/ page[t].fetched = page[t].user BY <1>1, <2>1, <3>2 DEF OwnPages
      <4>3. \A u \in L!Anyone : u \notin mixed' => u \notin mixed BY <3>2
      <4> QED BY <1>1, <4>1, <4>2, <4>3 DEF L!OwnData
    <3> QED BY <2>2, <3>1, <3>2
  <2> QED BY <2>9, <2>10, <2>11, <2>12 DEF SessionOK
<1>14. CASE UNCHANGED L!vars
  <2>1. /\ local' = local /\ replica' = replica /\ page' = page /\ data' = data /\ moved' = moved
        /\ mixed' = mixed /\ torn' = torn
    BY <1>14 DEF L!vars
  <2>2. SessionTyped' BY <1>1, <2>1 DEF SessionTyped
  <2>3. OwnPages' BY <1>1, <2>1 DEF OwnPages
  <2>4. L!OwnData' BY <1>1, <2>1 DEF L!OwnData
  <2>5. Replicated' BY <1>1, <2>1 DEF Replicated
  <2> QED BY <2>2, <2>3, <2>4, <2>5 DEF SessionOK
<1> QED
  BY <1>3, <1>4, <1>5, <1>6, <1>7, <1>8, <1>9, <1>10, <1>11, <1>12, <1>13, <1>14, LoadStep, PutStep,
     CloseStep DEF L!Next

\* Users of a browser stay apart (db.js), but for tabs whose session another tab changed, and
\* the service worker finds the user whose session it is (Session.js), unless a change was
\* cut short or two overlapped.
THEOREM SessionsApart == L!Spec => []UsersApart
<1>1. L!Init => SessionOK BY SessionInit
<1>2. SessionOK /\ [L!Next]_(L!vars) => SessionOK' BY SessionStep
<1>3. SessionOK => UsersApart
  <2>1. SessionOK => L!OwnData BY DEF SessionOK
  <2>2. SessionOK => L!WorkerKnowsUser BY DEF SessionOK, Replicated, L!WorkerKnowsUser
  <2> QED BY <2>1, <2>2 DEF UsersApart
<1> QED BY <1>1, <1>2, <1>3, PTL DEF L!Spec

-------------------------------------------------------------------------------
(* The dialog that subscribes *)

YesNo == {"yes", "no"}
DialogState == [key : Nat, open : YesNo, baseUrl : Servers \cup {None}, topic : Topics \cup {None},
                login : YesNo, another : YesNo, reserve : YesNo]
RunState == [kind : {"idle", "subscribe", "login"}, step : {"idle", "user", "auth", "save", "add", "account"},
             server : Servers \cup {None}, target : Servers \cup {None}, topic : Topics \cup {None},
             user : Users \cup {None}, reserve : YesNo, key : Nat]

SubscribingTyped ==
  /\ users \in [Servers -> Users \cup {None}]
  /\ dialog \in DialogState
  /\ run \in [S!Runs -> RunState]

\* The user may read, or it is known why not.
Cleared(s, t) == s \in changed \/ strayed = "yes" \/ S!MayRead(S!GetUser(s), s, t)

\* A page without another server is that of Home, and the session's user needs no login.
DialogFits(d) ==
  strayed # "yes" =>
    /\ d.another # "yes" => d.baseUrl = None
    /\ d.login = "yes" => ~((IF d.baseUrl = None THEN Home ELSE d.baseUrl) = Home /\ SessionUser # None)

\* A handler acts for one server; it was let in with the user who is there, or with none.
RunFits(h) ==
  /\ h.step = "user" \/ h.step = "auth" \/ h.step = "save" \/ h.step = "add" =>
       /\ h.server \in Servers /\ h.target \in Servers
       /\ h.server = h.target \/ strayed = "yes"
  /\ h.step = "user" => h.kind # "login"
  /\ h.step = "auth" =>
       IF h.kind = "login"
       THEN h.server = Home /\ SessionUser # None => strayed = "yes"
       ELSE /\ h.server \in changed \/ h.user = None \/ h.user = S!GetUser(h.server)
            /\ h.server = Home /\ SessionUser # None => h.user # None
  /\ h.step = "save" =>
       /\ h.server = Home /\ SessionUser # None => strayed = "yes"
       /\ S!MayRead(h.user, h.server, h.topic)
  /\ h.step = "add" => Cleared(h.server, h.topic)

SubscribingOK ==
  /\ SubscribingTyped
  /\ DialogFits(dialog)
  /\ \A r \in S!Runs : RunFits(run[r])
  /\ \A x \in subscriptions : x[1] \in Servers /\ Cleared(x[1], x[2])

\* A user who is replaced is recorded, and nothing that was recorded is forgotten.
Recorded ==
  /\ changed \subseteq changed' /\ (strayed = "yes" => strayed' = "yes")
  /\ \A s \in Servers : s \in changed' \/ S!GetUser(s) = None \/ S!GetUser(s)' = S!GetUser(s)

\* A topic that may be read stays so, ...
LEMMA ClearedStays ==
  ASSUME Recorded, NEW s \in Servers, NEW t, Cleared(s, t) PROVE Cleared(s, t)'
<1>1. s \in changed \/ strayed = "yes" => Cleared(s, t)' BY DEF Recorded, Cleared
<1>2. ASSUME S!MayRead(S!GetUser(s), s, t) PROVE Cleared(s, t)'
  <2>1. s \in changed' \/ S!GetUser(s) = None \/ S!GetUser(s)' = S!GetUser(s) BY DEF Recorded
  <2>2. S!GetUser(s) = None => S!MayRead(S!GetUser(s), s, t)' BY <1>2 DEF S!MayRead
  <2>3. S!GetUser(s)' = S!GetUser(s) => S!MayRead(S!GetUser(s), s, t)' BY <1>2 DEF S!MayRead
  <2> QED BY <2>1, <2>2, <2>3 DEF Cleared
<1> QED BY <1>1, <1>2 DEF Cleared

\* ... and a handler that was allowed to add it.
LEMMA FitsStays == ASSUME Recorded, NEW h \in RunState, RunFits(h) PROVE RunFits(h)'
<1>1. ASSUME h.step = "add" PROVE Cleared(h.server, h.topic)'
  <2>1. h.server \in Servers /\ Cleared(h.server, h.topic) BY <1>1 DEF RunFits
  <2> DEFINE s == h.server
             t == h.topic
  <2>2. s \in Servers /\ Cleared(s, t) BY <2>1
  <2> HIDE DEF s, t
  <2>3. Cleared(s, t)' BY <2>2, ClearedStays
  <2> QED BY <2>3 DEF s, t
<1>2. ASSUME h.step = "auth", h.kind # "login"
      PROVE  h.server \in changed' \/ h.user = None \/ h.user = S!GetUser(h.server)'
  <2>1. h.server \in Servers BY <1>2 DEF RunFits
  <2>2. h.server \in changed \/ h.user = None \/ h.user = S!GetUser(h.server) BY <1>2 DEF RunFits
  <2>3. \/ h.server \in changed' \/ S!GetUser(h.server) = None
        \/ S!GetUser(h.server)' = S!GetUser(h.server)
    BY <2>1 DEF Recorded
  <2> QED BY <2>2, <2>3 DEF Recorded
<1>3. ASSUME h.step = "auth", h.kind = "login" PROVE h.server = Home /\ SessionUser # None => strayed' = "yes"
  BY <1>3 DEF RunFits, Recorded
<1>4. ASSUME h.step = "save"
      PROVE  /\ h.server = Home /\ SessionUser # None => strayed' = "yes"
             /\ S!MayRead(h.user, h.server, h.topic)
  BY <1>4 DEF RunFits, Recorded
<1>5. ASSUME h.step = "user" \/ h.step = "auth" \/ h.step = "save" \/ h.step = "add"
      PROVE  /\ h.server \in Servers /\ h.target \in Servers
             /\ h.server = h.target \/ strayed' = "yes"
  BY <1>5 DEF RunFits, Recorded
<1>6. h.step = "save" => S!MayRead(h.user, h.server, h.topic)' BY <1>4 DEF S!MayRead
<1>7. h.step = "user" => h.kind # "login" BY DEF RunFits
<1>8. h.step = "auth" /\ h.kind # "login" /\ h.server = Home /\ SessionUser # None => h.user # None
  BY DEF RunFits
<1> QED BY <1>1, <1>2, <1>3, <1>4, <1>5, <1>6, <1>7, <1>8 DEF RunFits

\* No user was replaced.
LEMMA NothingChanged ==
  ASSUME UNCHANGED <<users, changed>>, strayed' = strayed \/ strayed' = "yes" PROVE Recorded
BY DEF Recorded, S!GetUser

\* What holds of the subscriptions and of the other handlers stays.
LEMMA OthersStay ==
  ASSUME SubscribingOK, Recorded
  PROVE  /\ \A h \in RunState : RunFits(h) => RunFits(h)'
         /\ \A x \in subscriptions : x[1] \in Servers /\ Cleared(x[1], x[2])'
<1>1. \A s \in Servers : \A t : Cleared(s, t) => Cleared(s, t)' BY ClearedStays
<1>2. ASSUME NEW x \in subscriptions PROVE x[1] \in Servers /\ Cleared(x[1], x[2])'
  <2>1. x[1] \in Servers /\ Cleared(x[1], x[2]) BY DEF SubscribingOK
  <2> DEFINE s == x[1]
             t == x[2]
  <2>2. s \in Servers /\ Cleared(s, t) BY <2>1
  <2> HIDE DEF s, t
  <2>3. Cleared(s, t)' BY <1>1, <2>2
  <2> QED BY <2>1, <2>3 DEF s, t
<1> QED BY <1>2, FitsStays

\* One handler goes on, and the others stay as they are.
LEMMA RunStep ==
  ASSUME SubscribingOK, Recorded, NEW r \in S!Runs, NEW h \in RunState, run' = [run EXCEPT ![r] = h], RunFits(h)'
  PROVE  run' \in [S!Runs -> RunState] /\ \A q \in S!Runs : RunFits(run[q])'
<1>1. run \in [S!Runs -> RunState] /\ \A q \in S!Runs : RunFits(run[q]) BY DEF SubscribingOK, SubscribingTyped
<1>2. /\ run' \in [S!Runs -> RunState] /\ run'[r] = h
      /\ \A q \in S!Runs : q # r => run'[q] = run[q]
  BY <1>1
<1>3. ASSUME NEW q \in S!Runs, q # r PROVE RunFits(run[q])'
  <2> DEFINE g == run[q]
  <2>1. g \in RunState /\ RunFits(g) BY <1>1
  <2>2. \A k \in RunState : RunFits(k) => RunFits(k)' BY OthersStay
  <2>3. run'[q] = run[q] BY <1>2, <1>3
  <2>4. \A k \in RunState : k = g /\ RunFits(k) => RunFits(run[q])' BY <2>2, <2>3 DEF RunFits, Cleared
  <2> QED BY <2>1, <2>4
<1>4. RunFits(run[r])' BY <1>2 DEF RunFits, Cleared
<1> QED BY <1>2, <1>3, <1>4

\* A step of a handler that leaves the subscriptions and the users alone.
LEMMA HandlerStep ==
  ASSUME SubscribingOK, NEW r \in S!Runs, NEW h \in RunState, run' = [run EXCEPT ![r] = h],
         UNCHANGED <<subscriptions, users, changed>>, strayed' = strayed \/ strayed' = "yes",
         RunFits(h)', dialog' \in DialogState, DialogFits(dialog)'
  PROVE  SubscribingOK'
<1>1. Recorded BY NothingChanged
<1>2. run' \in [S!Runs -> RunState] /\ \A q \in S!Runs : RunFits(run[q])' BY <1>1, RunStep
<1>3. SubscribingTyped' BY <1>2 DEF SubscribingOK, SubscribingTyped
<1>4. \A x \in subscriptions' : x[1] \in Servers /\ Cleared(x[1], x[2])' BY <1>1, OthersStay
<1> QED BY <1>2, <1>3, <1>4 DEF SubscribingOK

\* A step of the dialog only.
LEMMA DialogStep ==
  ASSUME SubscribingOK, UNCHANGED <<subscriptions, users, run, changed>>,
         strayed' = strayed \/ strayed' = "yes", dialog' \in DialogState, DialogFits(dialog)'
  PROVE  SubscribingOK'
<1>1. Recorded BY NothingChanged
<1>2. SubscribingTyped' BY DEF SubscribingOK, SubscribingTyped
<1>3. \A x \in subscriptions' : x[1] \in Servers /\ Cleared(x[1], x[2])' BY <1>1, OthersStay
<1>4. ASSUME NEW q \in S!Runs PROVE RunFits(run[q])'
  <2> DEFINE g == run[q]
  <2>1. g \in RunState /\ RunFits(g) BY DEF SubscribingOK, SubscribingTyped
  <2>2. \A k \in RunState : RunFits(k) => RunFits(k)' BY <1>1, OthersStay
  <2>3. run'[q] = run[q] OBVIOUS
  <2>4. \A k \in RunState : k = g /\ RunFits(k) => RunFits(run[q])' BY <2>2, <2>3 DEF RunFits, Cleared
  <2> QED BY <2>1, <2>4
<1> QED BY <1>2, <1>3, <1>4 DEF SubscribingOK

\* A handler that has ended may add nothing.
LEMMA IdleFits == S!Idle \in RunState /\ RunFits(S!Idle)'
<1>1. S!Idle \in RunState BY SMTT(30) DEF S!Idle, RunState, YesNo
<1>2. S!Idle.step = "idle" BY DEF S!Idle
<1> HIDE DEF S!Idle
<1> QED BY <1>1, <1>2 DEF RunFits

\* The next dialog is a new one.
LEMMA ResetFits == ASSUME SubscribingOK PROVE S!Reset \in DialogState /\ S!Reset.another = "no" /\ S!Reset.baseUrl = None /\ S!Reset.login = "no"
<1>1. dialog.key \in Nat BY DEF SubscribingOK, SubscribingTyped, DialogState
<1> DEFINE k == IF dialog.key < MaxKey THEN dialog.key + 1 ELSE MaxKey
<1>2. k \in Nat BY <1>1, SubscribingAssumption, SMTT(30)
<1> HIDE DEF k
<1>3. S!Reset = S!NewDialog(k, "no", None, None) BY DEF S!Reset, k
<1> QED BY <1>2, <1>3, SMTT(30) DEF S!NewDialog, DialogState, YesNo

\* The dialog is closed at first.
LEMMA SubscribingInit == ASSUME S!Init PROVE SubscribingOK
<1>1. run = [r \in S!Runs |-> S!Idle] /\ users = [s \in Servers |-> None] /\ subscriptions = {}
      /\ dialog = S!NewDialog(0, "no", None, None)
  BY DEF S!Init
<1>2. S!Idle \in RunState BY IdleFits
<1>3. RunFits(S!Idle)
  <2>1. S!Idle.step = "idle" BY DEF S!Idle
  <2> HIDE DEF S!Idle
  <2> QED BY <2>1 DEF RunFits
<1>4. dialog \in DialogState BY <1>1, SMTT(30) DEF S!NewDialog, DialogState, YesNo
<1>5. dialog.another = "no" /\ dialog.baseUrl = None /\ dialog.login = "no" BY <1>1 DEF S!NewDialog
<1>6. DialogFits(dialog) BY <1>5 DEF DialogFits
<1> HIDE DEF S!Idle
<1>7. SubscribingTyped BY <1>1, <1>2, <1>4 DEF SubscribingTyped
<1>8. \A r \in S!Runs : RunFits(run[r])
  <2>1. \A r \in S!Runs : run[r] = S!Idle BY <1>1
  <2> QED BY <1>3, <2>1
<1> QED BY <1>1, <1>6, <1>7, <1>8 DEF SubscribingOK

\* The steps of the user in the dialog.
LEMMA UserStep ==
  ASSUME SubscribingOK,
         \/ S!OpenDialog \/ S!Cancel \/ S!Back
         \/ \E t \in Topics : S!SetTopic(t)
         \/ \E x \in {"yes", "no"} : S!SetReserve(x) \/ S!UseAnother(x)
         \/ \E s \in Servers : S!SetBaseUrl(s)
  PROVE  SubscribingOK'
<1>1. dialog \in DialogState /\ DialogFits(dialog) BY DEF SubscribingOK, SubscribingTyped
<1>2. "yes" \in YesNo /\ "no" \in YesNo BY DEF YesNo
<1>3. ASSUME S!OpenDialog PROVE SubscribingOK'
  <2>1. /\ dialog' = [dialog EXCEPT !.open = "yes"]
        /\ UNCHANGED <<subscriptions, users, run, changed, strayed>>
    BY <1>3 DEF S!OpenDialog, S!dataVars, S!historyVars
  <2>2. dialog' \in DialogState BY <1>1, <1>2, <2>1 DEF DialogState
  <2>3. /\ dialog'.another = dialog.another /\ dialog'.baseUrl = dialog.baseUrl
        /\ dialog'.login = dialog.login
    BY <1>1, <2>1 DEF DialogState
  <2>4. DialogFits(dialog)' BY <1>1, <2>1, <2>3 DEF DialogFits
  <2> QED BY <2>1, <2>2, <2>4, DialogStep
<1>4. ASSUME S!Cancel PROVE SubscribingOK'
  <2>1. dialog' = S!Reset /\ UNCHANGED <<subscriptions, users, run, changed, strayed>>
    BY <1>4 DEF S!Cancel, S!Dialog, S!dataVars, S!historyVars
  <2>2. dialog' \in DialogState /\ dialog'.another = "no" /\ dialog'.baseUrl = None /\ dialog'.login = "no"
    BY <2>1, ResetFits
  <2>3. DialogFits(dialog)' BY <2>2 DEF DialogFits
  <2> QED BY <2>1, <2>2, <2>3, DialogStep
<1>5. ASSUME S!Back PROVE SubscribingOK'
  <2>1. /\ dialog' = S!NewDialog(dialog.key, "yes", dialog.baseUrl, dialog.topic) /\ strayed' = "yes"
        /\ UNCHANGED <<subscriptions, users, run, changed>>
    BY <1>5 DEF S!Back, S!Dialog, S!dataVars
  <2>2. dialog' \in DialogState BY <1>1, <2>1, SMTT(30) DEF S!NewDialog, DialogState, YesNo
  <2>3. DialogFits(dialog)' BY <2>1 DEF DialogFits
  <2> QED BY <2>1, <2>2, <2>3, DialogStep
<1>6. ASSUME NEW t \in Topics, S!SetTopic(t) PROVE SubscribingOK'
  <2>1. /\ dialog' = [dialog EXCEPT !.topic = t]
        /\ UNCHANGED <<subscriptions, users, run, changed, strayed>>
    BY <1>6 DEF S!SetTopic, S!Dialog, S!dataVars, S!historyVars
  <2>2. dialog' \in DialogState BY <1>1, <2>1 DEF DialogState
  <2>3. /\ dialog'.another = dialog.another /\ dialog'.baseUrl = dialog.baseUrl
        /\ dialog'.login = dialog.login
    BY <1>1, <2>1 DEF DialogState
  <2>4. DialogFits(dialog)' BY <1>1, <2>1, <2>3 DEF DialogFits
  <2> QED BY <2>1, <2>2, <2>4, DialogStep
<1>7. ASSUME NEW x \in {"yes", "no"}, S!SetReserve(x) PROVE SubscribingOK'
  <2>1. /\ dialog' = [dialog EXCEPT !.reserve = x]
        /\ UNCHANGED <<subscriptions, users, run, changed, strayed>>
    BY <1>7 DEF S!SetReserve, S!Dialog, S!dataVars, S!historyVars
  <2>2. dialog' \in DialogState BY <1>1, <1>2, <2>1 DEF DialogState
  <2>3. /\ dialog'.another = dialog.another /\ dialog'.baseUrl = dialog.baseUrl
        /\ dialog'.login = dialog.login
    BY <1>1, <2>1 DEF DialogState
  <2>4. DialogFits(dialog)' BY <1>1, <2>1, <2>3 DEF DialogFits
  <2> QED BY <2>1, <2>2, <2>4, DialogStep
<1>8. ASSUME NEW x \in {"yes", "no"}, S!UseAnother(x) PROVE SubscribingOK'
  <2>1. /\ dialog.login = "no" /\ dialog' = [dialog EXCEPT !.baseUrl = None, !.another = x]
        /\ UNCHANGED <<subscriptions, users, run, changed, strayed>>
    BY <1>8 DEF S!UseAnother, S!Dialog, S!dataVars, S!historyVars
  <2>2. dialog' \in DialogState BY <1>1, <1>2, <2>1 DEF DialogState
  <2>3. dialog'.baseUrl = None /\ dialog'.login = dialog.login BY <1>1, <2>1 DEF DialogState
  <2>4. DialogFits(dialog)' BY <2>1, <2>3 DEF DialogFits
  <2> QED BY <2>1, <2>2, <2>4, DialogStep
<1>9. ASSUME NEW s \in Servers, S!SetBaseUrl(s) PROVE SubscribingOK'
  <2>1. /\ dialog.login = "no" /\ dialog.another = "yes" /\ dialog' = [dialog EXCEPT !.baseUrl = s]
        /\ UNCHANGED <<subscriptions, users, run, changed, strayed>>
    BY <1>9 DEF S!SetBaseUrl, S!Dialog, S!dataVars, S!historyVars
  <2>2. dialog' \in DialogState BY <1>1, <2>1 DEF DialogState
  <2>3. dialog'.another = dialog.another /\ dialog'.login = dialog.login BY <1>1, <2>1 DEF DialogState
  <2>4. DialogFits(dialog)' BY <2>1, <2>3 DEF DialogFits
  <2> QED BY <2>1, <2>2, <2>4, DialogStep
<1> QED BY <1>3, <1>4, <1>5, <1>6, <1>7, <1>8, <1>9

\* A handler begins.
LEMMA StartStep ==
  ASSUME SubscribingOK, NEW r \in S!Runs, S!Subscribe(r) \/ \E u \in Users : S!Login(r, u)
  PROVE  SubscribingOK'
<1>1. dialog \in DialogState /\ DialogFits(dialog) BY DEF SubscribingOK, SubscribingTyped
<1>2. /\ dialog.key \in Nat /\ dialog.topic \in Topics \cup {None} /\ dialog.reserve \in YesNo
      /\ dialog.baseUrl \in Servers \cup {None} /\ dialog.another \in YesNo
  BY <1>1 DEF DialogState
<1>3. S!TargetServer \in Servers BY <1>2, SubscribingAssumption DEF S!TargetServer
<1>4. UNCHANGED <<subscriptions, users, dialog, changed, strayed>>
  BY DEF S!Subscribe, S!Login, S!Start, S!dataVars, S!historyVars
<1>5. dialog' \in DialogState /\ DialogFits(dialog)' BY <1>1, <1>4 DEF DialogFits
<1>6. CASE S!Subscribe(r)
  <2> DEFINE h == [kind |-> "subscribe", step |-> "user", server |-> S!PageServer, target |-> S!TargetServer,
                   topic |-> dialog.topic, user |-> None, reserve |-> dialog.reserve, key |-> dialog.key]
  <2>1. run' = [run EXCEPT ![r] = h] /\ S!PageServer # None BY <1>6 DEF S!Subscribe, S!Start
  <2>2. S!PageServer \in Servers BY <1>2, <2>1, SubscribingAssumption DEF S!PageServer
  <2>3. h \in RunState BY <1>2, <1>3, <2>2, SMTT(30) DEF RunState, YesNo
  <2>4. h.kind # "login" /\ h.step = "user" /\ h.server = S!PageServer /\ h.target = S!TargetServer OBVIOUS
  <2> HIDE DEF h
  <2>5. S!PageServer = S!TargetServer \/ strayed = "yes"
    <3>1. CASE dialog.another = "yes" BY <2>1, <3>1 DEF S!PageServer, S!TargetServer
    <3>2. CASE dialog.another # "yes" BY <1>1, <3>2 DEF S!PageServer, S!TargetServer, DialogFits
    <3> QED BY <3>1, <3>2
  <2>6. PICK k \in RunState : k = h BY <2>3
  <2>7. RunFits(k)' BY <1>3, <1>4, <2>2, <2>4, <2>5, <2>6 DEF RunFits
  <2> QED BY <1>4, <1>5, <2>1, <2>6, <2>7, HandlerStep
<1>7. ASSUME NEW u \in Users, S!Login(r, u) PROVE SubscribingOK'
  <2> DEFINE h == [kind |-> "login", step |-> "auth", server |-> S!TargetServer, target |-> S!TargetServer,
                   topic |-> dialog.topic, user |-> u, reserve |-> "no", key |-> dialog.key]
  <2>1. run' = [run EXCEPT ![r] = h] /\ dialog.login = "yes" BY <1>7 DEF S!Login, S!Start
  <2>2. h \in RunState BY <1>2, <1>3, SMTT(30) DEF RunState, YesNo
  <2>3. h.kind = "login" /\ h.step = "auth" /\ h.server = S!TargetServer /\ h.target = S!TargetServer OBVIOUS
  <2> HIDE DEF h
  <2>4. S!TargetServer = Home /\ SessionUser # None => strayed = "yes"
    BY <1>1, <2>1 DEF DialogFits, S!TargetServer
  <2>5. PICK k \in RunState : k = h BY <2>2
  <2>6. RunFits(k)' BY <1>3, <1>4, <2>3, <2>4, <2>5 DEF RunFits
  <2> QED BY <1>4, <1>5, <2>1, <2>5, <2>6, HandlerStep
<1> QED BY <1>6, <1>7

\* The fields of a handler that goes on.
LEMMA GoOK ==
  ASSUME SubscribingOK, NEW r \in S!Runs, NEW u \in Users \cup {None}, NEW s \in {"auth", "save"},
         run' = [run EXCEPT ![r].step = s, ![r].user = u]
  PROVE  \E h \in RunState :
           /\ run' = [run EXCEPT ![r] = h]
           /\ h.kind = run[r].kind /\ h.step = s /\ h.server = run[r].server /\ h.target = run[r].target
           /\ h.topic = run[r].topic /\ h.user = u
<1>1. run \in [S!Runs -> RunState] BY DEF SubscribingOK, SubscribingTyped
<1>2. run[r] \in RunState BY <1>1
<1> DEFINE h == [run[r] EXCEPT !.step = s, !.user = u]
<1>3. h \in RunState BY <1>2 DEF RunState
<1>4. /\ h.kind = run[r].kind /\ h.step = s /\ h.server = run[r].server /\ h.target = run[r].target
      /\ h.topic = run[r].topic /\ h.user = u
  BY <1>2 DEF RunState
<1>5. run' = [run EXCEPT ![r] = h] BY <1>1
<1> HIDE DEF h
<1> QED BY <1>3, <1>4, <1>5

\* A handler is about to subscribe.
LEMMA AddsOK ==
  ASSUME SubscribingOK, NEW r \in S!Runs, S!Adds(r)
  PROVE  \E h \in RunState :
           /\ run' = [run EXCEPT ![r] = h]
           /\ h.kind = run[r].kind /\ h.step = "add" /\ h.server = run[r].server /\ h.target = run[r].target
           /\ h.topic = run[r].topic
<1>1. run \in [S!Runs -> RunState] BY DEF SubscribingOK, SubscribingTyped
<1>2. run[r] \in RunState /\ "no" \in YesNo BY <1>1 DEF YesNo
<1> DEFINE h == [run[r] EXCEPT !.step = "add", !.user = None, !.reserve = "no"]
<1>3. h \in RunState BY <1>2 DEF RunState
<1>4. /\ h.kind = run[r].kind /\ h.step = "add" /\ h.server = run[r].server /\ h.target = run[r].target
      /\ h.topic = run[r].topic
  BY <1>2 DEF RunState
<1>5. run' = [run EXCEPT ![r] = h] BY <1>1 DEF S!Adds
<1> HIDE DEF h
<1> QED BY <1>3, <1>4, <1>5

\* handleSubscribe looks up the user.
LEMMA LookUpStep == ASSUME SubscribingOK, NEW r \in S!Runs, S!LookUpUser(r) PROVE SubscribingOK'
<1>1. /\ run[r].step = "user" /\ S!Go(r, "auth", S!GetUser(run[r].server))
      /\ UNCHANGED <<subscriptions, users, dialog, changed, strayed>>
  BY DEF S!LookUpUser, S!dataVars, S!historyVars
<1>2. RunFits(run[r]) BY DEF SubscribingOK
<1>3. run[r].server \in Servers /\ run[r].target \in Servers /\ (run[r].server = run[r].target \/ strayed = "yes")
  BY <1>1, <1>2 DEF RunFits
<1>4. PICK u : u = S!GetUser(run[r].server) OBVIOUS
<1>5. u \in Users \cup {None}
  BY <1>3, <1>4, SubscribingAssumption DEF S!GetUser, SubscribingOK, SubscribingTyped
<1>6. run' = [run EXCEPT ![r].step = "auth", ![r].user = u] BY <1>1, <1>4 DEF S!Go
<1>7. PICK h \in RunState :
        /\ run' = [run EXCEPT ![r] = h]
        /\ h.kind = run[r].kind /\ h.step = "auth" /\ h.server = run[r].server /\ h.target = run[r].target
        /\ h.topic = run[r].topic /\ h.user = u
  BY <1>5, <1>6, GoOK
<1>8. h.user = S!GetUser(h.server)' /\ (h.server = Home /\ SessionUser # None => h.user # None)
  BY <1>1, <1>4, <1>7 DEF S!GetUser
<1>9. h.kind # "login" BY <1>1, <1>2, <1>7 DEF RunFits
<1>10. RunFits(h)' BY <1>1, <1>3, <1>7, <1>8, <1>9 DEF RunFits
<1>11. dialog' \in DialogState /\ DialogFits(dialog)'
  BY <1>1 DEF SubscribingOK, SubscribingTyped, DialogFits
<1> QED BY <1>1, <1>7, <1>10, <1>11, HandlerStep

\* A handler ends.
LEMMA EndsStep ==
  ASSUME SubscribingOK, NEW r \in S!Runs, S!Ends(r), UNCHANGED <<subscriptions, users, changed>>,
         strayed' = strayed \/ strayed' = "yes", dialog' \in DialogState, DialogFits(dialog)'
  PROVE  SubscribingOK'
<1>1. run' = [run EXCEPT ![r] = S!Idle] BY DEF S!Ends
<1>2. S!Idle \in RunState /\ RunFits(S!Idle)' BY IdleFits
<1> QED BY <1>1, <1>2, HandlerStep

\* api.topicAuth answers.
LEMMA AuthStep == ASSUME SubscribingOK, NEW r \in S!Runs, S!TopicAuth(r) PROVE SubscribingOK'
<1>1. run[r].step = "auth" /\ UNCHANGED <<subscriptions, users, changed>> BY DEF S!TopicAuth, S!dataVars
<1>2. RunFits(run[r]) /\ run[r] \in RunState BY DEF SubscribingOK, SubscribingTyped
<1>3. run[r].server \in Servers /\ run[r].target \in Servers /\ (run[r].server = run[r].target \/ strayed = "yes")
  BY <1>1, <1>2 DEF RunFits
<1>4. dialog \in DialogState /\ DialogFits(dialog) BY DEF SubscribingOK, SubscribingTyped
<1>5. run[r].user \in Users \cup {None} BY <1>2 DEF RunState
<1>6. ASSUME UNCHANGED <<dialog, strayed>> PROVE dialog' \in DialogState /\ DialogFits(dialog)'
  BY <1>4, <1>6 DEF DialogFits
<1>7. ASSUME S!MayRead(run[r].user, run[r].server, run[r].topic), run[r].kind = "login",
             S!Go(r, "save", run[r].user), UNCHANGED <<dialog, strayed>>
      PROVE  SubscribingOK'
  <2>1. PICK u \in Users \cup {None} : u = run[r].user BY <1>5
  <2>2. run' = [run EXCEPT ![r].step = "save", ![r].user = u] BY <1>7, <2>1 DEF S!Go
  <2>3. PICK h \in RunState :
          /\ run' = [run EXCEPT ![r] = h]
          /\ h.kind = run[r].kind /\ h.step = "save" /\ h.server = run[r].server /\ h.target = run[r].target
          /\ h.topic = run[r].topic /\ h.user = u
    BY <2>2, GoOK
  <2>4. S!MayRead(h.user, h.server, h.topic) BY <1>7, <2>1, <2>3
  <2>5. h.server = Home /\ SessionUser # None => strayed = "yes" BY <1>1, <1>2, <1>7, <2>3 DEF RunFits
  <2>6. RunFits(h)' BY <1>3, <1>7, <2>3, <2>4, <2>5 DEF RunFits, S!MayRead
  <2> QED BY <1>1, <1>6, <1>7, <2>3, <2>6, HandlerStep
<1>8. ASSUME S!MayRead(run[r].user, run[r].server, run[r].topic), run[r].kind = "subscribe",
             S!Adds(r), UNCHANGED <<dialog, strayed>>
      PROVE  SubscribingOK'
  <2>2. PICK h \in RunState :
          /\ run' = [run EXCEPT ![r] = h]
          /\ h.kind = run[r].kind /\ h.step = "add" /\ h.server = run[r].server /\ h.target = run[r].target
          /\ h.topic = run[r].topic
    BY <1>8, AddsOK
  <2>3. \/ run[r].server \in changed \/ run[r].user = None
        \/ run[r].user = S!GetUser(run[r].server)
    BY <1>1, <1>2, <1>8 DEF RunFits
  <2>4. Cleared(h.server, h.topic)'
    <3>1. run[r].user = None => S!MayRead(S!GetUser(h.server)', h.server, h.topic) BY <1>8, <2>2 DEF S!MayRead
    <3>2. run[r].user = S!GetUser(run[r].server) => S!MayRead(S!GetUser(h.server)', h.server, h.topic)
      BY <1>1, <1>8, <2>2 DEF S!GetUser
    <3> QED BY <1>1, <2>2, <2>3, <3>1, <3>2 DEF Cleared, S!MayRead
  <2>5. RunFits(h)' BY <1>3, <1>8, <2>2, <2>4 DEF RunFits
  <2> QED BY <1>1, <1>6, <1>8, <2>2, <2>5, HandlerStep
<1>9. ASSUME S!Ends(r), UNCHANGED <<dialog, strayed>> PROVE SubscribingOK'
  BY <1>1, <1>6, <1>9, EndsStep
<1>10. ASSUME S!Ends(r), S!NeedsLogin(r) PROVE SubscribingOK'
  <2>1. /\ run[r].kind = "subscribe" /\ run[r].user = None /\ dialog' = [dialog EXCEPT !.login = "yes"]
        /\ strayed' = IF S!TargetServer = run[r].server THEN strayed ELSE "yes"
    BY <1>10 DEF S!NeedsLogin
  <2>2. "yes" \in YesNo BY DEF YesNo
  <2>3. dialog' \in DialogState BY <1>4, <2>1, <2>2 DEF DialogState
  <2>4. dialog'.another = dialog.another /\ dialog'.baseUrl = dialog.baseUrl BY <1>4, <2>1 DEF DialogState
  <2>5. ASSUME strayed' # "yes", S!TargetServer = Home, SessionUser # None PROVE FALSE
    <3>1. run[r].server = Home BY <2>1, <2>5
    <3> QED BY <1>1, <1>2, <2>1, <2>5, <3>1 DEF RunFits
  <2>6. DialogFits(dialog)' BY <1>4, <2>1, <2>4, <2>5 DEF DialogFits, S!TargetServer
  <2> QED BY <1>1, <1>10, <2>1, <2>3, <2>6, EndsStep
<1> QED BY <1>1, <1>7, <1>8, <1>9, <1>10 DEF S!TopicAuth, S!Authorized

\* A step that replaces the user of a server.
LEMMA ReplaceStep ==
  ASSUME SubscribingOK, NEW s \in Servers, NEW u \in Users \cup {None},
         ~(s = Home /\ SessionUser # None), users' = [users EXCEPT ![s] = u],
         changed \subseteq changed', s \in changed' \/ users[s] = None \/ users[s] = u,
         UNCHANGED <<dialog, strayed>>
  PROVE  /\ Recorded /\ users' \in [Servers -> Users \cup {None}] /\ S!GetUser(s)' = u
         /\ dialog' \in DialogState /\ DialogFits(dialog)'
<1>1. users \in [Servers -> Users \cup {None}] BY DEF SubscribingOK, SubscribingTyped
<1>2. users' \in [Servers -> Users \cup {None}] /\ users'[s] = u /\ \A t \in Servers : t # s => users'[t] = users[t]
  BY <1>1
<1>3. Recorded BY <1>2 DEF Recorded, S!GetUser
<1>4. S!GetUser(s)' = u BY <1>2 DEF S!GetUser
<1> QED BY <1>2, <1>3, <1>4 DEF SubscribingOK, SubscribingTyped, DialogFits

\* handleLogin stores the user.
LEMMA SaveStep == ASSUME SubscribingOK, NEW r \in S!Runs, S!SaveUser(r) PROVE SubscribingOK'
<1>1. run[r].step = "save" /\ S!Adds(r) /\ UNCHANGED <<subscriptions, dialog, strayed>> BY DEF S!SaveUser
<1>2. RunFits(run[r]) /\ run[r] \in RunState BY DEF SubscribingOK, SubscribingTyped
<1>3. /\ run[r].server \in Servers /\ run[r].target \in Servers /\ (run[r].server = run[r].target \/ strayed = "yes")
      /\ run[r].server = Home /\ SessionUser # None => strayed = "yes"
      /\ S!MayRead(run[r].user, run[r].server, run[r].topic)
  BY <1>1, <1>2 DEF RunFits
<1>4. PICK s \in Servers : s = run[r].server BY <1>3
<1>5. PICK u \in Users \cup {None} : u = run[r].user BY <1>2 DEF RunState
<1>6. PICK h \in RunState :
        /\ run' = [run EXCEPT ![r] = h]
        /\ h.kind = run[r].kind /\ h.step = "add" /\ h.server = run[r].server /\ h.target = run[r].target
        /\ h.topic = run[r].topic
  BY <1>1, AddsOK
<1>7. changed \subseteq changed' /\ (s \in changed' \/ users[s] = None \/ users[s] = u)
  BY <1>4, <1>5 DEF S!SaveUser
<1>8. /\ Recorded /\ users' \in [Servers -> Users \cup {None}] /\ Cleared(h.server, h.topic)'
      /\ dialog' \in DialogState /\ DialogFits(dialog)'
  <2>1. CASE s = Home /\ SessionUser # None
    <3>1. users' = users /\ strayed' = "yes" BY <1>1, <1>3, <1>4, <2>1 DEF S!SaveUser
    <3>2. Recorded BY <1>7, <3>1 DEF Recorded, S!GetUser
    <3> QED BY <1>1, <3>1, <3>2 DEF SubscribingOK, SubscribingTyped, DialogFits, Cleared
  <2>2. CASE ~(s = Home /\ SessionUser # None)
    <3>1. users' = [users EXCEPT ![s] = u] BY <1>4, <1>5, <2>2 DEF S!SaveUser
    <3>2. /\ Recorded /\ users' \in [Servers -> Users \cup {None}] /\ S!GetUser(s)' = u
          /\ dialog' \in DialogState /\ DialogFits(dialog)'
      BY <1>1, <1>7, <2>2, <3>1, ReplaceStep
    <3>3. S!GetUser(h.server)' = u BY <1>4, <1>6, <3>2 DEF S!GetUser
    <3>4. S!MayRead(u, h.server, h.topic) BY <1>3, <1>5, <1>6
    <3>5. Cleared(h.server, h.topic)' BY <3>3, <3>4 DEF Cleared, S!MayRead
    <3> QED BY <3>2, <3>5
  <2> QED BY <2>1, <2>2
<1>9. RunFits(h)' BY <1>1, <1>3, <1>6, <1>8 DEF RunFits
<1>10. run' \in [S!Runs -> RunState] /\ \A q \in S!Runs : RunFits(run[q])' BY <1>6, <1>8, <1>9, RunStep
<1>11. \A x \in subscriptions' : x[1] \in Servers /\ Cleared(x[1], x[2])' BY <1>1, <1>8, OthersStay
<1> QED BY <1>8, <1>10, <1>11 DEF SubscribingOK, SubscribingTyped

\* The subscription is added in the browser, ...
LEMMA AddStep == ASSUME SubscribingOK, NEW r \in S!Runs, S!AddSubscription(r) PROVE SubscribingOK'
<1>1. /\ run[r].step = "add" /\ UNCHANGED <<users, dialog, changed, strayed>>
      /\ subscriptions' = subscriptions \cup {<<run[r].target, run[r].topic>>}
      /\ run' = [run EXCEPT ![r] = [S!Idle EXCEPT !.kind = run[r].kind, !.step = "account"]]
  BY DEF S!AddSubscription, S!historyVars
<1>2. RunFits(run[r]) /\ run[r] \in RunState BY DEF SubscribingOK, SubscribingTyped
<1>3. /\ run[r].target \in Servers /\ (run[r].server = run[r].target \/ strayed = "yes")
      /\ Cleared(run[r].server, run[r].topic)
  BY <1>1, <1>2 DEF RunFits
<1>4. PICK s \in Servers : s = run[r].target BY <1>3
<1>5. PICK t : t = run[r].topic OBVIOUS
<1>6. Cleared(s, t) BY <1>3, <1>4, <1>5 DEF Cleared
<1>7. Recorded BY <1>1, NothingChanged
<1>8. Cleared(s, t)' BY <1>6, <1>7, ClearedStays
<1> DEFINE h == [S!Idle EXCEPT !.kind = run[r].kind, !.step = "account"]
<1>9. S!Idle \in RunState BY IdleFits
<1>10. run[r].kind \in {"idle", "subscribe", "login"} BY <1>2 DEF RunState
<1> HIDE DEF S!Idle
<1>11. h \in RunState /\ h.step = "account" BY <1>9, <1>10 DEF RunState
<1>12. run' = [run EXCEPT ![r] = h] BY <1>1
<1> HIDE DEF h
<1>13. PICK k \in RunState : k = h BY <1>11
<1>14. RunFits(k)' BY <1>11, <1>13 DEF RunFits
<1>15. run' \in [S!Runs -> RunState] /\ \A q \in S!Runs : RunFits(run[q])' BY <1>7, <1>12, <1>13, <1>14, RunStep
<1>16. ASSUME NEW x \in subscriptions' PROVE x[1] \in Servers /\ Cleared(x[1], x[2])'
  <2>1. CASE x \in subscriptions BY <1>7, <2>1, OthersStay
  <2>2. CASE x = <<s, t>>
    <3>1. x[1] = s /\ x[2] = t BY <2>2
    <3> QED BY <1>8, <3>1 DEF Cleared, S!GetUser, S!MayRead
  <2> QED BY <1>1, <1>4, <1>5, <2>1, <2>2
<1>17. dialog' \in DialogState /\ DialogFits(dialog)' BY <1>1 DEF SubscribingOK, SubscribingTyped, DialogFits
<1> QED BY <1>1, <1>15, <1>16, <1>17 DEF SubscribingOK, SubscribingTyped

\* ... and in the account.
LEMMA AccountStep == ASSUME SubscribingOK, NEW r \in S!Runs, S!AddToAccount(r) PROVE SubscribingOK'
<1>1. dialog' = S!Reset /\ S!Ends(r) /\ UNCHANGED <<subscriptions, users, changed, strayed>>
  BY DEF S!AddToAccount, S!dataVars, S!historyVars
<1>2. dialog' \in DialogState /\ dialog'.another = "no" /\ dialog'.baseUrl = None /\ dialog'.login = "no"
  BY <1>1, ResetFits
<1>3. DialogFits(dialog)' BY <1>2 DEF DialogFits
<1> QED BY <1>1, <1>2, <1>3, EndsStep

\* A user is changed in the preferences.
LEMMA EditStep ==
  ASSUME SubscribingOK, NEW s \in Servers, NEW u \in Users \cup {None}, S!EditUser(s, u) PROVE SubscribingOK'
<1>1. /\ ~(s = Home /\ SessionUser # None) /\ users' = [users EXCEPT ![s] = u] /\ changed' = changed \cup {s}
      /\ UNCHANGED <<subscriptions, dialog, run, strayed>>
  BY DEF S!EditUser
<1>2. /\ Recorded /\ users' \in [Servers -> Users \cup {None}]
      /\ dialog' \in DialogState /\ DialogFits(dialog)'
  BY <1>1, ReplaceStep
<1>3. ASSUME NEW q \in S!Runs PROVE run'[q] \in RunState /\ RunFits(run[q])'
  <2> DEFINE g == run[q]
  <2>1. g \in RunState /\ RunFits(g) BY DEF SubscribingOK, SubscribingTyped
  <2>2. \A k \in RunState : RunFits(k) => RunFits(k)' BY <1>2, OthersStay
  <2>3. run'[q] = run[q] BY <1>1
  <2>4. \A k \in RunState : k = g /\ RunFits(k) => RunFits(run[q])' BY <2>2, <2>3 DEF RunFits, Cleared
  <2> QED BY <2>1, <2>3, <2>4
<1>4. \A x \in subscriptions' : x[1] \in Servers /\ Cleared(x[1], x[2])' BY <1>1, <1>2, OthersStay
<1> QED BY <1>1, <1>2, <1>3, <1>4 DEF SubscribingOK, SubscribingTyped

\* Every step of the dialog keeps the invariant.
LEMMA SubscribingStep == ASSUME SubscribingOK, [S!Next]_(S!vars) PROVE SubscribingOK'
<1>1. ASSUME UNCHANGED S!vars PROVE SubscribingOK'
  <2>1. UNCHANGED <<subscriptions, users, dialog, run, changed, strayed>> BY <1>1 DEF S!vars
  <2>2. dialog' \in DialogState /\ DialogFits(dialog)' BY <2>1 DEF SubscribingOK, SubscribingTyped, DialogFits
  <2> QED BY <2>1, <2>2, DialogStep
<1>2. ASSUME NEW r \in S!Runs,
             \/ S!Subscribe(r) \/ S!LookUpUser(r) \/ S!TopicAuth(r) \/ S!SaveUser(r)
             \/ S!AddSubscription(r) \/ S!AddToAccount(r) \/ \E u \in Users : S!Login(r, u)
      PROVE  SubscribingOK'
  BY <1>2, StartStep, LookUpStep, AuthStep, SaveStep, AddStep, AccountStep
<1>3. ASSUME NEW s \in Servers, NEW u \in Users \cup {None}, S!EditUser(s, u) PROVE SubscribingOK'
  BY <1>3, EditStep
<1> QED BY <1>1, <1>2, <1>3, UserStep DEF S!Next

\* What the dialog subscribes to can be read (see Subscribing).
THEOREM SubscribedCanRead == S!Spec => []SubscribedAreReadable
<1>1. S!Init => SubscribingOK BY SubscribingInit
<1>2. SubscribingOK /\ [S!Next]_(S!vars) => SubscribingOK' BY SubscribingStep
<1>3. SubscribingOK => SubscribedAreReadable
  BY DEF SubscribingOK, SubscribedAreReadable, S!SubscribedAreReadable, Cleared
<1> QED BY <1>1, <1>2, <1>3, PTL DEF S!Spec

-------------------------------------------------------------------------------
(* The settings of an account *)

SettingRun == [step : {"idle", "get", "apply"}, value : Values \cup {None}]

SettingsTyped ==
  /\ account \in Values \cup {None}
  /\ setting \in [Devices -> Values]
  /\ save \in [Devices -> SUBSET Values]
  /\ events \in [Devices -> Nat]
  /\ fetch \in [Devices -> [E!Fetches -> SettingRun]]
  /\ spoiled \in SUBSET Devices

\* The syncs of a device do not overlap; and when no event is on its way, the one that is
\* under way has the value of the account, and otherwise the device has it, but for a
\* value that the account has yet to get.
InStep(d) ==
  d \notin spoiled =>
    /\ \A e, f \in E!Fetches : fetch[d][e].step # "idle" /\ fetch[d][f].step # "idle" => e = f
    /\ events[d] = 0 =>
         /\ \A f \in E!Fetches : fetch[d][f].step = "apply" => fetch[d][f].value = account
         /\ ~E!Syncing(d) /\ save[d] = {} /\ account # None /\ account # Zero => setting[d] = account

SettingsOK == SettingsTyped /\ \A d \in Devices : InStep(d)

\* A step of the run f of sync() on the device d.
LEMMA SettingRunStep ==
  ASSUME SettingsTyped, NEW d \in Devices, NEW f \in E!Fetches, NEW r \in SettingRun,
         fetch' = [fetch EXCEPT ![d][f] = r]
  PROVE  /\ fetch' \in [Devices -> [E!Fetches -> SettingRun]]
         /\ fetch'[d][f] = r
         /\ \A e \in E!Fetches : e # f => fetch'[d][e] = fetch[d][e]
         /\ \A b \in Devices : b # d => fetch'[b] = fetch[b]
<1>1. fetch \in [Devices -> [E!Fetches -> SettingRun]] BY DEF SettingsTyped
<1>2. fetch[d] \in [E!Fetches -> SettingRun] BY <1>1
<1>3. fetch'[d] = [fetch[d] EXCEPT ![f] = r] BY <1>1
<1>4. fetch'[d] \in [E!Fetches -> SettingRun] BY <1>2, <1>3
<1>5. \A b \in Devices : b # d => fetch'[b] = fetch[b] BY <1>1
<1>6. fetch'[d][f] = r /\ \A e \in E!Fetches : e # f => fetch'[d][e] = fetch[d][e] BY <1>2, <1>3
<1>7. fetch' \in [Devices -> [E!Fetches -> SettingRun]] BY <1>1, <1>4, <1>5
<1> QED BY <1>5, <1>6, <1>7

\* Nothing that concerns the device has changed.
LEMMA SettingsAlike ==
  ASSUME NEW d \in Devices, InStep(d), account' = account, setting'[d] = setting[d],
         save'[d] = save[d], events'[d] = events[d], fetch'[d] = fetch[d],
         d \in spoiled <=> d \in spoiled'
  PROVE  InStep(d)'
<1>1. E!Syncing(d)' <=> E!Syncing(d) BY DEF E!Syncing
<1> QED BY <1>1 DEF InStep

\* Nothing was changed yet.
LEMMA SettingsInit == ASSUME E!Init PROVE SettingsOK
<1>1. E!Idle \in SettingRun /\ E!Idle.step = "idle" BY SMTT(30) DEF E!Idle, SettingRun
<1> HIDE DEF E!Idle
<1>2. SettingsTyped
  <2>1. account \in Values \cup {None} /\ setting \in [Devices -> Values] /\ save \in [Devices -> SUBSET Values]
        /\ spoiled \in SUBSET Devices
    BY SettingsAssumption DEF E!Init
  <2>2. events \in [Devices -> Nat] BY SMTT(30) DEF E!Init
  <2>3. fetch \in [Devices -> [E!Fetches -> SettingRun]] BY <1>1 DEF E!Init
  <2> QED BY <2>1, <2>2, <2>3 DEF SettingsTyped
<1>3. \A d \in Devices, f \in E!Fetches : fetch[d][f].step = "idle" BY <1>1 DEF E!Init
<1>4. account = None BY DEF E!Init
<1> QED BY <1>2, <1>3, <1>4 DEF SettingsOK, InStep

\* A sync begins.
LEMMA SyncStep ==
  ASSUME SettingsOK, NEW b \in Devices, NEW f \in E!Fetches, E!Sync(b, f),
         events' \in [Devices -> Nat], \A d \in Devices : d # b => events'[d] = events[d]
  PROVE  SettingsOK'
<1>1. /\ fetch' = [fetch EXCEPT ![b][f].step = "get"]
      /\ spoiled' = IF E!Syncing(b) THEN spoiled \cup {b} ELSE spoiled \ {b}
      /\ UNCHANGED <<account, setting, save, schanges, sfaults>>
  BY DEF E!Sync
<1> DEFINE r == [fetch[b][f] EXCEPT !.step = "get"]
<1>2. fetch \in [Devices -> [E!Fetches -> SettingRun]] BY DEF SettingsOK, SettingsTyped
<1>3. fetch[b] \in [E!Fetches -> SettingRun] /\ fetch[b][f] \in SettingRun BY <1>2
<1>4. r \in SettingRun /\ r.step = "get" BY <1>3 DEF SettingRun
<1>5. fetch' = [fetch EXCEPT ![b][f] = r] BY <1>1
<1> HIDE DEF r
<1>6. SettingsTyped BY DEF SettingsOK
<1>7. /\ fetch' \in [Devices -> [E!Fetches -> SettingRun]]
      /\ fetch'[b][f] = r
      /\ \A e \in E!Fetches : e # f => fetch'[b][e] = fetch[b][e]
      /\ \A d \in Devices : d # b => fetch'[d] = fetch[d]
  BY <1>4, <1>5, <1>6, SettingRunStep
<1>8. SettingsTyped' BY <1>1, <1>6, <1>7 DEF SettingsTyped
<1>9. ASSUME NEW d \in Devices PROVE InStep(d)'
  <2>1. CASE d # b
    <3>1. d \in spoiled <=> d \in spoiled' BY <1>1, <2>1
    <3>2. InStep(d) BY DEF SettingsOK
    <3> QED BY <1>1, <1>7, <2>1, <3>1, <3>2, SettingsAlike
  <2>2. CASE d = b /\ E!Syncing(b) BY <1>1, <2>2 DEF InStep
  <2>3. CASE d = b /\ ~E!Syncing(b)
    <3>1. \A e \in E!Fetches : fetch[b][e].step = "idle" BY <2>3 DEF E!Syncing
    <3>2. \A e \in E!Fetches : e # f => fetch'[b][e].step = "idle" BY <1>7, <3>1
    <3>3. fetch'[b][f].step = "get" BY <1>4, <1>7
    <3>4. E!Syncing(b)' BY <3>3 DEF E!Syncing
    <3>5. \A e \in E!Fetches : fetch'[b][e].step # "apply" BY <3>2, <3>3
    <3> QED BY <2>3, <3>2, <3>4, <3>5 DEF InStep
  <2> QED BY <2>1, <2>2, <2>3
<1> QED BY <1>8, <1>9 DEF SettingsOK

\* Every step of the devices keeps the invariant.
LEMMA SettingsStep == ASSUME SettingsOK, [E!Next]_(E!vars) PROVE SettingsOK'
<1>1. SettingsTyped /\ \A d \in Devices : InStep(d) BY DEF SettingsOK
<1>2. ASSUME NEW b \in Devices, NEW v \in Values, E!Change(b, v) PROVE SettingsOK'
  <2>1. /\ setting' = [setting EXCEPT ![b] = v]
        /\ save' = [save EXCEPT ![b] = @ \cup {v}]
        /\ UNCHANGED <<account, events, fetch, sloads, sfaults, spoiled>>
    BY <1>2 DEF E!Change
  <2>2. setting' \in [Devices -> Values] /\ save' \in [Devices -> SUBSET Values]
    BY <1>1, <2>1 DEF SettingsTyped
  <2>3. /\ save'[b] # {}
        /\ \A d \in Devices : d # b => setting'[d] = setting[d] /\ save'[d] = save[d]
    BY <1>1, <2>1 DEF SettingsTyped
  <2>4. SettingsTyped' BY <1>1, <2>1, <2>2 DEF SettingsTyped
  <2>5. ASSUME NEW d \in Devices PROVE InStep(d)'
    <3>1. CASE d # b BY <1>1, <2>1, <2>3, <3>1, SettingsAlike
    <3>2. CASE d = b BY <1>1, <2>1, <2>3, <3>2 DEF InStep
    <3> QED BY <3>1, <3>2
  <2> QED BY <2>4, <2>5 DEF SettingsOK
<1>3. ASSUME NEW b \in Devices, NEW v \in Values, E!Save(b, v) PROVE SettingsOK'
  <2>1. PICK left \in SUBSET Devices :
          /\ events' = [e \in Devices |-> IF e \in left THEN events[e] ELSE events[e] + 1]
          /\ spoiled' = spoiled \cup left
    BY <1>3 DEF E!Save
  <2>2. /\ account' = v /\ save' = [save EXCEPT ![b] = @ \ {v}]
        /\ UNCHANGED <<setting, fetch, schanges, sloads>>
    BY <1>3 DEF E!Save
  <2>3. events' \in [Devices -> Nat] /\ \A d \in Devices : d \notin left => events'[d] # 0
    BY <1>1, <2>1, SMTT(30) DEF SettingsTyped
  <2>4. save' \in [Devices -> SUBSET Values] BY <1>1, <2>2 DEF SettingsTyped
  <2>5. SettingsTyped' BY <1>1, <2>1, <2>2, <2>3, <2>4 DEF SettingsTyped
  <2>6. ASSUME NEW d \in Devices PROVE InStep(d)' BY <1>1, <2>1, <2>2, <2>3 DEF InStep
  <2> QED BY <2>5, <2>6 DEF SettingsOK
<1>4. ASSUME NEW b \in Devices, NEW v \in Values, E!Fail(b, v) PROVE SettingsOK'
  <2>1. /\ save' = [save EXCEPT ![b] = @ \ {v}] /\ spoiled' = spoiled \cup {b}
        /\ UNCHANGED <<account, setting, events, fetch, schanges, sloads>>
    BY <1>4 DEF E!Fail
  <2>2. save' \in [Devices -> SUBSET Values] /\ \A d \in Devices : d # b => save'[d] = save[d]
    BY <1>1, <2>1 DEF SettingsTyped
  <2>3. SettingsTyped' BY <1>1, <2>1, <2>2 DEF SettingsTyped
  <2>4. ASSUME NEW d \in Devices PROVE InStep(d)'
    <3>1. CASE d # b
      <4>1. d \in spoiled <=> d \in spoiled' BY <2>1, <3>1
      <4> QED BY <1>1, <2>1, <2>2, <3>1, <4>1, SettingsAlike
    <3>2. CASE d = b BY <2>1, <3>2 DEF InStep
    <3> QED BY <3>1, <3>2
  <2> QED BY <2>3, <2>4 DEF SettingsOK
<1>5. ASSUME NEW b \in Devices, NEW f \in E!Fetches, E!OnSyncEvent(b, f) PROVE SettingsOK'
  <2>1. E!Sync(b, f) /\ events[b] > 0 /\ events' = [events EXCEPT ![b] = @ - 1] BY <1>5 DEF E!OnSyncEvent
  <2>2. events' \in [Devices -> Nat] BY <1>1, <2>1, SMTT(30) DEF SettingsTyped
  <2>3. \A d \in Devices : d # b => events'[d] = events[d] BY <1>1, <2>1 DEF SettingsTyped
  <2> QED BY <2>1, <2>2, <2>3, SyncStep
<1>6. ASSUME NEW b \in Devices, NEW f \in E!Fetches, E!OnPageLoad(b, f) PROVE SettingsOK'
  <2>1. E!Sync(b, f) /\ UNCHANGED events BY <1>6 DEF E!OnPageLoad
  <2>2. events' \in [Devices -> Nat] BY <1>1, <2>1 DEF SettingsTyped
  <2> QED BY <2>1, <2>2, SyncStep
<1>7. ASSUME NEW b \in Devices, NEW f \in E!Fetches, E!Get(b, f) PROVE SettingsOK'
  <2> DEFINE r == [step |-> "apply", value |-> account]
  <2>1. /\ fetch[b][f].step = "get" /\ fetch' = [fetch EXCEPT ![b][f] = r]
        /\ UNCHANGED <<account, setting, save, events, schanges, sloads, sfaults, spoiled>>
    BY <1>7 DEF E!Get
  <2>2. r \in SettingRun BY <1>1, SMTT(30) DEF SettingRun, SettingsTyped
  <2>3. r.step = "apply" /\ r.value = account OBVIOUS
  <2> HIDE DEF r
  <2>4. /\ fetch' \in [Devices -> [E!Fetches -> SettingRun]] /\ fetch'[b][f] = r
        /\ \A e \in E!Fetches : e # f => fetch'[b][e] = fetch[b][e]
        /\ \A d \in Devices : d # b => fetch'[d] = fetch[d]
    BY <1>1, <2>1, <2>2, SettingRunStep
  <2>5. SettingsTyped' BY <1>1, <2>1, <2>4 DEF SettingsTyped
  <2>6. ASSUME NEW d \in Devices PROVE InStep(d)'
    <3>1. CASE d # b BY <1>1, <2>1, <2>4, <3>1, SettingsAlike
    <3>2. CASE d = b
      <4> SUFFICES ASSUME b \notin spoiled PROVE InStep(b)' BY <2>1, <3>2 DEF InStep
      <4>1. \A e \in E!Fetches : e # f => fetch'[b][e].step = "idle" BY <1>1, <2>1, <2>4 DEF InStep
      <4>2. fetch'[b][f].step = "apply" /\ fetch'[b][f].value = account' BY <2>1, <2>3, <2>4
      <4>3. E!Syncing(b)' BY <4>2 DEF E!Syncing
      <4> QED BY <4>1, <4>2, <4>3 DEF InStep
    <3> QED BY <3>1, <3>2
  <2> QED BY <2>5, <2>6 DEF SettingsOK
<1>8. ASSUME NEW b \in Devices, NEW f \in E!Fetches, E!Apply(b, f) PROVE SettingsOK'
  <2> DEFINE value == IF fetch[b][f].value \in {None, Zero} THEN setting[b] ELSE fetch[b][f].value
  <2>1. /\ fetch[b][f].step = "apply" /\ fetch' = [fetch EXCEPT ![b][f] = E!Idle]
        /\ setting' = [setting EXCEPT ![b] = value]
        /\ UNCHANGED <<account, save, events, schanges, sloads, sfaults, spoiled>>
    BY <1>8 DEF E!Apply
  <2>2. E!Idle \in SettingRun /\ E!Idle.step = "idle" BY SMTT(30) DEF E!Idle, SettingRun
  <2>3. value \in Values
    <3>1. fetch[b][f] \in SettingRun /\ setting[b] \in Values BY <1>1 DEF SettingsTyped
    <3>2. fetch[b][f].value \in Values \cup {None} BY <3>1 DEF SettingRun
    <3> QED BY <3>1, <3>2
  <2>4. fetch[b][f].value # None /\ fetch[b][f].value # Zero => value = fetch[b][f].value OBVIOUS
  <2> HIDE DEF value, E!Idle
  <2>5. /\ fetch' \in [Devices -> [E!Fetches -> SettingRun]] /\ fetch'[b][f] = E!Idle
        /\ \A e \in E!Fetches : e # f => fetch'[b][e] = fetch[b][e]
        /\ \A d \in Devices : d # b => fetch'[d] = fetch[d]
    BY <1>1, <2>1, <2>2, SettingRunStep
  <2>6. /\ setting' \in [Devices -> Values] /\ setting'[b] = value
        /\ \A d \in Devices : d # b => setting'[d] = setting[d]
    BY <1>1, <2>1, <2>3 DEF SettingsTyped
  <2>7. SettingsTyped' BY <1>1, <2>1, <2>5, <2>6 DEF SettingsTyped
  <2>8. ASSUME NEW d \in Devices PROVE InStep(d)'
    <3>1. CASE d # b BY <1>1, <2>1, <2>5, <2>6, <3>1, SettingsAlike
    <3>2. CASE d = b
      <4> SUFFICES ASSUME b \notin spoiled PROVE InStep(b)' BY <2>1, <3>2 DEF InStep
      <4>1. \A e \in E!Fetches : fetch'[b][e].step = "idle" BY <1>1, <2>1, <2>2, <2>5 DEF InStep
      <4>2. events[b] = 0 => fetch[b][f].value = account BY <1>1, <2>1 DEF InStep
      <4>3. events[b] = 0 /\ account # None /\ account # Zero => setting'[b] = account BY <2>4, <2>6, <4>2
      <4> QED BY <2>1, <4>1, <4>3 DEF InStep
    <3> QED BY <3>1, <3>2
  <2> QED BY <2>7, <2>8 DEF SettingsOK
<1>9. CASE UNCHANGED E!vars
  <2>1. /\ account' = account /\ setting' = setting /\ save' = save /\ events' = events
        /\ fetch' = fetch /\ spoiled' = spoiled
    BY <1>9 DEF E!vars
  <2>2. SettingsTyped' BY <1>1, <2>1 DEF SettingsTyped
  <2> QED BY <1>1, <2>1, <2>2, SettingsAlike DEF SettingsOK
<1> QED BY <1>2, <1>3, <1>4, <1>5, <1>6, <1>7, <1>8, <1>9 DEF E!Next

\* A device to which nothing is on its way has the setting of the account (AccountApi.sync),
\* unless something was lost, its syncs have overlapped, or the setting is 0.
THEOREM SettingsCatchUp == E!Spec => []SettingsConverge
<1>1. E!Init => SettingsOK BY SettingsInit
<1>2. SettingsOK /\ [E!Next]_(E!vars) => SettingsOK' BY SettingsStep
<1>3. SettingsOK => SettingsConverge
  BY DEF SettingsOK, InStep, SettingsConverge, E!SettingsConverge, E!Settled
<1> QED BY <1>1, <1>2, <1>3, PTL DEF E!Spec
==============================================================================
