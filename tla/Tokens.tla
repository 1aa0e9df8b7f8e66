------------------------------- MODULE Tokens -------------------------------
(***************************************************************************)
(* Access tokens: the user_token table of user/manager.go, the pruning of  *)
(* excess and of expired tokens, and the queue through which the time of   *)
(* the last access is written.  Times are ticks of the clock in seconds;   *)
(* an expiry of 0 means that the token never expires.                      *)
(***************************************************************************)
EXTENDS Naturals, FiniteSets

CONSTANTS
    Users,
    TokenIds,       \* random token values, never drawn twice
    TokenMaxCount,  \* tokenMaxCount
    Lifetimes,      \* lifetimes asked for; 0 for a token that never expires
    MaxTime,        \* bound: the clock stops here
    MaxFlight,      \* bound: token updates in flight
    NoToken

VARIABLES
    tokens,   \* user_token
    drawn,    \* token values ever drawn
    now,
    flight,   \* updates handed to goroutines, not yet in the queue
    queue,    \* tokenQueue: token -> time of access, 0 if there is none
    batch     \* the queue the writer has taken

vars == <<tokens, drawn, now, flight, queue, batch>>

Token == [user : Users, expires : Nat, access : Nat]

Of(table, u) == {t \in TokenIds : table[t] # NoToken /\ table[t].user = u}

Valid(t) ==
    tokens[t] # NoToken /\ (tokens[t].expires = 0 \/ tokens[t].expires >= now)

Expiry(life) == IF life = 0 THEN 0 ELSE now + life
-----------------------------------------------------------------------------
Init ==
    /\ tokens = [t \in TokenIds |-> NoToken]
    /\ drawn = {}
    /\ now = 1
    /\ flight = {}
    /\ queue = [t \in TokenIds |-> 0]
    /\ batch = [t \in TokenIds |-> 0]

(* The tokens that deleteExcessTokensQuery leaves: as many as allowed, the *)
(* latest expiry first.  SQL does not say which of two equal ones stays.   *)
Kept(table, u, K) ==
    /\ K \subseteq Of(table, u)
    /\ Cardinality(K) = TokenMaxCount
    /\ \A t \in K, d \in Of(table, u) \ K : table[t].expires >= table[d].expires

(* CreateToken, one transaction: insert, count, prune.                     *)
CreateToken(t, u, life) ==
    /\ t \notin drawn
    /\ LET all == [tokens EXCEPT ![t] = [user |-> u, expires |-> Expiry(life), access |-> now]]
       IN  IF Cardinality(Of(all, u)) >= TokenMaxCount
           THEN \E K \in SUBSET TokenIds :
                  /\ Kept(all, u, K)
                  /\ tokens' = [d \in TokenIds |-> IF d \in Of(all, u) \ K THEN NoToken ELSE all[d]]
           ELSE tokens' = all
    /\ drawn' = drawn \cup {t}
    /\ UNCHANGED <<now, flight, queue, batch>>

(* ChangeToken: an update, so nothing happens if the token is gone.        *)
ChangeToken(t, life) ==
    /\ tokens[t] # NoToken
    /\ tokens' = [tokens EXCEPT ![t].expires = Expiry(life)]
    /\ UNCHANGED <<drawn, now, flight, queue, batch>>

RemoveToken(t) ==
    /\ tokens[t] # NoToken
    /\ tokens' = [tokens EXCEPT ![t] = NoToken]
    /\ UNCHANGED <<drawn, now, flight, queue, batch>>

ExpiredBy(t, time) ==
    tokens[t] # NoToken /\ tokens[t].expires > 0 /\ tokens[t].expires < time

(* Mutant: deletes tokens in their last second.                           *)
RemoveExpiredEarly ==
    /\ \E t \in TokenIds : ExpiredBy(t, now + 1)
    /\ tokens' = [t \in TokenIds |-> IF ExpiredBy(t, now + 1) THEN NoToken ELSE tokens[t]]
    /\ UNCHANGED <<drawn, now, flight, queue, batch>>

(* RemoveExpiredTokens, run by the manager.                                *)
RemoveExpiredTokens ==
    /\ \E t \in TokenIds : ExpiredBy(t, now)
    /\ tokens' = [t \in TokenIds |-> IF ExpiredBy(t, now) THEN NoToken ELSE tokens[t]]
    /\ UNCHANGED <<drawn, now, flight, queue, batch>>

(* AuthenticateToken, then "go EnqueueTokenUpdate" with the time of the    *)
(* call: the goroutines of two requests may run in either order.           *)
AuthenticateToken(t) ==
    /\ Valid(t)
    /\ Cardinality(flight) < MaxFlight
    /\ flight' = flight \cup {<<t, now>>}
    /\ UNCHANGED <<tokens, drawn, now, queue, batch>>

EnqueueTokenUpdate(t, at) ==
    /\ <<t, at>> \in flight
    /\ flight' = flight \ {<<t, at>>}
    /\ queue' = [queue EXCEPT ![t] = at]
    /\ UNCHANGED <<tokens, drawn, now, batch>>

TakeTokenQueue ==
    /\ \A t \in TokenIds : batch[t] = 0
    /\ \E t \in TokenIds : queue[t] # 0
    /\ batch' = queue
    /\ queue' = [t \in TokenIds |-> 0]
    /\ UNCHANGED <<tokens, drawn, now, flight>>

(* The transaction of writeTokenUpdateQueue updates the tokens that still  *)
(* exist.                                                                  *)
WriteTokenQueue ==
    /\ \E t \in TokenIds : batch[t] # 0
    /\ tokens' = [t \in TokenIds |->
                    IF batch[t] # 0 /\ tokens[t] # NoToken
                    THEN [tokens[t] EXCEPT !.access = batch[t]] ELSE tokens[t]]
    /\ batch' = [t \in TokenIds |-> 0]
    /\ UNCHANGED <<drawn, now, flight, queue>>

Tick ==
    /\ now < MaxTime
    /\ now' = now + 1
    /\ UNCHANGED <<tokens, drawn, flight, queue, batch>>

Next ==
    \/ \E t \in TokenIds :
         \/ \E u \in Users, life \in Lifetimes : CreateToken(t, u, life)
         \/ \E life \in Lifetimes : ChangeToken(t, life)
         \/ RemoveToken(t) \/ AuthenticateToken(t)
         \/ \E at \in 1 .. MaxTime : EnqueueTokenUpdate(t, at)
    \/ RemoveExpiredTokens \/ TakeTokenQueue \/ WriteTokenQueue \/ Tick

Spec == Init /\ [][Next]_vars
-----------------------------------------------------------------------------
(* The types of the state.                                                 *)
TypeOK ==
    /\ tokens \in [TokenIds -> Token \cup {NoToken}]
    /\ drawn \subseteq TokenIds
    /\ now \in 1 .. MaxTime
    /\ flight \subseteq drawn \X (1 .. MaxTime)
    /\ queue \in [TokenIds -> 0 .. MaxTime]
    /\ batch \in [TokenIds -> 0 .. MaxTime]

(* A token that would still authenticate is deleted only on request, or    *)
(* because its user keeps the allowed number of tokens that expire no      *)
(* earlier: neither the expiry of others, nor tokens of other users, nor   *)
(* the writing of access times costs anybody a valid token.                *)
ValidKept ==
    [][\A t \in TokenIds : Valid(t) /\ tokens'[t] = NoToken =>
         \/ RemoveToken(t)
         \/ /\ Cardinality(Of(tokens', tokens[t].user)) = TokenMaxCount
            /\ \A k \in Of(tokens', tokens[t].user) : tokens'[k].expires >= tokens[t].expires]_vars
=============================================================================
