------------------------------- MODULE Accounts -------------------------------
(***************************************************************************)
(* What an account has and may use: its paid tier (Payments), its daily    *)
(* messages (UserStats), its tokens (Tokens), its browsers (WebPush), and  *)
(* the files all of it is stored in (Migrations).  These parts share no    *)
(* state, so each behaviour is one of one part, which Init picks.          *)
(***************************************************************************)
EXTENDS Payments, Integers, FiniteSets

CONSTANTS Publishes,   \* the publish requests of UserStats
          Limit, MaxResets,
          Users, TokenIds, TokenMaxCount, Lifetimes, MaxTime, MaxFlight, NoToken,
          Endpoints, Owners, Ips, Goroutines, EndpointLimit, WarnAfter, ExpireAfter,
          MaxDays,     \* WebPush's bound on the time
          MaxIds, MaxCrashes

VARIABLES part,
          req, read, limiter, db, queue, writing, resetting, resets, seen, came, accepted, late, astride,
          table, drawn, now, flight, updates, batch,
          row, time, ids, run, ran, told, raced,
          file, schema, stamp, mids, doing, step, crashes, torn

statsVars ==
  <<req, read, limiter, db, queue, writing, resetting, resets, seen, came, accepted, late, astride>>
tokenVars == <<table, drawn, now, flight, updates, batch>>
pushVars == <<row, time, ids, run, ran, told, raced>>
fileVars == <<file, schema, stamp, mids, doing, step, crashes, torn>>

Stats == INSTANCE UserStats WITH Requests <- Publishes
T == INSTANCE Tokens WITH tokens <- table, queue <- updates
Push == INSTANCE WebPush WITH MaxTime <- MaxDays
Files == INSTANCE Migrations WITH version <- stamp, ids <- mids, pc <- doing

\* Counts are numbers, and None is not one.
ASSUME StatsAssumption == Limit \in Nat /\ None \notin Nat /\ MaxResets \in Nat

\* A token ends after it was made, and is not NoToken.
ASSUME TokensAssumption ==
  /\ Lifetimes \subseteq Nat /\ MaxTime \in Nat
  /\ NoToken \notin T!Token

\* A subscription is warned some time after it was updated, and before it expires.
ASSUME WebPushAssumption ==
  /\ WarnAfter \in Nat /\ ExpireAfter \in Nat
  /\ 0 < WarnAfter /\ WarnAfter < ExpireAfter
  /\ None \notin Push!Subscription

AccountsInit ==
  /\ Init /\ Stats!Init /\ T!Init /\ Push!Init /\ Files!Init
  /\ part \in {"payments", "stats", "tokens", "push", "files"}
  /\ part # "files" => file = "push" /\ schema = 1

AccountsNext ==
  /\ \/ part = "payments" /\ Next /\ UNCHANGED <<statsVars, tokenVars, pushVars, fileVars>>
     \/ part = "stats" /\ Stats!Next /\ UNCHANGED <<vars, tokenVars, pushVars, fileVars>>
     \/ part = "tokens" /\ T!Next /\ UNCHANGED <<vars, statsVars, pushVars, fileVars>>
     \/ part = "push" /\ Push!Next /\ UNCHANGED <<vars, statsVars, tokenVars, fileVars>>
     \/ part = "files" /\ Files!Next /\ UNCHANGED <<vars, statsVars, tokenVars, pushVars>>
  /\ UNCHANGED part

AccountsSpec ==
  AccountsInit /\ [][AccountsNext]_<<part, vars, statsVars, tokenVars, pushVars, fileVars>>

\* Of the requests that came after a reset no more than the limit are accepted until the
\* next, although the stored counts lag behind and visitors are removed and made anew.
LimitRespected == Stats!LimitRespected

\* A user is never charged for messages of the day before, unless a count was on its way
\* during the reset.
ResetHolds == Stats!ResetHolds

\* A token that would still authenticate is deleted only on request or because its user
\* keeps the allowed number of tokens that expire no earlier.
ValidKept == T!ValidKept

\* A web push subscription that is due to be removed was sent a warning since its last
\* update, unless that update came between a warning and its mark.
ExpiredWereWarned == Push!ExpiredWereWarned

\* The server opens its databases after any kill, on the current schema and with its
\* message IDs, unless the kill fell between two statements that cannot be repeated.
SurvivesKills == Files!SurvivesKills
===============================================================================
