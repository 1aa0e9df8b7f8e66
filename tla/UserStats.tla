------------------------------ MODULE UserStats ------------------------------
(***************************************************************************)
(* The daily message count of a user with a tier: the limiter of the       *)
(* user's visitor (server/visitor.go), the queue through which it goes to  *)
(* the database (user/manager.go) and the daily reset (server/server.go).  *)
(*                                                                         *)
(* Emails and calls are counted in the same way.                           *)
(***************************************************************************)
EXTENDS Integers

CONSTANTS Requests,   \* publish requests of the user
          Limit,      \* the messages a day of the tier
          None,
          MaxResets   \* a bound on the resets

VARIABLES req,       \* "new", "authenticated", "visited", "allowed", "counted" or "done"
          read,      \* the count in the user a request read from the database, then the
                     \* count it is about to enqueue
          limiter,   \* the messagesLimiter of the visitor, or None without a visitor
          db,        \* stats_messages
          queue,     \* the entry of statsQueue, or None
          writing,   \* what writeUserStatsQueue took from the queue, or None
          resetting, \* "yes" while resetStats has reset the visitors and holds s.mu
          resets,
          seen,      \* the resets there had been when the visitor was last seen
          came,      \* history: the resets there had been when a request came to its visitor
          accepted,  \* history: messages accepted since the last reset
          late,      \* history: those of requests that had come before it
          astride    \* history: "yes" if a count was on its way when the counts were reset

memory == <<limiter, seen, came, accepted, late>>
manager == <<db, queue, writing>>
reset == <<resetting, resets, astride>>
vars == <<req, read, memory, manager, reset>>

Init ==
  /\ req = [r \in Requests |-> "new"]
  /\ read = [r \in Requests |-> 0]
  /\ limiter = None /\ seen = 0
  /\ came = [r \in Requests |-> 0] /\ accepted = 0 /\ late = 0
  /\ db = 0 /\ queue = None /\ writing = None
  /\ resetting = "no" /\ resets = 0 /\ astride = "no"

-----------------------------------------------------------------------------
(* A publish request *)

\* maybeAuthenticate reads the user with its stats.
Authenticate(r) ==
  /\ req[r] = "new"
  /\ req' = [req EXCEPT ![r] = "authenticated"]
  /\ read' = [read EXCEPT ![r] = db]
  /\ UNCHANGED <<memory, manager, reset>>

\* Mutant: a visitor always starts at the count of the user just read.
VisitAnew(r) ==
  /\ req[r] = "authenticated" /\ resetting = "no"
  /\ req' = [req EXCEPT ![r] = "visited"]
  /\ limiter' = read[r]
  /\ seen' = resets /\ came' = [came EXCEPT ![r] = resets]
  /\ UNCHANGED <<read, accepted, late, manager, reset>>

\* s.visitor, under s.mu: a new visitor starts at the count that was read.
Visit(r) ==
  /\ req[r] = "authenticated" /\ resetting = "no"
  /\ req' = [req EXCEPT ![r] = "visited"]
  /\ limiter' = IF limiter = None THEN read[r] ELSE limiter
  /\ seen' = resets /\ came' = [came EXCEPT ![r] = resets]
  /\ UNCHANGED <<read, accepted, late, manager, reset>>

\* vrate.MessageAllowed
MessageAllowed(r) ==
  /\ req[r] = "visited" /\ limiter + 1 <= Limit
  /\ req' = [req EXCEPT ![r] = "allowed"]
  /\ limiter' = limiter + 1
  /\ accepted' = accepted + 1
  /\ late' = IF came[r] = resets THEN late ELSE late + 1
  /\ UNCHANGED <<read, seen, came, manager, reset>>

MessageRefused(r) ==
  /\ req[r] = "visited" /\ limiter + 1 > Limit
  /\ req' = [req EXCEPT ![r] = "done"]
  /\ UNCHANGED <<read, memory, manager, reset>>

\* v.Stats() at the end of the handler, passed to a goroutine ...
ReadStats(r) ==
  /\ req[r] = "allowed"
  /\ req' = [req EXCEPT ![r] = "counted"]
  /\ read' = [read EXCEPT ![r] = limiter]
  /\ UNCHANGED <<memory, manager, reset>>

\* ... that enqueues it; the latest to come stays in the queue.
EnqueueUserStats(r) ==
  /\ req[r] = "counted"
  /\ req' = [req EXCEPT ![r] = "done"]
  /\ queue' = read[r]
  /\ UNCHANGED <<read, memory, db, writing, reset>>

-----------------------------------------------------------------------------
(* asyncQueueWriter *)

\* writeUserStatsQueue takes the queue under the lock ...
TakeQueue ==
  /\ queue # None /\ writing = None
  /\ writing' = queue
  /\ queue' = None
  /\ UNCHANGED <<req, read, memory, db, reset>>

\* ... and writes it without; if that fails, it is lost.
WriteQueue ==
  /\ writing # None
  /\ db' \in {writing, db}
  /\ writing' = None
  /\ UNCHANGED <<req, read, memory, queue, reset>>

-----------------------------------------------------------------------------
(* resetStats and pruneVisitors *)

\* Counts that a request has read from the database or the limiter and not passed on, and
\* those the writer took from the queue.
OnTheirWay == writing # None \/ \E r \in Requests : req[r] \in {"authenticated", "counted"}

\* v.ResetStats() of every visitor, under s.mu ...
ResetVisitors ==
  /\ resetting = "no" /\ resets < MaxResets
  /\ resetting' = "yes"
  /\ resets' = resets + 1
  /\ limiter' = IF limiter = None THEN None ELSE 0
  /\ accepted' = 0 /\ late' = 0
  /\ UNCHANGED <<req, read, seen, came, manager, astride>>

\* Mutant: the queue is not emptied.
ResetStatsOnly ==
  /\ resetting = "yes"
  /\ resetting' = "no"
  /\ db' = 0
  /\ astride' = IF OnTheirWay THEN "yes" ELSE "no"
  /\ UNCHANGED <<req, read, memory, queue, writing, resets>>

\* ... and Manager.ResetStats, which includes the queue.
ResetStats ==
  /\ resetting = "yes"
  /\ resetting' = "no"
  /\ db' = 0 /\ queue' = None
  /\ astride' = IF OnTheirWay THEN "yes" ELSE "no"
  /\ UNCHANGED <<req, read, memory, writing, resets>>

\* A visitor that was not seen for a day, and so not since the last reset, is removed.
PruneVisitors ==
  /\ resetting = "no" /\ limiter # None
  /\ seen < resets
  /\ \A r \in Requests : req[r] \in {"new", "done"}
  /\ limiter' = None
  /\ UNCHANGED <<req, read, seen, came, accepted, late, manager, reset>>

Next ==
  \/ \E r \in Requests :
       \/ Authenticate(r) \/ Visit(r) \/ MessageAllowed(r) \/ MessageRefused(r)
       \/ ReadStats(r) \/ EnqueueUserStats(r)
  \/ TakeQueue \/ WriteQueue
  \/ ResetVisitors \/ ResetStats \/ PruneVisitors

Spec == Init /\ [][Next]_vars

-----------------------------------------------------------------------------
(* Properties *)

Count == Nat \cup {None}

\* The types of the state.
TypeOK ==
  /\ req \in [Requests -> {"new", "authenticated", "visited", "allowed", "counted", "done"}]
  /\ read \in [Requests -> Nat]
  /\ limiter \in Count /\ queue \in Count /\ writing \in Count
  /\ db \in Nat
  /\ resetting \in {"yes", "no"} /\ resets \in Nat /\ astride \in {"yes", "no"}
  /\ seen \in 0..resets /\ came \in [Requests -> 0..resets]
  /\ accepted \in Nat /\ late \in 0..accepted
  /\ \A r \in Requests : req[r] \in {"visited", "allowed"} => limiter # None

\* Of the requests that came after a reset no more than the limit are accepted until
\* the next, although the counts in the database and in the queue lag behind the limiter
\* and visitors are removed and made anew.
LimitRespected == accepted - late <= Limit

\* A user is never charged for messages of the day before: from a reset on the database
\* counts at most what was accepted since ("Includes database query to avoid races!",
\* user/manager.go:731), unless a count was on its way during the reset.
ResetHolds == resetting = "yes" \/ astride = "yes" \/ db <= accepted
==============================================================================
