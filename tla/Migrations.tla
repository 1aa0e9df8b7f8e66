----------------------------- MODULE Migrations -----------------------------
(***************************************************************************)
(* How the server opens its three SQLite files: the message cache          *)
(* (message_cache.go), the users (user/manager.go) and the web push        *)
(* subscriptions (webpush_store.go).  A new file is set up, an old one is  *)
(* migrated version by version, and the process may be killed after any    *)
(* statement.  SQLite makes each statement, and each transaction, atomic.  *)
(*                                                                         *)
(* The tables are abstracted to the version whose schema they have.        *)
(***************************************************************************)
EXTENDS Integers

CONSTANT MaxCrashes \* a bound on how often the process is killed

VARIABLES file,    \* which of the three files
          schema,  \* the version whose tables and columns the file has, or NoTable
          version, \* the row of the table schemaVersion, NoRow or NoTable
          ids,     \* "kept", or "lost" when message IDs were overwritten
          pc,      \* what the program does next
          step,    \* the version the program migrates from, or sets up
          crashes,
          torn     \* history: what a kill has left without its version

vars == <<file, schema, version, ids, pc, step, crashes, torn>>

NoTable == -2
NoRow == -1

Files == {"cache", "users", "push"}

\* The versions of the schemas, from the oldest there is to the current one.
CacheVersions == 0..13
UsersVersions == 1..5
PushVersions == {1}
Versions == [cache |-> CacheVersions, users |-> UsersVersions, push |-> PushVersions]

Current == [cache |-> 13, users |-> 5, push |-> 1]

\* The migrations that write the new version in the transaction that changes the tables.
CacheInTransaction == 9..12
UsersInTransaction == 1..4
InTransaction == [cache |-> CacheInTransaction, users |-> UsersInTransaction, push |-> {}]

\* The other ones, all of the cache, when the tables have the new schema already: adding
\* or renaming a column fails, 8 -> 9 creates an index that is there, and 4 -> 5 copies
\* the column id, which holds row numbers by now, into mid.
FailsAgain == 0..8 \ {4, 8}
OverwritesAgain == {4}

Starting == {"check", "tables", "versionTable", "insert", "migrate", "update"}

TypeOK ==
  /\ file \in Files /\ schema \in {NoTable} \cup 0..13 /\ version \in {NoTable, NoRow} \cup 1..13
  /\ ids \in {"kept", "lost"} /\ pc \in Starting \cup {"down", "running", "refused"}
  /\ step \in 0..13 /\ crashes \in 0..MaxCrashes /\ torn \subseteq ({NoTable} \cup 0..13)

\* A file of any version, or none.  Version 0 of the cache has no schemaVersion table.
Init ==
  /\ file \in Files
  /\ schema \in {NoTable} \cup Versions[file]
  /\ version = IF schema = 0 THEN NoTable ELSE schema
  /\ ids = "kept" /\ pc = "down" /\ step = 0 /\ crashes = 0 /\ torn = {}

Start ==
  /\ pc \in {"down", "refused"}
  /\ pc' = "check"
  /\ UNCHANGED <<file, schema, version, ids, step, crashes, torn>>

\* The loop over the migrations, at version i.
Continue(i) ==
  /\ step' = i
  /\ pc' = IF i = Current[file] THEN "running" ELSE "migrate"

SetUp ==
  /\ pc' = "tables" /\ step' = Current[file]

Refuse ==
  /\ pc' = "refused" /\ UNCHANGED step

\* The cache is new when there is no table messages, and of version 0 when there is no
\* table schemaVersion.
CheckCache ==
  /\ file = "cache"
  /\ IF schema = NoTable THEN SetUp
     ELSE IF version = NoRow THEN Refuse
     ELSE Continue(IF version = NoTable THEN 0 ELSE version)

\* The users file is new when there is no table schemaVersion.
CheckUsers ==
  /\ file = "users"
  /\ IF version = NoTable THEN SetUp
     ELSE IF version = NoRow THEN Refuse
     ELSE Continue(version)

\* So is the web push file, but nobody looks at the version.
CheckPush ==
  /\ file = "push"
  /\ IF version = NoTable THEN SetUp ELSE Continue(Current[file])

Check ==
  /\ pc = "check"
  /\ CheckCache \/ CheckUsers \/ CheckPush
  /\ UNCHANGED <<file, schema, version, ids, crashes, torn>>

\* The tables of a new cache do not include schemaVersion, ...
NewCache == file = "cache" /\ pc' = "versionTable" /\ UNCHANGED version

\* ... those of the other files do.
NewUsers == file = "users" /\ pc' = "insert" /\ version' = NoRow
NewPush == file = "push" /\ pc' = "insert" /\ version' = NoRow

CreateTables ==
  /\ pc = "tables"
  /\ schema' = Current[file]
  /\ NewCache \/ NewUsers \/ NewPush
  /\ UNCHANGED <<file, ids, step, crashes, torn>>

CreateVersionTable ==
  /\ pc = "versionTable"
  /\ version' = NoRow
  /\ pc' = "insert"
  /\ UNCHANGED <<file, schema, ids, step, crashes, torn>>

InsertVersion ==
  /\ pc = "insert"
  /\ version' = step
  /\ Continue(step)
  /\ UNCHANGED <<file, schema, ids, crashes, torn>>

\* Mutant: the migration commits before it writes the version.
MigrateThenVersion ==
  /\ pc = "migrate" /\ step \in InTransaction[file]
  /\ IF schema = step
     THEN schema' = step + 1 /\ pc' = "update"
     ELSE pc' = "refused" /\ UNCHANGED schema
  /\ UNCHANGED <<file, version, ids, step, crashes, torn>>

\* A migration in one transaction.
MigrateInTransaction ==
  /\ pc = "migrate" /\ step \in InTransaction[file]
  /\ schema' = step + 1 /\ version' = step + 1
  /\ Continue(step + 1)
  /\ UNCHANGED <<file, ids, crashes, torn>>

\* The first statement of a migration that is not in a transaction with the version, on
\* tables of the old version or, after a kill, of the new one.  Version 0 has no table
\* schemaVersion yet, and gets its row as version 1.
Migrate ==
  /\ pc = "migrate" /\ step \notin InTransaction[file]
  /\ IF schema > step /\ step \in FailsAgain
     THEN Refuse /\ UNCHANGED <<schema, ids>>
     ELSE /\ schema' = step + 1
          /\ ids' = IF schema > step /\ step \in OverwritesAgain THEN "lost" ELSE ids
          /\ IF step = 0 THEN pc' = "versionTable" /\ step' = 1
             ELSE pc' = "update" /\ UNCHANGED step
  /\ UNCHANGED <<file, version, crashes, torn>>

UpdateVersion ==
  /\ pc = "update"
  /\ version' = step + 1
  /\ Continue(step + 1)
  /\ UNCHANGED <<file, schema, ids, crashes, torn>>

\* What the program has begun and not written the version of.  Version 1 of the cache,
\* like a new file, gets its row last.
Unfinished ==
  IF pc = "update" THEN {step}
  ELSE IF pc \in {"versionTable", "insert"}
  THEN {IF step = Current[file] THEN NoTable ELSE 0}
  ELSE {}

\* The process is killed.
Crash ==
  /\ pc \notin {"down", "refused"} /\ crashes < MaxCrashes
  /\ crashes' = crashes + 1
  /\ pc' = "down"
  /\ torn' = torn \cup Unfinished
  /\ UNCHANGED <<file, schema, version, ids, step>>

Next ==
  \/ Start \/ Check \/ CreateTables \/ CreateVersionTable \/ InsertVersion
  \/ MigrateInTransaction \/ Migrate \/ UpdateVersion \/ Crash

Spec == Init /\ [][Next]_vars

-----------------------------------------------------------------------------
\* The kills after which the server cannot open the file: while the cache or the users
\* file is set up, and between the statements of a migration that cannot be repeated.
Unrepeatable ==
  (IF file = "push" THEN {} ELSE {NoTable}) \cup (IF file = "cache" THEN FailsAgain ELSE {})

\* Whenever the process is killed, the server starts again (setupMessagesDB, setupDB and
\* setupWebPushDB return no error) unless it was killed at one of those places; and it
\* runs only on the current schema, with the version written but for web push, and
\* with its message IDs but after a kill between 4 -> 5 and its version.
SurvivesKills ==
  /\ pc = "refused" => torn \cap Unrepeatable # {}
  /\ pc = "running" =>
       /\ schema = Current[file]
       /\ version = schema \/ (file = "push" /\ version = NoRow /\ NoTable \in torn)
       /\ ids = "kept" \/ 4 \in torn
=============================================================================
