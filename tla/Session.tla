------------------------------- MODULE Session --------------------------------
(***************************************************************************)
(* Who is logged in, in a browser with several tabs (web/src/app/          *)
(* Session.js).  The session is in the localStorage, which the tabs share, *)
(* and a replica of it is in IndexedDB for the service worker.  Every user *)
(* has a database (db.js); a page opens the one of its user when it is     *)
(* loaded, and what it does later goes there, while requests are made with *)
(* the token that is in the localStorage by then.                          *)
(*                                                                         *)
(* External: the browser, with its tabs, and Dexie.                        *)
(***************************************************************************)
EXTENDS Naturals, FiniteSets

CONSTANTS Tabs, Users, None,
          MaxLoads   \* a bound on the pages that are loaded

VARIABLES local,     \* the user in the localStorage, or None
          replica,   \* the user in the session replica, or None
          page,      \* the page of each tab
          data,      \* for each database, whose data is in it
          loads,
          moved,     \* history: tabs whose session another tab has changed since they loaded
          mixed,     \* history: databases that such a tab has synced to
          torn       \* history: "yes" once a change of the session was cut short or overlapped

vars == <<local, replica, page, data, loads, moved, mixed, torn>>

Anyone == Users \cup {None}
Closed == [step |-> "closed", user |-> None, who |-> None, put |-> None, fetched |-> None]

\* db.js: the database of a page is that of the user at the time, "ntfy" if there is none.
NewPage == [Closed EXCEPT !.step = "idle", !.user = local, !.put = local]

Init ==
  /\ local \in {None} \cup Users
  /\ replica \in {local, None}    \* None: a session of a version before 2.6
  /\ page = [t \in Tabs |-> Closed]
  /\ data = [u \in Anyone |-> {u}]
  /\ loads = 0
  /\ moved = {} /\ mixed = {} /\ torn = "no"

Step(t, s) == page' = [page EXCEPT ![t].step = s]
Changing == {"store", "stored", "reset", "cleared"}

-----------------------------------------------------------------------------
(* Pages *)

Load(t) ==
  /\ page[t].step \in {"closed", "reload"} /\ loads < MaxLoads
  /\ page' = [page EXCEPT ![t] = NewPage]
  /\ loads' = loads + 1
  /\ moved' = moved \ {t}
  /\ UNCHANGED <<local, replica, data, mixed, torn>>

\* The constructor copies a session to the replica, after the page has begun to work.
PutReplica(t) ==
  /\ page[t].put # None
  /\ replica' = page[t].put
  /\ page' = [page EXCEPT ![t].put = None]
  /\ torn' = IF local = page[t].put /\ \A q \in Tabs : page[q].step \notin Changing THEN "no" ELSE "yes"
  /\ UNCHANGED <<local, data, loads, moved, mixed>>

\* A tab may be closed, or reloaded, at any time.
Close(t) ==
  /\ page[t].step # "closed"
  /\ page' = [page EXCEPT ![t] = Closed]
  /\ torn' = IF page[t].step \in Changing \/ page[t].put # None THEN "yes" ELSE torn
  /\ UNCHANGED <<local, replica, data, loads, moved, mixed>>

-----------------------------------------------------------------------------
(* Logging in and out *)

\* handleSubmit of the login page, which can be reached with a session too
Login(t, u) ==
  /\ page[t].step = "idle"
  /\ page' = [page EXCEPT ![t].step = "login", ![t].who = u]
  /\ UNCHANGED <<local, replica, data, loads, moved, mixed, torn>>

\* handleSubmit of the sign-up page: the account is created, and then logged in to.
SignUp(t, u) ==
  /\ page[t].step = "idle"
  /\ page' = [page EXCEPT ![t].step = "signup", ![t].who = u]
  /\ UNCHANGED <<local, replica, data, loads, moved, mixed, torn>>

SignUpAnswered(t) ==
  /\ page[t].step = "signup"
  /\ \/ Step(t, "login")
     \/ Step(t, "idle")
  /\ UNCHANGED <<local, replica, data, loads, moved, mixed, torn>>

\* The answer of the server
LoginAnswered(t) ==
  /\ page[t].step = "login"
  /\ \/ Step(t, "store")
     \/ Step(t, "idle")
  /\ torn' = IF \E q \in Tabs : page[q].step \in Changing /\ page'[t].step = "store" THEN "yes" ELSE torn
  /\ UNCHANGED <<local, replica, data, loads, moved, mixed>>

\* store: first the replica ...
StoreReplica(t) ==
  /\ page[t].step = "store"
  /\ replica' = page[t].who
  /\ Step(t, "stored")
  /\ UNCHANGED <<local, data, loads, moved, mixed, torn>>

Others(t) == {q \in Tabs \ {t} : page[q].step # "closed"}

\* Mutant: the page is not loaded again.
StoreLocalAndStay(t) ==
  /\ page[t].step = "stored"
  /\ local' = page[t].who
  /\ moved' = IF local' = local THEN moved ELSE moved \cup Others(t)
  /\ Step(t, "idle")
  /\ UNCHANGED <<replica, data, loads, mixed, torn>>

\* ... then the localStorage; and the page is left.
StoreLocal(t) ==
  /\ page[t].step = "stored"
  /\ local' = page[t].who
  /\ moved' = IF local' = local THEN moved ELSE moved \cup Others(t)
  /\ Step(t, "reload")
  /\ UNCHANGED <<replica, data, loads, mixed, torn>>

\* handleLogout: a request, and then the database of the session.
Logout(t) ==
  /\ page[t].step = "idle" /\ local # None
  /\ Step(t, "logout")
  /\ UNCHANGED <<local, replica, data, loads, moved, mixed, torn>>

BeginReset(t) ==
  /\ Step(t, "reset")
  /\ torn' = IF \E q \in Tabs \ {t} : page[q].step \in Changing THEN "yes" ELSE torn

\* If the request fails the session is left all the same, and the database stays.
LogoutAnswered(t) ==
  /\ page[t].step = "logout"
  /\ data' \in {[data EXCEPT ![local] = {}], data}
  /\ BeginReset(t)
  /\ UNCHANGED <<local, replica, loads, moved, mixed>>

\* The account is deleted, with the password of the user.
DeleteAccount(t) ==
  /\ page[t].step = "idle" /\ local # None
  /\ Step(t, "delete")
  /\ UNCHANGED <<local, replica, data, loads, moved, mixed, torn>>

\* Done; or the token is not valid any more, and the database stays; or the page shows an
\* error, a wrong password for example.
DeleteAnswered(t) ==
  /\ page[t].step = "delete"
  /\ \/ /\ data' = [data EXCEPT ![local] = {}]
        /\ BeginReset(t)
     \/ BeginReset(t) /\ UNCHANGED data
     \/ Step(t, "idle") /\ UNCHANGED <<data, torn>>
  /\ UNCHANGED <<local, replica, loads, moved, mixed>>

\* resetAndRedirect, also when a request was answered with 401
Unauthorized(t) ==
  /\ page[t].step = "idle" /\ local # None
  /\ BeginReset(t)
  /\ UNCHANGED <<local, replica, data, loads, moved, mixed>>

\* Mutant: the replica stays.
KeepReplica(t) ==
  /\ page[t].step = "reset"
  /\ Step(t, "cleared")
  /\ UNCHANGED <<local, replica, data, loads, moved, mixed, torn>>

ResetReplica(t) ==
  /\ page[t].step = "reset"
  /\ replica' = None
  /\ Step(t, "cleared")
  /\ UNCHANGED <<local, data, loads, moved, mixed, torn>>

ResetLocal(t) ==
  /\ page[t].step = "cleared"
  /\ local' = None
  /\ moved' = IF local = None THEN moved ELSE moved \cup Others(t)
  /\ Step(t, "reload")
  /\ UNCHANGED <<replica, data, loads, mixed, torn>>

-----------------------------------------------------------------------------
(* Working with the session *)

\* accountApi.sync: the account of the token ...
Sync(t) ==
  /\ page[t].step = "idle" /\ local # None /\ page[t].fetched = None
  /\ page' = [page EXCEPT ![t].fetched = local]
  /\ UNCHANGED <<local, replica, data, loads, moved, mixed, torn>>

\* ... takes the place of what the page's database holds.
SyncAnswered(t) ==
  /\ page[t].fetched # None
  /\ page' = [page EXCEPT ![t].fetched = None]
  /\ \/ /\ data' = [data EXCEPT ![page[t].user] = {page[t].fetched}]
        /\ mixed' = IF t \in moved THEN mixed \cup {page[t].user} ELSE mixed
     \/ UNCHANGED <<data, mixed>>
  /\ UNCHANGED <<local, replica, loads, moved, torn>>

Next ==
  \E t \in Tabs :
    \/ Load(t) \/ PutReplica(t) \/ Close(t)
    \/ \E u \in Users : Login(t, u) \/ SignUp(t, u)
    \/ LoginAnswered(t) \/ SignUpAnswered(t) \/ StoreReplica(t) \/ StoreLocal(t)
    \/ Logout(t) \/ LogoutAnswered(t) \/ DeleteAccount(t) \/ DeleteAnswered(t)
    \/ Unauthorized(t) \/ ResetReplica(t) \/ ResetLocal(t)
    \/ Sync(t) \/ SyncAnswered(t)

Spec == Init /\ [][Next]_vars

-----------------------------------------------------------------------------
\* db.js: "IndexedDB database is based on the logged-in user".  What is synced to a
\* database is of the user whose database it is, unless another tab has changed the session
\* since the page was loaded.
OwnData == \A u \in Anyone \ mixed : data[u] \subseteq {u}

\* When no change of the session is under way, the service worker and the pages to come
\* agree on who is logged in, unless one was cut short or two overlapped.
WorkerKnowsUser ==
  /\ \A t \in Tabs : page[t].step \notin Changing /\ page[t].put = None
  /\ \E t \in Tabs : page[t].step # "closed"
  /\ torn = "no"
  => replica = local
===============================================================================
