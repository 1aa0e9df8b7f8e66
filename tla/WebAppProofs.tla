---------------------------- MODULE WebAppProofs ----------------------------
(***************************************************************************)
(* Proofs about the parts of WebApp: the messages of a subscription, for   *)
(* any number of polls, messages, failures and changes of the user; the    *)
(* subscriptions of an account, for any devices, topics, changes and       *)
(* overlapping syncs; and the dialog, for any topics, rows and files.      *)
(***************************************************************************)
EXTENDS WebApp, FiniteSetTheorems, TLAPS

\* Zenon proves what no other prover is named for.
USE ZenonT(30)

RowOK ==
  /\ published \in 0..MaxMessages
  /\ sub \in {"absent", "present", "deleted", "gone"} /\ last \in Nat
  /\ memo \in Nat \cup {None}
  /\ version \in Conns

PollOK == poll \in [Polls -> [step : {"idle", "asked", "put", "last"}, since : Nat, upto : Nat]]

ConnsOK ==
  /\ tracked \in Conns \cup {None}
  /\ socket \in [Conns -> {"none", "connecting", "open", "closing", "aborted"}]
  /\ timer \in SUBSET Conns
  /\ since \in [Conns -> Nat]
  /\ early \in SUBSET Conns

StreamOK == stream \in [Conns -> [old : Nat, end : Nat, live : Nat]]

HandlerOK == handler \in [Conns \X Ids -> {"none", "get", "exists", "add", "last"}]

TypeOK == RowOK /\ PollOK /\ ConnsOK /\ StreamOK /\ HandlerOK

\* A connection has a socket or a timer and not both.
OneOfBoth == \A c \in timer : socket[c] = "none"

\* A socket that is closed before it was open fails later.
AbortedAreEarly == \A c \in Conns : socket[c] = "aborted" => c \in early

\* The subscription was not removed yet.
Live == sub \in {"absent", "present"}

\* The connections of versions that were not tracked yet have nothing, and before there
\* is a subscription nothing runs.
NewAreQuiet ==
  Live =>
    /\ \A c \in Conns : tracked = None \/ tracked < c => socket[c] = "none" /\ c \notin timer
    /\ tracked # None => tracked <= version
    /\ sub = "absent" => /\ tracked = None /\ memo = None
                         /\ \A h \in Conns \X Ids : handler[h] = "none"

\* last is set for a message that is stored.
StoredFirst == Live => \A h \in Conns \X Ids : handler[h] = "last" => h[2] \in shown

\* A message that is shown, skipped, handled or still to come.
Got(m) ==
  m \in shown \cup skipped \/ \E c \in Conns : handler[<<c, m>>] # "none" \/ m \in Coming(c)

UpTo(n) == n <= published /\ \A m \in 1..n : Got(m)

\* Whatever is, or will be, used as a marker leaves no message behind.
LastOK == UpTo(last)
MemoOK == memo # None => UpTo(memo)
SinceOK == \A c \in Conns : UpTo(since[c])
SentOK ==
  \A c \in Conns : socket[c] = "open" => UpTo(stream[c].live) /\ stream[c].end <= stream[c].live
HandledOK == \A h \in Conns \X Ids : handler[h] # "none" => UpTo(h[2])
PolledOK ==
  \A p \in Polls :
    /\ poll[p].step # "idle" => UpTo(poll[p].since)
    /\ poll[p].step = "put" => poll[p].upto <= published
    /\ poll[p].step = "last" => UpTo(poll[p].upto)

MarkersOK == Live => LastOK /\ MemoOK /\ SinceOK /\ SentOK /\ HandledOK /\ PolledOK

Struct ==
  TypeOK /\ OneOfBoth /\ AbortedAreEarly /\ NewAreQuiet /\ StoredFirst /\ UntrackedAreQuiet

IInv == Struct /\ MarkersOK

-----------------------------------------------------------------------------

\* The state is of the expected types at first, ...
LEMMA TypeInit == Init => TypeOK
BY WebClientAssumption, SMTT(30) DEF Init, TypeOK, RowOK, PollOK, ConnsOK, StreamOK, HandlerOK,
                              Conns, Ids, Idle, NoStream

\* ... and after every step.
LEMMA TypeStep == TypeOK /\ [Next]_vars => TypeOK'
<1> SUFFICES ASSUME TypeOK, [Next]_vars PROVE TypeOK'
  OBVIOUS
<1>1. CASE Publish
  <2>1. RowOK'
    BY <1>1, WebClientAssumption, SMTT(30) DEF TypeOK, RowOK, row, Publish
  <2>2. PollOK'
    BY <1>1 DEF TypeOK, PollOK, Publish
  <2>3. ConnsOK'
    BY <1>1 DEF TypeOK, ConnsOK, conns, Publish
  <2>4. StreamOK'
    BY <1>1 DEF TypeOK, StreamOK, conns, Publish
  <2>5. HandlerOK'
    BY <1>1 DEF TypeOK, HandlerOK, Publish
  <2> QED
    BY <2>1, <2>2, <2>3, <2>4, <2>5 DEF TypeOK
<1>2. ASSUME NEW a \in {"user", "sync"}, AddGet(a) \/ AddPut(a)
      PROVE TypeOK'
  <2>1. RowOK'
    BY <1>2, SMTT(30) DEF TypeOK, RowOK, net, AddGet, AddPut
  <2>2. PollOK'
    BY <1>2, SMTT(30) DEF TypeOK, PollOK, StartPoll, Idle, AddGet, AddPut
  <2>3. ConnsOK'
    BY <1>2 DEF TypeOK, ConnsOK, conns, AddGet, AddPut
  <2>4. StreamOK'
    BY <1>2 DEF TypeOK, StreamOK, conns, AddGet, AddPut
  <2>5. HandlerOK'
    BY <1>2 DEF TypeOK, HandlerOK, AddGet, AddPut
  <2> QED
    BY <2>1, <2>2, <2>3, <2>4, <2>5 DEF TypeOK
<1>3. CASE RemoveSubscription \/ RemoveNotifications
  <2>1. RowOK'
    BY <1>3, SMTT(30) DEF TypeOK, RowOK, net, RemoveSubscription, RemoveNotifications
  <2>2. PollOK'
    BY <1>3 DEF TypeOK, PollOK, RemoveSubscription, RemoveNotifications
  <2>3. ConnsOK'
    BY <1>3 DEF TypeOK, ConnsOK, conns, RemoveSubscription, RemoveNotifications
  <2>4. StreamOK'
    BY <1>3 DEF TypeOK, StreamOK, conns, RemoveSubscription, RemoveNotifications
  <2>5. HandlerOK'
    BY <1>3 DEF TypeOK, HandlerOK, RemoveSubscription, RemoveNotifications
  <2> QED
    BY <2>1, <2>2, <2>3, <2>4, <2>5 DEF TypeOK
<1>4. CASE PollAll
  <2>1. RowOK'
    BY <1>4 DEF TypeOK, RowOK, net, row, PollAll
  <2>2. PollOK'
    BY <1>4, SMTT(30) DEF TypeOK, RowOK, PollOK, StartPoll, Idle, PollAll
  <2>3. ConnsOK'
    BY <1>4 DEF TypeOK, ConnsOK, conns, PollAll
  <2>4. StreamOK'
    BY <1>4 DEF TypeOK, StreamOK, conns, PollAll
  <2>5. HandlerOK'
    BY <1>4 DEF TypeOK, HandlerOK, PollAll
  <2> QED
    BY <2>1, <2>2, <2>3, <2>4, <2>5 DEF TypeOK
<1>5. ASSUME NEW p \in Polls, PollAnswer(p) \/ PollFail(p) \/ PollPut(p) \/ PollLast(p)
      PROVE TypeOK'
  <2>1. RowOK'
    BY <1>5, SMTT(30) DEF TypeOK, RowOK, PollOK, net, row, UpdateLast, PollAnswer, PollFail,
                          PollPut, PollLast
  <2>2. PollOK'
    <3>1. Idle \in [step : {"idle", "asked", "put", "last"}, since : Nat, upto : Nat]
      BY DEF Idle
    <3>2. CASE PollAnswer(p)
      <4>1. published \in Nat
        BY SMTT(30) DEF TypeOK, RowOK
      <4> QED
        BY <3>1, <3>2, <4>1 DEF TypeOK, PollOK, PollAnswer
    <3>3. CASE PollFail(p) \/ PollLast(p)
      BY <3>1, <3>3 DEF TypeOK, PollOK, PollFail, PollLast
    <3>4. CASE PollPut(p)
      BY <3>4 DEF TypeOK, PollOK, PollPut
    <3> QED
      BY <1>5, <3>2, <3>3, <3>4
  <2>3. ConnsOK'
    BY <1>5 DEF TypeOK, ConnsOK, conns, PollAnswer, PollFail, PollPut, PollLast
  <2>4. StreamOK'
    BY <1>5 DEF TypeOK, StreamOK, conns, PollAnswer, PollFail, PollPut, PollLast
  <2>5. HandlerOK'
    BY <1>5 DEF TypeOK, HandlerOK, PollAnswer, PollFail, PollPut, PollLast
  <2> QED
    BY <2>1, <2>2, <2>3, <2>4, <2>5 DEF TypeOK
<1>6. CASE Render \/ ChangeUser
  <2>1. RowOK'
    BY <1>6, WebClientAssumption, SMTT(30) DEF TypeOK, RowOK, net, row, Conns, Render, ChangeUser
  <2>2. PollOK'
    BY <1>6 DEF TypeOK, PollOK, Render, ChangeUser
  <2>3. ConnsOK'
    BY <1>6 DEF TypeOK, ConnsOK, conns, Render, ChangeUser
  <2>4. StreamOK'
    BY <1>6 DEF TypeOK, StreamOK, conns, Render, ChangeUser
  <2>5. HandlerOK'
    BY <1>6 DEF TypeOK, HandlerOK, Render, ChangeUser
  <2> QED
    BY <2>1, <2>2, <2>3, <2>4, <2>5 DEF TypeOK
<1>7. CASE Refresh
  <2>1. RowOK'
    BY <1>7 DEF TypeOK, RowOK, net, row, Refresh
  <2>2. PollOK'
    BY <1>7 DEF TypeOK, PollOK, Refresh
  <2>3. ConnsOK'
    BY <1>7 DEF TypeOK, ConnsOK, RowOK, Closed, Refresh
  <2>4. StreamOK'
    BY <1>7 DEF TypeOK, StreamOK, NoStream, Refresh
  <2>5. HandlerOK'
    BY <1>7 DEF TypeOK, HandlerOK, Refresh
  <2> QED
    BY <2>1, <2>2, <2>3, <2>4, <2>5 DEF TypeOK
<1>8. CASE RefreshGone
  <2>1. RowOK'
    BY <1>8 DEF TypeOK, RowOK, net, row, RefreshGone
  <2>2. PollOK'
    BY <1>8 DEF TypeOK, PollOK, RefreshGone
  <2>3. ConnsOK'
    BY <1>8 DEF TypeOK, ConnsOK, Closed, RefreshGone
  <2>4. StreamOK'
    BY <1>8 DEF TypeOK, StreamOK, NoStream, RefreshGone
  <2>5. HandlerOK'
    BY <1>8 DEF TypeOK, HandlerOK, RefreshGone
  <2> QED
    BY <2>1, <2>2, <2>3, <2>4, <2>5 DEF TypeOK
<1>9. ASSUME NEW c \in Conns, Open(c)
      PROVE TypeOK'
  <2>1. RowOK'
    BY <1>9 DEF TypeOK, RowOK, net, Open
  <2>2. PollOK'
    BY <1>9 DEF TypeOK, PollOK, Open
  <2>3. ConnsOK'
    BY <1>9 DEF TypeOK, ConnsOK, Open
  <2>4. StreamOK'
    <3> DEFINE r == [old |-> IF since[c] = 0 THEN published ELSE since[c],
                     end |-> published, live |-> published]
    <3>1. r \in [old : Nat, end : Nat, live : Nat]
      BY SMTT(30) DEF TypeOK, RowOK, ConnsOK
    <3>2. stream' = [stream EXCEPT ![c] = r]
      BY <1>9 DEF Open
    <3> HIDE DEF r
    <3> QED
      BY <3>1, <3>2 DEF TypeOK, StreamOK
  <2>5. HandlerOK'
    BY <1>9 DEF TypeOK, HandlerOK, Open
  <2> QED
    BY <2>1, <2>2, <2>3, <2>4, <2>5 DEF TypeOK
<1>10. ASSUME NEW c \in Conns, Die(c) \/ CloseCleanly(c) \/ Retry(c)
      PROVE TypeOK'
  <2>1. RowOK'
    BY <1>10 DEF TypeOK, RowOK, net, row, Die, CloseCleanly, Retry
  <2>2. PollOK'
    BY <1>10 DEF TypeOK, PollOK, Die, CloseCleanly, Retry
  <2>3. ConnsOK'
    BY <1>10 DEF TypeOK, ConnsOK, Die, CloseCleanly, Retry
  <2>4. StreamOK'
    <3>1. NoStream \in [old : Nat, end : Nat, live : Nat]
      BY DEF NoStream
    <3> QED
      BY <3>1, <1>10 DEF TypeOK, StreamOK, Die, CloseCleanly, Retry
  <2>5. HandlerOK'
    BY <1>10 DEF TypeOK, HandlerOK, Die, CloseCleanly, Retry
  <2> QED
    BY <2>1, <2>2, <2>3, <2>4, <2>5 DEF TypeOK
<1>11. ASSUME NEW c \in Conns, NEW m \in Ids, OnMessage(c, m)
      PROVE TypeOK'
  <2>1. RowOK'
    BY <1>11 DEF TypeOK, RowOK, net, row, OnMessage
  <2>2. PollOK'
    BY <1>11 DEF TypeOK, PollOK, OnMessage
  <2>3. ConnsOK'
    BY <1>11, SMTT(30) DEF TypeOK, ConnsOK, Ids, OnMessage
  <2>4. StreamOK'
    <3>1. m \in Nat
      BY SMTT(30) DEF Ids
    <3>2. CASE stream' = [stream EXCEPT ![c].old = m]
      BY <3>1, <3>2 DEF TypeOK, StreamOK
    <3>3. CASE stream' = [stream EXCEPT ![c].live = m]
      BY <3>1, <3>3 DEF TypeOK, StreamOK
    <3> QED
      BY <3>2, <3>3, <1>11 DEF OnMessage
  <2>5. HandlerOK'
    BY <1>11 DEF TypeOK, HandlerOK, OnMessage
  <2> QED
    BY <2>1, <2>2, <2>3, <2>4, <2>5 DEF TypeOK
<1>12. ASSUME NEW h \in Conns \X Ids,
              HandleGet(h) \/ HandleExists(h) \/ HandleAdd(h) \/ HandleLast(h)
      PROVE TypeOK'
  <2>1. RowOK'
    <3>1. h[2] \in Nat
      BY SMTT(30) DEF Ids
    <3> QED
      BY <3>1, <1>12
         DEF TypeOK, RowOK, UpdateLast, net, row, conns, HandleGet, HandleExists, HandleAdd,
             HandleLast
  <2>2. PollOK'
    BY <1>12 DEF TypeOK, PollOK, HandleGet, HandleExists, HandleAdd, HandleLast
  <2>3. ConnsOK'
    BY <1>12 DEF TypeOK, ConnsOK, conns, HandleGet, HandleExists, HandleAdd, HandleLast
  <2>4. StreamOK'
    BY <1>12 DEF TypeOK, StreamOK, conns, HandleGet, HandleExists, HandleAdd, HandleLast
  <2>5. HandlerOK'
    BY <1>12 DEF TypeOK, HandlerOK, Goto, HandleGet, HandleExists, HandleAdd, HandleLast
  <2> QED
    BY <2>1, <2>2, <2>3, <2>4, <2>5 DEF TypeOK
<1>13. CASE UNCHANGED vars
  <2>1. RowOK'
    BY <1>13 DEF TypeOK, RowOK, net, row, vars
  <2>2. PollOK'
    BY <1>13 DEF TypeOK, PollOK, vars
  <2>3. ConnsOK'
    BY <1>13 DEF TypeOK, ConnsOK, conns, vars
  <2>4. StreamOK'
    BY <1>13 DEF TypeOK, StreamOK, conns, vars
  <2>5. HandlerOK'
    BY <1>13 DEF TypeOK, HandlerOK, vars
  <2> QED
    BY <2>1, <2>2, <2>3, <2>4, <2>5 DEF TypeOK
<1> QED
  BY <1>1, <1>2, <1>3, <1>4, <1>5, <1>6, <1>7, <1>8, <1>9, <1>10, <1>11, <1>12, <1>13 DEF Next

\* No connection is open at first.
LEMMA StructInit == Init => Struct
<1>1. Init => OneOfBoth /\ AbortedAreEarly /\ NewAreQuiet /\ StoredFirst /\ UntrackedAreQuiet
  BY DEF Init, OneOfBoth, AbortedAreEarly, NewAreQuiet, StoredFirst, UntrackedAreQuiet, Live
<1> QED
  BY <1>1, TypeInit DEF Struct

\* A handler that is about to move the marker has stored its message.
LEMMA StoredStep == TypeOK /\ StoredFirst /\ [Next]_vars => StoredFirst'
<1> SUFFICES ASSUME TypeOK, StoredFirst, [Next]_vars, Live',
                    NEW h \in Conns \X Ids, handler'[h] = "last"
             PROVE  h[2] \in shown'
  BY DEF StoredFirst
<1>0. DOMAIN handler = Conns \X Ids
  BY DEF TypeOK, HandlerOK
<1>1. CASE UNCHANGED handler /\ shown \subseteq shown' /\ Live
  BY <1>1 DEF StoredFirst
<1>2. CASE Publish
  BY <1>1, <1>2 DEF Publish, row, Live
<1>3. ASSUME NEW a \in {"user", "sync"}, AddGet(a) \/ AddPut(a) PROVE h[2] \in shown'
  BY <1>1, <1>3 DEF AddGet, AddPut, Live
<1>4. CASE RemoveSubscription \/ RemoveNotifications
  BY <1>4 DEF RemoveSubscription, RemoveNotifications, Live
<1>5. CASE PollAll \/ Render \/ ChangeUser
  BY <1>1, <1>5 DEF PollAll, Render, ChangeUser, row, Live
<1>6. ASSUME NEW p \in Polls, PollAnswer(p) \/ PollFail(p) \/ PollPut(p) \/ PollLast(p)
      PROVE h[2] \in shown'
  BY <1>1, <1>6 DEF PollAnswer, PollFail, PollPut, PollLast, row, Live
<1>7. CASE Refresh \/ RefreshGone
  BY <1>1, <1>7 DEF Refresh, RefreshGone, row, Live
<1>8. ASSUME NEW c \in Conns, Open(c) \/ Die(c) \/ CloseCleanly(c) \/ Retry(c)
      PROVE h[2] \in shown'
  BY <1>1, <1>8 DEF Open, Die, CloseCleanly, Retry, row, Live
<1>9. ASSUME NEW c \in Conns, NEW m \in Ids, OnMessage(c, m) PROVE h[2] \in shown'
  <2>1. handler[h] = "last"
    BY <1>0, <1>9 DEF OnMessage
  <2> QED
    BY <2>1, <1>9 DEF OnMessage, StoredFirst, row, Live
<1>10. ASSUME NEW g \in Conns \X Ids,
              HandleGet(g) \/ HandleExists(g) \/ HandleAdd(g) \/ HandleLast(g)
       PROVE h[2] \in shown'
  <2>1. CASE h = g
    BY <2>1, <1>0, <1>10 DEF HandleGet, HandleExists, HandleAdd, HandleLast, Goto
  <2>2. CASE h # g
    <3>1. handler[h] = "last"
      BY <2>2, <1>0, <1>10 DEF HandleGet, HandleExists, HandleAdd, HandleLast, Goto
    <3> QED
      BY <3>1, <1>10
         DEF HandleGet, HandleExists, HandleAdd, HandleLast, StoredFirst, row, Live
  <2> QED
    BY <2>1, <2>2
<1>11. CASE UNCHANGED vars
  BY <1>1, <1>11 DEF vars, row, Live
<1> QED
  BY <1>2, <1>3, <1>4, <1>5, <1>6, <1>7, <1>8, <1>9, <1>10, <1>11 DEF Next

\* Every step keeps connections and subscriptions together.
LEMMA StructStep == Struct /\ [Next]_vars => Struct'
<1> SUFFICES ASSUME Struct, [Next]_vars PROVE Struct'
  OBVIOUS
<1> DEFINE Rest == OneOfBoth /\ AbortedAreEarly /\ NewAreQuiet /\ UntrackedAreQuiet
<1>0. TypeOK /\ TypeOK' /\ StoredFirst'
  BY TypeStep, StoredStep DEF Struct
<1> SUFFICES Rest'
  BY <1>0 DEF Struct
<1>a. /\ tracked \in Conns \cup {None} /\ version \in Conns /\ timer \in SUBSET Conns
      /\ DOMAIN socket = Conns /\ \A c \in Conns : c \in Nat /\ c # None
  BY <1>0, WebClientAssumption, SMTT(30) DEF TypeOK, RowOK, ConnsOK, Conns
<1>1. CASE /\ UNCHANGED <<tracked, socket, timer, early>>
           /\ version' >= version
           /\ Live' => Live /\ (sub' = "absent" => UNCHANGED <<sub, memo, handler>>)
  BY <1>0, <1>1, <1>a, SMTT(30) DEF Struct, OneOfBoth, AbortedAreEarly, NewAreQuiet,
                              UntrackedAreQuiet, Live, TypeOK,
         RowOK, Conns
<1>2. CASE Publish
  BY <1>1, <1>2, <1>0, SMTT(30) DEF Publish, row, conns, Live, TypeOK, RowOK, Conns
<1>3. ASSUME NEW a \in {"user", "sync"}, AddGet(a) \/ AddPut(a) PROVE Rest'
  BY <1>1, <1>3, <1>0, SMTT(30) DEF AddGet, AddPut, net, conns, Live, TypeOK, RowOK, Conns
<1>4. CASE RemoveSubscription \/ RemoveNotifications
  BY <1>1, <1>4, <1>0, SMTT(30) DEF RemoveSubscription, RemoveNotifications, conns, Live, TypeOK,
                              RowOK, Conns
<1>5. CASE PollAll \/ Render \/ ChangeUser
  BY <1>1, <1>5, <1>0, SMTT(30) DEF PollAll, Render, ChangeUser, row, conns, Live, TypeOK, RowOK, Conns
<1>6. ASSUME NEW p \in Polls, PollAnswer(p) \/ PollFail(p) \/ PollPut(p) \/ PollLast(p)
      PROVE Rest'
  BY <1>1, <1>6, <1>0, SMTT(30) DEF PollAnswer, PollFail, PollPut, PollLast, row, conns, Live,
                              TypeOK, RowOK, Conns
<1>7. CASE Refresh
  BY <1>7, <1>a, SMTT(30) DEF Refresh, Closed, row, Struct, OneOfBoth, AbortedAreEarly, NewAreQuiet,
         UntrackedAreQuiet, Live
<1>8. CASE RefreshGone
  BY <1>8, <1>a
     DEF RefreshGone, Closed, row, Struct, OneOfBoth, AbortedAreEarly, NewAreQuiet,
         UntrackedAreQuiet, Live
<1>9. ASSUME NEW c \in Conns, Open(c) PROVE Rest'
  BY <1>9, <1>a DEF Open, Struct, OneOfBoth, AbortedAreEarly, NewAreQuiet, UntrackedAreQuiet, Live
<1>10. ASSUME NEW c \in Conns, Die(c) PROVE Rest'
  BY <1>10, <1>a DEF Die, Struct, OneOfBoth, AbortedAreEarly, NewAreQuiet, UntrackedAreQuiet, Live
<1>11. ASSUME NEW c \in Conns, CloseCleanly(c) \/ Retry(c) PROVE Rest'
  BY <1>11, <1>a
     DEF CloseCleanly, Retry, row, Struct, OneOfBoth, AbortedAreEarly, NewAreQuiet,
         UntrackedAreQuiet, Live
<1>12. ASSUME NEW c \in Conns, NEW m \in Ids, OnMessage(c, m) PROVE Rest'
  BY <1>1, <1>12, <1>a, SMTT(30) DEF OnMessage, row, Struct, NewAreQuiet, Live, Conns
<1>13. ASSUME NEW h \in Conns \X Ids,
              HandleGet(h) \/ HandleExists(h) \/ HandleAdd(h) \/ HandleLast(h)
       PROVE Rest'
  BY <1>1, <1>13, <1>a, SMTT(30) DEF HandleGet, HandleExists, HandleAdd, HandleLast, Goto, row,
                              conns, Struct, NewAreQuiet,
         Live, Conns
<1>14. CASE UNCHANGED vars
  BY <1>1, <1>14, <1>a, SMTT(30) DEF vars, row, conns, Live, Conns
<1> QED
  BY <1>2, <1>3, <1>4, <1>5, <1>6, <1>7, <1>8, <1>9, <1>10, <1>11, <1>12, <1>13, <1>14 DEF Next

\* For every number of changes of the user and of failures: a connection that the manager no
\* longer tracks is quiet, but for those closed too early.
THEOREM Quiet == Spec => []UntrackedAreQuiet
<1>1. Struct => UntrackedAreQuiet
  BY DEF Struct
<1> QED
  BY <1>1, StructInit, StructStep, PTL DEF Spec

-----------------------------------------------------------------------------

\* A step leaves no message behind: one that was got stays so while there is a subscription.
LEMMA GotKept ==
  ASSUME Struct, [Next]_vars, Live', NEW m \in 1..published, Got(m)
  PROVE  Got(m)'
<1>0. TypeOK /\ m \in Ids /\ m \in Nat
  <2>1. TypeOK /\ published \in 0..MaxMessages
    BY DEF Struct, TypeOK, RowOK
  <2> QED
    BY <2>1, WebClientAssumption, SMTT(30) DEF Ids
<1>a. /\ tracked \in Conns \cup {None} /\ version \in Conns /\ timer \in SUBSET Conns
      /\ DOMAIN socket = Conns /\ DOMAIN stream = Conns /\ DOMAIN handler = Conns \X Ids
      /\ since \in [Conns -> Nat] /\ published \in Nat /\ memo \in Nat \cup {None}
  BY <1>0, WebClientAssumption, SMTT(30) DEF TypeOK, RowOK, ConnsOK, StreamOK, HandlerOK
<1>b. \A c \in Conns : c \in Nat /\ c # None /\ <<c, m>> \in Conns \X Ids
  BY <1>0, WebClientAssumption, SMTT(30) DEF Conns
<1> DEFINE Goal == Got(m)'
<1>1. CASE UNCHANGED <<skipped, handler, conns>> /\ shown \subseteq shown' /\ Live
  BY <1>1 DEF Got, Coming, conns
<1>2. CASE Publish
  BY <1>1, <1>2 DEF Publish, row, Live
<1>3. ASSUME NEW a \in {"user", "sync"}, AddGet(a) \/ AddPut(a) PROVE Goal
  BY <1>1, <1>3 DEF AddGet, AddPut, Live
<1>4. CASE RemoveSubscription \/ RemoveNotifications
  BY <1>4 DEF RemoveSubscription, RemoveNotifications, Live
<1>5. CASE PollAll \/ Render \/ ChangeUser
  BY <1>1, <1>5 DEF PollAll, Render, ChangeUser, row, Live
<1>6. ASSUME NEW p \in Polls, PollAnswer(p) \/ PollFail(p) \/ PollPut(p) \/ PollLast(p)
      PROVE Goal
  BY <1>1, <1>6 DEF PollAnswer, PollFail, PollPut, PollLast, row, Live
<1>7. CASE Refresh
  <2>1. Live /\ UNCHANGED <<shown, handler>> /\ skipped \subseteq skipped'
    BY <1>7 DEF Refresh, row, Live
  <2>2. socket[version] = "none" /\ version \notin timer /\ tracked # version /\ memo \in Nat
    <3>1. tracked # version /\ memo \in Nat
      BY <1>7, <1>a DEF Refresh
    <3>2. tracked = None \/ tracked < version
      <4>1. tracked # None => tracked <= version
        BY <2>1 DEF Struct, NewAreQuiet
      <4>2. version \in Nat /\ (tracked # None => tracked \in Nat)
        BY <1>a, <1>b
      <4> QED
        BY <4>1, <4>2, <3>1, SMTT(30)
    <3> QED
      BY <3>1, <3>2, <1>a, <2>1 DEF Struct, NewAreQuiet
  <2>3. ASSUME NEW c \in Conns, m \in Coming(c), c # tracked PROVE m \in Coming(c)'
    BY <1>7, <2>2, <2>3, <1>a, <1>b DEF Refresh, Coming
  <2>4. ASSUME NEW c \in Conns, m \in Coming(c), c = tracked PROVE Got(m)'
    <3>1. CASE socket[c] \in {"connecting", "aborted"}
      <4>1. c \notin timer /\ since[c] < m
        BY <3>1, <2>4 DEF Coming, Struct, OneOfBoth
      <4>2. socket'[c] = "aborted" /\ since'[c] = since[c]
        BY <3>1, <1>7, <2>2, <2>4, <1>a DEF Refresh, Closed
      <4> QED
        BY <4>1, <4>2, <1>0 DEF Coming, Got
    <3>2. CASE (socket[c] = "open" \/ c \in timer) /\ m <= memo
      BY <3>2, <1>7, <2>4, SMTT(30) DEF Refresh, CutOff, Got
    <3>3. CASE ~(m <= memo)
      <4>1. PICK d \in Conns : d = version
        BY <1>a
      <4>2. m \in Coming(d)'
        BY <3>3, <1>7, <2>2, <4>1, <1>a, <1>0, SMTT(30) DEF Refresh, Coming
      <4> QED
        BY <4>2 DEF Got
    <3> QED
      BY <2>4, <3>1, <3>2, <3>3 DEF Coming
  <2>5. CASE \E c \in Conns : m \in Coming(c)
    <3>1. PICK c \in Conns : m \in Coming(c)
      BY <2>5
    <3>2. CASE c = tracked
      BY <3>1, <3>2, <2>1, <2>4, <1>a DEF Got
    <3>3. CASE c # tracked
      BY <3>1, <3>3, <2>1, <2>3 DEF Got
    <3> QED
      BY <3>2, <3>3
  <2> QED
    BY <2>1, <2>5 DEF Got
<1>8. CASE RefreshGone
  BY <1>8 DEF RefreshGone, row, Live
<1>9. ASSUME NEW c \in Conns, Open(c) PROVE Goal
  <2>1. Live /\ UNCHANGED <<shown, handler>> /\ skipped \subseteq skipped' /\ c \notin timer
    BY <1>9 DEF Open, Live, Struct, OneOfBoth
  <2>2. ASSUME NEW d \in Conns, m \in Coming(d), d # c PROVE m \in Coming(d)'
    BY <1>9, <2>2, <1>a, <1>b DEF Open, Coming
  <2>3. ASSUME m \in Coming(c) PROVE m \in skipped' \cup Coming(c)'
    BY <1>9, <2>1, <2>3, <1>a, <1>b, <1>0, SMTT(30) DEF Open, Coming
  <2> QED
    BY <2>1, <2>2, <2>3 DEF Got
<1>10. ASSUME NEW c \in Conns, Die(c) PROVE Goal
  <2>1. Live /\ UNCHANGED <<shown, handler>> /\ skipped \subseteq skipped' /\ c \notin timer
    BY <1>10 DEF Die, Live, Struct, OneOfBoth
  <2>2. ASSUME NEW d \in Conns, m \in Coming(d), d # c PROVE m \in Coming(d)'
    BY <1>10, <2>2, <1>a, <1>b DEF Die, Coming
  <2>3. ASSUME m \in Coming(c) PROVE m \in skipped' \cup Coming(c)'
    BY <1>10, <2>1, <2>3, <1>a, <1>b, <1>0, SMTT(30) DEF Die, Coming, CutOff
  <2> QED
    BY <2>1, <2>2, <2>3 DEF Got
<1>11. ASSUME NEW c \in Conns, CloseCleanly(c) \/ Retry(c) PROVE Goal
  <2>1. Live /\ UNCHANGED <<shown, handler, skipped>>
    BY <1>11 DEF CloseCleanly, Retry, row, Live
  <2>2. ASSUME NEW d \in Conns, m \in Coming(d) PROVE m \in Coming(d)'
    BY <1>11, <2>2, <1>a, <1>b DEF CloseCleanly, Retry, Coming, Struct, OneOfBoth
  <2> QED
    BY <2>1, <2>2 DEF Got
<1>12. ASSUME NEW c \in Conns, NEW n \in Ids, OnMessage(c, n) PROVE Goal
  <2>1. Live /\ UNCHANGED <<shown, skipped>> /\ c \notin timer
    BY <1>12 DEF OnMessage, row, Live, Struct, OneOfBoth
  <2>2. ASSUME NEW d \in Conns, handler[<<d, m>>] # "none" PROVE handler'[<<d, m>>] # "none"
    BY <1>12, <2>2, <1>a, <1>b DEF OnMessage
  <2>3. ASSUME NEW d \in Conns, m \in Coming(d), d # c PROVE m \in Coming(d)'
    BY <1>12, <2>3, <1>a, <1>b DEF OnMessage, Coming
  <2>4. ASSUME m \in Coming(c) PROVE m \in Coming(c)' \/ handler'[<<c, m>>] # "none"
    <3>1. CASE m = n
      BY <3>1, <1>12, <1>a, <1>b DEF OnMessage
    <3>2. CASE m # n
      <4>1. socket[c] = "open" /\ stream[c].old < m /\ m <= stream[c].end /\ UNCHANGED socket
        BY <1>12, <2>1, <2>4 DEF OnMessage, Coming
      <4>2. n \in Nat /\ stream[c] \in [old : Nat, end : Nat, live : Nat]
        BY <1>0, SMTT(30) DEF TypeOK, StreamOK, Ids
      <4>3. stream'[c].old < m /\ m <= stream'[c].end
        BY <3>2, <1>12, <4>1, <4>2, <1>a, <1>0, SMTT(30) DEF OnMessage
      <4> QED
        BY <4>1, <4>3, <1>0 DEF Coming
    <3> QED
      BY <3>1, <3>2
  <2> QED
    BY <2>1, <2>2, <2>3, <2>4 DEF Got
<1>13. ASSUME NEW h \in Conns \X Ids,
              HandleGet(h) \/ HandleExists(h) \/ HandleAdd(h) \/ HandleLast(h)
       PROVE Goal
  <2>1. Live /\ UNCHANGED <<skipped, conns>> /\ shown \subseteq shown'
    BY <1>13 DEF HandleGet, HandleExists, HandleAdd, HandleLast, row, Live
  <2>2. ASSUME NEW d \in Conns, m \in Coming(d) PROVE m \in Coming(d)'
    BY <2>1, <2>2 DEF Coming, conns
  <2>3. ASSUME NEW d \in Conns, handler[<<d, m>>] # "none"
        PROVE handler'[<<d, m>>] # "none" \/ m \in shown'
    <3>1. CASE h # <<d, m>>
      BY <3>1, <1>13, <2>3, <1>a, <1>b DEF HandleGet, HandleExists, HandleAdd, HandleLast, Goto
    <3>2. CASE h = <<d, m>>
      <4>1. CASE HandleGet(h)
        BY <3>2, <4>1, <2>1, <1>a, <1>b DEF HandleGet, Goto, row, Live, Struct, NewAreQuiet
      <4>2. CASE HandleExists(h)
        BY <3>2, <4>2, <1>a, <1>b DEF HandleExists, Goto
      <4>3. CASE HandleAdd(h)
        BY <3>2, <4>3 DEF HandleAdd
      <4>4. CASE HandleLast(h)
        BY <3>2, <4>4, <2>1 DEF HandleLast, Struct, StoredFirst
      <4> QED
        BY <1>13, <4>1, <4>2, <4>3, <4>4
    <3> QED
      BY <3>1, <3>2
  <2> QED
    BY <2>1, <2>2, <2>3 DEF Got
<1>14. CASE UNCHANGED vars
  BY <1>1, <1>14 DEF vars, row, Live
<1> QED
  BY <1>2, <1>3, <1>4, <1>5, <1>6, <1>7, <1>8, <1>9, <1>10, <1>11, <1>12, <1>13, <1>14 DEF Next

\* A subscription that was removed stays removed.
LEMMA LiveBefore == [Next]_vars /\ Live' => Live
<1> SUFFICES ASSUME [Next]_vars, Live' PROVE Live
  OBVIOUS
<1> QED
  BY DEF Live, Next, vars, row, Publish, AddGet, AddPut, RemoveSubscription, RemoveNotifications,
         PollAll, PollAnswer, PollFail, PollPut, PollLast, Render, ChangeUser, Refresh, RefreshGone,
         Open, Die, CloseCleanly, Retry, OnMessage, HandleGet, HandleExists, HandleAdd, HandleLast

\* Published messages stay published.
LEMMA PublishedGrows == TypeOK /\ [Next]_vars => published <= published'
<1> SUFFICES ASSUME TypeOK, [Next]_vars PROVE published <= published'
  OBVIOUS
<1>0. published \in Nat
  BY SMTT(30) DEF TypeOK, RowOK
<1>1. published' = published \/ published' = published + 1
  BY DEF Next, vars, net, Publish, AddGet, AddPut, RemoveSubscription, RemoveNotifications, PollAll,
         PollAnswer, PollFail, PollPut, PollLast, Render, ChangeUser, Refresh, RefreshGone, Open,
         Die, CloseCleanly, Retry, OnMessage, HandleGet, HandleExists, HandleAdd, HandleLast
<1> QED
  BY <1>0, <1>1, SMTT(30)

\* No marker at first.
LEMMA MarkersInit == Init => MarkersOK
<1> SUFFICES ASSUME Init PROVE MarkersOK
  OBVIOUS
<1> QED
  BY SMTT(30) DEF Init, MarkersOK, LastOK, MemoOK, SinceOK, SentOK, HandledOK, PolledOK, UpTo,
                  Idle, Conns

\* Every step keeps the markers behind what was read.
LEMMA MarkersStep == Struct /\ MarkersOK /\ [Next]_vars => MarkersOK'
<1> SUFFICES ASSUME Struct, MarkersOK, [Next]_vars, Live'
             PROVE  (LastOK /\ MemoOK /\ SinceOK /\ SentOK /\ HandledOK /\ PolledOK)'
  BY DEF MarkersOK
<1> DEFINE Goal == (LastOK /\ MemoOK /\ SinceOK /\ SentOK /\ HandledOK /\ PolledOK)'
<1>1. TypeOK /\ TypeOK'
  BY TypeStep DEF Struct
<1>2. /\ published \in Nat /\ published' \in Nat /\ published <= published'
      /\ last \in Nat /\ last' \in Nat /\ memo \in Nat \cup {None}
      /\ since \in [Conns -> Nat] /\ since' \in [Conns -> Nat]
  BY <1>1, PublishedGrows, SMTT(30) DEF TypeOK, RowOK, ConnsOK
<1>3. Live
  BY LiveBefore
<1>4. LastOK /\ MemoOK /\ SinceOK /\ SentOK /\ HandledOK /\ PolledOK
  BY <1>3 DEF MarkersOK
<1>5. ASSUME NEW n \in Nat, UpTo(n) PROVE UpTo(n)'
  <2>1. ASSUME NEW m \in 1..n PROVE Got(m)'
    <3>1. m \in 1..published /\ Got(m)
      BY <1>2, <1>5, SMTT(30) DEF UpTo
    <3> QED
      BY <3>1, GotKept
  <2> QED
    BY <2>1, <1>2, <1>5, SMTT(30) DEF UpTo
<1>6. ASSUME UNCHANGED last PROVE LastOK'
  BY <1>2, <1>4, <1>5, <1>6 DEF LastOK, UpTo
<1>7. ASSUME UNCHANGED memo PROVE MemoOK'
  BY <1>2, <1>4, <1>5, <1>7 DEF MemoOK, UpTo
<1>8. ASSUME UNCHANGED since PROVE SinceOK'
  BY <1>2, <1>4, <1>5, <1>8 DEF SinceOK, UpTo
<1>9. ASSUME UNCHANGED stream, \A c \in Conns : socket'[c] = "open" => socket[c] = "open"
      PROVE SentOK'
  BY <1>1, <1>2, <1>4, <1>5, <1>9 DEF SentOK, UpTo, TypeOK, StreamOK
<1>10. ASSUME \A h \in Conns \X Ids : handler'[h] # "none" => handler[h] # "none"
       PROVE HandledOK'
  BY <1>2, <1>4, <1>5, <1>10, SMTT(30) DEF HandledOK, UpTo, Ids
<1>11. ASSUME UNCHANGED poll PROVE PolledOK'
  BY <1>1, <1>2, <1>4, <1>5, <1>11, SMTT(30) DEF PolledOK, UpTo, TypeOK, PollOK
<1>12. CASE Publish
  BY <1>12, <1>6, <1>7, <1>8, <1>9, <1>10, <1>11 DEF Publish, row, conns
<1>13. ASSUME NEW a \in {"user", "sync"}, AddGet(a) PROVE Goal
  BY <1>13, <1>6, <1>7, <1>8, <1>9, <1>10, <1>11 DEF AddGet, conns
<1>14. ASSUME NEW p \in Polls, NEW n \in Nat, UpTo(n), StartPoll(p, n) PROVE PolledOK'
  <2>1. ASSUME NEW q \in Polls, q # p PROVE poll'[q] = poll[q]
    BY <1>1, <1>14, <2>1 DEF StartPoll, TypeOK, PollOK
  <2>2. poll'[p] = [step |-> "asked", since |-> n, upto |-> 0]
    BY <1>1, <1>14 DEF StartPoll, TypeOK, PollOK
  <2>3. ASSUME NEW q \in Polls
        PROVE  (/\ poll[q].step # "idle" => UpTo(poll[q].since)
                /\ poll[q].step = "put" => poll[q].upto <= published
                /\ poll[q].step = "last" => UpTo(poll[q].upto))'
    <3>1. CASE q = p
      BY <2>2, <3>1, <1>5, <1>14, SMTT(30) DEF UpTo
    <3>2. CASE q # p
      <4>1. /\ poll[q].step # "idle" => UpTo(poll[q].since)
            /\ poll[q].step = "put" => poll[q].upto <= published
            /\ poll[q].step = "last" => UpTo(poll[q].upto)
        BY <1>4 DEF PolledOK, UpTo
      <4>2. poll[q] \in [step : {"idle", "asked", "put", "last"}, since : Nat, upto : Nat]
        BY <1>1 DEF TypeOK, PollOK
      <4> QED
        BY <2>1, <3>2, <4>1, <4>2, <1>2, <1>5, SMTT(30) DEF UpTo
    <3> QED
      BY <3>1, <3>2
  <2> QED
    BY <2>3 DEF PolledOK
<1>15. ASSUME NEW a \in {"user", "sync"}, AddPut(a) PROVE Goal
  <2>1. UpTo(0)
    BY <1>2, SMTT(30) DEF UpTo
  <2>2. PolledOK'
    BY <2>1, <1>15, <1>11, <1>14 DEF AddPut
  <2>3. LastOK'
    BY <1>2, <1>15, SMTT(30) DEF AddPut, LastOK, UpTo
  <2> QED
    BY <2>2, <2>3, <1>15, <1>7, <1>8, <1>9, <1>10 DEF AddPut, conns
<1>16. CASE RemoveSubscription \/ RemoveNotifications
  BY <1>16 DEF RemoveSubscription, RemoveNotifications, Live
<1>17. CASE PollAll
  <2>1. PolledOK'
    BY <1>2, <1>4, <1>17, <1>14 DEF PollAll, LastOK
  <2> QED
    BY <2>1, <1>17, <1>6, <1>7, <1>8, <1>9, <1>10 DEF PollAll, row, conns
<1>18. ASSUME NEW p \in Polls, PollAnswer(p) \/ PollFail(p) \/ PollPut(p) \/ PollLast(p)
       PROVE Goal
  <2>0. UNCHANGED <<memo, conns, handler>> /\ \A q \in Polls : q # p => poll'[q] = poll[q]
    BY <1>18, <1>1 DEF PollAnswer, PollFail, PollPut, PollLast, TypeOK, PollOK
  <2>1. MemoOK' /\ SinceOK' /\ SentOK' /\ HandledOK'
    BY <2>0, <1>7, <1>8, <1>9, <1>10 DEF conns
  <2>2. LastOK'
    <3>1. CASE UNCHANGED last
      BY <3>1, <1>6
    <3>2. CASE PollLast(p) /\ last' = poll[p].upto
      <4>1. UpTo(poll[p].upto) /\ poll[p].upto \in Nat
        BY <1>1, <1>4, <3>2 DEF PollLast, PolledOK, UpTo, TypeOK, PollOK
      <4> QED
        BY <4>1, <3>2, <1>5 DEF LastOK, UpTo
    <3> QED
      BY <1>18, <3>1, <3>2 DEF PollAnswer, PollFail, PollPut, PollLast, UpdateLast, row
  <2>3. ASSUME NEW q \in Polls
        PROVE  (/\ poll[q].step # "idle" => UpTo(poll[q].since)
                /\ poll[q].step = "put" => poll[q].upto <= published
                /\ poll[q].step = "last" => UpTo(poll[q].upto))'
    <3>0. poll[q] \in [step : {"idle", "asked", "put", "last"}, since : Nat, upto : Nat]
      BY <1>1 DEF TypeOK, PollOK
    <3>1. CASE poll'[q] = poll[q]
      <4>1. /\ poll[q].step # "idle" => UpTo(poll[q].since)
            /\ poll[q].step = "put" => poll[q].upto <= published
            /\ poll[q].step = "last" => UpTo(poll[q].upto)
        BY <1>4 DEF PolledOK, UpTo
      <4> QED
        BY <4>1, <3>0, <3>1, <1>2, <1>5, SMTT(30) DEF UpTo
    <3>2. CASE poll'[q] = Idle
      BY <3>2, SMTT(30) DEF Idle
    <3>3. CASE q = p /\ PollAnswer(p)
      <4>1. poll'[q] = IF published > poll[q].since
                       THEN [poll[q] EXCEPT !.step = "put", !.upto = published] ELSE Idle
        BY <3>3, <1>1 DEF PollAnswer, TypeOK, PollOK
      <4>2. UpTo(poll[q].since) /\ UNCHANGED published
        BY <3>3, <1>4 DEF PollAnswer, PolledOK, UpTo, net
      <4> QED
        BY <4>1, <4>2, <3>0, <3>2, <1>2, <1>5 DEF UpTo
    <3>4. CASE q = p /\ PollPut(p)
      <4>1. poll'[q] = [poll[q] EXCEPT !.step = "last"]
        BY <3>4, <1>1 DEF PollPut, TypeOK, PollOK
      <4>2. UpTo(poll[q].since) /\ poll[q].upto <= published /\ UNCHANGED published
        BY <3>4, <1>4 DEF PollPut, PolledOK, UpTo, net
      <4>3. UpTo(poll[q].since)'
        BY <4>1, <4>2, <3>0, <1>5 DEF UpTo
      <4>4. ASSUME NEW m \in 1..poll[q].upto PROVE Got(m)'
        <5>1. CASE m <= poll[q].since
          <6>1. m \in 1..published /\ Got(m)
            BY <4>2, <5>1, <3>0, <1>2, SMTT(30) DEF UpTo
          <6> QED
            BY <6>1, GotKept
        <5>2. CASE ~(m <= poll[q].since)
          BY <5>2, <3>0, <3>4, SMTT(30) DEF PollPut, Got
        <5> QED
          BY <5>1, <5>2
      <4> QED
        BY <4>1, <4>2, <4>3, <4>4, <3>0, <1>2 DEF UpTo
    <3> QED
      BY <2>0, <3>1, <3>2, <3>3, <3>4, <1>18, <1>1
         DEF PollFail, PollLast, TypeOK, PollOK
  <2> QED
    BY <2>1, <2>2, <2>3 DEF PolledOK
<1>19. CASE Render
  <2>1. MemoOK'
    BY <1>2, <1>4, <1>5, <1>19 DEF Render, LastOK, MemoOK, UpTo
  <2> QED
    BY <2>1, <1>19, <1>6, <1>8, <1>9, <1>10, <1>11 DEF Render, row, conns
<1>20. CASE ChangeUser
  BY <1>20, <1>6, <1>7, <1>8, <1>9, <1>10, <1>11 DEF ChangeUser, row, conns
<1>21. CASE Refresh
  <2>1. /\ memo \in Nat /\ UpTo(memo)
        /\ since' = [since EXCEPT ![version] = memo]
    BY <1>2, <1>4, <1>21 DEF Refresh, MemoOK
  <2>2. SinceOK'
    BY <2>1, <1>2, <1>4, <1>5 DEF SinceOK, UpTo
  <2>3. ASSUME NEW c \in Conns, socket'[c] = "open"
        PROVE  socket[c] = "open" /\ stream'[c] = stream[c]
    BY <1>21, <2>3 DEF Refresh, Closed
  <2>4. SentOK'
    BY <2>3, <1>1, <1>2, <1>4, <1>5 DEF SentOK, UpTo, TypeOK, StreamOK
  <2> QED
    BY <2>2, <2>4, <1>21, <1>6, <1>7, <1>10, <1>11 DEF Refresh, row
<1>22. CASE RefreshGone
  BY <1>22 DEF RefreshGone, row, Live
<1>23. ASSUME NEW c \in Conns, Open(c) PROVE Goal
  <2>1. stream'[c].live = published /\ stream'[c].end = published /\ published' = published
    BY <1>1, <1>23 DEF Open, net, TypeOK, StreamOK
  <2>2. ASSUME NEW m \in 1..published PROVE Got(m)'
    <3>1. CASE m <= since[c]
      <4>1. Got(m)
        BY <3>1, <1>2, <1>4, SMTT(30) DEF SinceOK, UpTo
      <4> QED
        BY <4>1, GotKept
    <3>2. CASE since[c] = 0
      BY <3>2, <1>23 DEF Open, Got
    <3>3. CASE ~(m <= since[c]) /\ since[c] # 0
      <4>1. socket'[c] = "open" /\ stream'[c].old = since[c]
        BY <3>3, <1>1, <1>23 DEF Open, TypeOK, ConnsOK, StreamOK
      <4>2. m \in Ids
        <5>1. published \in 0..MaxMessages
          BY <1>1 DEF TypeOK, RowOK
        <5> QED
          BY <5>1, WebClientAssumption, SMTT(30) DEF Ids
      <4> QED
        BY <3>3, <4>1, <4>2, <2>1, <1>2, SMTT(30) DEF Coming, Got
    <3> QED
      BY <3>1, <3>2, <3>3
  <2>3. ASSUME NEW d \in Conns, d # c
        PROVE  socket'[d] = socket[d] /\ stream'[d] = stream[d]
    BY <1>1, <1>23, <2>3 DEF Open, TypeOK, ConnsOK, StreamOK
  <2>4. SentOK'
    BY <2>1, <2>2, <2>3, <1>1, <1>2, <1>4, <1>5 DEF SentOK, UpTo, TypeOK, StreamOK
  <2> QED
    BY <2>4, <1>23, <1>6, <1>7, <1>8, <1>10, <1>11 DEF Open
<1>24. ASSUME NEW c \in Conns, Die(c) \/ CloseCleanly(c) \/ Retry(c) PROVE Goal
  <2>1. ASSUME NEW d \in Conns, socket'[d] = "open"
        PROVE  socket[d] = "open" /\ stream'[d] = stream[d]
    BY <1>1, <1>24, <2>1 DEF Die, CloseCleanly, Retry, TypeOK, ConnsOK, StreamOK
  <2>2. SentOK'
    BY <2>1, <1>1, <1>2, <1>4, <1>5 DEF SentOK, UpTo, TypeOK, StreamOK
  <2> QED
    BY <2>2, <1>24, <1>6, <1>7, <1>8, <1>10, <1>11 DEF Die, CloseCleanly, Retry, row
<1>25. ASSUME NEW c \in Conns, NEW m \in Ids, OnMessage(c, m) PROVE Goal
  <2>0. /\ m \in Nat /\ m > 0 /\ UNCHANGED <<published, socket>>
        /\ stream[c] \in [old : Nat, end : Nat, live : Nat]
        /\ UpTo(stream[c].live) /\ stream[c].end <= stream[c].live
    BY <1>1, <1>4, <1>25, SMTT(30) DEF OnMessage, net, SentOK, UpTo, Ids, TypeOK, StreamOK
  <2>1. Got(m)'
    BY <1>1, <1>25 DEF OnMessage, Got, TypeOK, HandlerOK
  <2>2. UpTo(m)'
    <3>1. m <= published /\ m <= stream[c].live + 1
      BY <2>0, <1>2, <1>25, SMTT(30) DEF OnMessage, UpTo
    <3>2. ASSUME NEW n \in 1..m, n # m PROVE Got(n)'
      <4>1. n \in 1..published /\ Got(n)
        BY <3>1, <3>2, <2>0, <1>2, SMTT(30) DEF UpTo
      <4> QED
        BY <4>1, GotKept
    <3> QED
      BY <3>1, <3>2, <2>0, <2>1 DEF UpTo
  <2>3. SinceOK'
    BY <2>2, <1>2, <1>4, <1>5, <1>25 DEF OnMessage, SinceOK, UpTo
  <2>4. SentOK'
    <3>1. ASSUME NEW d \in Conns, d # c PROVE stream'[d] = stream[d]
      BY <3>1, <1>1, <1>25 DEF OnMessage, TypeOK, StreamOK
    <3>2. /\ stream'[c].end = stream[c].end
          /\ \/ stream'[c].live = stream[c].live
             \/ stream'[c].live = m /\ m = stream[c].live + 1
      BY <2>0, <1>1, <1>25, SMTT(30) DEF OnMessage, TypeOK, StreamOK
    <3>3. UpTo(stream[c].live)' /\ stream'[c].end <= stream'[c].live
      BY <3>2, <2>0, <2>2, <1>5, SMTT(30) DEF UpTo
    <3> QED
      BY <3>1, <3>3, <2>0, <1>1, <1>2, <1>4, <1>5 DEF SentOK, UpTo, TypeOK, StreamOK
  <2>5. HandledOK'
    <3>1. ASSUME NEW h \in Conns \X Ids, h # <<c, m>> PROVE handler'[h] = handler[h]
      BY <3>1, <1>1, <1>25 DEF OnMessage, TypeOK, HandlerOK
    <3> QED
      BY <3>1, <2>2, <1>2, <1>4, <1>5, SMTT(30) DEF HandledOK, UpTo, Ids
  <2> QED
    BY <2>3, <2>4, <2>5, <1>25, <1>6, <1>7, <1>11 DEF OnMessage, row
<1>26. ASSUME NEW h \in Conns \X Ids,
              HandleGet(h) \/ HandleExists(h) \/ HandleAdd(h) \/ HandleLast(h)
       PROVE Goal
  <2>1. ASSUME NEW g \in Conns \X Ids, handler'[g] # "none" PROVE handler[g] # "none"
    BY <2>1, <1>1, <1>26
       DEF HandleGet, HandleExists, HandleAdd, HandleLast, Goto, TypeOK, HandlerOK
  <2>2. LastOK'
    <3>1. CASE UNCHANGED last
      BY <3>1, <1>6
    <3>2. CASE HandleLast(h) /\ last' = h[2]
      BY <3>2, <1>2, <1>4, <1>5 DEF HandleLast, HandledOK, LastOK, UpTo, Ids
    <3> QED
      BY <3>1, <3>2, <1>26 DEF HandleGet, HandleExists, HandleAdd, HandleLast, UpdateLast, row
  <2> QED
    BY <2>1, <2>2, <1>26, <1>7, <1>8, <1>9, <1>10, <1>11
       DEF HandleGet, HandleExists, HandleAdd, HandleLast, conns
<1>27. CASE UNCHANGED vars
  BY <1>27, <1>6, <1>7, <1>8, <1>9, <1>10, <1>11 DEF vars, row, conns
<1> QED
  BY <1>12, <1>13, <1>15, <1>16, <1>17, <1>18, <1>19, <1>20, <1>21, <1>22, <1>23, <1>24, <1>25,
     <1>26, <1>27 DEF Next

\* For every number of polls, messages, failures and changes of the user: last never runs
\* ahead of what the web app gets, but for what a socket skipped.
THEOREM NoneMissed == Spec => []OnlySkippedMissed
<1>1. Init => IInv
  BY StructInit, MarkersInit DEF IInv
<1>2. IInv /\ [Next]_vars => IInv'
  BY StructStep, MarkersStep DEF IInv
<1>3. IInv => OnlySkippedMissed
  BY DEF IInv, MarkersOK, Live, LastOK, UpTo, Got, OnlySkippedMissed
<1> QED
  BY <1>1, <1>2, <1>3, PTL DEF Spec

-------------------------------------------------------------------------------
(* The subscriptions of an account *)

ChangeType ==
  [step : {"unsent", "sent", "authenticated", "read", "assigned", "saved", "done"},
   op : {"add", "delete", None}, topic : Topics \cup {None}, device : Devices \cup {None},
   user : A!Objects \cup {None}, list : SUBSET Topics]
RunType == [step : {"idle", "get", "add", "remove"}, list : SUBSET Topics]

SyncTypes ==
  /\ prefs \in SUBSET Topics /\ wanted \in SUBSET Topics
  /\ object \in [A!Objects -> SUBSET Topics] /\ current \in A!Objects
  /\ change \in [A!Changes -> ChangeType]
  /\ fetch \in [Devices -> [A!Fetches -> RunType]]
  /\ local \in [Devices -> SUBSET Topics]
  /\ events \in [Devices -> Nat]
  /\ raced \in {"yes", "no"} /\ spoiled \in SUBSET Devices

\* A request on its way is complete, and only a handler that has read the user has one.
ChangesOK ==
  \A c \in A!Changes :
    /\ change[c].step \notin {"unsent", "done"} =>
         change[c].op \in {"add", "delete"} /\ change[c].topic \in Topics /\ change[c].device \in Devices
    /\ change[c].step \in {"read", "assigned"} <=> change[c].user # None

\* There is always an object that nobody uses.
LEMMA NewObjectIsNew ==
  ASSUME SyncTypes PROVE A!NewObject \in A!Objects /\ A!NewObject \notin A!InUse
<1>1. IsFiniteSet(A!Changes) /\ Cardinality(A!Changes) = MaxChanges
  <2>1. IsFiniteSet(1..MaxChanges)
        /\ Cardinality(1..MaxChanges) = IF 1 > MaxChanges THEN 0 ELSE MaxChanges - 1 + 1
    BY FS_Interval, AccountAssumption, SMTT(30)
  <2> QED BY <2>1, AccountAssumption, SMTT(30) DEF A!Changes
<1>2. IsFiniteSet(A!Objects) /\ Cardinality(A!Objects) = MaxChanges + 2
  <2>1. IsFiniteSet(0..(MaxChanges + 1))
        /\ Cardinality(0..(MaxChanges + 1)) = IF 0 > MaxChanges + 1 THEN 0 ELSE MaxChanges + 1 - 0 + 1
    BY FS_Interval, AccountAssumption, SMTT(30)
  <2> QED BY <2>1, AccountAssumption, SMTT(30) DEF A!Objects
<1> DEFINE U == {change[c].user : c \in A!Changes}
           f == [c \in A!Changes |-> change[c].user]
<1>3. f \in Surjection(A!Changes, U)
  BY DEF Surjection
<1>4. IsFiniteSet(U) /\ Cardinality(U) <= MaxChanges
  BY <1>1, <1>3, FS_Surjection
<1>5. IsFiniteSet(U \cup {current})
      /\ Cardinality(U \cup {current}) = IF current \in U THEN Cardinality(U) ELSE Cardinality(U) + 1
  BY <1>4, FS_AddElement
<1>6. Cardinality(U) \in Nat BY <1>4, FS_CardinalityType
<1>7. Cardinality(U \cup {current}) < MaxChanges + 2
  BY <1>4, <1>5, <1>6, AccountAssumption, SMTT(30)
<1>8. ASSUME A!Objects \subseteq U \cup {current} PROVE FALSE
  <2>1. Cardinality(A!Objects) <= Cardinality(U \cup {current}) BY <1>5, <1>8, FS_Subset
  <2>2. Cardinality(U \cup {current}) \in Nat BY <1>5, FS_CardinalityType
  <2> HIDE DEF U
  <2> QED BY <1>2, <1>7, <2>1, <2>2, AccountAssumption, SMTT(30)
<1>9. A!InUse = U \cup {current} BY DEF A!InUse
<1>10. \E o \in A!Objects : o \notin A!InUse BY <1>8, <1>9
<1> QED BY <1>10 DEF A!NewObject

-------------------------------------------------------------------------------
SyncOK == SyncTypes /\ ChangesOK

\* A user object is read from the database.
LEMMA SetUserOK ==
  ASSUME SyncTypes, A!SetUser
  PROVE  /\ object' \in [A!Objects -> SUBSET Topics] /\ current' \in A!Objects
         /\ object'[current'] = prefs
         /\ \A c \in A!Changes : change[c].user \in A!Objects => object'[change[c].user] = object[change[c].user]
<1>1. A!NewObject \in A!Objects /\ A!NewObject \notin A!InUse BY NewObjectIsNew
<1> HIDE DEF A!NewObject
<1>2. \A o \in A!Objects : object'[o] = IF o = A!NewObject THEN prefs ELSE IF o \in A!InUse THEN object[o] ELSE {}
  BY DEF A!SetUser
<1>3. object' \in [A!Objects -> SUBSET Topics]
  <2>1. prefs \in SUBSET Topics /\ {} \in SUBSET Topics /\ \A o \in A!Objects : object[o] \in SUBSET Topics
    BY DEF SyncTypes
  <2>2. \A o \in A!Objects : (IF o = A!NewObject THEN prefs ELSE IF o \in A!InUse THEN object[o] ELSE {}) \in SUBSET Topics
    BY <2>1
  <2> QED BY <2>2 DEF A!SetUser
<1>4. current' = A!NewObject BY DEF A!SetUser
<1>5. ASSUME NEW c \in A!Changes, change[c].user \in A!Objects
      PROVE object'[change[c].user] = object[change[c].user]
  <2>1. change[c].user \in A!InUse BY DEF A!InUse
  <2>2. change[c].user # A!NewObject BY <1>1, <2>1
  <2> QED BY <1>2, <1>5, <2>1, <2>2
<1> QED BY <1>1, <1>2, <1>3, <1>4, <1>5

\* One change goes on, and the others stay where they are.
LEMMA GoesOK ==
  ASSUME SyncTypes, NEW c \in A!Changes, NEW step, NEW user, NEW list, A!Goes(c, step, user, list)
  PROVE  /\ change'[c].step = step /\ change'[c].user = user /\ change'[c].list = list
         /\ change'[c].op = change[c].op /\ change'[c].topic = change[c].topic
         /\ change'[c].device = change[c].device
         /\ \A e \in A!Changes : e # c => change'[e] = change[e]
<1> DEFINE r == [step |-> step, op |-> change[c].op, topic |-> change[c].topic,
                 device |-> change[c].device, user |-> user, list |-> list]
<1>1. change \in [A!Changes -> ChangeType] BY DEF SyncTypes
<1>2. change' = [change EXCEPT ![c] = r] BY DEF A!Goes
<1>3. /\ r.step = step /\ r.user = user /\ r.list = list
      /\ r.op = change[c].op /\ r.topic = change[c].topic /\ r.device = change[c].device
  OBVIOUS
<1> HIDE DEF r
<1>4. change'[c] = r /\ \A e \in A!Changes : e # c => change'[e] = change[e] BY <1>1, <1>2
<1> QED BY <1>3, <1>4

\* One change ends.
LEMMA EndsOK ==
  ASSUME SyncTypes, NEW c \in A!Changes, A!Ends(c)
  PROVE  /\ change'[c] = A!Done /\ change'[c].step = "done" /\ change'[c].user = None
         /\ \A e \in A!Changes : e # c => change'[e] = change[e]
<1>1. change \in [A!Changes -> ChangeType] BY DEF SyncTypes
<1>2. change'[c] = A!Done /\ \A e \in A!Changes : e # c => change'[e] = change[e]
  BY <1>1 DEF A!Ends
<1>3. A!Done.step = "done" /\ A!Done.user = None BY DEF A!Done
<1> QED BY <1>2, <1>3

\* The changes stay well formed, whatever happens to one of them.
LEMMA ChangeTyped ==
  ASSUME SyncOK, NEW c \in A!Changes, NEW r \in ChangeType, change' = [change EXCEPT ![c] = r],
         r.step \notin {"unsent", "done"} =>
           r.op \in {"add", "delete"} /\ r.topic \in Topics /\ r.device \in Devices,
         r.step \in {"read", "assigned"} <=> r.user # None
  PROVE  change' \in [A!Changes -> ChangeType] /\ ChangesOK'
<1>1. change \in [A!Changes -> ChangeType] BY DEF SyncOK, SyncTypes
<1>2. change' \in [A!Changes -> ChangeType] BY <1>1
<1>3. change'[c] = r /\ \A e \in A!Changes : e # c => change'[e] = change[e] BY <1>1
<1> QED BY <1>2, <1>3 DEF SyncOK, ChangesOK

\* A change that goes on is well formed, ...
LEMMA GoesTyped ==
  ASSUME SyncOK, NEW c \in A!Changes, change[c].step \notin {"unsent", "done"},
         NEW step \in {"authenticated", "read", "assigned", "saved"}, NEW user \in A!Objects \cup {None},
         step \in {"read", "assigned"} <=> user # None, NEW list \in SUBSET Topics,
         A!Goes(c, step, user, list)
  PROVE  change' \in [A!Changes -> ChangeType] /\ ChangesOK'
<1> DEFINE r == [step |-> step, op |-> change[c].op, topic |-> change[c].topic,
                 device |-> change[c].device, user |-> user, list |-> list]
<1>1. change[c] \in ChangeType BY DEF SyncOK, SyncTypes
<1>2. r \in ChangeType BY <1>1, SMTT(30) DEF ChangeType
<1>3. r.step \notin {"unsent", "done"} =>
        r.op \in {"add", "delete"} /\ r.topic \in Topics /\ r.device \in Devices
  BY DEF SyncOK, ChangesOK
<1>4. r.step \in {"read", "assigned"} <=> r.user # None OBVIOUS
<1>5. change' = [change EXCEPT ![c] = r] BY DEF A!Goes
<1> HIDE DEF r
<1> QED BY <1>2, <1>3, <1>4, <1>5, ChangeTyped

\* ... and one that ends.
LEMMA EndsTyped ==
  ASSUME SyncOK, NEW c \in A!Changes, A!Ends(c) PROVE change' \in [A!Changes -> ChangeType] /\ ChangesOK'
<1>1. A!Done \in ChangeType BY SMTT(30) DEF A!Done, ChangeType
<1>2. A!Done.step = "done" /\ A!Done.user = None BY DEF A!Done
<1>3. change' = [change EXCEPT ![c] = A!Done] BY DEF A!Ends
<1> HIDE DEF A!Done
<1>4. A!Done.step \notin {"read", "assigned"} BY <1>2
<1> QED BY <1>1, <1>2, <1>3, <1>4, ChangeTyped

\* One sync of a device goes on.
LEMMA FetchingOK ==
  ASSUME SyncTypes, NEW d \in Devices, NEW f \in A!Fetches,
         NEW step \in {"idle", "get", "add", "remove"}, NEW list \in SUBSET Topics,
         A!Fetching(d, f, step, list)
  PROVE  /\ fetch' \in [Devices -> [A!Fetches -> RunType]]
         /\ fetch'[d][f].step = step /\ fetch'[d][f].list = list
         /\ \A e \in A!Fetches : e # f => fetch'[d][e] = fetch[d][e]
         /\ \A b \in Devices : b # d => fetch'[b] = fetch[b]
<1> DEFINE r == [step |-> step, list |-> list]
<1>1. fetch \in [Devices -> [A!Fetches -> RunType]] BY DEF SyncTypes
<1>2. r \in RunType BY DEF RunType
<1>3. r.step = step /\ r.list = list OBVIOUS
<1>4. fetch' = [fetch EXCEPT ![d][f] = r] BY DEF A!Fetching
<1> HIDE DEF r
<1>5. fetch[d] \in [A!Fetches -> RunType] BY <1>1
<1>6. fetch'[d] = [fetch[d] EXCEPT ![f] = r] BY <1>1, <1>4
<1>7. fetch'[d] \in [A!Fetches -> RunType] BY <1>2, <1>5, <1>6
<1>8. \A b \in Devices : b # d => fetch'[b] = fetch[b] BY <1>1, <1>4
<1>9. fetch'[d][f] = r /\ \A e \in A!Fetches : e # f => fetch'[d][e] = fetch[d][e] BY <1>5, <1>6
<1>10. fetch' \in [Devices -> [A!Fetches -> RunType]] BY <1>1, <1>4, <1>2, <1>7, <1>8
<1> QED BY <1>3, <1>8, <1>9, <1>10

\* Nothing was changed yet.
LEMMA SyncInit == ASSUME A!Init PROVE SyncOK
<1>1. A!Unsent \in ChangeType /\ A!Unsent.step = "unsent" /\ A!Unsent.user = None
  <2>1. A!Unsent \in ChangeType BY SMTT(30) DEF A!Unsent, ChangeType
  <2> QED BY <2>1 DEF A!Unsent
<1>2. A!Idle \in RunType BY DEF A!Idle, RunType
<1>3. 0 \in A!Objects BY AccountAssumption, SMTT(30) DEF A!Objects
<1>4. object \in [A!Objects -> SUBSET Topics]
  <2>1. \A o \in A!Objects : (IF o = 0 THEN Initial ELSE {}) \in SUBSET Topics BY AccountAssumption
  <2> QED BY <2>1 DEF A!Init
<1>5. change \in [A!Changes -> ChangeType] /\ \A c \in A!Changes : change[c] = A!Unsent
  BY <1>1 DEF A!Init
<1>6. fetch \in [Devices -> [A!Fetches -> RunType]] BY <1>2 DEF A!Init
<1>7. local \in [Devices -> SUBSET Topics] /\ prefs \in SUBSET Topics /\ wanted \in SUBSET Topics
  BY AccountAssumption DEF A!Init
<1>8. events \in [Devices -> Nat] BY SMTT(30) DEF A!Init
<1>9. raced \in {"yes", "no"} /\ spoiled \in SUBSET Devices /\ current \in A!Objects
  BY <1>3 DEF A!Init
<1>10. SyncTypes BY <1>4, <1>5, <1>6, <1>7, <1>8, <1>9 DEF SyncTypes
<1>11. ChangesOK
  <2>1. \A c \in A!Changes : change[c].step = "unsent" /\ change[c].user = None BY <1>1, <1>5
  <2> QED BY <2>1 DEF ChangesOK
<1> QED BY <1>10, <1>11 DEF SyncOK

\* What a change makes of a list of topics.
LEMMA ChangedTyped ==
  ASSUME SyncTypes, NEW c \in A!Changes, change[c].topic \in Topics, NEW list \in SUBSET Topics
  PROVE  A!Changed(c, list) \in SUBSET Topics
BY DEF A!Changed

\* Every step keeps the account and the devices well formed.
LEMMA SyncStep == ASSUME SyncOK, [A!Next]_(A!vars) PROVE SyncOK'
<1> USE DEF SyncOK
<1>1. CASE UNCHANGED A!vars
  <2>1. SyncTypes' BY <1>1 DEF A!vars, A!serverVars, SyncTypes
  <2>2. ChangesOK' BY <1>1 DEF A!vars, ChangesOK
  <2> QED BY <2>1, <2>2
<1>2. ASSUME NEW c \in A!Changes, A!Authenticate(c) PROVE SyncOK'
  <2>1. {} \in SUBSET Topics /\ None \in A!Objects \cup {None} OBVIOUS
  <2>2. change' \in [A!Changes -> ChangeType] /\ ChangesOK'
    BY <1>2, <2>1, GoesTyped DEF A!Authenticate
  <2>3. object' \in [A!Objects -> SUBSET Topics] /\ current' \in A!Objects
    BY <1>2, SetUserOK DEF A!Authenticate
  <2>4. raced' \in {"yes", "no"} BY <1>2 DEF A!Authenticate, SyncTypes
  <2> QED BY <1>2, <2>2, <2>3, <2>4 DEF A!Authenticate, SyncTypes
<1>3. ASSUME NEW c \in A!Changes, A!Read(c) PROVE SyncOK'
  <2>1. object[current] \in SUBSET Topics /\ current \in A!Objects \cup {None} /\ {} \in SUBSET Topics
    BY DEF SyncTypes
  <2>2. current # None BY AccountAssumption, SMTT(30) DEF SyncTypes, A!Objects
  <2>3. \/ A!Ends(c) \/ A!Goes(c, "saved", None, {}) \/ A!Goes(c, "read", current, object[current])
    BY <1>3 DEF A!Read
  <2>4. change[c].step \notin {"unsent", "done"} BY <1>3 DEF A!Read
  <2>5. change' \in [A!Changes -> ChangeType] /\ ChangesOK'
    <3>1. CASE A!Ends(c) BY <3>1, EndsTyped
    <3>2. CASE A!Goes(c, "saved", None, {}) BY <3>2, <2>1, <2>4, GoesTyped
    <3>3. CASE A!Goes(c, "read", current, object[current]) BY <3>3, <2>1, <2>2, <2>4, GoesTyped
    <3> QED BY <2>3, <3>1, <3>2, <3>3
  <2> QED BY <1>3, <2>5 DEF A!Read, A!serverVars, SyncTypes
<1>4. ASSUME NEW c \in A!Changes, A!Assign(c) PROVE SyncOK'
  <2>1. change[c] \in ChangeType /\ change[c].step = "read" BY <1>4 DEF A!Assign, SyncTypes
  <2>2. change[c].user \in A!Objects \cup {None} /\ change[c].list \in SUBSET Topics
    BY <2>1 DEF ChangeType
  <2>3. change[c].user # None /\ change[c].topic \in Topics BY <2>1 DEF ChangesOK
  <2>4. change' \in [A!Changes -> ChangeType] /\ ChangesOK'
    <3>1. {} \in SUBSET Topics OBVIOUS
    <3> QED BY <1>4, <2>1, <2>2, <2>3, <3>1, GoesTyped DEF A!Assign
  <2>5. A!Changed(c, change[c].list) \in SUBSET Topics BY <2>2, <2>3, ChangedTyped
  <2>6. object' \in [A!Objects -> SUBSET Topics]
    BY <1>4, <2>5 DEF A!Assign, SyncTypes
  <2> QED BY <1>4, <2>4, <2>6 DEF A!Assign, SyncTypes
<1>5. ASSUME NEW c \in A!Changes, A!ChangeSettings(c) PROVE SyncOK'
  <2>1. change[c] \in ChangeType /\ change[c].step = "assigned" BY <1>5 DEF A!ChangeSettings,
                              SyncTypes
  <2>2. change[c].user \in A!Objects \cup {None} BY <2>1 DEF ChangeType
  <2>3. change[c].user # None /\ change[c].topic \in Topics BY <2>1 DEF ChangesOK
  <2>4. change' \in [A!Changes -> ChangeType] /\ ChangesOK'
    <3>1. {} \in SUBSET Topics OBVIOUS
    <3> QED BY <1>5, <2>1, <3>1, GoesTyped DEF A!ChangeSettings
  <2>5. A!Changed(c, wanted) \in SUBSET Topics BY <2>3, ChangedTyped DEF SyncTypes
  <2>6. object[change[c].user] \in SUBSET Topics BY <2>2, <2>3 DEF SyncTypes
  <2> QED BY <1>5, <2>4, <2>5, <2>6 DEF A!ChangeSettings, SyncTypes
<1>6. ASSUME NEW c \in A!Changes, A!Fail(c) PROVE SyncOK'
  <2>1. change' \in [A!Changes -> ChangeType] /\ ChangesOK' BY <1>6, EndsTyped DEF A!Fail
  <2>2. spoiled' \in SUBSET Devices
    <3>1. change[c].step = "sent" => change[c].device \in Devices BY DEF ChangesOK
    <3> QED BY <1>6, <3>1 DEF A!Fail, SyncTypes
  <2> QED BY <1>6, <2>1, <2>2 DEF A!Fail, A!serverVars, SyncTypes
<1>7. ASSUME NEW c \in A!Changes, A!PublishSyncEvent(c) PROVE SyncOK'
  <2>1. change' \in [A!Changes -> ChangeType] /\ ChangesOK'
    BY <1>7, EndsTyped DEF A!PublishSyncEvent
  <2>2. PICK L \in SUBSET Devices :
          /\ events' = [d \in Devices |-> IF d \in L THEN events[d] ELSE events[d] + 1]
          /\ spoiled' = spoiled \cup L
    BY <1>7 DEF A!PublishSyncEvent
  <2>3. events' \in [Devices -> Nat] BY <2>2, SMTT(30) DEF SyncTypes
  <2>4. spoiled' \in SUBSET Devices BY <2>2 DEF SyncTypes
  <2>5. UNCHANGED <<A!serverVars, fetch, local, loads>> BY <1>7 DEF A!PublishSyncEvent
  <2> QED BY <2>1, <2>3, <2>4, <2>5 DEF A!serverVars, SyncTypes
<1>8. ASSUME NEW c \in A!Changes, NEW d \in Devices, NEW t \in Topics, NEW op \in {"add", "delete"},
             A!Send(c, d, t, op), local' \in [Devices -> SUBSET Topics]
      PROVE SyncOK'
  <2> DEFINE r == [step |-> "sent", op |-> op, topic |-> t, device |-> d, user |-> None, list |-> {}]
  <2>1. r \in ChangeType BY SMTT(30) DEF ChangeType
  <2>2. r.step = "sent" /\ r.op = op /\ r.topic = t /\ r.device = d /\ r.user = None OBVIOUS
  <2>3. change' = [change EXCEPT ![c] = r] BY <1>8 DEF A!Send
  <2> HIDE DEF r
  <2>4. r.step \notin {"read", "assigned"} BY <2>2
  <2>5. change' \in [A!Changes -> ChangeType] /\ ChangesOK' BY <2>1, <2>2, <2>3, <2>4, ChangeTyped
  <2> QED BY <1>8, <2>5 DEF A!Send, A!serverVars, SyncTypes
<1>9. ASSUME NEW c \in A!Changes, NEW d \in Devices, NEW t \in Topics, A!Subscribe(c, d, t) PROVE SyncOK'
  <2>1. local' \in [Devices -> SUBSET Topics] BY <1>9 DEF A!Subscribe, SyncTypes
  <2> QED BY <1>8, <1>9, <2>1 DEF A!Subscribe
<1>10. ASSUME NEW c \in A!Changes, NEW d \in Devices, NEW t \in Topics, A!Unsubscribe(c, d, t) PROVE SyncOK'
  <2>1. local' \in [Devices -> SUBSET Topics] BY <1>10 DEF A!Unsubscribe, SyncTypes
  <2> QED BY <1>8, <1>10, <2>1 DEF A!Unsubscribe
<1>11. ASSUME NEW d \in Devices, NEW f \in A!Fetches, A!Sync(d, f), events' \in [Devices -> Nat] PROVE SyncOK'
  <2>1. object' \in [A!Objects -> SUBSET Topics] /\ current' \in A!Objects
    BY <1>11, SetUserOK DEF A!Sync
  <2>2. fetch' \in [Devices -> [A!Fetches -> RunType]]
    <3>1. {} \in SUBSET Topics OBVIOUS
    <3> QED BY <1>11, <3>1, FetchingOK DEF A!Sync
  <2>3. spoiled' \in SUBSET Devices BY <1>11 DEF A!Sync, SyncTypes
  <2>4. ChangesOK' BY <1>11 DEF A!Sync, ChangesOK
  <2> QED BY <1>11, <2>1, <2>2, <2>3, <2>4 DEF A!Sync, SyncTypes
<1>12. ASSUME NEW d \in Devices, NEW f \in A!Fetches, A!OnSyncEvent(d, f) PROVE SyncOK'
  <2>1. events' \in [Devices -> Nat] BY <1>12, SMTT(30) DEF A!OnSyncEvent, SyncTypes
  <2> QED BY <1>11, <1>12, <2>1 DEF A!OnSyncEvent
<1>13. ASSUME NEW d \in Devices, NEW f \in A!Fetches, A!OnPageLoad(d, f) PROVE SyncOK'
  <2>1. events' \in [Devices -> Nat] BY <1>13 DEF A!OnPageLoad, SyncTypes
  <2> QED BY <1>11, <1>13, <2>1 DEF A!OnPageLoad
<1>14. ASSUME NEW d \in Devices, NEW f \in A!Fetches, fetch' \in [Devices -> [A!Fetches -> RunType]],
              local' \in [Devices -> SUBSET Topics],
              UNCHANGED <<A!serverVars, change, events, loads, faults, spoiled>>
       PROVE SyncOK'
  <2>1. ChangesOK' BY <1>14 DEF ChangesOK
  <2> QED BY <1>14, <2>1 DEF A!serverVars, SyncTypes
<1>15. ASSUME NEW d \in Devices, NEW f \in A!Fetches, A!Get(d, f) PROVE SyncOK'
  <2>1. object[current] \in SUBSET Topics /\ {} \in SUBSET Topics BY DEF SyncTypes
  <2>2. A!Fetching(d, f, "idle", {}) \/ A!Fetching(d, f, "add", object[current])
    BY <1>15 DEF A!Get
  <2>3. fetch' \in [Devices -> [A!Fetches -> RunType]] BY <2>1, <2>2, FetchingOK
  <2>4. UNCHANGED <<A!serverVars, change, events, loads, faults, spoiled>> /\ UNCHANGED local
    BY <1>15 DEF A!Get
  <2> QED BY <1>14, <2>3, <2>4 DEF SyncTypes
<1>16. ASSUME NEW d \in Devices, NEW f \in A!Fetches, A!AddRemote(d, f) PROVE SyncOK'
  <2>1. fetch[d][f] \in RunType BY DEF SyncTypes
  <2>2. fetch[d][f].list \in SUBSET Topics BY <2>1 DEF RunType
  <2>3. fetch' \in [Devices -> [A!Fetches -> RunType]]
    BY <1>16, <2>2, FetchingOK DEF A!AddRemote
  <2>4. local' \in [Devices -> SUBSET Topics] BY <1>16, <2>2 DEF A!AddRemote, SyncTypes
  <2> QED BY <1>14, <1>16, <2>3, <2>4 DEF A!AddRemote
<1>17. ASSUME NEW d \in Devices, NEW f \in A!Fetches, A!RemoveLocal(d, f) PROVE SyncOK'
  <2>1. {} \in SUBSET Topics OBVIOUS
  <2>2. fetch' \in [Devices -> [A!Fetches -> RunType]]
    BY <1>17, <2>1, FetchingOK DEF A!RemoveLocal
  <2>3. local' \in [Devices -> SUBSET Topics] BY <1>17 DEF A!RemoveLocal, SyncTypes
  <2> QED BY <1>14, <1>17, <2>2, <2>3 DEF A!RemoveLocal
<1> QED
  BY <1>1, <1>2, <1>3, <1>4, <1>5, <1>6, <1>7, <1>9, <1>10, <1>12, <1>13, <1>15, <1>16, <1>17 DEF A!Next

-------------------------------------------------------------------------------
\* While no two changes were handled at a time, the one that is works on the subscriptions
\* of the database.
Kept ==
  raced = "no" =>
    /\ prefs = wanted
    /\ \A c, e \in A!Changes : A!Handled(c) /\ A!Handled(e) => c = e
    /\ \A c \in A!Changes :
         /\ change[c].step = "authenticated" => object[current] = prefs
         /\ change[c].step = "read" => change[c].list = prefs
         /\ change[c].step = "assigned" => object[change[c].user] = A!Changed(c, prefs)

\* Every step keeps the changes that were answered.
LEMMA KeptStep == ASSUME SyncOK, Kept, [A!Next]_(A!vars) PROVE Kept'
<1> USE DEF SyncOK
<1> SUFFICES ASSUME raced' = "no" PROVE Kept' BY DEF Kept
<1>0. \A c \in A!Changes : change[c].step \in {"read", "assigned"} => change[c].user \in A!Objects
  <2>1. \A c \in A!Changes : change[c].user \in A!Objects \cup {None} BY DEF SyncTypes,
                              ChangeType
  <2> QED BY <2>1 DEF ChangesOK
\* A step that handles no change and keeps what the objects in use have.
<1>1. ASSUME UNCHANGED <<prefs, wanted, raced>>,
             \A c \in A!Changes : A!Handled(c) \/ A!Handled(c)' => change'[c] = change[c],
             object'[current'] = object[current] \/ object'[current'] = prefs,
             \A c \in A!Changes : change[c].step = "assigned" => object'[change[c].user] = object[change[c].user]
      PROVE Kept'
  <2>1. Kept /\ raced = "no" BY <1>1
  <2>2. \A c, e \in A!Changes : A!Handled(c)' /\ A!Handled(e)' => c = e
    BY <1>1, <2>1 DEF Kept, A!Handled
  <2>3. ASSUME NEW c \in A!Changes, A!Handled(c)'
        PROVE /\ change'[c].step = "authenticated" => object'[current'] = prefs'
              /\ change'[c].step = "read" => change'[c].list = prefs'
              /\ change'[c].step = "assigned" => object'[change'[c].user] = A!Changed(c, prefs)'
    <3>1. change'[c] = change[c] BY <1>1, <2>3
    <3>2. A!Changed(c, prefs)' = A!Changed(c, prefs) BY <1>1, <3>1 DEF A!Changed
    <3> QED BY <1>1, <2>1, <3>1, <3>2 DEF Kept
  <2> QED BY <1>1, <2>1, <2>2, <2>3 DEF Kept, A!Handled
<1>2. ASSUME NEW c \in A!Changes, A!Authenticate(c) PROVE Kept'
  <2>1. /\ object'[current'] = prefs
    BY <1>2, SetUserOK DEF A!Authenticate
  <2>2. change'[c].step = "authenticated" /\ \A e \in A!Changes : e # c => change'[e] = change[e]
    BY <1>2, GoesOK DEF A!Authenticate
  <2>3. raced = "no" /\ \A e \in A!Changes : ~A!Handled(e) BY <1>2 DEF A!Authenticate
  <2>4. \A e \in A!Changes : A!Handled(e)' => e = c BY <2>2, <2>3 DEF A!Handled
  <2>5. prefs' = prefs /\ wanted' = wanted BY <1>2 DEF A!Authenticate
  <2> QED BY <2>1, <2>2, <2>3, <2>4, <2>5 DEF Kept, A!Handled
<1>3. ASSUME NEW c \in A!Changes, A!Read(c) PROVE Kept'
  <2>1. UNCHANGED A!serverVars /\ change[c].step = "authenticated" BY <1>3 DEF A!Read
  <2>2. raced = "no" /\ prefs' = prefs /\ wanted' = wanted /\ object' = object /\ current' = current
    BY <2>1 DEF A!serverVars
  <2>3. object[current] = prefs /\ prefs = wanted BY <2>1, <2>2 DEF Kept
  <2>4. \A e \in A!Changes : e # c => change'[e] = change[e] /\ ~A!Handled(e)
    <3>1. A!Ends(c) \/ A!Goes(c, "saved", None, {}) \/ A!Goes(c, "read", current, object[current]) BY <1>3 DEF A!Read
    <3>2. \A e \in A!Changes : e # c => change'[e] = change[e] BY <3>1, EndsOK, GoesOK
    <3>3. \A e \in A!Changes : e # c => ~A!Handled(e) BY <2>1, <2>2 DEF Kept, A!Handled
    <3> QED BY <3>2, <3>3
  <2>5. \/ change'[c].step = "done" \/ change'[c].step = "saved"
        \/ change'[c].step = "read" /\ change'[c].list = prefs
    <3>1. A!Ends(c) \/ A!Goes(c, "saved", None, {}) \/ A!Goes(c, "read", current, object[current]) BY <1>3 DEF A!Read
    <3>2. A!Ends(c) => change'[c].step = "done" BY EndsOK
    <3>3. A!Goes(c, "saved", None, {}) => change'[c].step = "saved" BY GoesOK
    <3>4. A!Goes(c, "read", current, object[current]) => change'[c].step = "read" /\ change'[c].list = object[current]
      BY GoesOK
    <3> QED BY <2>3, <3>1, <3>2, <3>3, <3>4
  <2>6. \A e \in A!Changes : A!Handled(e)' => e = c BY <2>4 DEF A!Handled
  <2> QED BY <2>2, <2>3, <2>5, <2>6 DEF Kept, A!Handled
<1>4. ASSUME NEW c \in A!Changes, A!Assign(c) PROVE Kept'
  <2>1. change[c].step = "read" /\ raced = "no" /\ prefs' = prefs /\ wanted' = wanted
    BY <1>4 DEF A!Assign
  <2>2. change[c].list = prefs /\ prefs = wanted /\ \A e \in A!Changes : A!Handled(e) => e = c
    BY <2>1 DEF Kept, A!Handled
  <2>3. /\ change'[c].step = "assigned" /\ change'[c].user = change[c].user
        /\ change'[c].op = change[c].op /\ change'[c].topic = change[c].topic
        /\ \A e \in A!Changes : e # c => change'[e] = change[e]
    BY <1>4, GoesOK DEF A!Assign
  <2>4. object'[change[c].user] = A!Changed(c, prefs)
    BY <1>0, <1>4, <2>1, <2>2 DEF A!Assign, SyncTypes
  <2>5. A!Changed(c, prefs)' = A!Changed(c, prefs) BY <2>1, <2>3 DEF A!Changed
  <2>6. \A e \in A!Changes : A!Handled(e)' => e = c BY <2>2, <2>3 DEF A!Handled
  <2> QED BY <2>1, <2>2, <2>3, <2>4, <2>5, <2>6 DEF Kept, A!Handled
<1>5. ASSUME NEW c \in A!Changes, A!ChangeSettings(c) PROVE Kept'
  <2>1. change[c].step = "assigned" /\ raced = "no" /\ prefs' = object[change[c].user] /\ wanted' = A!Changed(c, wanted)
    BY <1>5 DEF A!ChangeSettings
  <2>2. prefs = wanted /\ object[change[c].user] = A!Changed(c, prefs) /\ \A e \in A!Changes : A!Handled(e) => e = c
    BY <2>1 DEF Kept, A!Handled
  <2>3. change'[c].step = "saved" /\ \A e \in A!Changes : e # c => change'[e] = change[e]
    BY <1>5, GoesOK DEF A!ChangeSettings
  <2>4. \A e \in A!Changes : ~A!Handled(e)' BY <2>2, <2>3 DEF A!Handled
  <2> QED BY <2>1, <2>2, <2>4 DEF Kept, A!Handled
\* The other requests are not handled, before or after.
<1>6. ASSUME NEW c \in A!Changes, ~A!Handled(c)', UNCHANGED A!serverVars,
             \A e \in A!Changes : e # c => change'[e] = change[e]
      PROVE Kept'
  <2>1. raced = "no" /\ prefs' = prefs /\ wanted' = wanted /\ object' = object /\ current' = current
    BY <1>6 DEF A!serverVars
  <2>2. \A e \in A!Changes : A!Handled(e)' => e # c /\ change'[e] = change[e] /\ A!Handled(e)
    BY <1>6 DEF A!Handled
  <2>3. \A e \in A!Changes : A!Handled(e)' => A!Changed(e, prefs)' = A!Changed(e, prefs)
    BY <2>1, <2>2 DEF A!Changed
  <2>4. \A b, e \in A!Changes : A!Handled(b)' /\ A!Handled(e)' => b = e
    BY <2>1, <2>2 DEF Kept
  <2>5. ASSUME NEW e \in A!Changes, A!Handled(e)'
        PROVE /\ change'[e].step = "authenticated" => object'[current'] = prefs'
              /\ change'[e].step = "read" => change'[e].list = prefs'
              /\ change'[e].step = "assigned" => object'[change'[e].user] = A!Changed(e, prefs)'
    BY <2>1, <2>2, <2>3, <2>5 DEF Kept
  <2> QED BY <2>1, <2>4, <2>5 DEF Kept, A!Handled
<1>7. ASSUME NEW c \in A!Changes, A!Fail(c) \/ A!PublishSyncEvent(c) PROVE Kept'
  <2>1. A!Ends(c) /\ UNCHANGED A!serverVars BY <1>7 DEF A!Fail,
                              A!PublishSyncEvent
  <2>2. change'[c].step = "done" /\ \A e \in A!Changes : e # c => change'[e] = change[e]
    BY <2>1, EndsOK
  <2>3. ~A!Handled(c)' BY <2>2 DEF A!Handled
  <2> QED BY <1>6, <2>1, <2>2, <2>3
<1>8. ASSUME NEW c \in A!Changes, NEW d \in Devices, NEW t \in Topics, A!Subscribe(c, d, t) \/ A!Unsubscribe(c, d, t)
      PROVE Kept'
  <2>1. PICK op : A!Send(c, d, t, op) BY <1>8 DEF A!Subscribe, A!Unsubscribe
  <2>2. /\ change'[c].step = "sent" /\ \A e \in A!Changes : e # c => change'[e] = change[e]
    BY <2>1 DEF A!Send, SyncTypes
  <2>3. UNCHANGED A!serverVars BY <2>1 DEF A!Send
  <2>4. ~A!Handled(c)' BY <2>2 DEF A!Handled
  <2> QED BY <1>6, <2>2, <2>3, <2>4
<1>9. ASSUME NEW d \in Devices, NEW f \in A!Fetches, A!Sync(d, f) PROVE Kept'
  <2>1. UNCHANGED <<prefs, wanted, raced>> /\ UNCHANGED change /\ A!SetUser
    BY <1>9 DEF A!Sync
  <2>2. object'[current'] = prefs
        /\ \A c \in A!Changes : change[c].user \in A!Objects => object'[change[c].user] = object[change[c].user]
    BY <2>1, SetUserOK
  <2> QED BY <1>0, <1>1, <2>1, <2>2
<1>10. ASSUME UNCHANGED <<A!serverVars, change>> PROVE Kept'
  BY <1>1, <1>10 DEF A!serverVars
<1>11. ASSUME NEW d \in Devices, NEW f \in A!Fetches,
              A!OnSyncEvent(d, f) \/ A!OnPageLoad(d, f) \/ A!Get(d,
              f) \/ A!AddRemote(d, f) \/ A!RemoveLocal(d, f)
       PROVE Kept'
  <2>1. A!Sync(d, f) \/ UNCHANGED <<A!serverVars, change>>
    BY <1>11 DEF A!OnSyncEvent, A!OnPageLoad, A!Get, A!AddRemote,
                 A!RemoveLocal
  <2> QED BY <1>9, <1>10, <2>1
<1>12. CASE UNCHANGED A!vars BY <1>10, <1>12 DEF A!vars
<1> QED BY <1>2, <1>3, <1>4, <1>5, <1>7, <1>8, <1>11, <1>12 DEF A!Next

\* Every saved change of an account's subscriptions is in the database and stays there, unless
\* changes were handled at a time (handleAccountSubscriptionAdd, ...Delete).
THEOREM SubscriptionsKept == A!Spec => []ChangesKept
<1>1. A!Init => SyncOK /\ Kept
  <2> SUFFICES ASSUME A!Init PROVE SyncOK /\ Kept OBVIOUS
  <2>1. A!Unsent.step = "unsent" BY DEF A!Unsent
  <2>2. \A c \in A!Changes : change[c] = A!Unsent BY DEF A!Init
  <2>3. \A c \in A!Changes : change[c].step = "unsent" BY <2>1, <2>2
  <2>4. Kept BY <2>3 DEF Kept, A!Handled, A!Init
  <2> QED BY <2>4, SyncInit
<1>2. SyncOK /\ Kept /\ [A!Next]_(A!vars) => (SyncOK /\ Kept)' BY SyncStep, KeptStep
<1>3. Kept => ChangesKept BY DEF Kept, ChangesKept, A!ChangesKept
<1> QED BY <1>1, <1>2, <1>3, PTL DEF A!Spec

-------------------------------------------------------------------------------
\* No change is being handled that d will not hear of.
Calm(d) ==
  /\ d \notin spoiled /\ events[d] = 0
  /\ \A c \in A!Changes : change[c].step # "read" /\ change[c].step # "assigned" /\ change[c].step # "saved"

\* The topic is that of a request of d that was not answered yet.
Pending(d, op, t) ==
  \E c \in A!Changes : /\ change[c].step = "sent" \/ change[c].step = "authenticated"
                     /\ change[c].device = d /\ change[c].op = op /\ change[c].topic = t

\* d has the subscriptions of the account, or its sync() will bring them, but for what d
\* has changed since.
UpToDate(d) ==
  /\ object[current] = prefs
  /\ \A f \in A!Fetches : fetch[d][f].step = "add" \/ fetch[d][f].step = "remove" => fetch[d][f].list = prefs
  /\ (\E f \in A!Fetches : fetch[d][f].step = "remove") \/ (~A!Syncing(d) /\ prefs # {}) =>
       \A t \in prefs : t \in local[d] \/ Pending(d, "delete", t)
  /\ ~A!Syncing(d) /\ prefs # {} => \A t \in local[d] : t \in prefs \/ Pending(d, "add", t)

\* The syncs of a device that is not spoiled do not overlap.
OneSync(d) ==
  d \notin spoiled => \A e, f \in A!Fetches : fetch[d][e].step # "idle" /\ fetch[d][f].step # "idle" => e = f

Converging == \A d \in Devices : OneSync(d) /\ (Calm(d) => UpToDate(d))

\* A step of the server that keeps d calm leaves its copy alone.
LEMMA CalmServer ==
  ASSUME SyncOK, NEW d \in Devices, UpToDate(d), prefs' = prefs, object'[current'] = prefs,
         fetch'[d] = fetch[d], local'[d] = local[d],
         \A t \in prefs : Pending(d, "delete", t) => Pending(d, "delete", t)',
         \A t \in Topics : Pending(d, "add", t) => Pending(d, "add", t)' \/ t \in prefs
  PROVE  UpToDate(d)'
<1>1. A!Syncing(d)' <=> A!Syncing(d) BY DEF A!Syncing
<1>2. local[d] \in SUBSET Topics BY DEF SyncOK, SyncTypes
<1>3. \A f \in A!Fetches : (fetch[d][f].step = "add" \/ fetch[d][f].step = "remove" => fetch[d][f].list = prefs)'
  BY DEF UpToDate
<1>4. ((\E f \in A!Fetches : fetch[d][f].step = "remove") \/ (~A!Syncing(d) /\ prefs # {}) =>
        \A t \in prefs : t \in local[d] \/ Pending(d, "delete", t))'
  BY <1>1 DEF UpToDate
<1>5. (~A!Syncing(d) /\ prefs # {} => \A t \in local[d] : t \in prefs \/ Pending(d, "add", t))'
  BY <1>1, <1>2 DEF UpToDate
<1> QED BY <1>3, <1>4, <1>5 DEF UpToDate

\* The same changes are under way.
LEMMA PendingSame ==
  ASSUME NEW d, NEW op, NEW t, change' = change PROVE Pending(d, op, t)' <=> Pending(d, op, t)
BY DEF Pending

\* What is left alone when request c goes on.
LEMMA PendingOthers ==
  ASSUME NEW c \in A!Changes, \A e \in A!Changes : e # c => change'[e] = change[e],
         NEW d, NEW op, NEW t, Pending(d, op, t),
         \/ change[c].device # d \/ change[c].op # op \/ change[c].topic # t
         \/ change[c].step # "sent" /\ change[c].step # "authenticated"
         \/ change'[c].step = "authenticated" /\ change'[c].device = change[c].device
            /\ change'[c].op = change[c].op /\ change'[c].topic = change[c].topic
  PROVE  Pending(d, op, t)'
<1>1. PICK e \in A!Changes : /\ change[e].step = "sent" \/ change[e].step = "authenticated"
                           /\ change[e].device = d /\ change[e].op = op /\ change[e].topic = t
  BY DEF Pending
<1>2. CASE e # c BY <1>1, <1>2 DEF Pending
<1>3. CASE e = c BY <1>1, <1>3 DEF Pending
<1> QED BY <1>2, <1>3

\* No device has anything at first.
LEMMA ConvergingInit == ASSUME A!Init PROVE Converging
<1>1. A!Idle.step = "idle" BY DEF A!Idle
<1>2. \A d \in Devices, f \in A!Fetches : fetch[d][f].step = "idle" BY <1>1 DEF A!Init
<1>3. object[current] = prefs
  <2>1. 0 \in A!Objects BY AccountAssumption, SMTT(30) DEF A!Objects
  <2>2. object[0] = Initial BY <2>1 DEF A!Init
  <2> QED BY <2>2 DEF A!Init
<1>4. \A d \in Devices : local[d] = prefs BY DEF A!Init
<1> SUFFICES ASSUME NEW d \in Devices PROVE OneSync(d) /\ UpToDate(d) BY DEF Converging
<1>5. OneSync(d) BY <1>2 DEF OneSync
<1>6. UpToDate(d) BY <1>2, <1>3, <1>4 DEF UpToDate
<1> QED BY <1>5, <1>6

\* Every step keeps what devices still have to catch up with.
LEMMA ConvergingStep == ASSUME SyncOK, SyncOK', Converging, [A!Next]_(A!vars) PROVE Converging'
<1> USE DEF SyncOK
\* Steps that leave fetch and spoiled alone, or spoil more.
<1>1. ASSUME fetch' = fetch, spoiled \subseteq spoiled' PROVE \A d \in Devices : OneSync(d)'
  BY <1>1 DEF Converging, OneSync
<1>2. ASSUME NEW c \in A!Changes, A!Authenticate(c) PROVE Converging'
  <2>1. /\ prefs' = prefs /\ fetch' = fetch /\ local' = local /\ spoiled' = spoiled /\ events' = events
        /\ A!Goes(c, "authenticated", None, {}) /\ A!SetUser
    BY <1>2 DEF A!Authenticate
  <2>2. object'[current'] = prefs BY <2>1, SetUserOK
  <2>3. /\ change'[c].step = "authenticated" /\ change'[c].device = change[c].device
        /\ change'[c].op = change[c].op /\ change'[c].topic = change[c].topic
        /\ \A e \in A!Changes : e # c => change'[e] = change[e]
    BY <2>1, GoesOK
  <2>4. ASSUME NEW d \in Devices, Calm(d)' PROVE UpToDate(d)'
    <3>1. change[c].step = "sent" BY <1>2 DEF A!Authenticate
    <3>2. Calm(d) BY <2>1, <2>3, <2>4, <3>1 DEF Calm
    <3>3. UpToDate(d) BY <3>2 DEF Converging
    <3>4. \A op, t : Pending(d, op, t) => Pending(d, op, t)' BY <2>3, PendingOthers
    <3> QED BY <2>1, <2>2, <3>3, <3>4, CalmServer
  <2> QED BY <1>1, <2>1, <2>4 DEF Converging
<1>3. ASSUME NEW c \in A!Changes, A!Read(c) PROVE Converging'
  <2>1. /\ UNCHANGED A!serverVars /\ fetch' = fetch /\ local' = local /\ spoiled' = spoiled /\ events' = events
        /\ change[c].step = "authenticated"
    BY <1>3 DEF A!Read
  <2>2. prefs' = prefs /\ object' = object /\ current' = current BY <2>1 DEF A!serverVars
  <2>3. \/ change[c].op = "add" /\ change[c].topic \in object[current] /\ A!Ends(c)
        \/ A!Goes(c, "saved", None, {}) \/ A!Goes(c, "read", current, object[current])
    BY <1>3 DEF A!Read
  <2>4. ASSUME NEW d \in Devices, Calm(d)' PROVE UpToDate(d)'
    <3>1. ~A!Goes(c, "saved", None, {})
      <4>1. A!Goes(c, "saved", None, {}) => change'[c].step = "saved" BY GoesOK
      <4> QED BY <2>4, <4>1 DEF Calm
    <3>2. ~A!Goes(c, "read", current, object[current])
      <4>1. A!Goes(c, "read", current, object[current]) => change'[c].step = "read" BY GoesOK
      <4> QED BY <2>4, <4>1 DEF Calm
    <3>3. change[c].op = "add" /\ change[c].topic \in object[current] /\ A!Ends(c)
      BY <2>3, <3>1, <3>2
    <3>4. \A e \in A!Changes : e # c => change'[e] = change[e] BY <3>3, EndsOK
    <3>5. Calm(d) BY <2>1, <2>4, <3>4 DEF Calm
    <3>6. UpToDate(d) BY <3>5 DEF Converging
    <3>7. object[current] = prefs BY <3>6 DEF UpToDate
    <3>8. \A t : Pending(d, "delete", t) => Pending(d, "delete", t)' BY <3>3, <3>4, PendingOthers
    <3>9. \A t : Pending(d, "add", t) => Pending(d, "add", t)' \/ t \in prefs
      BY <3>3, <3>4, <3>7, PendingOthers
    <3> QED BY <2>1, <2>2, <3>6, <3>7, <3>8, <3>9, CalmServer
  <2> QED BY <1>1, <2>1, <2>4 DEF Converging
\* Until the event is published nobody is calm.
<1>4. ASSUME NEW c \in A!Changes, A!Assign(c) \/ A!ChangeSettings(c) PROVE Converging'
  <2>1. fetch' = fetch /\ spoiled' = spoiled BY <1>4 DEF A!Assign, A!ChangeSettings
  <2>2. A!Goes(c, "assigned", change[c].user, {}) \/ A!Goes(c, "saved", None, {})
    BY <1>4 DEF A!Assign, A!ChangeSettings
  <2>3. change'[c].step = "assigned" \/ change'[c].step = "saved"
    <3>1. A!Goes(c, "assigned", change[c].user, {}) => change'[c].step = "assigned" BY GoesOK
    <3>2. A!Goes(c, "saved", None, {}) => change'[c].step = "saved" BY GoesOK
    <3> QED BY <2>2, <3>1, <3>2
  <2>4. \A d \in Devices : ~Calm(d)' BY <2>3 DEF Calm
  <2> QED BY <1>1, <2>1, <2>4 DEF Converging
<1>5. ASSUME NEW c \in A!Changes, A!Fail(c) PROVE Converging'
  <2>1. /\ UNCHANGED A!serverVars /\ fetch' = fetch /\ local' = local /\ events' = events /\ A!Ends(c)
        /\ spoiled' = IF change[c].step = "sent" THEN spoiled \cup {change[c].device} ELSE Devices
    BY <1>5 DEF A!Fail
  <2>2. prefs' = prefs /\ object' = object /\ current' = current BY <2>1 DEF A!serverVars
  <2>3. spoiled \subseteq spoiled' BY <2>1 DEF SyncTypes
  <2>4. ASSUME NEW d \in Devices, Calm(d)' PROVE UpToDate(d)'
    <3>1. d \notin spoiled' BY <2>4 DEF Calm
    <3>2. change[c].step = "sent" /\ change[c].device # d /\ d \notin spoiled BY <2>1, <3>1
    <3>3. \A e \in A!Changes : e # c => change'[e] = change[e] BY <2>1, EndsOK
    <3>4. Calm(d) BY <2>1, <2>4, <3>2, <3>3 DEF Calm
    <3>5. UpToDate(d) BY <3>4 DEF Converging
    <3>6. object[current] = prefs BY <3>5 DEF UpToDate
    <3>7. \A op, t : Pending(d, op, t) => Pending(d, op, t)' BY <3>2, <3>3, PendingOthers
    <3> QED BY <2>1, <2>2, <3>5, <3>6, <3>7, CalmServer
  <2> QED BY <1>1, <2>1, <2>3, <2>4 DEF Converging
<1>6. ASSUME NEW c \in A!Changes, A!PublishSyncEvent(c) PROVE Converging'
  <2>1. PICK L \in SUBSET Devices :
          /\ events' = [d \in Devices |-> IF d \in L THEN events[d] ELSE events[d] + 1]
          /\ spoiled' = spoiled \cup L
    BY <1>6 DEF A!PublishSyncEvent
  <2>2. fetch' = fetch BY <1>6 DEF A!PublishSyncEvent
  <2>3. \A d \in Devices : events[d] \in Nat BY DEF SyncTypes
  <2>4. \A d \in Devices : events[d] + 1 # 0 BY <2>3, SMTT(30)
  <2>5. \A d \in Devices : ~Calm(d)' BY <2>1, <2>4 DEF Calm
  <2> QED BY <1>1, <2>1, <2>2, <2>5 DEF Converging
\* A device changes its copy and sends the change.
<1>7. ASSUME NEW c \in A!Changes, NEW b \in Devices, NEW t \in Topics, NEW op, A!Send(c, b, t, op)
      PROVE /\ \A d \in Devices : OneSync(d)'
            /\ prefs' = prefs /\ object'[current'] = object[current] /\ fetch' = fetch
            /\ \A d, o, s : Pending(d, o, s) => Pending(d, o, s)'
            /\ Pending(b, op, t)'
            /\ \A d \in Devices : Calm(d)' => Calm(d)
  <2>1. UNCHANGED A!serverVars /\ fetch' = fetch /\ events' = events /\ spoiled' = spoiled
    BY <1>7 DEF A!Send
  <2>2. prefs' = prefs /\ object' = object /\ current' = current BY <2>1 DEF A!serverVars
  <2> DEFINE r == [step |-> "sent", op |-> op, topic |-> t, device |-> b, user |-> None, list |-> {}]
  <2>3. r.step = "sent" /\ r.op = op /\ r.topic = t /\ r.device = b OBVIOUS
  <2>4. change' = [change EXCEPT ![c] = r] /\ change[c].step = "unsent" BY <1>7 DEF A!Send
  <2> HIDE DEF r
  <2>5. change'[c] = r /\ \A e \in A!Changes : e # c => change'[e] = change[e]
    BY <2>4 DEF SyncTypes
  <2>6. \A d, o, s : Pending(d, o, s) => Pending(d, o, s)' BY <2>4, <2>5, PendingOthers
  <2>7. Pending(b, op, t)' BY <2>3, <2>5 DEF Pending
  <2>8. \A d \in Devices : Calm(d)' => Calm(d) BY <2>1, <2>4, <2>5 DEF Calm
  <2> QED BY <1>1, <2>1, <2>2, <2>6, <2>7, <2>8
<1>8. ASSUME NEW c \in A!Changes, NEW b \in Devices, NEW t \in Topics, A!Subscribe(c, b, t) PROVE Converging'
  <2>1. /\ \A d \in Devices : OneSync(d)'
        /\ prefs' = prefs /\ object'[current'] = object[current] /\ fetch' = fetch
        /\ \A d, o, s : Pending(d, o, s) => Pending(d, o, s)'
        /\ Pending(b, "add", t)'
        /\ \A d \in Devices : Calm(d)' => Calm(d)
    BY <1>7, <1>8 DEF A!Subscribe
  <2>2. local'[b] = local[b] \cup {t} /\ \A d \in Devices : d # b => local'[d] = local[d]
    BY <1>8 DEF A!Subscribe, SyncTypes
  <2>3. ASSUME NEW d \in Devices, Calm(d)' PROVE UpToDate(d)'
    <3>1. UpToDate(d) BY <2>1, <2>3 DEF Converging
    <3>2. object[current] = prefs BY <3>1 DEF UpToDate
    <3>3. CASE d # b BY <2>1, <2>2, <3>1, <3>2, <3>3, CalmServer
    <3>4. CASE d = b
      <4>1. A!Syncing(d)' <=> A!Syncing(d) BY <2>1 DEF A!Syncing
      <4>2. \A f \in A!Fetches : (fetch[d][f].step = "add" \/ fetch[d][f].step = "remove" => fetch[d][f].list = prefs)'
        BY <2>1, <3>1 DEF UpToDate
      <4>3. ((\E f \in A!Fetches : fetch[d][f].step = "remove") \/ (~A!Syncing(d) /\ prefs # {}) =>
              \A s \in prefs : s \in local[d] \/ Pending(d, "delete", s))'
        BY <2>1, <2>2, <3>1, <3>4, <4>1 DEF UpToDate
      <4>4. (~A!Syncing(d) /\ prefs # {} => \A s \in local[d] : s \in prefs \/ Pending(d, "add", s))'
        BY <2>1, <2>2, <3>1, <3>4, <4>1 DEF UpToDate
      <4> QED BY <2>1, <3>2, <4>2, <4>3, <4>4 DEF UpToDate
    <3> QED BY <3>3, <3>4
  <2> QED BY <2>1, <2>3 DEF Converging
<1>9. ASSUME NEW c \in A!Changes, NEW b \in Devices, NEW t \in Topics, A!Unsubscribe(c, b, t) PROVE Converging'
  <2>1. /\ \A d \in Devices : OneSync(d)'
        /\ prefs' = prefs /\ object'[current'] = object[current] /\ fetch' = fetch
        /\ \A d, o, s : Pending(d, o, s) => Pending(d, o, s)'
        /\ Pending(b, "delete", t)'
        /\ \A d \in Devices : Calm(d)' => Calm(d)
    BY <1>7, <1>9 DEF A!Unsubscribe
  <2>2. local'[b] = local[b] \ {t} /\ \A d \in Devices : d # b => local'[d] = local[d]
    BY <1>9 DEF A!Unsubscribe, SyncTypes
  <2>3. ASSUME NEW d \in Devices, Calm(d)' PROVE UpToDate(d)'
    <3>1. UpToDate(d) BY <2>1, <2>3 DEF Converging
    <3>2. object[current] = prefs BY <3>1 DEF UpToDate
    <3>3. CASE d # b BY <2>1, <2>2, <3>1, <3>2, <3>3, CalmServer
    <3>4. CASE d = b
      <4>1. A!Syncing(d)' <=> A!Syncing(d) BY <2>1 DEF A!Syncing
      <4>2. \A f \in A!Fetches : (fetch[d][f].step = "add" \/ fetch[d][f].step = "remove" => fetch[d][f].list = prefs)'
        BY <2>1, <3>1 DEF UpToDate
      <4>3. ((\E f \in A!Fetches : fetch[d][f].step = "remove") \/ (~A!Syncing(d) /\ prefs # {}) =>
              \A s \in prefs : s \in local[d] \/ Pending(d, "delete", s))'
        BY <2>1, <2>2, <3>1, <3>4, <4>1 DEF UpToDate
      <4>4. (~A!Syncing(d) /\ prefs # {} => \A s \in local[d] : s \in prefs \/ Pending(d, "add", s))'
        BY <2>1, <2>2, <3>1, <3>4, <4>1 DEF UpToDate
      <4> QED BY <2>1, <3>2, <4>2, <4>3, <4>4 DEF UpToDate
    <3> QED BY <3>3, <3>4
  <2> QED BY <2>1, <2>3 DEF Converging
\* A sync catches up, and keeps the other devices as they are.
<1>10. ASSUME NEW b \in Devices, NEW f \in A!Fetches, A!Sync(b, f), \A d \in Devices : d # b => events'[d] = events[d]
       PROVE Converging'
  <2>1. /\ A!SetUser /\ A!Fetching(b, f, "get", {}) /\ prefs' = prefs /\ change' = change /\ local' = local
        /\ spoiled' = IF A!Syncing(b) THEN spoiled \cup {b} ELSE spoiled \ {b}
    BY <1>10 DEF A!Sync
  <2>2. object'[current'] = prefs BY <2>1, SetUserOK
  <2>3. /\ fetch'[b][f].step = "get" /\ \A e \in A!Fetches : e # f => fetch'[b][e] = fetch[b][e]
        /\ \A d \in Devices : d # b => fetch'[d] = fetch[d]
    <3>1. {} \in SUBSET Topics OBVIOUS
    <3> QED BY <2>1, <3>1, FetchingOK
  <2>4. ASSUME NEW d \in Devices, d # b PROVE OneSync(d)' /\ (Calm(d)' => UpToDate(d)')
    <3>1. OneSync(d)'
      <4>1. OneSync(d) BY DEF Converging
      <4> QED BY <2>1, <2>3, <2>4, <4>1 DEF OneSync
    <3>2. ASSUME Calm(d)' PROVE UpToDate(d)'
      <4>1. Calm(d) BY <1>10, <2>1, <2>4, <3>2 DEF Calm
      <4>2. UpToDate(d) BY <4>1 DEF Converging
      <4>3. \A op, t : Pending(d, op, t) => Pending(d, op, t)' BY <2>1, PendingSame
      <4> QED BY <2>1, <2>2, <2>3, <2>4, <4>2, <4>3, CalmServer
    <3> QED BY <3>1, <3>2
  <2>5. ASSUME b \notin spoiled' PROVE OneSync(b)' /\ UpToDate(b)'
    <3>1. ~A!Syncing(b) BY <2>1, <2>5
    <3>2. \A e \in A!Fetches : e # f => fetch'[b][e].step = "idle"
      BY <2>3, <3>1 DEF A!Syncing
    <3>3. OneSync(b)' BY <3>2 DEF OneSync
    <3>4. A!Syncing(b)' BY <2>3 DEF A!Syncing
    <3>5. \A e \in A!Fetches : fetch'[b][e].step # "add" /\ fetch'[b][e].step # "remove"
      BY <2>3, <3>2
    <3> QED BY <2>1, <2>2, <3>3, <3>4, <3>5 DEF UpToDate
  <2>6. OneSync(b)' /\ (Calm(b)' => UpToDate(b)') BY <2>5 DEF OneSync, Calm
  <2> QED BY <2>4, <2>6 DEF Converging
<1>11. ASSUME NEW b \in Devices, NEW f \in A!Fetches, A!OnSyncEvent(b, f) \/ A!OnPageLoad(b, f) PROVE Converging'
  <2>1. A!Sync(b, f) /\ \A d \in Devices : d # b => events'[d] = events[d]
    BY <1>11 DEF A!OnSyncEvent, A!OnPageLoad, SyncTypes
  <2> QED BY <1>10, <2>1
\* A run of sync() goes on.
<1>12. ASSUME NEW b \in Devices, NEW f \in A!Fetches, UNCHANGED <<A!serverVars, change, events, loads, faults, spoiled>>,
              fetch[b][f].step # "idle",
              \A e \in A!Fetches : e # f => fetch'[b][e] = fetch[b][e],
              \A d \in Devices : d # b => fetch'[d] = fetch[d] /\ local'[d] = local[d],
              Calm(b) /\ UpToDate(b) /\ (\A e \in A!Fetches : e # f => fetch[b][e].step = "idle") => UpToDate(b)'
       PROVE Converging'
  <2>1. prefs' = prefs /\ object' = object /\ current' = current /\ change' = change /\ events' = events
        /\ spoiled' = spoiled
    BY <1>12 DEF A!serverVars
  <2>2. \A d \in Devices : Calm(d)' <=> Calm(d) BY <2>1 DEF Calm
  <2>3. ASSUME NEW d \in Devices, d # b PROVE OneSync(d)' /\ (Calm(d)' => UpToDate(d)')
    <3>1. OneSync(d)'
      <4>1. OneSync(d) BY DEF Converging
      <4> QED BY <1>12, <2>1, <2>3, <4>1 DEF OneSync
    <3>2. ASSUME Calm(d)' PROVE UpToDate(d)'
      <4>1. UpToDate(d) BY <2>2, <3>2 DEF Converging
      <4>2. object'[current'] = prefs BY <2>1, <4>1 DEF UpToDate
      <4>3. \A op, t : Pending(d, op, t) => Pending(d, op, t)' BY <2>1, PendingSame
      <4> QED BY <1>12, <2>1, <2>3, <4>1, <4>2, <4>3, CalmServer
    <3> QED BY <3>1, <3>2
  <2>4. b \notin spoiled => \A e \in A!Fetches : e # f => fetch[b][e].step = "idle"
    BY <1>12 DEF Converging, OneSync
  <2>5. OneSync(b)' BY <1>12, <2>1, <2>4 DEF OneSync
  <2>6. Calm(b)' => UpToDate(b)'
    <3>1. Calm(b) => b \notin spoiled BY DEF Calm
    <3> QED BY <1>12, <2>2, <2>4, <3>1 DEF Converging
  <2> QED BY <2>3, <2>5, <2>6 DEF Converging
<1>13. ASSUME NEW b \in Devices, NEW f \in A!Fetches, A!Get(b, f) PROVE Converging'
  <2>1. /\ UNCHANGED <<A!serverVars, change, events, loads, faults, spoiled>>
        /\ fetch[b][f].step = "get" /\ local' = local
    BY <1>13 DEF A!Get
  <2>2. prefs' = prefs /\ object' = object /\ current' = current /\ change' = change
    BY <2>1 DEF A!serverVars
  <2>3. object[current] \in SUBSET Topics /\ {} \in SUBSET Topics BY DEF SyncTypes
  <2>4. \/ object[current] = {} /\ A!Fetching(b, f, "idle", {})
        \/ A!Fetching(b, f, "add", object[current])
    BY <1>13 DEF A!Get
  <2>5. /\ \A e \in A!Fetches : e # f => fetch'[b][e] = fetch[b][e]
        /\ \A d \in Devices : d # b => fetch'[d] = fetch[d]
    BY <2>3, <2>4, FetchingOK
  <2>6. \/ object[current] = {} /\ fetch'[b][f].step = "idle"
        \/ fetch'[b][f].step = "add" /\ fetch'[b][f].list = object[current]
    <3>1. A!Fetching(b, f, "idle", {}) => fetch'[b][f].step = "idle" BY <2>3, FetchingOK
    <3>2. \A l \in SUBSET Topics :
            A!Fetching(b, f, "add", l) => fetch'[b][f].step = "add" /\ fetch'[b][f].list = l
      BY FetchingOK
    <3> QED BY <2>3, <2>4, <3>1, <3>2
  <2>7. ASSUME UpToDate(b), \A e \in A!Fetches : e # f => fetch[b][e].step = "idle" PROVE UpToDate(b)'
    <3>1. object[current] = prefs BY <2>7 DEF UpToDate
    <3>2. \A e \in A!Fetches : e # f => fetch'[b][e].step = "idle" BY <2>5, <2>7
    <3>3. \A e \in A!Fetches : fetch'[b][e].step # "remove" BY <2>6, <3>2
    <3>4. \A e \in A!Fetches : (fetch[b][e].step = "add" => fetch[b][e].list = prefs)'
      BY <2>2, <2>6, <3>1, <3>2
    <3>5. fetch'[b][f].step = "add" => A!Syncing(b)' BY DEF A!Syncing
    <3>6. ~A!Syncing(b)' => prefs' = {} BY <2>2, <2>6, <3>1, <3>5
    <3> QED BY <2>2, <3>1, <3>3, <3>4, <3>6 DEF UpToDate
  <2> QED BY <1>12, <2>1, <2>5, <2>7
<1>14. ASSUME NEW b \in Devices, NEW f \in A!Fetches, A!AddRemote(b, f) PROVE Converging'
  <2>1. /\ UNCHANGED <<A!serverVars, change, events, loads, faults, spoiled>>
        /\ fetch[b][f].step = "add" /\ A!Fetching(b, f, "remove", fetch[b][f].list)
    BY <1>14 DEF A!AddRemote
  <2>2. prefs' = prefs /\ object' = object /\ current' = current BY <2>1 DEF A!serverVars
  <2>3. /\ local'[b] = local[b] \cup fetch[b][f].list
        /\ \A d \in Devices : d # b => local'[d] = local[d]
    BY <1>14 DEF A!AddRemote, SyncTypes
  <2>4. fetch[b][f].list \in SUBSET Topics
    <3>1. fetch[b][f] \in RunType BY DEF SyncTypes
    <3> QED BY <3>1 DEF RunType
  <2>5. /\ fetch'[b][f].step = "remove" /\ fetch'[b][f].list = fetch[b][f].list
        /\ \A e \in A!Fetches : e # f => fetch'[b][e] = fetch[b][e]
        /\ \A d \in Devices : d # b => fetch'[d] = fetch[d]
    <3>1. ASSUME NEW l \in SUBSET Topics, A!Fetching(b, f, "remove", l)
          PROVE  /\ fetch'[b][f].step = "remove" /\ fetch'[b][f].list = l
                 /\ \A e \in A!Fetches : e # f => fetch'[b][e] = fetch[b][e]
                 /\ \A d \in Devices : d # b => fetch'[d] = fetch[d]
      BY <3>1, FetchingOK
    <3> QED BY <2>1, <2>4, <3>1
  <2>6. ASSUME UpToDate(b), \A e \in A!Fetches : e # f => fetch[b][e].step = "idle" PROVE UpToDate(b)'
    <3>1. object[current] = prefs /\ fetch[b][f].list = prefs BY <2>1, <2>6 DEF UpToDate
    <3>2. \A e \in A!Fetches : e # f => fetch'[b][e].step = "idle" BY <2>5, <2>6
    <3>3. \A e \in A!Fetches : (fetch[b][e].step = "add" \/ fetch[b][e].step = "remove" => fetch[b][e].list = prefs)'
      BY <2>2, <2>5, <3>1, <3>2
    <3>4. A!Syncing(b)' BY <2>5 DEF A!Syncing
    <3>5. \A t \in prefs : t \in local'[b] BY <2>3, <3>1
    <3> QED BY <2>2, <3>1, <3>3, <3>4, <3>5 DEF UpToDate
  <2> QED BY <1>12, <2>1, <2>3, <2>5, <2>6
<1>15. ASSUME NEW b \in Devices, NEW f \in A!Fetches, A!RemoveLocal(b, f) PROVE Converging'
  <2>1. /\ UNCHANGED <<A!serverVars, change, events, loads, faults, spoiled>>
        /\ fetch[b][f].step = "remove" /\ A!Fetching(b, f, "idle", {})
    BY <1>15 DEF A!RemoveLocal
  <2>2. prefs' = prefs /\ object' = object /\ current' = current /\ change' = change
    BY <2>1 DEF A!serverVars
  <2>3. /\ local'[b] = local[b] \cap fetch[b][f].list
        /\ \A d \in Devices : d # b => local'[d] = local[d]
    BY <1>15 DEF A!RemoveLocal, SyncTypes
  <2>4. /\ fetch'[b][f].step = "idle"
        /\ \A e \in A!Fetches : e # f => fetch'[b][e] = fetch[b][e]
        /\ \A d \in Devices : d # b => fetch'[d] = fetch[d]
    <3>1. {} \in SUBSET Topics OBVIOUS
    <3> QED BY <2>1, <3>1, FetchingOK
  <2>5. ASSUME UpToDate(b), \A e \in A!Fetches : e # f => fetch[b][e].step = "idle" PROVE UpToDate(b)'
    <3>1. object[current] = prefs /\ fetch[b][f].list = prefs BY <2>1, <2>5 DEF UpToDate
    <3>2. \A e \in A!Fetches : fetch'[b][e].step = "idle" BY <2>4, <2>5
    <3>3. \A t \in prefs : t \in local[b] \/ Pending(b, "delete", t) BY <2>1, <2>5 DEF UpToDate
    <3>4. \A t \in prefs : t \in local'[b] \/ Pending(b, "delete", t)'
      BY <2>2, <2>3, <3>1, <3>3, PendingSame
    <3>5. \A t \in local'[b] : t \in prefs BY <2>3, <3>1
    <3> QED BY <2>2, <3>1, <3>2, <3>4, <3>5 DEF UpToDate
  <2> QED BY <1>12, <2>1, <2>3, <2>4, <2>5
<1>16. CASE UNCHANGED A!vars
  <2>1. UNCHANGED <<A!serverVars, change, fetch, local, events, spoiled>> BY <1>16 DEF A!vars
  <2>2. prefs' = prefs /\ object' = object /\ current' = current /\ change' = change /\ fetch' = fetch
        /\ local' = local /\ events' = events /\ spoiled' = spoiled
    BY <2>1 DEF A!serverVars
  <2>3. ASSUME NEW d \in Devices, Calm(d)' PROVE UpToDate(d)'
    <3>1. Calm(d) BY <2>2, <2>3 DEF Calm
    <3>2. UpToDate(d) BY <3>1 DEF Converging
    <3>3. object'[current'] = prefs BY <2>2, <3>2 DEF UpToDate
    <3>4. \A op, t : Pending(d, op, t) => Pending(d, op, t)' BY <2>2, PendingSame
    <3> QED BY <2>2, <3>2, <3>3, <3>4, CalmServer
  <2> QED BY <1>1, <2>2, <2>3 DEF Converging
<1> QED BY <1>2, <1>3, <1>4, <1>5, <1>6, <1>8, <1>9, <1>11, <1>13, <1>14, <1>15, <1>16 DEF A!Next

\* A device to which nothing is on its way has the subscriptions of the account
\* (syncFromRemote), unless it has none, or something was lost or syncs overlapped.
THEOREM DevicesCatchUp == A!Spec => []DevicesConverge
<1>1. A!Init => SyncOK /\ Converging BY SyncInit, ConvergingInit
<1>2. SyncOK /\ Converging /\ [A!Next]_(A!vars) => (SyncOK /\ Converging)' BY SyncStep, ConvergingStep
<1>3. Converging => DevicesConverge
  <2> SUFFICES ASSUME Converging, NEW d \in Devices, A!Settled(d), d \notin spoiled, prefs # {}
               PROVE local[d] = prefs
    BY DEF DevicesConverge, A!DevicesConverge
  <2>1. Calm(d) BY DEF Calm, A!Settled
  <2>2. UpToDate(d) BY <2>1 DEF Converging
  <2>3. \A op, t : ~Pending(d, op, t) BY DEF Pending, A!Settled
  <2> QED BY <2>2, <2>3 DEF UpToDate, A!Settled
<1> QED BY <1>1, <1>2, <1>3, PTL DEF A!Spec

-------------------------------------------------------------------------------
(* The dialog that publishes *)



Form ==
  [topic : DialogTopics \cup {None}, rows : SUBSET Rows, field : [Rows -> D!Texts],
   urlRow : {"hidden", "shown"}, url : D!Texts, file : Files \cup {None}, filename : D!Texts,
   edited : {"yes", "no"}, error : Files \cup {None}, another : {"yes", "no"}]

\* What is not shown was taken back.
Tidy(f) ==
  /\ \A r \in Rows : r \notin f.rows => f.field[r] = "empty"
  /\ f.urlRow = "hidden" => f.url = "empty"
  /\ f.urlRow = "hidden" /\ f.file = None => f.filename = "empty"

DialogOK ==
  /\ selected \in DialogTopics \cup {None}
  /\ form \in Form /\ Tidy(form)
  /\ checks \in SUBSET Files

\* The fields of the form.
LEMMA FormFields ==
  ASSUME NEW f \in Form
  PROVE  /\ f.topic \in DialogTopics \cup {None} /\ f.rows \in SUBSET Rows /\ f.field \in [Rows -> D!Texts]
         /\ f.urlRow \in {"hidden", "shown"} /\ f.url \in D!Texts /\ f.file \in Files \cup {None}
         /\ f.filename \in D!Texts /\ f.edited \in {"yes", "no"} /\ f.error \in Files \cup {None}
         /\ f.another \in {"yes", "no"}
BY DEF Form

\* A new form is tidy.
LEMMA NewFormOK == ASSUME NEW t \in DialogTopics \cup {None} PROVE D!NewForm(t) \in Form /\ Tidy(D!NewForm(t))
<1>1. D!NewForm(t) \in Form BY SMTT(30) DEF D!NewForm, Form, D!Texts
<1>2. Tidy(D!NewForm(t)) BY DEF D!NewForm, Tidy
<1> QED BY <1>1, <1>2

\* The steps that only edit the form.
LEMMA EditsOK ==
  ASSUME NEW f \in Form, Tidy(f), NEW g,
         \/ \E t \in DialogTopics \cup {None} : g = [f EXCEPT !.topic = t]
         \/ \E r \in Rows, text \in D!Texts : g = [f EXCEPT !.rows = @ \cup {r}, !.field[r] = text]
         \/ \E r \in Rows, text \in D!Texts : r \in f.rows /\ g = [f EXCEPT !.field[r] = text]
         \/ \E r \in Rows : g = [f EXCEPT !.rows = @ \ {r}, !.field[r] = "empty"]
         \/ g = [f EXCEPT !.urlRow = "shown"]
         \/ \E text \in D!Texts, name \in D!Texts :
              f.urlRow = "shown" /\ g = [f EXCEPT !.url = text, !.filename = name]
         \/ \E text \in D!Texts : f.urlRow = "shown" /\ g = [f EXCEPT !.filename = text, !.edited = "yes"]
         \/ \E text \in D!Texts : f.file # None /\ g = [f EXCEPT !.filename = text]
         \/ g = [f EXCEPT !.urlRow = "hidden", !.url = "empty", !.filename = "empty", !.edited = "no"]
         \/ \E x \in {"yes", "no"} : g = [f EXCEPT !.another = x]
         \/ \E h \in Files : g = [f EXCEPT !.file = h, !.filename = "text"]
         \/ g = [f EXCEPT !.file = None, !.filename = "empty", !.error = None]
         \/ \E e \in Files \cup {None} : g = [f EXCEPT !.error = e]
  PROVE  g \in Form /\ Tidy(g)
<1> USE DEF Form, Tidy
<1>0. "text" \in D!Texts /\ "empty" \in D!Texts /\ \A h \in Files : h # None
  BY DialogAssumption DEF D!Texts
<1>1. ASSUME NEW t \in DialogTopics \cup {None}, g = [f EXCEPT !.topic = t] PROVE g \in Form /\ Tidy(g)
  BY <1>1
<1>2. ASSUME NEW r \in Rows, NEW text \in D!Texts, g = [f EXCEPT !.rows = @ \cup {r}, !.field[r] = text]
      PROVE g \in Form /\ Tidy(g)
  BY <1>2
<1>3. ASSUME NEW r \in Rows, NEW text \in D!Texts, r \in f.rows, g = [f EXCEPT !.field[r] = text]
      PROVE g \in Form /\ Tidy(g)
  BY <1>3
<1>4. ASSUME NEW r \in Rows, g = [f EXCEPT !.rows = @ \ {r}, !.field[r] = "empty"] PROVE g \in Form /\ Tidy(g)
  BY <1>0, <1>4
<1>5. ASSUME g = [f EXCEPT !.urlRow = "shown"] PROVE g \in Form /\ Tidy(g) BY <1>5
<1>6. ASSUME NEW text \in D!Texts, NEW name \in D!Texts, f.urlRow = "shown",
             g = [f EXCEPT !.url = text, !.filename = name]
      PROVE g \in Form /\ Tidy(g)
  BY <1>6
<1>7. ASSUME NEW text \in D!Texts, f.urlRow = "shown", g = [f EXCEPT !.filename = text, !.edited = "yes"]
      PROVE g \in Form /\ Tidy(g)
  BY <1>7
<1>8. ASSUME NEW text \in D!Texts, f.file # None, g = [f EXCEPT !.filename = text] PROVE g \in Form /\ Tidy(g)
  BY <1>8
<1>9. ASSUME g = [f EXCEPT !.urlRow = "hidden", !.url = "empty", !.filename = "empty", !.edited = "no"]
      PROVE g \in Form /\ Tidy(g)
  BY <1>0, <1>9
<1>10. ASSUME NEW x \in {"yes", "no"}, g = [f EXCEPT !.another = x] PROVE g \in Form /\ Tidy(g) BY <1>10
<1>11. ASSUME NEW h \in Files, g = [f EXCEPT !.file = h, !.filename = "text"] PROVE g \in Form /\ Tidy(g)
  BY <1>0, <1>11
<1>12. ASSUME g = [f EXCEPT !.file = None, !.filename = "empty", !.error = None] PROVE g \in Form /\ Tidy(g)
  BY <1>0, <1>12
<1>13. ASSUME NEW e \in Files \cup {None}, g = [f EXCEPT !.error = e] PROVE g \in Form /\ Tidy(g)
  BY <1>13
<1> HIDE DEF Form, Tidy
<1> QED BY <1>1, <1>2, <1>3, <1>4, <1>5, <1>6, <1>7, <1>8, <1>9, <1>10, <1>11, <1>12, <1>13

\* The form is edited, or the dialog is mounted afresh, or neither.
LEMMA FormSteps ==
  ASSUME DialogOK, [D!Next]_(D!vars)
  PROVE  form' = form \/ form' = D!NewForm(selected) \/ (form' \in Form /\ Tidy(form'))
<1> DEFINE Goal == form' = form \/ form' = D!NewForm(selected) \/ (form' \in Form /\ Tidy(form'))
<1>0. form \in Form /\ Tidy(form) BY DEF DialogOK
<1>1. ASSUME NEW t \in DialogTopics \cup {None}, D!Select(t) \/ D!EditTopic(t) PROVE Goal
  <2>1. form' = [form EXCEPT !.topic = t] BY <1>1 DEF D!Select, D!EditTopic, D!Edit
  <2> QED BY <1>0, <2>1, EditsOK
<1>2. ASSUME NEW x \in D!Texts, D!EditUrl(x) PROVE Goal
  <2>1. form.filename \in D!Texts BY <1>0, FormFields
  <2>2. PICK name \in D!Texts : form' = [form EXCEPT !.url = x, !.filename = name]
    BY <1>2, <2>1 DEF D!EditUrl, D!Edit
  <2> QED BY <1>0, <1>2, <2>2, EditsOK DEF D!EditUrl
<1>3. ASSUME NEW x \in D!Texts, D!EditFilename(x) PROVE Goal
  <2>1. \/ form.urlRow = "shown" /\ form' = [form EXCEPT !.filename = x, !.edited = "yes"]
        \/ form.file # None /\ form' = [form EXCEPT !.filename = x]
    BY <1>3 DEF D!EditFilename, D!Edit, D!FileShown
  <2> QED BY <1>0, <2>1, EditsOK
<1>4. ASSUME D!OpenDialog \/ D!DragEnter PROVE Goal BY <1>4 DEF D!OpenDialog,
                              D!DragEnter
<1>5. ASSUME D!Cancel \/ D!DragLeave PROVE Goal BY <1>5 DEF D!Cancel,
                              D!DragLeave, D!Close
<1>6. ASSUME D!CloseTopicRow PROVE Goal
  <2>1. form' = [form EXCEPT !.topic = selected] /\ selected \in DialogTopics \cup {None}
    BY <1>6 DEF D!CloseTopicRow, D!Edit, DialogOK
  <2> QED BY <1>0, <2>1, EditsOK
<1>7. ASSUME D!OpenUrlRow PROVE Goal
  <2>1. form' = [form EXCEPT !.urlRow = "shown"] BY <1>7 DEF D!OpenUrlRow, D!Edit
  <2> QED BY <1>0, <2>1, EditsOK
<1>8. ASSUME D!CloseUrlRow PROVE Goal
  <2>1. form' = [form EXCEPT !.urlRow = "hidden", !.url = "empty", !.filename = "empty", !.edited = "no"]
    BY <1>8 DEF D!CloseUrlRow, D!Edit
  <2> QED BY <1>0, <2>1, EditsOK
<1>9. ASSUME NEW r \in Rows, D!OpenRow(r) PROVE Goal
  <2>1. PICK text \in D!Texts : form' = [form EXCEPT !.rows = @ \cup {r}, !.field[r] = text]
    BY <1>9 DEF D!OpenRow, D!Edit
  <2> QED BY <1>0, <2>1, EditsOK
<1>10. ASSUME NEW r \in Rows, D!CloseRow(r) PROVE Goal
  <2>1. form' = [form EXCEPT !.rows = @ \ {r}, !.field[r] = "empty"] BY <1>10 DEF D!CloseRow,
                              D!Edit
  <2> QED BY <1>0, <2>1, EditsOK
<1>11. ASSUME NEW r \in Rows, NEW x \in D!Texts, D!EditRow(r, x) PROVE Goal
  <2>1. r \in form.rows /\ form' = [form EXCEPT !.field[r] = x] BY <1>11 DEF D!EditRow, D!Edit
  <2> QED BY <1>0, <2>1, EditsOK
<1>12. ASSUME NEW x \in {"yes", "no"}, D!SetAnother(x) PROVE Goal
  <2>1. form' = [form EXCEPT !.another = x] BY <1>12 DEF D!SetAnother, D!Edit
  <2> QED BY <1>0, <2>1, EditsOK
<1>13. ASSUME NEW f \in Files, D!ChooseFile(f) \/ D!PasteInBar(f) \/ D!Drop(f) PROVE Goal
  <2>1. form' = [form EXCEPT !.file = f, !.filename = "text"]
    BY <1>13 DEF D!ChooseFile, D!PasteInBar, D!Drop, D!UpdateAttachFile
  <2> QED BY <1>0, <2>1, EditsOK
<1>14. ASSUME D!RemoveFile PROVE Goal
  <2>1. form' = [form EXCEPT !.file = None, !.filename = "empty", !.error = None]
    BY <1>14 DEF D!RemoveFile
  <2> QED BY <1>0, <2>1, EditsOK
<1>15. ASSUME NEW c \in checks, D!Checked(c) PROVE Goal
  <2>1. PICK e \in {None} \cup ({c} \cap Large) : form' = [form EXCEPT !.error = e]
    BY <1>15 DEF D!Checked
  <2>2. e \in Files \cup {None} BY DEF DialogOK
  <2> QED BY <1>0, <2>1, <2>2, EditsOK
<1>16. ASSUME NEW r, D!Submit(r) \/ D!PublishXHR(r) \/ D!Published(r) \/ D!Failed(r) PROVE Goal
  BY <1>16 DEF D!Submit, D!PublishXHR, D!Published, D!Failed, D!Close
<1>17. ASSUME D!Abort PROVE Goal BY <1>16, <1>17 DEF D!Abort
<1>18. ASSUME UNCHANGED D!vars PROVE Goal BY <1>18 DEF D!vars
<1> HIDE DEF Goal
<1>19. Goal
  BY <1>1, <1>2, <1>3, <1>4, <1>5, <1>6, <1>7, <1>8, <1>9, <1>10, <1>11, <1>12, <1>13, <1>14, <1>15,
     <1>16, <1>17, <1>18 DEF D!Next
<1> QED BY <1>19 DEF Goal

\* The dialog is closed at first.
LEMMA DialogInit == ASSUME D!Init PROVE DialogOK
<1>1. selected \in DialogTopics \cup {None} /\ form = D!NewForm(selected) BY DEF D!Init
<1>2. form \in Form /\ Tidy(form) BY <1>1, NewFormOK
<1> QED BY <1>1, <1>2 DEF D!Init, DialogOK

\* Every step of the dialog keeps the form tidy.
LEMMA DialogStep == ASSUME DialogOK, [D!Next]_(D!vars) PROVE DialogOK'
<1>1. selected \in DialogTopics \cup {None} BY DEF DialogOK
<1>2. form' \in Form /\ Tidy(form') BY <1>1, FormSteps, NewFormOK DEF DialogOK
<1>3. selected' \in DialogTopics \cup {None} /\ checks' \in SUBSET Files
  <2> DEFINE Goal == selected' \in DialogTopics \cup {None} /\ checks' \in SUBSET Files
  <2>0. selected \in DialogTopics \cup {None} /\ checks \in SUBSET Files BY DEF DialogOK
  <2>1. ASSUME UNCHANGED <<selected, checks>> PROVE Goal BY <2>0, <2>1
  <2>2. ASSUME NEW t \in DialogTopics \cup {None}, D!Select(t) PROVE Goal
    BY <2>0, <2>2 DEF D!Select
  <2>3. ASSUME NEW t, D!EditTopic(t) PROVE Goal BY <2>1, <2>3 DEF D!EditTopic, D!Edit
  <2>4. ASSUME NEW x, D!EditUrl(x) \/ D!EditFilename(x) PROVE Goal
    <3>1. UNCHANGED <<selected, checks>> BY <2>4 DEF D!EditUrl, D!EditFilename, D!Edit
    <3> QED BY <2>1, <3>1
  <2>5. ASSUME D!OpenDialog \/ D!Cancel \/ D!CloseTopicRow \/ D!OpenUrlRow \/ D!CloseUrlRow PROVE Goal
    BY <2>0, <2>5 DEF D!OpenDialog, D!Cancel, D!Close, D!CloseTopicRow,
                      D!OpenUrlRow, D!CloseUrlRow, D!Edit
  <2>6. ASSUME NEW r \in Rows, D!OpenRow(r) \/ D!CloseRow(r) \/ \E x \in D!Texts : D!EditRow(r, x) PROVE Goal
    BY <2>1, <2>6 DEF D!OpenRow, D!CloseRow, D!EditRow, D!Edit
  <2>7. ASSUME NEW x, D!SetAnother(x) PROVE Goal BY <2>1, <2>7 DEF D!SetAnother, D!Edit
  <2>8. ASSUME NEW f \in Files, D!ChooseFile(f) \/ D!PasteInBar(f) \/ D!Drop(f) PROVE Goal
    BY <2>0, <2>8 DEF D!ChooseFile, D!PasteInBar, D!Drop, D!UpdateAttachFile
  <2>9. ASSUME D!DragEnter \/ D!DragLeave \/ D!RemoveFile \/ \E c \in checks : D!Checked(c) PROVE Goal
    BY <2>0, <2>9 DEF D!DragEnter, D!DragLeave, D!Close, D!RemoveFile, D!Checked
  <2>10. ASSUME NEW r, D!Submit(r) \/ D!PublishXHR(r) \/ D!Published(r) \/ D!Failed(r) PROVE Goal
    BY <2>0, <2>10 DEF D!Submit, D!PublishXHR, D!Published, D!Failed,
                       D!Close, D!End
  <2>11. ASSUME D!Abort PROVE Goal BY <2>10, <2>11 DEF D!Abort
  <2>12. ASSUME UNCHANGED D!vars PROVE Goal BY <2>1, <2>12 DEF D!vars
  <2> HIDE DEF Goal
  <2>13. Goal
    BY <2>2, <2>3, <2>4, <2>5, <2>6, <2>7, <2>8, <2>9, <2>10, <2>11, <2>12 DEF D!Next
  <2> QED BY <2>13 DEF Goal
<1> QED BY <1>2, <1>3 DEF DialogOK

\* A form that is tidy is sent as it is shown.
LEMMA TidyIsShown ==
  ASSUME form \in Form, Tidy(form)
  PROVE  \/ D!Sent = D!Shown
         \/ form.file # None /\ form.urlRow = "shown" /\ [D!Sent EXCEPT !.file = None] = D!Shown
<1>0. form.field \in [Rows -> D!Texts] /\ form.urlRow \in {"hidden", "shown"} BY FormFields
<1>1. form.field = [r \in Rows |-> IF r \in form.rows THEN form.field[r] ELSE "empty"]
  BY <1>0 DEF Tidy
<1>2. form.url = IF form.urlRow = "shown" THEN form.url ELSE "empty" BY <1>0 DEF Tidy
<1>3. form.filename = IF D!FileShown \/ form.urlRow = "shown" THEN form.filename ELSE "empty"
  BY <1>0 DEF Tidy, D!FileShown
<1>4. CASE form.file = None \/ form.urlRow = "hidden"
  <2>1. form.file = IF D!FileShown THEN form.file ELSE None BY <1>4 DEF D!FileShown
  <2> QED BY <1>1, <1>2, <1>3, <2>1 DEF D!Sent, D!Shown
<1>5. CASE form.file # None /\ form.urlRow = "shown"
  <2>1. None = IF D!FileShown THEN form.file ELSE None BY <1>5 DEF D!FileShown
  <2>2. [D!Sent EXCEPT !.file = None] =
          [field |-> form.field, url |-> form.url, file |-> None, filename |-> form.filename]
    BY SMTT(30) DEF D!Sent
  <2> QED BY <1>1, <1>2, <1>3, <1>5, <2>1, <2>2 DEF D!Shown
<1> QED BY <1>0, <1>4, <1>5

\* What handleSubmit sends is what the dialog shows, but for a file that is hidden by the row
\* for URLs.
THEOREM SentIsShown == D!Spec => SentAsShown
<1>1. D!Init => DialogOK BY DialogInit
<1>2. DialogOK /\ [D!Next]_(D!vars) => DialogOK' BY DialogStep
<1>3. DialogOK /\ [D!Next]_(D!vars) =>
        [\A r \in D!Requests :
           request'[r].step = "user" /\ request[r].step = "unsent" =>
             \/ D!Sent = D!Shown
             \/ form.file # None /\ form.urlRow = "shown" /\ [D!Sent EXCEPT !.file = None] = D!Shown]_(D!vars)
  BY TidyIsShown DEF DialogOK
<1> QED BY <1>1, <1>2, <1>3, PTL DEF D!Spec, SentAsShown, D!SentAsShown
=============================================================================
