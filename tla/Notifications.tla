---------------------------- MODULE Notifications ----------------------------
(***************************************************************************)
(* The notifications of a subscription in the browser database: they are   *)
(* added by the tabs that are connected (hooks.js, SubscriptionManager.js), *)
(* by a tab that polls (Poller.js) and by the service worker (sw.js), and  *)
(* are shown by the one that added them (Notifier.js); the user reads and  *)
(* deletes them and presses their buttons (Notifications.jsx).             *)
(*                                                                         *)
(* Every call of the database is a step of its own: the handlers of the    *)
(* tabs and of the worker interleave between them.                         *)
(***************************************************************************)
EXTENDS Naturals, FiniteSets

CONSTANTS Tabs, Messages, None,
          MaxPolls,  \* a bound on the polls
          MaxClicks  \* a bound on the buttons pressed

VARIABLES subscribed,  \* "yes", "muted" (or above the priority of the messages), "removing" or "no"
          row,         \* the notification of a message, or None
          handler,     \* what a tab does with a message of its connection
          push,        \* what the service worker does with a message
          poll,        \* the messages each tab has fetched and not stored
          polls,
          click,       \* the runs of performHttpAction, with their updates at the start and at the end
          shown,       \* history: how often a message was shown
          overtaken,   \* history: messages added while a tab was about to add them
          deleted      \* history: messages that were deleted

vars == <<subscribed, row, handler, push, poll, polls, click, shown, overtaken, deleted>>

Clicks == 1..MaxClicks
Row(unread) == [new |-> unread, progress |-> "none"]
Ready == [start |-> "ready", end |-> "ready", message |-> None, row |-> None]

Init ==
  /\ subscribed = "yes"
  /\ row = [m \in Messages |-> None]
  /\ handler = [t \in Tabs |-> [m \in Messages |-> "sent"]]
  /\ push = [m \in Messages |-> "sent"]
  /\ poll = [t \in Tabs |-> {}] /\ polls = 0
  /\ click = [c \in Clicks |-> Ready]
  /\ shown = [m \in Messages |-> 0]
  /\ overtaken = {} /\ deleted = {}

-----------------------------------------------------------------------------
(* A message comes in over the connection of a tab *)

Go(t, m, step) == handler' = [handler EXCEPT ![t][m] = step]

\* handleMessage: the subscription may be gone.
HandleMessage(t, m) ==
  /\ handler[t][m] = "sent"
  /\ Go(t, m, IF subscribed \in {"yes", "muted"} THEN "new" ELSE "done")
  /\ UNCHANGED <<subscribed, row, push, poll, polls, click, shown, overtaken, deleted>>

\* Mutant: whether it is there is not looked up.
AddWithoutLook(t, m) ==
  /\ handler[t][m] = "new"
  /\ Go(t, m, "adding")
  /\ UNCHANGED <<subscribed, row, push, poll, polls, click, shown, overtaken, deleted>>

\* addNotification looks whether it is there, ...
Look(t, m) ==
  /\ handler[t][m] = "new"
  /\ Go(t, m, IF row[m] = None THEN "adding" ELSE "done")
  /\ UNCHANGED <<subscribed, row, push, poll, polls, click, shown, overtaken, deleted>>

\* A tab other than t is between the two steps.
Overtakes(t, m) ==
  overtaken' = IF \E u \in Tabs \ {t} : handler[u][m] = "adding" THEN overtaken \cup {m} ELSE overtaken

\* Mutant: put instead of add.
Put(t, m) ==
  /\ handler[t][m] = "adding"
  /\ row' = [row EXCEPT ![m] = Row("yes")]
  /\ Go(t, m, "added")
  /\ Overtakes(t, m)
  /\ UNCHANGED <<subscribed, push, poll, polls, click, shown, deleted>>

\* ... and adds it; when it is there by now the exception is logged, and the result is the
\* same.
Add(t, m) ==
  /\ handler[t][m] = "adding"
  /\ row' = [row EXCEPT ![m] = IF @ = None THEN Row("yes") ELSE @]
  /\ Go(t, m, "added")
  /\ Overtakes(t, m)
  /\ UNCHANGED <<subscribed, push, poll, polls, click, shown, deleted>>

\* notify: it throws when the subscription is gone.
Notify(t, m) ==
  /\ handler[t][m] = "added"
  /\ Go(t, m, "done")
  /\ shown' = [shown EXCEPT ![m] = IF subscribed = "yes" THEN @ + 1 ELSE @]
  /\ UNCHANGED <<subscribed, row, push, poll, polls, click, overtaken, deleted>>

-----------------------------------------------------------------------------
(* A message is pushed to the service worker, which looks at nothing *)

PushAdd(m) ==
  /\ push[m] = "sent"
  /\ push' = [push EXCEPT ![m] = IF row[m] = None THEN "added" ELSE "done"]
  /\ row' = [row EXCEPT ![m] = IF @ = None THEN Row("yes") ELSE @]
  /\ IF row[m] = None THEN Overtakes(None, m) ELSE UNCHANGED overtaken
  /\ UNCHANGED <<subscribed, handler, poll, polls, click, shown, deleted>>

PushShow(m) ==
  /\ push[m] = "added"
  /\ push' = [push EXCEPT ![m] = "done"]
  /\ shown' = [shown EXCEPT ![m] = @ + 1]
  /\ UNCHANGED <<subscribed, row, handler, poll, polls, click, overtaken, deleted>>

-----------------------------------------------------------------------------
(* A tab polls *)

Poll(t, M) ==
  /\ poll[t] = {} /\ M # {} /\ polls < MaxPolls
  /\ poll' = [poll EXCEPT ![t] = M]
  /\ polls' = polls + 1
  /\ UNCHANGED <<subscribed, row, handler, push, click, shown, overtaken, deleted>>

\* addNotifications: what is there is replaced, and has no marker.
AddNotifications(t) ==
  /\ poll[t] # {}
  /\ row' = [m \in Messages |-> IF m \in poll[t] THEN Row("unset") ELSE row[m]]
  /\ poll' = [poll EXCEPT ![t] = {}]
  /\ UNCHANGED <<subscribed, handler, push, polls, click, shown, overtaken, deleted>>

-----------------------------------------------------------------------------
(* The user *)

MarkNotificationRead(m) ==
  /\ row[m] # None
  /\ row' = [row EXCEPT ![m].new = "no"]
  /\ UNCHANGED <<subscribed, handler, push, poll, polls, click, shown, overtaken, deleted>>

\* The topic is opened, or everything in it is marked as read.
MarkNotificationsRead ==
  /\ subscribed \in {"yes", "muted"}
  /\ row' = [m \in Messages |->
               IF row[m] # None /\ row[m].new = "yes" THEN [row[m] EXCEPT !.new = "no"] ELSE row[m]]
  /\ UNCHANGED <<subscribed, handler, push, poll, polls, click, shown, overtaken, deleted>>

\* One notification is deleted, all are cleared, or the old ones are pruned.
Delete(M) ==
  /\ M # {} /\ \A m \in M : row[m] # None
  /\ row' = [m \in Messages |-> IF m \in M THEN None ELSE row[m]]
  /\ deleted' = deleted \cup M
  /\ UNCHANGED <<subscribed, handler, push, poll, polls, click, shown, overtaken>>

SetMutedUntil ==
  /\ subscribed \in {"yes", "muted"}
  /\ subscribed' = IF subscribed = "yes" THEN "muted" ELSE "yes"
  /\ UNCHANGED <<row, handler, push, poll, polls, click, shown, overtaken, deleted>>

\* remove deletes the subscription, and then its notifications.
Remove ==
  /\ subscribed \in {"yes", "muted"}
  /\ subscribed' = "removing"
  /\ UNCHANGED <<row, handler, push, poll, polls, click, shown, overtaken, deleted>>

RemoveNotifications ==
  /\ subscribed = "removing"
  /\ subscribed' = "no"
  /\ row' = [m \in Messages |-> None]
  /\ deleted' = deleted \cup {m \in Messages : row[m] # None}
  /\ UNCHANGED <<handler, push, poll, polls, click, shown, overtaken>>

-----------------------------------------------------------------------------
(* performHttpAction has the notification as it was when the button was pressed *)

Press(c, m) ==
  /\ click[c] = Ready /\ row[m] # None
  /\ click' = [click EXCEPT ![c] = [start |-> "looking", end |-> "fetching", message |-> m, row |-> row[m]]]
  /\ UNCHANGED <<subscribed, row, handler, push, poll, polls, shown, overtaken, deleted>>

\* The answer comes, or there is none.  The update made at the start was not waited for.
Fetched(c) ==
  /\ click[c].end = "fetching"
  /\ click' = [click EXCEPT ![c].end = "looking"]
  /\ UNCHANGED <<subscribed, row, handler, push, poll, polls, shown, overtaken, deleted>>

\* updateNotification looks whether it is there, ...
Exists(c, u) ==
  /\ click[c][u] = "looking"
  /\ click' = [click EXCEPT ![c][u] = IF row[click[c].message] = None THEN "done" ELSE "putting"]
  /\ UNCHANGED <<subscribed, row, handler, push, poll, polls, shown, overtaken, deleted>>

\* ... and puts back what it had, with the progress of the action.
UpdateNotification(c, u) ==
  /\ click[c][u] = "putting"
  /\ \E p \in IF u = "start" THEN {"ongoing"} ELSE {"success", "failed"} :
       row' = [row EXCEPT ![click[c].message] = [click[c].row EXCEPT !.progress = p]]
  /\ click' = [click EXCEPT ![c][u] = "done"]
  /\ UNCHANGED <<subscribed, handler, push, poll, polls, shown, overtaken, deleted>>

Next ==
  \/ \E t \in Tabs, m \in Messages : HandleMessage(t, m) \/ Look(t, m) \/ Add(t, m) \/ Notify(t, m)
  \/ \E m \in Messages : PushAdd(m) \/ PushShow(m) \/ MarkNotificationRead(m)
  \/ \E t \in Tabs : AddNotifications(t) \/ \E M \in SUBSET Messages : Poll(t, M)
  \/ \E M \in SUBSET Messages : Delete(M)
  \/ MarkNotificationsRead \/ SetMutedUntil \/ Remove \/ RemoveNotifications
  \/ \E c \in Clicks : Fetched(c) \/ \E m \in Messages : Press(c, m)
  \/ \E c \in Clicks, u \in {"start", "end"} : Exists(c, u) \/ UpdateNotification(c, u)

Spec == Init /\ [][Next]_vars

-----------------------------------------------------------------------------
\* What the user has read does not become unread again, however late a tab, the worker or
\* a poll adds the message (addNotification adds and never puts), unless the answer of a
\* button pressed before puts the unread notification back (performHttpAction).
ReadStaysRead ==
  [][\A m \in Messages :
       row[m] # None /\ row[m].new # "yes" /\ row'[m] # None /\ row'[m].new = "yes" =>
         \E c \in Clicks : click[c].message = m /\ click[c].row.new = "yes"]_vars

\* A message is shown once, by whoever of the tabs and the worker added it
\* (addNotification returns false for one that is there), unless a tab had found before
\* that it was not there, or it was deleted and came again.
ShownOnce == \A m \in Messages : shown[m] <= 1 \/ m \in overtaken \cup deleted
==============================================================================
