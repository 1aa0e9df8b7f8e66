---------------------------- MODULE PublishDialog ----------------------------
(***************************************************************************)
(* The form in which the web app publishes a message                       *)
(* (web/src/components/PublishDialog.jsx), the message bar that opens it   *)
(* (Messaging.jsx) and the request it sends (Api.publishXHR).              *)
(*                                                                         *)
(* Rows stands for the optional rows that are alike (click, email, call    *)
(* and delay); title, tags, priority and the switch for Markdown, which    *)
(* are always visible, are left out with the message, and a text is there  *)
(* or not.  The dialog that is mounted has a key; what a handler of an     *)
(* earlier one sets is lost, but not what it asks of Messaging.            *)
(***************************************************************************)
EXTENDS Naturals, FiniteSets

CONSTANTS None, Topics, Rows, Files,
          Large,        \* the files that are over a limit of the account
          MaxKey,       \* a bound on the dialogs that are mounted
          MaxRequests,  \* a bound on the requests of the dialog
          MaxFiles      \* a bound on the files that are attached

VARIABLES selected,  \* the topic of the subscription that is open, or None
          mode,      \* dialogOpenMode: "closed", "default" or "drag"
          key,       \* dialogKey
          form,      \* the state of the dialog that is mounted
          dropZone,  \* "yes" while a file is dragged over the window
          checks,    \* the files whose limits are checked (checkAttachmentLimits)
          request,   \* the runs of handleSubmit
          active,    \* activeRequest
          attached   \* counts the files attached

vars == <<selected, mode, key, form, dropZone, checks, request, active, attached>>

Requests == 1..MaxRequests
Unsent == [step |-> "unsent", key |-> 0, another |-> "no"]
Texts == {"empty", "text"}

\* The state of a new dialog, after its effects have run.
NewForm(topic) ==
  [topic |-> topic,
   rows |-> {}, field |-> [r \in Rows |-> "empty"],
   urlRow |-> "hidden", url |-> "empty",
   file |-> None, filename |-> "empty", edited |-> "no", error |-> None,
   another |-> "no"]

Init ==
  /\ selected \in Topics \cup {None}
  /\ mode = "closed" /\ key = 0 /\ dropZone = "no"
  /\ form = NewForm(selected)
  /\ checks = {}
  /\ request = [r \in Requests |-> Unsent] /\ active = None
  /\ attached = 0

Open == mode # "closed"
Enabled == Open /\ active = None     \* disabled is set while there is an active request

-----------------------------------------------------------------------------
(* Messaging *)

\* The user, or a sync that removes the subscription, shows another page: an effect of the
\* dialog takes the topic over.
Select(t) ==
  /\ t # selected
  /\ selected' = t
  /\ form' = [form EXCEPT !.topic = t]
  /\ UNCHANGED <<mode, key, dropZone, checks, request, active, attached>>

OpenDialog ==
  /\ mode = "closed"
  /\ mode' = "default"
  /\ UNCHANGED <<selected, key, form, dropZone, checks, request, active, attached>>

\* handleDialogClose: the next dialog has a new key and is mounted afresh, and what the
\* checks of the old one would set is lost.
Close ==
  /\ mode' = "closed"
  /\ key' = key + 1
  /\ form' = NewForm(selected)
  /\ dropZone' = "no"
  /\ active' = None
  /\ checks' = {}

Cancel ==
  /\ Enabled /\ key < MaxKey
  /\ Close
  /\ UNCHANGED <<selected, request, attached>>

-----------------------------------------------------------------------------
(* The fields *)

Edit(f) ==
  /\ form' = f
  /\ UNCHANGED <<selected, mode, key, dropZone, checks, request, active, attached>>

\* The topic can be edited in a row of its own; closing the row takes it back.
EditTopic(t) ==
  /\ Enabled
  /\ Edit([form EXCEPT !.topic = t])

CloseTopicRow ==
  /\ Enabled /\ selected # None
  /\ Edit([form EXCEPT !.topic = selected])

\* The chip, the field and the button of an optional row.  The row for a call opens with a
\* number in it.
OpenRow(r) ==
  /\ Enabled /\ r \notin form.rows
  /\ \E text \in Texts : Edit([form EXCEPT !.rows = @ \cup {r}, !.field[r] = text])

EditRow(r, text) ==
  /\ Enabled /\ r \in form.rows
  /\ Edit([form EXCEPT !.field[r] = text])

\* Mutant: the row disappears, what was typed stays.
HideRow(r) ==
  /\ Enabled /\ r \in form.rows
  /\ Edit([form EXCEPT !.rows = @ \ {r}])

CloseRow(r) ==
  /\ Enabled /\ r \in form.rows
  /\ Edit([form EXCEPT !.rows = @ \ {r}, !.field[r] = "empty"])

FileShown == form.file # None /\ form.urlRow = "hidden"

OpenUrlRow ==
  /\ Enabled /\ form.urlRow = "hidden" /\ ~FileShown
  /\ Edit([form EXCEPT !.urlRow = "shown"])

\* The last part of the URL, which may be empty, becomes the filename, unless that was
\* edited or the text is not a URL.
EditUrl(text) ==
  /\ Enabled /\ form.urlRow = "shown"
  /\ \E name \in {form.filename} \cup (IF form.edited = "yes" \/ text = "empty" THEN {} ELSE Texts) :
       Edit([form EXCEPT !.url = text, !.filename = name])

EditFilename(text) ==
  /\ Enabled
  /\ \/ form.urlRow = "shown" /\ Edit([form EXCEPT !.filename = text, !.edited = "yes"])
     \/ FileShown /\ Edit([form EXCEPT !.filename = text])

CloseUrlRow ==
  /\ Enabled /\ form.urlRow = "shown"
  /\ Edit([form EXCEPT !.urlRow = "hidden", !.url = "empty", !.filename = "empty", !.edited = "no"])

SetAnother(x) ==
  /\ Enabled
  /\ Edit([form EXCEPT !.another = x])

-----------------------------------------------------------------------------
(* Files *)

\* updateAttachFile, up to its await.
UpdateAttachFile(f) ==
  /\ attached < MaxFiles
  /\ attached' = attached + 1
  /\ form' = [form EXCEPT !.file = f, !.filename = "text"]
  /\ mode' = "default"
  /\ checks' = checks \cup {f}

\* The chip is there while no attachment is shown; an image can be pasted at any time.
ChooseFile(f) ==
  /\ Enabled
  /\ UpdateAttachFile(f)
  /\ UNCHANGED <<selected, key, dropZone, request, active>>

\* An image pasted into the message bar opens the dialog with it.
PasteInBar(f) ==
  /\ selected # None /\ mode = "closed"
  /\ UpdateAttachFile(f)
  /\ UNCHANGED <<selected, key, dropZone, request, active>>

\* A file is dragged into the window, dialog or not.
DragEnter ==
  /\ dropZone = "no"
  /\ dropZone' = "yes"
  /\ mode' = IF Open THEN mode ELSE "drag"
  /\ UNCHANGED <<selected, key, form, checks, request, active, attached>>

Drop(f) ==
  /\ dropZone = "yes"
  /\ dropZone' = "no"
  /\ UpdateAttachFile(f)
  /\ UNCHANGED <<selected, key, request, active>>

\* "Only close dialog if it was not open before dragging file in".
DragLeave ==
  /\ dropZone = "yes"
  /\ IF mode = "drag"
     THEN key < MaxKey /\ Close
     ELSE dropZone' = "no" /\ UNCHANGED <<mode, key, form, active, checks>>
  /\ UNCHANGED <<selected, request, attached>>

RemoveFile ==
  /\ Enabled /\ FileShown
  /\ form' = [form EXCEPT !.file = None, !.filename = "empty", !.error = None]
  /\ UNCHANGED <<selected, mode, key, dropZone, checks, request, active, attached>>

\* checkAttachmentLimits: the account is there, or could not be fetched.
Checked(c) ==
  /\ c \in checks
  /\ checks' = checks \ {c}
  /\ \E e \in {None} \cup ({c} \cap Large) : form' = [form EXCEPT !.error = e]
  /\ UNCHANGED <<selected, mode, key, dropZone, request, active, attached>>

-----------------------------------------------------------------------------
(* handleSubmit *)

\* What the request is made of: the fields, visible or not.
Sent ==
  [field |-> form.field, url |-> form.url, file |-> form.file, filename |-> form.filename]

\* What the user sees.
Shown ==
  [field |-> [r \in Rows |-> IF r \in form.rows THEN form.field[r] ELSE "empty"],
   url |-> IF form.urlRow = "shown" THEN form.url ELSE "empty",
   file |-> IF FileShown THEN form.file ELSE None,
   filename |-> IF FileShown \/ form.urlRow = "shown" THEN form.filename ELSE "empty"]

SendButtonEnabled == Enabled /\ form.topic # None /\ form.error = None

\* The request is put together and the user of the server is looked up.
Submit(r) ==
  /\ SendButtonEnabled
  /\ request[r].step = "unsent" /\ \A q \in Requests : q < r => request[q].step # "unsent"
  /\ request' = [request EXCEPT ![r] = [step |-> "user", key |-> key, another |-> form.another]]
  /\ UNCHANGED <<selected, mode, key, form, dropZone, checks, active, attached>>

PublishXHR(r) ==
  /\ request[r].step = "user"
  /\ request' = [request EXCEPT ![r].step = "sent"]
  /\ active' = IF request[r].key = key THEN r ELSE active
  /\ UNCHANGED <<selected, mode, key, form, dropZone, checks, attached>>

\* The request has ended.
End(r) ==
  /\ request' = [request EXCEPT ![r] = [Unsent EXCEPT !.step = "done"]]
  /\ UNCHANGED <<selected, attached>>

Reset(r) == active' = IF request[r].key = key THEN None ELSE active

Published(r) ==
  /\ request[r].step = "sent"
  /\ IF request[r].another = "no"
     THEN key < MaxKey /\ Close
     ELSE Reset(r) /\ UNCHANGED <<mode, key, form, dropZone, checks>>
  /\ End(r)

Failed(r) ==
  /\ request[r].step = "sent"
  /\ Reset(r)
  /\ UNCHANGED <<mode, key, form, dropZone, checks>>
  /\ End(r)

\* The button that cancels the request is there while there is an active one; the promise
\* is rejected then.
Abort ==
  /\ Open /\ active # None
  /\ Failed(active)

Next ==
  \/ \E t \in Topics \cup {None} : Select(t) \/ EditTopic(t)
  \/ \E x \in Texts : EditUrl(x) \/ EditFilename(x)
  \/ OpenDialog \/ Cancel
  \/ CloseTopicRow \/ OpenUrlRow \/ CloseUrlRow
  \/ \E r \in Rows : OpenRow(r) \/ CloseRow(r) \/ \E x \in Texts : EditRow(r, x)
  \/ \E x \in {"yes", "no"} : SetAnother(x)
  \/ \E f \in Files : ChooseFile(f) \/ PasteInBar(f) \/ Drop(f)
  \/ DragEnter \/ DragLeave \/ RemoveFile
  \/ \E c \in checks : Checked(c)
  \/ \E r \in Requests : Submit(r) \/ PublishXHR(r) \/ Published(r) \/ Failed(r)
  \/ Abort

Spec == Init /\ [][Next]_vars

-----------------------------------------------------------------------------
\* What is sent is what the dialog showed when the user clicked (handleSubmit takes every
\* field, the visible ones and those of rows that were closed), unless a file was dropped
\* or pasted while the row for a URL was open: then the file is sent and not shown.
SentAsShown ==
  [][\A r \in Requests :
       request'[r].step = "user" /\ request[r].step = "unsent" =>
         \/ Sent = Shown
         \/ form.file # None /\ form.urlRow = "shown" /\ [Sent EXCEPT !.file = None] = Shown]_vars

==============================================================================
