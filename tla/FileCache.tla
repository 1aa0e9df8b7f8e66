------------------------------ MODULE FileCache ------------------------------
(***************************************************************************)
(* Attachments: the upload of a file (handleBodyAsAttachment in            *)
(* server/server.go and fileCache.Write in server/file_cache.go), and the  *)
(* manager that removes files whose attachment or whose message expired    *)
(* (pruneAttachments and pruneMessages in server/server_manager.go).       *)
(*                                                                         *)
(* Each message has one file, named by its ID; a file grows in chunks of   *)
(* one unit.  Uploads run concurrently, the manager is one goroutine, and  *)
(* the server may crash and restart.                                       *)
(***************************************************************************)
EXTENDS Integers, FiniteSets, Functions

CONSTANTS Files,
          Visitors,
          Owner,          \* who uploads which file
          TotalLimit,     \* attachment-total-size-limit
          FileLimit,      \* attachment-file-size-limit
          VisitorLimit,   \* visitor-attachment-total-size-limit
          Expiry,         \* attachment-expiry-duration
          CacheDuration,  \* cache-duration, after which the message expires
          Caching,        \* whether a request asks for the cache: a subset of BOOLEAN
          Failures,       \* whether files cannot be removed and updates fail at times
          MaxTime,        \* a bound on the clock
          MaxCrashes      \* a bound on the crashes

ASSUME FileCacheAssumption ==
  /\ IsFiniteSet(Files)
  /\ Owner \in [Files -> Visitors]
  /\ TotalLimit \in Nat /\ FileLimit \in Nat /\ VisitorLimit \in Nat
  /\ Expiry \in Nat /\ CacheDuration \in Nat
  /\ Caching \subseteq BOOLEAN /\ Failures \in BOOLEAN
  /\ MaxTime \in Nat /\ MaxCrashes \in Nat

VARIABLES now,
          up,      \* the upload: "new", "checked", "writing", "written", "counted", "ended"
          quota,   \* what the limiters of the upload let through in all
          born,    \* the time of the request, from which both expiries count
          files,   \* the files in the directory
          bytes,   \* their sizes
          total,   \* totalSizeCurrent
          row,     \* the message: "none", "live", "deleted" (attachment_deleted) or "gone"
          size,    \* its attachment_size
          mgr,     \* the manager's step, the IDs it works on and those it has yet to remove
          sized,   \* the size it read
          kept,    \* history: files that could not be removed
          mixed,   \* history: whether uploads and prunings did not take turns, or one failed
          crashes

upload == <<up, quota, born>>
dir == <<files, bytes>>
table == <<row, size>>
vars == <<now, upload, dir, total, table, mgr, sized, kept, mixed, crashes>>

Idle == [step |-> "idle", ids |-> {}, left |-> {}]

\* The sum dirSize reads from the directory.
DirSize == SumFunctionOnSet(bytes, files)

MinOf(a, b) == IF a < b THEN a ELSE b

ZeroIfNegative(n) == IF n < 0 THEN 0 ELSE n

Init ==
  /\ now = 0
  /\ up = [f \in Files |-> "new"]
  /\ quota = [f \in Files |-> 0]
  /\ born = [f \in Files |-> 0]
  /\ files = {} /\ bytes = [f \in Files |-> 0] /\ total = 0
  /\ row = [f \in Files |-> "none"] /\ size = [f \in Files |-> 0]
  /\ mgr = Idle /\ sized = 0
  /\ kept = {} /\ mixed = "no" /\ crashes = 0

Uploading == {f \in Files : up[f] \notin {"new", "ended"}}

-----------------------------------------------------------------------------
(* Uploads *)

AttachmentExpired(f) == born[f] + Expiry <= now
MessageExpired(f) == born[f] + CacheDuration <= now

\* The bytes a visitor uses, as the database knows them: the files of messages
\* whose attachments have not expired (attachment_expires >= now).
UsedBy(v) ==
  {f \in Files : Owner[f] = v /\ row[f] \in {"live", "deleted"} /\ born[f] + Expiry >= now}

BytesUsed(v) == SumFunctionOnSet(size, UsedBy(v))

\* v.Info() reads the visitor's usage; the limiters made from it last for the upload.
Check(f) ==
  /\ up[f] = "new"
  /\ now + Expiry <= MaxTime /\ now + CacheDuration <= MaxTime
  /\ mixed' = IF Uploading # {} \/ mgr.step # "idle" THEN "yes" ELSE mixed
  /\ up' = [up EXCEPT ![f] = "checked"]
  /\ born' = [born EXCEPT ![f] = now]
  /\ quota' = [quota EXCEPT ![f] = MinOf(FileLimit, ZeroIfNegative(VisitorLimit - BytesUsed(Owner[f])))]
  /\ UNCHANGED <<now, dir, total, table, mgr, sized, kept, crashes>>

\* The Content-Length is too large for the limits, or the request is not acceptable.
Refuse(f) ==
  /\ up[f] = "checked"
  /\ up' = [up EXCEPT ![f] = "ended"]
  /\ UNCHANGED <<now, quota, born, dir, total, table, mgr, sized, kept, mixed, crashes>>

\* Mutant: the space that is left is not asked for.
OpenUnlimited(f) ==
  /\ up[f] = "checked"
  /\ up' = [up EXCEPT ![f] = "writing"]
  /\ files' = files \cup {f}
  /\ UNCHANGED <<now, quota, born, bytes, total, table, mgr, sized, kept, mixed, crashes>>

\* Write creates the file, then asks for the space that is left.
Open(f) ==
  /\ up[f] = "checked"
  /\ up' = [up EXCEPT ![f] = "writing"]
  /\ files' = files \cup {f}
  /\ quota' = [quota EXCEPT ![f] = MinOf(@, ZeroIfNegative(TotalLimit - total))]
  /\ UNCHANGED <<now, born, bytes, total, table, mgr, sized, kept, mixed, crashes>>

\* io.Copy through the LimitWriter.
Copy(f) ==
  /\ up[f] = "writing" /\ bytes[f] < quota[f]
  /\ bytes' = [bytes EXCEPT ![f] = @ + 1]
  /\ UNCHANGED <<now, upload, files, total, table, mgr, sized, kept, mixed, crashes>>

\* A limit is reached or the body ends early: the file is removed.
Abort(f) ==
  /\ up[f] = "writing"
  /\ up' = [up EXCEPT ![f] = "ended"]
  /\ \/ files' = files \ {f} /\ UNCHANGED <<kept, mixed>>
     \/ Failures /\ files' = files /\ kept' = kept \cup {f} /\ mixed' = "yes"
  /\ UNCHANGED <<now, quota, born, bytes, total, table, mgr, sized, crashes>>

Close(f) ==
  /\ up[f] = "writing"
  /\ up' = [up EXCEPT ![f] = "written"]
  /\ UNCHANGED <<now, quota, born, dir, total, table, mgr, sized, kept, mixed, crashes>>

\* c.totalSizeCurrent += size
Count(f) ==
  /\ up[f] = "written"
  /\ up' = [up EXCEPT ![f] = "counted"]
  /\ total' = total + bytes[f]
  /\ UNCHANGED <<now, quota, born, dir, table, mgr, sized, kept, mixed, crashes>>

\* The message is inserted, unless the request asked not to (Cache: no) or the insert fails.
AddMessage(f) ==
  /\ up[f] = "counted"
  /\ up' = [up EXCEPT ![f] = "ended"]
  /\ \/ /\ TRUE \in Caching
        /\ row' = [row EXCEPT ![f] = "live"]
        /\ size' = [size EXCEPT ![f] = bytes[f]]
     \/ (FALSE \in Caching \/ Failures) /\ UNCHANGED table
  /\ UNCHANGED <<now, quota, born, dir, total, mgr, sized, kept, mixed, crashes>>

-----------------------------------------------------------------------------
(* The manager *)

\* Mutant: attachments expire one second early.
AttachmentsExpiredEarly ==
  /\ mgr.step = "idle"
  /\ mixed' = IF Uploading # {} THEN "yes" ELSE mixed
  /\ LET ids == {f \in Files : row[f] = "live" /\ born[f] + Expiry <= now + 1}
     IN ids # {} /\ mgr' = [step |-> "attachments", ids |-> ids, left |-> ids]
  /\ UNCHANGED <<now, upload, dir, total, table, sized, kept, crashes>>

\* pruneAttachments reads which attachments have expired and are not deleted, ...
AttachmentsExpired ==
  /\ mgr.step = "idle"
  /\ mixed' = IF Uploading # {} THEN "yes" ELSE mixed
  /\ LET ids == {f \in Files : row[f] = "live" /\ AttachmentExpired(f)}
     IN ids # {} /\ mgr' = [step |-> "attachments", ids |-> ids, left |-> ids]
  /\ UNCHANGED <<now, upload, dir, total, table, sized, kept, crashes>>

\* ... and pruneMessages which messages have.
MessagesExpired ==
  /\ mgr.step = "idle"
  /\ mixed' = IF Uploading # {} THEN "yes" ELSE mixed
  /\ LET ids == {f \in Files : row[f] \in {"live", "deleted"} /\ MessageExpired(f)}
     IN ids # {} /\ mgr' = [step |-> "messages", ids |-> ids, left |-> ids]
  /\ UNCHANGED <<now, upload, dir, total, table, sized, kept, crashes>>

\* Mutant: only one of the files is removed.
RemoveOne(f) ==
  /\ f \in mgr.left
  /\ mgr' = [mgr EXCEPT !.left = {}]
  /\ files' = files \ {f}
  /\ UNCHANGED <<now, upload, bytes, total, table, sized, kept, mixed, crashes>>

\* fileCache.Remove: each file in turn; an error is only logged.
RemoveFile(f) ==
  /\ f \in mgr.left
  /\ mgr' = [mgr EXCEPT !.left = @ \ {f}]
  /\ \/ files' = files \ {f} /\ kept' = kept
     \/ Failures /\ f \in files /\ files' = files /\ kept' = kept \cup {f}
  /\ UNCHANGED <<now, upload, bytes, total, table, sized, mixed, crashes>>

Sized(step) == IF step = "attachments" THEN "attachments_sized" ELSE "messages_sized"

\* Then the directory is read ...
ReadDirSize ==
  /\ mgr.step \in {"attachments", "messages"} /\ mgr.left = {}
  /\ mgr' = [mgr EXCEPT !.step = Sized(@)]
  /\ sized' = DirSize
  /\ UNCHANGED <<now, upload, dir, total, table, kept, mixed, crashes>>

Marking(step) == IF step = "attachments_sized" THEN "mark_attachments" ELSE "delete_messages"

\* ... and the total is set to what was read, unless a file that an upload has
\* removed meanwhile made that fail.
SetTotal ==
  /\ mgr.step \in {"attachments_sized", "messages_sized"}
  /\ mgr' = [mgr EXCEPT !.step = Marking(@)]
  /\ \/ total' = sized /\ UNCHANGED mixed
     \/ Failures /\ total' = total /\ mixed' = "yes"
  /\ sized' = 0
  /\ UNCHANGED <<now, upload, dir, table, kept, crashes>>

\* MarkAttachmentsDeleted: all of them in a transaction, or none if it fails.
MarkAttachmentsDeleted ==
  /\ mgr.step = "mark_attachments"
  /\ mgr' = Idle
  /\ \/ row' = [f \in Files |-> IF f \in mgr.ids THEN "deleted" ELSE row[f]]
     \/ Failures /\ row' = row
  /\ UNCHANGED <<now, upload, dir, total, size, sized, kept, mixed, crashes>>

\* Mutant: every expired message is deleted, not those whose files were removed.
DeleteMessagesAll ==
  /\ mgr.step = "delete_messages"
  /\ mgr' = Idle
  /\ row' = [f \in Files |-> IF row[f] \in {"live", "deleted"} /\ MessageExpired(f) THEN "gone" ELSE row[f]]
  /\ UNCHANGED <<now, upload, dir, total, size, sized, kept, mixed, crashes>>

DeleteMessages ==
  /\ mgr.step = "delete_messages"
  /\ mgr' = Idle
  /\ \/ row' = [f \in Files |-> IF f \in mgr.ids THEN "gone" ELSE row[f]]
     \/ Failures /\ row' = row
  /\ UNCHANGED <<now, upload, dir, total, size, sized, kept, mixed, crashes>>

-----------------------------------------------------------------------------

Tick ==
  /\ now < MaxTime
  /\ now' = now + 1
  /\ UNCHANGED <<upload, dir, total, table, mgr, sized, kept, mixed, crashes>>

\* A crash ends what is under way; newFileCache reads the directory.
Crash ==
  /\ crashes < MaxCrashes
  /\ crashes' = crashes + 1
  /\ up' = [f \in Files |-> IF f \in Uploading THEN "ended" ELSE up[f]]
  /\ mgr' = Idle /\ sized' = 0
  /\ total' = DirSize
  /\ UNCHANGED <<now, quota, born, dir, table, kept, mixed>>

Upload(f) == Open(f) \/ Close(f) \/ Count(f) \/ AddMessage(f)

Manager ==
  \/ AttachmentsExpired \/ MessagesExpired
  \/ \E f \in Files : RemoveFile(f)
  \/ ReadDirSize \/ SetTotal \/ MarkAttachmentsDeleted \/ DeleteMessages

Next ==
  \/ \E f \in Files : Check(f) \/ Refuse(f) \/ Copy(f) \/ Abort(f) \/ Upload(f)
  \/ Manager
  \/ Tick \/ Crash

Spec == Init /\ [][Next]_vars

\* Time passes, a request runs to its end, and the manager's goroutine runs.
FairSpec == Spec /\ WF_vars(Tick) /\ WF_vars(Manager) /\ \A f \in Files : WF_vars(Upload(f))

-----------------------------------------------------------------------------
(* Properties *)

Steps == {"idle", "attachments", "messages", "attachments_sized", "messages_sized",
          "mark_attachments", "delete_messages"}

\* The types of the state.
TypeOK ==
  /\ now \in 0..MaxTime
  /\ up \in [Files -> {"new", "checked", "writing", "written", "counted", "ended"}]
  /\ quota \in [Files -> Nat] /\ born \in [Files -> Nat]
  /\ files \subseteq Files /\ bytes \in [Files -> Nat] /\ total \in Nat /\ sized \in Nat
  /\ row \in [Files -> {"none", "live", "deleted", "gone"}] /\ size \in [Files -> Nat]
  /\ mgr \in [step : Steps, ids : SUBSET Files, left : SUBSET Files]
  /\ mgr.left \subseteq mgr.ids
  /\ kept \subseteq Files /\ mixed \in {"yes", "no"}
  /\ crashes \in 0..MaxCrashes

\* The file of a message that has not expired is there with all its bytes, whatever
\* the manager, other uploads and crashes do.
LiveHaveFiles ==
  \A f \in Files :
    row[f] = "live" /\ ~AttachmentExpired(f) /\ ~MessageExpired(f) =>
      f \in files /\ bytes[f] = size[f]

\* No message forgets a file that is still there, unless removing it failed: after
\* that nothing would remove it.
ForgottenAreRemoved ==
  \A f \in Files : row[f] \in {"deleted", "gone"} => f \notin files \/ f \in kept

\* "Limit of the on-disk attachment cache directory" (docs/config.md:1500) and "the
\* total storage limit used for attachments per visitor" (docs/config.md:1130), over the
\* messages whose attachments have not expired: as long as uploads and prunings take
\* turns and none fails, neither is ever exceeded, also after a restart.
LimitsRespected ==
  mixed = "no" => /\ DirSize <= TotalLimit
                  /\ \A v \in Visitors : BytesUsed(v) <= VisitorLimit

\* A file is removed in the end, unless that fails, or its request ended without a message
\* that refers to it: for lack of a cache (Cache: no), or by a failed insert or a crash.
StoredAreRemoved ==
  \A f \in Files : f \in files ~> (f \notin files \/ f \in kept \/ (up[f] = "ended" /\ row[f] = "none"))
==============================================================================
