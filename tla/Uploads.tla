------------------------------- MODULE Uploads -------------------------------
(***************************************************************************)
(* Uploads: the attachments (FileCache) and the limiters their bytes are   *)
(* charged to (LimitWriter).  FileCache knows the limiters of an upload by *)
(* what they let through in all, and LimitWriter nothing of files: they    *)
(* share no state, so each behaviour is one of one part, which Init picks. *)
(***************************************************************************)
EXTENDS FileCache, Sequences

CONSTANTS Writers, Fixed, Rate, Limit, Limiters, Chunks, MaxValue

\* A limiter is of one kind, and once in the list of a writer at most.
ASSUME LimitersAssumption ==
  /\ IsFiniteSet(Writers)
  /\ Fixed \cap Rate = {}
  /\ Limit \in [Fixed \cup Rate -> Nat]
  /\ Chunks \subseteq Nat
  /\ \A w \in Writers :
       /\ Len(Limiters[w]) \in Nat
       /\ \A i \in 1..Len(Limiters[w]) : Limiters[w][i] \in Fixed \cup Rate
       /\ \A i, j \in 1..Len(Limiters[w]) : Limiters[w][i] = Limiters[w][j] => i = j

VARIABLES part,
          value, tokens, pc, at, chunk, written

limitVars == <<value, tokens, pc, at, chunk, written>>

L == INSTANCE LimitWriter

UploadsInit == Init /\ L!Init /\ part \in {"files", "limits"}

UploadsNext ==
  /\ \/ part = "files" /\ Next /\ UNCHANGED limitVars
     \/ part = "limits" /\ L!Next /\ UNCHANGED vars
  /\ UNCHANGED part

\* FileCache's fairness.
UploadsFairness ==
  /\ WF_vars(part = "files" /\ Tick)
  /\ WF_vars(part = "files" /\ Manager)
  /\ \A f \in Files : WF_vars(part = "files" /\ Upload(f))

UploadsSpec == UploadsInit /\ [][UploadsNext]_<<part, vars, limitVars>> /\ UploadsFairness

\* A FixedLimiter counts exactly what its writers have written and hold, and never more
\* than its limit.
FixedExact == L!FixedExact
==============================================================================
