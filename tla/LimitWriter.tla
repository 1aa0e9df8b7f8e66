----------------------------- MODULE LimitWriter -----------------------------
(***************************************************************************)
(* Limiters and the writer that charges several of them (util/limit.go).   *)
(*                                                                         *)
(* A FixedLimiter counts up to a limit.  A RateLimiter takes tokens from a *)
(* bucket that refills with time and keeps a count for information.  Both  *)
(* lock themselves for one call; a LimitWriter asks its limiters one after *)
(* the other and takes back what it got if one of them refuses.  Several   *)
(* writers may share a limiter, as the uploads of a visitor share the      *)
(* bandwidth limiter.                                                      *)
(***************************************************************************)
EXTENDS Integers, Sequences, Functions

CONSTANTS Writers,
          Fixed,      \* the FixedLimiters
          Rate,       \* the RateLimiters
          Limit,      \* the limit of the former and the burst of the latter
          Limiters,   \* each writer's list
          Chunks,     \* sizes of writes
          MaxValue    \* a bound on what is counted

VARIABLES value,    \* the count of each limiter
          tokens,   \* what is left in the bucket of a RateLimiter
          pc,       \* "idle", "taking" or "reverting"
          at,       \* the position in the list
          chunk,    \* the size of the write
          written   \* what got through

vars == <<value, tokens, pc, at, chunk, written>>

Init ==
  /\ value = [l \in Fixed \cup Rate |-> 0]
  /\ tokens = [l \in Rate |-> Limit[l]]
  /\ pc = [w \in Writers |-> "idle"]
  /\ at = [w \in Writers |-> 0]
  /\ chunk = [w \in Writers |-> 0]
  /\ written = [w \in Writers |-> 0]

\* AllowN of a FixedLimiter; n may be negative.
FixedAllows(l, n) == value[l] + n <= Limit[l]

\* AllowN of a RateLimiter: "No-op. Can't take back bytes you're written!"
RateAllows(l, n) == n > 0 /\ n <= tokens[l]

Allows(l, n) == IF l \in Fixed THEN FixedAllows(l, n) ELSE RateAllows(l, n)

\* What a successful AllowN leaves behind.
Charge(l, n) ==
  /\ value' = [value EXCEPT ![l] = @ + n]
  /\ tokens' = IF l \in Rate THEN [tokens EXCEPT ![l] = @ - n] ELSE tokens

\* LimitWriter.Write begins.
Write(w, n) ==
  /\ pc[w] = "idle"
  /\ \A l \in Fixed \cup Rate : value[l] + n <= MaxValue
  /\ pc' = [pc EXCEPT ![w] = "taking"]
  /\ at' = [at EXCEPT ![w] = 1]
  /\ chunk' = [chunk EXCEPT ![w] = n]
  /\ UNCHANGED <<value, tokens, written>>

\* The next limiter allows the write, ...
Take(w) ==
  /\ pc[w] = "taking" /\ at[w] <= Len(Limiters[w])
  /\ Allows(Limiters[w][at[w]], chunk[w])
  /\ Charge(Limiters[w][at[w]], chunk[w])
  /\ at' = [at EXCEPT ![w] = @ + 1]
  /\ UNCHANGED <<pc, chunk, written>>

\* Mutant: the limiter that refused is reverted too.
RefuseAll(w) ==
  /\ pc[w] = "taking" /\ at[w] <= Len(Limiters[w])
  /\ ~Allows(Limiters[w][at[w]], chunk[w])
  /\ pc' = [pc EXCEPT ![w] = "reverting"]
  /\ UNCHANGED <<value, tokens, at, chunk, written>>

\* ... or it does not, and the ones before it are to be reverted, ...
Refuse(w) ==
  /\ pc[w] = "taking" /\ at[w] <= Len(Limiters[w])
  /\ ~Allows(Limiters[w][at[w]], chunk[w])
  /\ pc' = [pc EXCEPT ![w] = "reverting"]
  /\ at' = [at EXCEPT ![w] = @ - 1]
  /\ UNCHANGED <<value, tokens, chunk, written>>

\* ... or all have: the bytes are written.
Through(w) ==
  /\ pc[w] = "taking" /\ at[w] > Len(Limiters[w])
  /\ written' = [written EXCEPT ![w] = @ + chunk[w]]
  /\ pc' = [pc EXCEPT ![w] = "idle"]
  /\ UNCHANGED <<value, tokens, at, chunk>>

\* "Revert limiters limits if not allowed": AllowN with the negative size.
Revert(w) ==
  /\ pc[w] = "reverting" /\ at[w] > 0
  /\ IF Allows(Limiters[w][at[w]], -chunk[w])
       THEN Charge(Limiters[w][at[w]], -chunk[w])
       ELSE UNCHANGED <<value, tokens>>
  /\ at' = [at EXCEPT ![w] = @ - 1]
  /\ UNCHANGED <<pc, chunk, written>>

\* ErrLimitReached
Refused(w) ==
  /\ pc[w] = "reverting" /\ at[w] = 0
  /\ pc' = [pc EXCEPT ![w] = "idle"]
  /\ UNCHANGED <<value, tokens, at, chunk, written>>

Refill(l) ==
  /\ tokens[l] < Limit[l]
  /\ tokens' = [tokens EXCEPT ![l] = @ + 1]
  /\ UNCHANGED <<value, pc, at, chunk, written>>

Next ==
  \/ \E w \in Writers :
       \/ \E n \in Chunks : Write(w, n)
       \/ Take(w) \/ Refuse(w) \/ Through(w) \/ Revert(w) \/ Refused(w)
  \/ \E l \in Rate : Refill(l)

Spec == Init /\ [][Next]_vars

-----------------------------------------------------------------------------
(* Properties *)

\* The types of the state; neither a count nor a bucket becomes negative.
TypeOK ==
  /\ value \in [Fixed \cup Rate -> Nat]
  /\ tokens \in [Rate -> Nat]
  /\ pc \in [Writers -> {"idle", "taking", "reverting"}]
  /\ at \in [Writers -> Nat] /\ chunk \in [Writers -> Nat] /\ written \in [Writers -> Nat]

\* How far down its list a writer's unfinished write has been charged.
Charged(w) ==
  IF pc[w] = "taking" THEN at[w] - 1 ELSE IF pc[w] = "reverting" THEN at[w] ELSE 0

\* What a writer has written through a limiter or holds of it.
Used(w, l) == written[w] + IF \E i \in 1..Charged(w) : Limiters[w][i] = l THEN chunk[w] ELSE 0

Sharing(l) == {w \in Writers : \E i \in 1..Len(Limiters[w]) : Limiters[w][i] = l}

\* A FixedLimiter counts exactly what its writers have written and hold, however their
\* writes and refusals interleave, and never more than its limit.
FixedExact ==
  \A l \in Fixed :
    /\ value[l] = SumFunctionOnSet([w \in Writers |-> Used(w, l)], Sharing(l))
    /\ value[l] <= Limit[l]
==============================================================================
