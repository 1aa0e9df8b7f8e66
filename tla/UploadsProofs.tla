---------------------------- MODULE UploadsProofs ----------------------------
(***************************************************************************)
(* Files are neither removed too early nor forgotten, for any number of    *)
(* files, visitors, failures and crashes and all limits and durations; as  *)
(* long as uploads and prunings take turns no limit is exceeded; and a     *)
(* FixedLimiter counts exactly what its writers use, however many there    *)
(* are and however they interleave.                                        *)
(***************************************************************************)
EXTENDS Uploads, FiniteSetTheorems, TLAPS

\* Zenon proves what no other prover is named for.
USE ZenonT(30)

-----------------------------------------------------------------------------
(* Sums over finite sets.  The library's induction theorems take an operator and are of
   no use to the provers, but that the subsets of a finite set are well-founded is a
   fact about sets: a set of counterexamples has a smallest one. *)

\* The recursion that defines a sum: on each subset, any element and the rest.
Pick(s) == CHOOSE x \in s : TRUE

Rec(g, f, S) ==
  g = [s \in SUBSET S |-> IF s = {} THEN 0 ELSE f[Pick(s)] + g[s \ {Pick(s)}]]

\* A sum is the value of the recursion at the whole set.
LEMMA SumDef == \A f, S : SumFunctionOnSet(f, S) = (CHOOSE g : Rec(g, f, S))[S]
BY DEF SumFunctionOnSet, FoldFunctionOnSet, MapThenFoldSet, Rec, Pick

\* Induction, for a set of numbers.
LEMMA NatSet ==
  ASSUME NEW A, 0 \in A, \A n \in Nat : n \in A => n + 1 \in A
  PROVE  Nat \subseteq A
<1> SUFFICES ASSUME Nat \ A # {} PROVE FALSE
  OBVIOUS
<1>1. PICK n \in Nat \ A : \A m \in Nat \ A : <<m, n>> \notin OpToRel(<, Nat)
  BY NatLessThanWellFounded, WFMin
<1>2. \A m \in Nat \ A : ~(m < n)
  BY <1>1 DEF OpToRel
<1>3. n # 0 OBVIOUS
<1>4. n - 1 \in Nat /\ n - 1 < n BY <1>3, SMTT(30)
<1>5. n - 1 \in A BY <1>2, <1>4
<1> QED BY <1>4, <1>5, SMTT(30)

\* A set of finite sets has a smallest one.
LEMMA MinimalSet ==
  ASSUME NEW S, IsFiniteSet(S), NEW Bad \in SUBSET SUBSET S, Bad # {}
  PROVE  \E T \in Bad : \A U \in Bad : U \subseteq T => U = T
<1>1. FiniteSubsetsOf(S) = SUBSET S BY FS_FiniteSubsetsOfFinite
<1>2. IsWellFoundedOn(StrictSubsetOrdering(S), SUBSET S)
  BY <1>1, FS_StrictSubsetOrderingWellFounded
<1>3. PICK T \in Bad : \A U \in Bad : <<U, T>> \notin StrictSubsetOrdering(S)
  BY <1>2, WFMin
<1>4. \A U \in Bad : U \subseteq T => U = T
  BY <1>3 DEF StrictSubsetOrdering
<1> QED BY <1>4

\* The subsets up to a size, and the recursion on a set of subsets.
Small(S, n) == {T \in SUBSET S : Cardinality(T) <= n}
RecOn(g, f, D) == \A s \in D : g[s] = IF s = {} THEN 0 ELSE f[Pick(s)] + g[s \ {Pick(s)}]

\* What is picked of a set is in it.
LEMMA PickIn == \A s : s # {} => Pick(s) \in s
BY DEF Pick

\* The recursion has a solution, built up by the size of the subsets.
LEMMA RecExists ==
  ASSUME NEW S, IsFiniteSet(S), NEW f, \A x \in S : f[x] \in Int
  PROVE  \E g \in [SUBSET S -> Int] : Rec(g, f, S)
<1> DEFINE A == {n \in Nat : \E g \in [Small(S, n) -> Int] : RecOn(g, f, Small(S, n))}
<1>0. \A T \in SUBSET S : IsFiniteSet(T) /\ Cardinality(T) \in Nat
  BY FS_Subset, FS_CardinalityType
<1>1. 0 \in A
  <2>1. Small(S, 0) = {{}}
    BY <1>0, FS_EmptySet, SMTT(30) DEF Small
  <2> DEFINE g == [s \in {{}} |-> 0]
  <2>2. g \in [Small(S, 0) -> Int] /\ RecOn(g, f, Small(S, 0))
    BY <2>1, SMTT(30) DEF RecOn
  <2> QED BY <2>2
<1>2. ASSUME NEW n \in Nat, n \in A PROVE n + 1 \in A
  <2>1. PICK g \in [Small(S, n) -> Int] : RecOn(g, f, Small(S, n)) BY <1>2
  <2> DEFINE h == [s \in Small(S, n + 1) |-> IF s = {} THEN 0 ELSE f[Pick(s)] + g[s \ {Pick(s)}]]
  <2>2. ASSUME NEW s \in Small(S, n + 1), s # {}
        PROVE  Pick(s) \in S /\ s \ {Pick(s)} \in Small(S, n)
    <3>1. Pick(s) \in s /\ s \in SUBSET S /\ IsFiniteSet(s) /\ Cardinality(s) <= n + 1
      BY <1>0, <2>2, PickIn DEF Small
    <3>2. Cardinality(s \ {Pick(s)}) = Cardinality(s) - 1 /\ Cardinality(s) \in Nat
      BY <1>0, <3>1, FS_RemoveElement
    <3>3. Cardinality(s \ {Pick(s)}) <= n BY <3>1, <3>2, SMTT(30)
    <3> QED BY <3>1, <3>3 DEF Small
  <2>3. \A s \in Small(S, n + 1) : h[s] \in Int
    BY <2>2, SMTT(30)
  <2>4. h \in [Small(S, n + 1) -> Int] BY <2>3
  <2>5. Small(S, n) \subseteq Small(S, n + 1) BY <1>0, SMTT(30) DEF Small
  <2>6. \A s \in Small(S, n) : h[s] = g[s]
    BY <2>1, <2>5 DEF RecOn
  <2>7. ASSUME NEW s \in Small(S, n + 1)
        PROVE  h[s] = IF s = {} THEN 0 ELSE f[Pick(s)] + h[s \ {Pick(s)}]
    <3>1. CASE s = {} BY <3>1
    <3>2. CASE s # {}
      <4>1. h[s \ {Pick(s)}] = g[s \ {Pick(s)}] BY <2>2, <2>6, <3>2
      <4>2. h[s] = f[Pick(s)] + g[s \ {Pick(s)}] BY <3>2
      <4> QED BY <3>2, <4>1, <4>2
    <3> QED BY <3>1, <3>2
  <2>8. RecOn(h, f, Small(S, n + 1)) BY <2>7 DEF RecOn
  <2> HIDE DEF h
  <2> QED BY <2>4, <2>8, SMTT(30)
<1>3. Nat \subseteq A
  <2> HIDE DEF A
  <2> QED BY <1>1, <1>2, NatSet
<1>4. Cardinality(S) \in A BY <1>0, <1>3
<1>5. Small(S, Cardinality(S)) = SUBSET S
  BY FS_Subset DEF Small
<1>6. PICK g \in [SUBSET S -> Int] : RecOn(g, f, SUBSET S) BY <1>4, <1>5
<1>7. Rec(g, f, S) BY <1>6 DEF RecOn, Rec
<1> QED BY <1>7

\* Two functions that satisfy the recursion agree wherever both are defined.
LEMMA RecAgree ==
  ASSUME NEW S, IsFiniteSet(S), NEW T \in SUBSET S, NEW f, NEW k, \A x \in T : f[x] = k[x],
         NEW g, Rec(g, f, S), NEW h, Rec(h, k, T)
  PROVE  \A s \in SUBSET T : g[s] = h[s]
<1> DEFINE Bad == {s \in SUBSET T : g[s] # h[s]}
<1> SUFFICES ASSUME Bad # {} PROVE FALSE
  OBVIOUS
<1>1. Bad \in SUBSET SUBSET S OBVIOUS
<1>2. PICK s \in Bad : \A u \in Bad : u \subseteq s => u = s
  <2> HIDE DEF Bad
  <2> QED BY <1>1, MinimalSet, SMTT(30)
<1>3. s \in SUBSET T /\ s \in SUBSET S /\ g[s] # h[s] BY <1>2
<1>4. g[s] = IF s = {} THEN 0 ELSE f[Pick(s)] + g[s \ {Pick(s)}] BY <1>3 DEF Rec
<1>5. h[s] = IF s = {} THEN 0 ELSE k[Pick(s)] + h[s \ {Pick(s)}] BY <1>3 DEF Rec
<1>6. s # {} BY <1>3, <1>4, <1>5
<1>7. Pick(s) \in s /\ f[Pick(s)] = k[Pick(s)] BY <1>3, <1>6, PickIn
<1>8. s \ {Pick(s)} \in SUBSET T /\ s \ {Pick(s)} # s BY <1>3, <1>7
<1>9. g[s \ {Pick(s)}] = h[s \ {Pick(s)}] BY <1>2, <1>8
<1> QED BY <1>3, <1>4, <1>5, <1>6, <1>7, <1>9

\* A function that has the sums over all subsets.
Sums(g, f, S) ==
  /\ g \in [SUBSET S -> Int]
  /\ Rec(g, f, S)
  /\ \A T \in SUBSET S : SumFunctionOnSet(f, T) = g[T]

\* The sum over a set is the last value of the recursion, on any set that includes it.
LEMMA SumRec ==
  ASSUME NEW S, IsFiniteSet(S), NEW f, \A x \in S : f[x] \in Int
  PROVE  \E g : Sums(g, f, S)
<1>1. PICK g \in [SUBSET S -> Int] : Rec(g, f, S) BY RecExists
<1>2. ASSUME NEW T \in SUBSET S PROVE SumFunctionOnSet(f, T) = g[T]
  <2>1. IsFiniteSet(T) BY FS_Subset
  <2>2. PICK k \in [SUBSET T -> Int] : Rec(k, f, T) BY <2>1, RecExists
  <2> DEFINE h == CHOOSE h : Rec(h, f, T)
  <2>3. Rec(h, f, T) BY <2>2
  <2>4. SumFunctionOnSet(f, T) = h[T] BY SumDef
  <2> HIDE DEF h
  <2>5. \A s \in SUBSET T : g[s] = h[s] BY <1>1, <2>3, RecAgree, SMTT(30)
  <2> QED BY <2>4, <2>5
<1> QED BY <1>1, <1>2 DEF Sums

\* Nothing sums up to 0.
LEMMA SumEmpty == \A f : SumFunctionOnSet(f, {}) = 0
<1> SUFFICES ASSUME NEW f PROVE SumFunctionOnSet(f, {}) = 0
  OBVIOUS
<1>1. PICK g : Sums(g, f, {})
  BY SumRec, FS_EmptySet
<1>2. g[{}] = 0 BY <1>1 DEF Sums, Rec
<1> QED BY <1>1, <1>2 DEF Sums

\* Integers sum up to an integer.
LEMMA SumType ==
  ASSUME NEW S, IsFiniteSet(S), NEW f, \A x \in S : f[x] \in Int
  PROVE  SumFunctionOnSet(f, S) \in Int
<1>1. PICK g : Sums(g, f, S) BY SumRec
<1> QED BY <1>1 DEF Sums

\* Any element can be taken out of a sum.
LEMMA SumRemove ==
  ASSUME NEW S, IsFiniteSet(S), NEW f, \A x \in S : f[x] \in Int, NEW x \in S
  PROVE  SumFunctionOnSet(f, S) = f[x] + SumFunctionOnSet(f, S \ {x})
<1>1. PICK g : Sums(g, f, S)
  BY SumRec
<1>r. \A s \in SUBSET S : s # {} => g[s] = f[Pick(s)] + g[s \ {Pick(s)}]
  BY <1>1 DEF Sums, Rec
<1> DEFINE Bad == {s \in SUBSET S : \E y \in s : g[s] # f[y] + g[s \ {y}]}
<1>2. Bad = {}
  <2> SUFFICES ASSUME Bad # {} PROVE FALSE
    OBVIOUS
  <2>1. Bad \in SUBSET SUBSET S OBVIOUS
  <2>2. PICK s \in Bad : \A u \in Bad : u \subseteq s => u = s
    <3> HIDE DEF Bad
    <3> QED BY <2>1, MinimalSet, SMTT(30)
  <2>3. PICK y \in s : g[s] # f[y] + g[s \ {y}] BY <2>2
  <2> DEFINE p == Pick(s)
  <2>4. s \in SUBSET S /\ p \in s /\ p \in S /\ y \in S BY <2>2, <2>3, PickIn
  <2>5. g[s] = f[p] + g[s \ {p}] BY <1>r, <2>4
  <2>6. p # y BY <2>3, <2>5
  <2>7. s \ {p} \in SUBSET S /\ s \ {p} # s /\ y \in s \ {p} BY <2>3, <2>4, <2>6
  <2>8. s \ {y} \in SUBSET S /\ s \ {y} # s /\ p \in s \ {y} BY <2>3, <2>4, <2>6
  <2>9. s \ {p} \notin Bad /\ s \ {y} \notin Bad BY <2>2, <2>7, <2>8
  <2>10. g[s \ {p}] = f[y] + g[(s \ {p}) \ {y}] BY <2>7, <2>9
  <2>11. g[s \ {y}] = f[p] + g[(s \ {y}) \ {p}] BY <2>8, <2>9
  <2>12. (s \ {p}) \ {y} = (s \ {y}) \ {p} /\ (s \ {p}) \ {y} \in SUBSET S BY <2>4
  <2> HIDE DEF p, Bad
  <2>13. f[p] \in Int /\ f[y] \in Int /\ g[(s \ {p}) \ {y}] \in Int BY <1>1, <2>4, <2>12 DEF Sums
  <2>14. g[s] = f[y] + g[s \ {y}]
    <3> DEFINE rest == g[(s \ {p}) \ {y}]
    <3>1. g[s] = f[p] + (f[y] + rest) BY <2>5, <2>10
    <3>2. g[s \ {y}] = f[p] + rest BY <2>11, <2>12
    <3>3. rest \in Int BY <2>13
    <3> HIDE DEF rest
    <3> QED BY <2>13, <3>1, <3>2, <3>3, SMTT(30)
  <2> QED BY <2>3, <2>14
<1>3. g[S] = f[x] + g[S \ {x}] BY <1>2
<1> QED BY <1>1, <1>3 DEF Sums

\* Functions that agree on a set have the same sum.
LEMMA SumSame ==
  ASSUME NEW S, IsFiniteSet(S), NEW f, \A x \in S : f[x] \in Int, NEW k, \A x \in S : f[x] = k[x]
  PROVE  SumFunctionOnSet(f, S) = SumFunctionOnSet(k, S)
<1>1. PICK g : Sums(g, f, S)
  BY SumRec
<1>a. \A x \in S : k[x] \in Int OBVIOUS
<1>2. PICK h : Sums(h, k, S)
  BY <1>a, SumRec
<1>3. g[S] = h[S] BY <1>1, <1>2, RecAgree, SMTT(30) DEF Sums
<1> QED BY <1>1, <1>2, <1>3 DEF Sums

\* A sum changes by as much as one of its summands.
LEMMA SumChange ==
  ASSUME NEW S, IsFiniteSet(S), NEW f, \A x \in S : f[x] \in Int,
         NEW k, \A x \in S : k[x] \in Int,
         NEW x \in S, \A y \in S \ {x} : f[y] = k[y]
  PROVE  SumFunctionOnSet(k, S) = SumFunctionOnSet(f, S) + (k[x] - f[x])
<1>1. IsFiniteSet(S \ {x}) BY FS_RemoveElement
<1>2. SumFunctionOnSet(f, S) = f[x] + SumFunctionOnSet(f, S \ {x}) BY SumRemove
<1>3. SumFunctionOnSet(k, S) = k[x] + SumFunctionOnSet(k, S \ {x}) BY SumRemove
<1>4. SumFunctionOnSet(f, S \ {x}) = SumFunctionOnSet(k, S \ {x}) BY <1>1, SumSame
<1>5. SumFunctionOnSet(f, S \ {x}) \in Int /\ f[x] \in Int /\ k[x] \in Int BY <1>1, SumType
<1> QED BY <1>2, <1>3, <1>4, <1>5, SMTT(30)

\* A sum of natural numbers is one, and no less than that over a part.
LEMMA SumNat ==
  ASSUME NEW S, IsFiniteSet(S), NEW f, \A x \in S : f[x] \in Nat
  PROVE  /\ SumFunctionOnSet(f, S) \in Nat
         /\ \A x \in S : f[x] <= SumFunctionOnSet(f, S)
<1> DEFINE Bad == {s \in SUBSET S : SumFunctionOnSet(f, s) \notin Nat}
<1>0. \A s \in SUBSET S : IsFiniteSet(s) BY FS_Subset
<1>1. Bad = {}
  <2> SUFFICES ASSUME Bad # {} PROVE FALSE
    OBVIOUS
  <2>1. Bad \in SUBSET SUBSET S OBVIOUS
  <2>2. PICK s \in Bad : \A u \in Bad : u \subseteq s => u = s
    <3> HIDE DEF Bad
    <3> QED BY <2>1, MinimalSet, SMTT(30)
  <2>3. s \in SUBSET S /\ SumFunctionOnSet(f, s) \notin Nat BY <2>2
  <2>4. PICK y \in s : TRUE BY <2>3, SumEmpty, SMTT(30)
  <2>5. SumFunctionOnSet(f, s) = f[y] + SumFunctionOnSet(f, s \ {y}) BY <1>0, <2>3, SumRemove, SMTT(30)
  <2>6. s \ {y} \in SUBSET S /\ s \ {y} # s BY <2>3, <2>4
  <2>7. SumFunctionOnSet(f, s \ {y}) \in Nat BY <2>2, <2>6
  <2> QED BY <2>3, <2>4, <2>5, <2>7, SMTT(30)
<1>2. \A s \in SUBSET S : SumFunctionOnSet(f, s) \in Nat BY <1>1
<1> HIDE DEF Bad
<1>3. ASSUME NEW x \in S PROVE f[x] <= SumFunctionOnSet(f, S)
  <2>1. SumFunctionOnSet(f, S) = f[x] + SumFunctionOnSet(f, S \ {x}) BY SumRemove, SMTT(30)
  <2>2. SumFunctionOnSet(f, S \ {x}) \in Nat BY <1>2
  <2> QED BY <2>1, <2>2, SMTT(30)
<1> QED BY <1>2, <1>3

\* Leaving out natural numbers makes a sum no larger.
LEMMA SumSubset ==
  ASSUME NEW S, IsFiniteSet(S), NEW f, \A x \in S : f[x] \in Nat, NEW T \in SUBSET S
  PROVE  SumFunctionOnSet(f, T) <= SumFunctionOnSet(f, S)
<1> DEFINE Bad == {s \in SUBSET S : T \subseteq s /\ ~(SumFunctionOnSet(f, T) <= SumFunctionOnSet(f, s))}
<1>0. \A s \in SUBSET S : IsFiniteSet(s) /\ SumFunctionOnSet(f, s) \in Nat BY FS_Subset, SumNat
<1>1. Bad = {}
  <2> SUFFICES ASSUME Bad # {} PROVE FALSE
    OBVIOUS
  <2>1. Bad \in SUBSET SUBSET S OBVIOUS
  <2>2. PICK s \in Bad : \A u \in Bad : u \subseteq s => u = s
    <3> HIDE DEF Bad
    <3> QED BY <2>1, MinimalSet, SMTT(30)
  <2>3. s \in SUBSET S /\ T \subseteq s /\ ~(SumFunctionOnSet(f, T) <= SumFunctionOnSet(f, s)) BY <2>2
  <2>4. s # T BY <1>0, <2>3, SMTT(30)
  <2>5. PICK y \in s : y \notin T BY <2>3, <2>4
  <2>6. SumFunctionOnSet(f, s) = f[y] + SumFunctionOnSet(f, s \ {y}) BY <1>0, <2>3, SumRemove, SMTT(30)
  <2>7. s \ {y} \in SUBSET S /\ s \ {y} # s /\ T \subseteq s \ {y} BY <2>3, <2>5
  <2>8. SumFunctionOnSet(f, T) <= SumFunctionOnSet(f, s \ {y}) BY <2>2, <2>7
  <2>9. f[y] \in Nat BY <2>3
  <2> QED BY <1>0, <2>3, <2>6, <2>7, <2>8, <2>9, SMTT(30)
<1> QED BY <1>1

\* Nothing sums up to nothing.
LEMMA SumZero ==
  ASSUME NEW S, IsFiniteSet(S), NEW f, \A x \in S : f[x] = 0
  PROVE  SumFunctionOnSet(f, S) = 0
<1> DEFINE Bad == {s \in SUBSET S : SumFunctionOnSet(f, s) # 0}
<1>0. \A s \in SUBSET S : IsFiniteSet(s) BY FS_Subset
<1>1. Bad = {}
  <2> SUFFICES ASSUME Bad # {} PROVE FALSE
    OBVIOUS
  <2>1. Bad \in SUBSET SUBSET S OBVIOUS
  <2>2. PICK s \in Bad : \A u \in Bad : u \subseteq s => u = s
    <3> HIDE DEF Bad
    <3> QED BY <2>1, MinimalSet, SMTT(30)
  <2>3. s \in SUBSET S /\ SumFunctionOnSet(f, s) # 0 BY <2>2
  <2>4. PICK y \in s : TRUE BY <2>3, SumEmpty
  <2>5. SumFunctionOnSet(f, s) = f[y] + SumFunctionOnSet(f, s \ {y}) BY <1>0, <2>3, SumRemove, SMTT(30)
  <2>6. s \ {y} \in SUBSET S /\ s \ {y} # s BY <2>3, <2>4
  <2>7. SumFunctionOnSet(f, s \ {y}) = 0 BY <2>2, <2>6
  <2> QED BY <2>3, <2>4, <2>5, <2>7, SMTT(30)
<1> QED BY <1>1

-----------------------------------------------------------------------------
(* Files *)

\* The types of the variables the proof is about.
Typed ==
  /\ now \in Nat
  /\ up \in [Files -> {"new", "checked", "writing", "written", "counted", "ended"}]
  /\ born \in [Files -> Nat]
  /\ files \subseteq Files
  /\ bytes \in [Files -> Nat]
  /\ row \in [Files -> {"none", "live", "deleted", "gone"}]
  /\ size \in [Files -> Nat]
  /\ mgr \in [step : Steps, ids : SUBSET Files, left : SUBSET Files]

\* A message is inserted once its upload is over, and an upload that has begun to
\* write has its file.
Stages ==
  \A f \in Files :
    /\ row[f] # "none" => up[f] = "ended"
    /\ up[f] \in {"writing", "written", "counted"} => f \in files

\* The manager works on files of expired messages, and has removed those it is done with.
ManagerOK ==
  /\ mgr.left \subseteq mgr.ids
  /\ mgr.step \notin {"attachments", "messages"} => mgr.left = {}
  /\ \A f \in mgr.ids :
       /\ row[f] # "none"
       /\ AttachmentExpired(f) \/ MessageExpired(f)
       /\ f \in mgr.left \/ f \notin files \/ f \in kept

IInv == Typed /\ Stages /\ ManagerOK /\ LiveHaveFiles /\ ForgottenAreRemoved

\* The invariant holds initially.
LEMMA InitInv == Init => IInv
  BY SMTT(30) DEF Init, IInv, Typed, Stages, ManagerOK, LiveHaveFiles, ForgottenAreRemoved, Idle, Steps

\* A step of an upload that changes neither files nor rows keeps the invariant.
LEMMA StageStep ==
  ASSUME IInv, NEW f \in Files, up[f] # "ended",
         NEW s \in {"checked", "writing", "written", "counted", "ended"},
         s \in {"writing", "written", "counted"} => f \in files,
         up' = [up EXCEPT ![f] = s],
         born' \in [Files -> Nat], \A g \in Files \ {f} : born'[g] = born[g],
         UNCHANGED <<now, files, bytes, row, size, mgr, kept>>
  PROVE  IInv'
<1>a. row[f] = "none"
  BY DEF IInv, Stages
<1>b. f \notin mgr.ids
  BY <1>a DEF IInv, ManagerOK
<1>c. Typed'
  BY DEF IInv, Typed
<1>1. /\ Typed' /\ row[f] = "none" /\ f \notin mgr.ids
      /\ \A g \in Files \ {f} : up'[g] = up[g] /\ born'[g] = born[g]
      /\ up'[f] = s
  BY <1>a, <1>b, <1>c, SMTT(30) DEF IInv, Typed
<1>2. Stages'
  BY <1>1, SMTT(20) DEF IInv, Typed, Stages
<1>3. \A g \in Files \ {f} : /\ AttachmentExpired(g)' <=> AttachmentExpired(g)
                             /\ MessageExpired(g)' <=> MessageExpired(g)
  BY <1>1 DEF AttachmentExpired, MessageExpired
<1>4. ManagerOK'
  BY <1>1, <1>3 DEF IInv, Typed, ManagerOK
<1>5. LiveHaveFiles'
  BY <1>1, <1>3 DEF IInv, LiveHaveFiles
<1>6. ForgottenAreRemoved'
  BY DEF IInv, ForgottenAreRemoved
<1> QED
  BY <1>1, <1>2, <1>4, <1>5, <1>6 DEF IInv

\* Checking, refusing, closing and counting change the stage of the upload only.
LEMMA StageActions ==
  ASSUME IInv, NEW f \in Files, Check(f) \/ Refuse(f) \/ Close(f) \/ Count(f)
  PROVE  IInv'
<1>1. CASE Check(f)
  <2>1. /\ born' = [born EXCEPT ![f] = now] /\ up' = [up EXCEPT ![f] = "checked"] /\ up[f] = "new"
        /\ UNCHANGED <<now, files, bytes, row, size, mgr, kept>>
    BY <1>1 DEF Check, dir, table
  <2>2. born' \in [Files -> Nat] /\ \A g \in Files \ {f} : born'[g] = born[g]
    BY <2>1 DEF IInv, Typed
  <2> QED BY <2>1, <2>2, StageStep
<1>2. CASE Refuse(f)
  <2>1. /\ born' = born /\ up' = [up EXCEPT ![f] = "ended"] /\ up[f] = "checked"
        /\ UNCHANGED <<now, files, bytes, row, size, mgr, kept>>
    BY <1>2 DEF Refuse, dir, table
  <2>2. born' \in [Files -> Nat] /\ \A g \in Files \ {f} : born'[g] = born[g]
    BY <2>1 DEF IInv, Typed
  <2> QED BY <2>1, <2>2, StageStep
<1>3. CASE Close(f)
  <2>1. /\ born' = born /\ up' = [up EXCEPT ![f] = "written"] /\ up[f] = "writing"
        /\ UNCHANGED <<now, files, bytes, row, size, mgr, kept>>
    BY <1>3 DEF Close, dir, table
  <2>2. born' \in [Files -> Nat] /\ f \in files /\ \A g \in Files \ {f} : born'[g] = born[g]
    BY <2>1 DEF IInv, Typed, Stages
  <2> QED BY <2>1, <2>2, StageStep
<1>4. CASE Count(f)
  <2>1. /\ born' = born /\ up' = [up EXCEPT ![f] = "counted"] /\ up[f] = "written"
        /\ UNCHANGED <<now, files, bytes, row, size, mgr, kept>>
    BY <1>4 DEF Count, dir, table
  <2>2. born' \in [Files -> Nat] /\ f \in files /\ \A g \in Files \ {f} : born'[g] = born[g]
    BY <2>1 DEF IInv, Typed, Stages
  <2> QED BY <2>1, <2>2, StageStep
<1> QED BY <1>1, <1>2, <1>3, <1>4

\* Creating, extending or dropping the file of an upload touches no message's file.
LEMMA FileActions ==
  ASSUME IInv, NEW f \in Files, Open(f) \/ Copy(f) \/ Abort(f)
  PROVE  IInv'
<1>1. /\ up[f] \in {"checked", "writing"}
      /\ UNCHANGED <<now, born, row, size, mgr>>
      /\ kept \subseteq kept'
      /\ \A g \in Files \ {f} : g \in files' <=> g \in files
      /\ files' \subseteq Files
  BY DEF Open, Copy, Abort, upload, dir, table, IInv, Typed
<1>2. /\ up' \in [Files -> {"new", "checked", "writing", "written", "counted", "ended"}]
      /\ bytes' \in [Files -> Nat]
      /\ \A g \in Files \ {f} : up'[g] = up[g] /\ bytes'[g] = bytes[g]
      /\ up'[f] \in {"writing", "written", "counted"} => f \in files'
  BY SMTT(20) DEF Open, Copy, Abort, upload, dir, table, IInv, Typed, Stages
<1>3. row[f] = "none" /\ f \notin mgr.ids
  BY <1>1, SMTT(20) DEF IInv, Typed, Stages, ManagerOK
<1>4. Typed'
  BY <1>1, <1>2 DEF IInv, Typed
<1>5. Stages'
  BY <1>1, <1>2, <1>3, SMTT(20) DEF IInv, Stages
<1>6. \A g \in Files : /\ AttachmentExpired(g)' <=> AttachmentExpired(g)
                       /\ MessageExpired(g)' <=> MessageExpired(g)
  BY <1>1 DEF AttachmentExpired, MessageExpired
<1>7. ManagerOK'
  BY <1>1, <1>3, <1>6 DEF IInv, Typed, ManagerOK
<1>8. LiveHaveFiles'
  BY <1>1, <1>2, <1>3, <1>6 DEF IInv, LiveHaveFiles
<1>9. ForgottenAreRemoved'
  BY <1>1, <1>3 DEF IInv, ForgottenAreRemoved
<1> QED BY <1>4, <1>5, <1>7, <1>8, <1>9 DEF IInv

\* Inserting the message of a finished upload.
LEMMA AddMessageStep ==
  ASSUME IInv, NEW f \in Files, AddMessage(f)
  PROVE  IInv'
<1>1. /\ up[f] = "counted" /\ up' = [up EXCEPT ![f] = "ended"]
      /\ UNCHANGED <<now, born, files, bytes, mgr, kept>>
      /\ \/ row' = [row EXCEPT ![f] = "live"] /\ size' = [size EXCEPT ![f] = bytes[f]]
         \/ row' = row /\ size' = size
  BY DEF AddMessage, dir, table
<1>2. row[f] = "none" /\ f \in files
  BY <1>1 DEF IInv, Stages
<1>3. f \notin mgr.ids
  BY <1>2 DEF IInv, ManagerOK
<1>4. Typed'
  BY <1>1 DEF IInv, Typed
<1>5. /\ \A g \in Files \ {f} : up'[g] = up[g] /\ row'[g] = row[g] /\ size'[g] = size[g]
      /\ up'[f] = "ended" /\ row'[f] \in {"none", "live"}
      /\ row'[f] = "live" => size'[f] = bytes[f]
  BY <1>1, <1>2 DEF IInv, Typed
<1>6. Stages'
  BY <1>1, <1>5 DEF IInv, Stages
<1>7. \A g \in Files : /\ AttachmentExpired(g)' <=> AttachmentExpired(g)
                       /\ MessageExpired(g)' <=> MessageExpired(g)
  BY <1>1 DEF AttachmentExpired, MessageExpired
<1>8. ManagerOK'
  BY <1>1, <1>3, <1>5, <1>7 DEF IInv, Typed, ManagerOK
<1>9. LiveHaveFiles'
  BY <1>1, <1>2, <1>5, <1>7 DEF IInv, LiveHaveFiles
<1>10. ForgottenAreRemoved'
  BY <1>1, <1>5 DEF IInv, ForgottenAreRemoved
<1> QED BY <1>4, <1>6, <1>8, <1>9, <1>10 DEF IInv

\* Selecting what has expired.
LEMMA SelectStep ==
  ASSUME IInv, AttachmentsExpired \/ MessagesExpired
  PROVE  IInv'
<1>1. PICK ids \in SUBSET Files, step \in {"attachments", "messages"} :
        /\ \A f \in ids : row[f] # "none" /\ (AttachmentExpired(f) \/ MessageExpired(f))
        /\ mgr' = [step |-> step, ids |-> ids, left |-> ids]
        /\ UNCHANGED <<now, up, born, files, bytes, row, size, kept>>
  <2>1. CASE AttachmentsExpired
    <3> DEFINE E == {f \in Files : row[f] = "live" /\ AttachmentExpired(f)}
    <3>1. /\ mgr' = [step |-> "attachments", ids |-> E, left |-> E]
          /\ UNCHANGED <<now, up, born, files, bytes, row, size, kept>>
      BY <2>1 DEF AttachmentsExpired, upload, dir, table
    <3>2. E \in SUBSET Files /\ \A f \in E : row[f] # "none" /\ (AttachmentExpired(f) \/ MessageExpired(f))
      OBVIOUS
    <3> HIDE DEF E
    <3> QED BY <3>1, <3>2
  <2>2. CASE MessagesExpired
    <3> DEFINE E == {f \in Files : row[f] \in {"live", "deleted"} /\ MessageExpired(f)}
    <3>1. /\ mgr' = [step |-> "messages", ids |-> E, left |-> E]
          /\ UNCHANGED <<now, up, born, files, bytes, row, size, kept>>
      BY <2>2 DEF MessagesExpired, upload, dir, table
    <3>2. E \in SUBSET Files /\ \A f \in E : row[f] # "none" /\ (AttachmentExpired(f) \/ MessageExpired(f))
      OBVIOUS
    <3> HIDE DEF E
    <3> QED BY <3>1, <3>2
  <2> QED BY <2>1, <2>2
<1>2. mgr'.step = step /\ mgr'.ids = ids /\ mgr'.left = ids
  BY <1>1
<1>3. Typed'
  BY <1>1 DEF IInv, Typed, Steps
<1>4. \A g \in Files : /\ AttachmentExpired(g)' <=> AttachmentExpired(g)
                       /\ MessageExpired(g)' <=> MessageExpired(g)
  BY <1>1 DEF AttachmentExpired, MessageExpired
<1>5. Stages' /\ ForgottenAreRemoved'
  BY <1>1 DEF IInv, Stages, ForgottenAreRemoved
<1>6. LiveHaveFiles'
  BY <1>1, <1>4 DEF IInv, LiveHaveFiles
<1>7. ManagerOK'
  BY <1>1, <1>2, <1>4 DEF ManagerOK
<1> QED BY <1>3, <1>5, <1>6, <1>7 DEF IInv

\* Removing a file of an expired message.
LEMMA RemoveStep ==
  ASSUME IInv, NEW f \in Files, RemoveFile(f)
  PROVE  IInv'
<1>1. /\ f \in mgr.left
      /\ mgr' = [mgr EXCEPT !.left = @ \ {f}]
      /\ files' \subseteq files /\ \A g \in Files \ {f} : g \in files => g \in files'
      /\ kept \subseteq kept' /\ (f \notin files' \/ f \in kept')
      /\ UNCHANGED <<now, up, born, bytes, row, size>>
  BY DEF RemoveFile, upload, table
<1>2. mgr'.step = mgr.step /\ mgr'.ids = mgr.ids /\ mgr'.left = mgr.left \ {f} /\ mgr' \in [step : Steps, ids : SUBSET Files, left : SUBSET Files]
  BY <1>1 DEF IInv, Typed
<1>3. Typed'
  BY <1>1, <1>2 DEF IInv, Typed
<1>4. \A g \in Files : /\ AttachmentExpired(g)' <=> AttachmentExpired(g)
                       /\ MessageExpired(g)' <=> MessageExpired(g)
  BY <1>1 DEF AttachmentExpired, MessageExpired
<1>5. f \in mgr.ids /\ row[f] # "none" /\ (AttachmentExpired(f) \/ MessageExpired(f))
  BY <1>1 DEF IInv, ManagerOK
<1>6. up[f] = "ended"
  BY <1>5 DEF IInv, Stages
<1>7. Stages'
  BY <1>1, <1>6 DEF IInv, Stages
<1>8. LiveHaveFiles'
  BY <1>1, <1>4, <1>5 DEF IInv, LiveHaveFiles
<1>9. ForgottenAreRemoved'
  BY <1>1 DEF IInv, ForgottenAreRemoved
<1>10. mgr.ids \subseteq Files
  BY DEF IInv, Typed
<1>11. \A g \in mgr'.ids : g \in mgr'.left \/ g \notin files' \/ g \in kept'
  BY <1>1, <1>2, <1>10 DEF IInv, ManagerOK
<1>12. ManagerOK'
  BY <1>1, <1>2, <1>4, <1>10, <1>11 DEF IInv, ManagerOK
<1> QED BY <1>3, <1>7, <1>8, <1>9, <1>12 DEF IInv

\* Reading the directory and setting the total.
LEMMA SizeStep ==
  ASSUME IInv, ReadDirSize \/ SetTotal
  PROVE  IInv'
<1>1. PICK step \in Steps :
        /\ mgr' = [mgr EXCEPT !.step = step]
        /\ UNCHANGED <<now, up, born, files, bytes, row, size, kept>>
        /\ mgr.left = {}
  <2>1. CASE ReadDirSize
    <3>1. mgr' = [mgr EXCEPT !.step = Sized(mgr.step)] /\ Sized(mgr.step) \in Steps
      BY <2>1 DEF ReadDirSize, Sized, Steps
    <3>2. UNCHANGED <<now, up, born, files, bytes, row, size, kept>> /\ mgr.left = {}
      BY <2>1 DEF ReadDirSize, upload, dir, table
    <3> QED BY <3>1, <3>2
  <2>2. CASE SetTotal
    <3>1. mgr' = [mgr EXCEPT !.step = Marking(mgr.step)] /\ Marking(mgr.step) \in Steps
      BY <2>2 DEF SetTotal, Marking, Steps
    <3>2. UNCHANGED <<now, up, born, files, bytes, row, size, kept>>
      BY <2>2 DEF SetTotal, upload, dir, table
    <3>3. mgr.left = {}
      BY <2>2 DEF SetTotal, IInv, ManagerOK
    <3> QED BY <3>1, <3>2, <3>3
  <2> QED BY <2>1, <2>2
<1>2. mgr'.ids = mgr.ids /\ mgr'.left = {} /\ mgr' \in [step : Steps, ids : SUBSET Files, left : SUBSET Files]
  BY <1>1 DEF IInv, Typed
<1>3. Typed'
  BY <1>1, <1>2 DEF IInv, Typed
<1>4. \A g \in Files : /\ AttachmentExpired(g)' <=> AttachmentExpired(g)
                       /\ MessageExpired(g)' <=> MessageExpired(g)
  BY <1>1 DEF AttachmentExpired, MessageExpired
<1>5. Stages' /\ ForgottenAreRemoved'
  BY <1>1 DEF IInv, Stages, ForgottenAreRemoved
<1>6. LiveHaveFiles'
  BY <1>1, <1>4 DEF IInv, LiveHaveFiles
<1>7. mgr.ids \subseteq Files
  BY DEF IInv, Typed
<1>8. ManagerOK'
  BY <1>1, <1>2, <1>4, <1>7 DEF IInv, ManagerOK
<1> QED BY <1>3, <1>5, <1>6, <1>8 DEF IInv

\* Marking or deleting the messages whose files were removed.
LEMMA MarkStep ==
  ASSUME IInv, MarkAttachmentsDeleted \/ DeleteMessages
  PROVE  IInv'
<1>1. PICK s \in {"deleted", "gone"} :
        /\ \/ row' = [f \in Files |-> IF f \in mgr.ids THEN s ELSE row[f]]
           \/ row' = row
        /\ mgr' = Idle
        /\ UNCHANGED <<now, up, born, files, bytes, size, kept>>
  BY DEF MarkAttachmentsDeleted, DeleteMessages, upload, dir
<1>2. mgr.left = {}
  BY DEF MarkAttachmentsDeleted, DeleteMessages, IInv, ManagerOK
<1>3. mgr'.step = "idle" /\ mgr'.ids = {} /\ mgr'.left = {} /\ mgr' \in [step : Steps, ids : SUBSET Files, left : SUBSET Files]
  BY <1>1 DEF Idle, Steps
<1>4. /\ row' \in [Files -> {"none", "live", "deleted", "gone"}]
      /\ \A f \in Files : \/ row'[f] = row[f]
                          \/ f \in mgr.ids /\ row'[f] = s
  BY <1>1 DEF IInv, Typed
<1>5. Typed'
  BY <1>1, <1>3, <1>4 DEF IInv, Typed
<1>6. \A f \in mgr.ids : row[f] # "none" /\ (f \notin files \/ f \in kept)
  BY <1>2 DEF IInv, ManagerOK
<1>7. Stages'
  BY <1>1, <1>4, <1>6 DEF IInv, Stages
<1>8. \A g \in Files : /\ AttachmentExpired(g)' <=> AttachmentExpired(g)
                       /\ MessageExpired(g)' <=> MessageExpired(g)
  BY <1>1 DEF AttachmentExpired, MessageExpired
<1>9. LiveHaveFiles'
  BY <1>1, <1>4, <1>8 DEF IInv, LiveHaveFiles
<1>10. ForgottenAreRemoved'
  BY <1>1, <1>4, <1>6 DEF IInv, ForgottenAreRemoved
<1>11. ManagerOK'
  BY <1>3 DEF ManagerOK
<1> QED BY <1>5, <1>7, <1>9, <1>10, <1>11 DEF IInv

\* What has expired stays expired.
LEMMA TickStep ==
  ASSUME IInv, Tick
  PROVE  IInv'
<1>1. now \in Nat /\ now' = now + 1 /\ UNCHANGED <<up, born, files, bytes, row, size, mgr, kept>>
  BY DEF Tick, upload, dir, table, IInv, Typed
<1>2. Typed'
  BY <1>1, SMTT(30) DEF IInv, Typed
<1>3. Stages' /\ ForgottenAreRemoved'
  BY <1>1 DEF IInv, Stages, ForgottenAreRemoved
<1>4. \A g \in Files : born[g] \in Nat
  BY DEF IInv, Typed
<1>5. \A g \in Files : /\ AttachmentExpired(g) => AttachmentExpired(g)'
                       /\ MessageExpired(g) => MessageExpired(g)'
  BY <1>1, <1>4, FileCacheAssumption, SMTT(30) DEF AttachmentExpired, MessageExpired
<1>6. LiveHaveFiles'
  BY <1>1, <1>5 DEF IInv, LiveHaveFiles
<1>7. mgr.ids \subseteq Files
  BY DEF IInv, Typed
<1>8. ManagerOK'
  BY <1>1, <1>5, <1>7 DEF IInv, ManagerOK
<1> QED BY <1>2, <1>3, <1>6, <1>8 DEF IInv

\* A crash ends uploads and pruning; files and rows stay.
LEMMA CrashStep ==
  ASSUME IInv, Crash
  PROVE  IInv'
<1>1. /\ up' = [f \in Files |-> IF f \in Uploading THEN "ended" ELSE up[f]] /\ mgr' = Idle
      /\ UNCHANGED <<now, born, files, bytes, row, size, kept>>
  BY DEF Crash, dir, table
<1>2. mgr'.step = "idle" /\ mgr'.ids = {} /\ mgr'.left = {} /\ mgr' \in [step : Steps, ids : SUBSET Files, left : SUBSET Files]
  BY <1>1 DEF Idle, Steps
<1>3. /\ up' \in [Files -> {"new", "checked", "writing", "written", "counted", "ended"}]
      /\ \A f \in Files : up'[f] = "ended" \/ up'[f] = up[f]
  BY <1>1 DEF IInv, Typed
<1>4. Typed'
  BY <1>1, <1>2, <1>3 DEF IInv, Typed
<1>5. Stages'
  BY <1>1, <1>3 DEF IInv, Stages
<1>6. ForgottenAreRemoved'
  BY <1>1 DEF IInv, ForgottenAreRemoved
<1>7. LiveHaveFiles'
  BY <1>1 DEF IInv, LiveHaveFiles, AttachmentExpired, MessageExpired
<1>8. ManagerOK'
  BY <1>2 DEF ManagerOK
<1> QED BY <1>4, <1>5, <1>6, <1>7, <1>8 DEF IInv

\* A step that changes nothing.
LEMMA StutterStep ==
  ASSUME IInv, UNCHANGED vars
  PROVE  IInv'
<1>1. UNCHANGED <<now, up, born, files, bytes, row, size, mgr, kept>>
  BY DEF vars, upload, dir, table
<1> QED
  BY <1>1 DEF IInv, Typed, Stages, ManagerOK, LiveHaveFiles, ForgottenAreRemoved,
              AttachmentExpired, MessageExpired

\* The inductive invariant.
THEOREM Inductive == Spec => []IInv
<1>1. IInv /\ [Next]_vars => IInv'
  <2> SUFFICES ASSUME IInv, [Next]_vars PROVE IInv'
    OBVIOUS
  <2>1. CASE UNCHANGED vars
    BY <2>1, StutterStep
  <2>2. ASSUME NEW f \in Files, Check(f) \/ Refuse(f) \/ Copy(f) \/ Abort(f) \/ Upload(f)
        PROVE  IInv'
    BY <2>2, StageActions, FileActions, AddMessageStep DEF Upload
  <2>3. CASE Manager
    BY <2>3, SelectStep, RemoveStep, SizeStep, MarkStep DEF Manager
  <2>4. CASE Tick \/ Crash
    BY <2>4, TickStep, CrashStep
  <2> QED BY <2>1, <2>2, <2>3, <2>4 DEF Next
<1> QED BY InitInv, <1>1, PTL DEF Spec

\* The file of a message that has not expired is there, whole, whatever uploads, the
\* manager, failed removals and crashes do.
THEOREM FilesKept == Spec => []LiveHaveFiles
<1>1. IInv => LiveHaveFiles
  BY DEF IInv
<1> QED BY Inductive, <1>1, PTL

\* A message is marked or deleted only after its file was removed or could not be.
THEOREM FilesRemoved == Spec => []ForgottenAreRemoved
<1>1. IInv => ForgottenAreRemoved
  BY DEF IInv
<1> QED BY Inductive, <1>1, PTL

-----------------------------------------------------------------------------
(* Limits *)

\* As long as uploads and prunings take turns.
Turns ==
  mixed = "no" =>
    /\ \A f, g \in Uploading : f = g
    /\ mgr.step # "idle" => Uploading = {}

\* A file that is not opened is not there and has no bytes, and one that is written has no
\* more than the limiters let through.
QuotaOK ==
  /\ quota \in [Files -> Nat] /\ total \in Nat /\ sized \in Nat
  /\ \A f \in Files :
       /\ up[f] \in {"new", "checked"} => bytes[f] = 0 /\ f \notin files
       /\ up[f] \in {"writing", "written", "counted"} => bytes[f] <= quota[f]

\* The files of uploads that are not counted yet.
Uncounted == {f \in Files : up[f] \in {"writing", "written"}}

Pruning == mgr.step \in {"attachments", "messages", "attachments_sized", "messages_sized"}

\* The total is the size of the directory but for the upload that is not counted yet and
\* the files that were just removed, and what is left of the limit covers that upload.
TotalOK ==
  /\ total <= TotalLimit
  /\ Pruning => DirSize <= total
  /\ ~Pruning /\ Uncounted = {} => DirSize = total
  /\ \A f \in Uncounted : DirSize = total + bytes[f] /\ total + quota[f] <= TotalLimit
  /\ mgr.step \in {"attachments_sized", "messages_sized"} => sized = DirSize

\* What the visitor of an upload uses leaves room for it.
UsageOK ==
  /\ \A v \in Visitors : BytesUsed(v) <= VisitorLimit
  /\ \A f \in Uploading : BytesUsed(Owner[f]) + quota[f] <= VisitorLimit

\* The messages to be marked have not been marked or deleted.
MarksLive ==
  mgr.step \in {"attachments", "attachments_sized", "mark_attachments"} =>
    \A f \in mgr.ids : row[f] = "live"

LimitsInv == Turns /\ QuotaOK /\ MarksLive /\ (mixed = "no" => TotalOK /\ UsageOK)

\* The directory and what a visitor uses are finite, and their sizes natural numbers.
SizesOK ==
  /\ IsFiniteSet(files) /\ (\A f \in files : bytes[f] \in Nat) /\ DirSize \in Nat
  /\ \A v : /\ IsFiniteSet(UsedBy(v)) /\ (\A f \in UsedBy(v) : size[f] \in Nat)
            /\ BytesUsed(v) \in Nat

\* They are, by the types.
LEMMA SizesTyped == IInv => SizesOK
<1> SUFFICES ASSUME IInv PROVE SizesOK
  OBVIOUS
<1>1. files \in SUBSET Files /\ (\A f \in files : bytes[f] \in Nat) BY DEF IInv, Typed
<1>2. IsFiniteSet(files) BY <1>1, FS_Subset, FileCacheAssumption
<1>3. DirSize \in Nat BY <1>1, <1>2, SumNat DEF DirSize
<1>4. ASSUME NEW v
      PROVE  IsFiniteSet(UsedBy(v)) /\ (\A f \in UsedBy(v) : size[f] \in Nat) /\ BytesUsed(v) \in Nat
  <2>1. UsedBy(v) \in SUBSET Files /\ (\A f \in UsedBy(v) : size[f] \in Nat) BY DEF IInv, Typed, UsedBy
  <2>2. IsFiniteSet(UsedBy(v)) BY <2>1, FS_Subset, FileCacheAssumption
  <2>3. BytesUsed(v) \in Nat BY <2>1, <2>2, SumNat DEF BytesUsed
  <2> QED BY <2>1, <2>2, <2>3
<1> QED BY <1>1, <1>2, <1>3, <1>4 DEF SizesOK

\* A visitor of whose messages none is new uses no more than before.
LEMMA UsageLess ==
  ASSUME IInv, NEW v, UsedBy(v)' \subseteq UsedBy(v), \A f \in UsedBy(v)' : size'[f] = size[f]
  PROVE  BytesUsed(v)' <= BytesUsed(v)
<1> DEFINE U == UsedBy(v)'
<1>1. IsFiniteSet(UsedBy(v)) /\ (\A f \in UsedBy(v) : size[f] \in Nat) BY SizesTyped DEF SizesOK
<1>2. U \in SUBSET UsedBy(v) OBVIOUS
<1>3. IsFiniteSet(U) /\ (\A f \in U : size[f] \in Int) BY <1>1, <1>2, FS_Subset, SMTT(30)
<1>4. SumFunctionOnSet(size, U) = SumFunctionOnSet(size', U) BY <1>3, SumSame
<1>5. SumFunctionOnSet(size, U) <= SumFunctionOnSet(size, UsedBy(v)) BY <1>1, <1>2, SumSubset
<1>6. BytesUsed(v)' = SumFunctionOnSet(size', U) BY DEF BytesUsed
<1> QED BY <1>4, <1>5, <1>6 DEF BytesUsed

\* Uploads and the manager go on taking turns unless one of them begins.
LEMMA TurnsKept ==
  ASSUME Turns, mixed' = "no" => mixed = "no", Uploading' \subseteq Uploading,
         mgr'.step # "idle" => mgr.step # "idle" \/ (mixed' = "no" => Uploading' = {})
  PROVE  Turns'
BY DEF Turns

\* Usage stays within its limits when neither it nor a quota grows.
LEMMA UsageKept ==
  ASSUME IInv, IInv', QuotaOK, QuotaOK', UsageOK, Uploading' \subseteq Uploading,
         \A f \in Files : f \in Uploading' => quota'[f] <= quota[f],
         \A v : UsedBy(v)' \subseteq UsedBy(v),
         \A v : \A f \in UsedBy(v)' : size'[f] = size[f]
  PROVE  UsageOK'
<1>1. \A v : BytesUsed(v)' <= BytesUsed(v) BY UsageLess
<1>2. \A v : BytesUsed(v) \in Nat BY SizesTyped DEF SizesOK
<1>p. SizesOK' BY SizesTyped, PTL
<1>3. \A v : BytesUsed(v)' \in Nat BY <1>p DEF SizesOK
<1>4. \A f \in Files : quota[f] \in Nat /\ quota'[f] \in Nat BY DEF QuotaOK
<1>5. Uploading' \subseteq Files BY DEF Uploading
<1>6. \A v \in Visitors : BytesUsed(v)' <= VisitorLimit
  BY <1>1, <1>2, <1>3, FileCacheAssumption, SMTT(30) DEF UsageOK
<1>7. ASSUME NEW f \in Uploading' PROVE BytesUsed(Owner[f])' + quota'[f] <= VisitorLimit
  <2>1. BytesUsed(Owner[f]) + quota[f] <= VisitorLimit BY <1>7 DEF UsageOK
  <2>2. BytesUsed(Owner[f])' <= BytesUsed(Owner[f]) /\ quota'[f] <= quota[f] BY <1>1, <1>5, <1>7
  <2>3. /\ BytesUsed(Owner[f])' \in Nat /\ BytesUsed(Owner[f]) \in Nat
        /\ quota'[f] \in Nat /\ quota[f] \in Nat
    BY <1>2, <1>3, <1>4, <1>5, <1>7
  <2> QED BY <2>1, <2>2, <2>3, FileCacheAssumption, SMTT(30)
<1> QED BY <1>6, <1>7 DEF UsageOK

\* What the limiters let through is a natural number within both limits.
LEMMA Minimum ==
  ASSUME NEW l \in Nat, NEW n \in Nat, NEW used \in Nat
  PROVE  LET q == MinOf(l, ZeroIfNegative(n - used))
         IN q \in Nat /\ q <= l /\ (used <= n => used + q <= n)
BY SMTT(30) DEF MinOf, ZeroIfNegative

\* The check of an upload.
LEMMA CheckLimits ==
  ASSUME IInv, IInv', LimitsInv, NEW f \in Files, Check(f)
  PROVE  LimitsInv'
<1> DEFINE q == MinOf(FileLimit, ZeroIfNegative(VisitorLimit - BytesUsed(Owner[f])))
<1>1. /\ up[f] = "new" /\ up' = [up EXCEPT ![f] = "checked"]
      /\ born' = [born EXCEPT ![f] = now] /\ quota' = [quota EXCEPT ![f] = q]
  BY DEF Check
<1>2. UNCHANGED <<now, files, bytes, total, row, size, mgr, sized, crashes>>
  BY DEF Check, dir, table
<1>3. mixed' = "no" => mixed = "no" /\ Uploading = {} /\ mgr.step = "idle"
  BY DEF Check
<1>4. row[f] = "none" /\ bytes[f] = 0 /\ f \notin files
  BY <1>1 DEF IInv, Stages, LimitsInv, QuotaOK
<1>5. SizesOK /\ SizesOK' BY SizesTyped, PTL
<1>6. q \in Nat /\ (BytesUsed(Owner[f]) <= VisitorLimit => BytesUsed(Owner[f]) + q <= VisitorLimit)
  <2>1. BytesUsed(Owner[f]) \in Nat /\ FileLimit \in Nat /\ VisitorLimit \in Nat
    BY <1>5, FileCacheAssumption DEF SizesOK
  <2> QED BY <2>1, Minimum
<1> HIDE DEF q
<1>7. /\ \A g \in Files : g # f => up'[g] = up[g] /\ quota'[g] = quota[g] /\ born'[g] = born[g]
      /\ up'[f] = "checked" /\ quota'[f] = q
  BY <1>1, SMTT(30) DEF IInv, Typed, LimitsInv, QuotaOK
<1>8. QuotaOK'
  BY <1>1, <1>2, <1>4, <1>6, <1>7 DEF LimitsInv, QuotaOK
<1>9. Uploading = {} => Uploading' = {f}
  BY <1>1, <1>7 DEF Uploading
<1>10. Turns'
  BY <1>2, <1>3, <1>9 DEF Turns
<1>11. MarksLive'
  BY <1>2 DEF LimitsInv, MarksLive
<1>12. ASSUME mixed' = "no" PROVE TotalOK'
  <2>1. Uncounted' = Uncounted BY <1>1, <1>7 DEF Uncounted
  <2>2. Uncounted = {} BY <1>3, <1>12 DEF Uncounted, Uploading
  <2>3. DirSize' = DirSize /\ (Pruning' <=> Pruning) BY <1>2 DEF DirSize, Pruning
  <2>4. TotalOK BY <1>3, <1>12 DEF LimitsInv
  <2> QED BY <1>2, <2>1, <2>2, <2>3, <2>4 DEF TotalOK
<1>13. ASSUME mixed' = "no" PROVE UsageOK'
  <2>1. UsageOK /\ Uploading' = {f} BY <1>3, <1>9, <1>13 DEF LimitsInv
  <2>2. \A v : UsedBy(v)' = UsedBy(v) BY <1>2, <1>4, <1>7 DEF UsedBy
  <2>3. \A v : BytesUsed(v)' = BytesUsed(v) BY <1>2, <2>2 DEF BytesUsed
  <2>4. Owner[f] \in Visitors BY FileCacheAssumption
  <2>5. BytesUsed(Owner[f])' + quota'[f] <= VisitorLimit
    BY <1>6, <1>7, <2>1, <2>3, <2>4 DEF UsageOK
  <2> QED BY <2>1, <2>3, <2>5 DEF UsageOK
<1> QED BY <1>8, <1>10, <1>11, <1>12, <1>13 DEF LimitsInv

\* The total stays right when neither it nor the directory changes.
LEMMA TotalKept ==
  ASSUME TotalOK, UNCHANGED <<files, bytes, total, sized>>, mgr'.step = mgr.step, Uncounted' = Uncounted,
         \A g \in Uncounted : quota'[g] = quota[g]
  PROVE  TotalOK'
<1>1. DirSize' = DirSize BY DEF DirSize
<1>2. Pruning' <=> Pruning BY DEF Pruning
<1>3. \A g \in Uncounted' : DirSize' = total' + bytes'[g] /\ total' + quota'[g] <= TotalLimit
  BY <1>1 DEF TotalOK
<1> QED BY <1>1, <1>2, <1>3 DEF TotalOK

\* While uploads and the manager take turns, an upload that is under way is the only one,
\* and the manager is idle.
LEMMA Alone ==
  ASSUME LimitsInv, mixed = "no", NEW f \in Uploading
  PROVE  /\ Uploading = {f} /\ mgr.step = "idle" /\ ~Pruning
         /\ Uncounted = {g \in {f} : up[g] \in {"writing", "written"}}
<1>1. Uploading = {f} /\ mgr.step = "idle" BY DEF LimitsInv, Turns
<1>2. Uncounted \subseteq Uploading BY DEF Uncounted, Uploading
<1>3. f \in Files BY DEF Uploading
<1>4. Uncounted = {g \in {f} : up[g] \in {"writing", "written"}} BY <1>1, <1>2, <1>3 DEF Uncounted
<1> QED BY <1>1, <1>4 DEF Pruning

\* An upload is refused or its file closed.
LEMMA StageLimits ==
  ASSUME IInv, IInv', LimitsInv, NEW f \in Files, Refuse(f) \/ Close(f)
  PROVE  LimitsInv'
<1>1. /\ \/ up[f] = "checked" /\ up' = [up EXCEPT ![f] = "ended"]
         \/ up[f] = "writing" /\ up' = [up EXCEPT ![f] = "written"]
      /\ UNCHANGED <<now, quota, born, files, bytes, total, row, size, mgr, sized, mixed>>
  BY DEF Refuse, Close, dir, table
<1>2. \A g \in Files : \/ up'[g] = up[g]
                       \/ up[g] = "checked" /\ up'[g] = "ended"
                       \/ up[g] = "writing" /\ up'[g] = "written"
  BY <1>1 DEF IInv, Typed
<1>3. Uncounted' = Uncounted /\ Uploading' \subseteq Uploading BY <1>2 DEF Uncounted, Uploading
<1>4. QuotaOK' BY <1>1, <1>2 DEF LimitsInv, QuotaOK
<1>5. Turns' BY <1>1, <1>3, TurnsKept DEF LimitsInv
<1>6. MarksLive' BY <1>1 DEF LimitsInv, MarksLive
<1>7. TotalOK => TotalOK' BY <1>1, <1>3, TotalKept
<1>8. (\A v : UsedBy(v)' = UsedBy(v)) /\ \A g \in Files : quota[g] <= quota[g]
  BY <1>1, SMTT(30) DEF UsedBy, LimitsInv, QuotaOK
<1>9. UsageOK => UsageOK' BY <1>1, <1>3, <1>4, <1>8, UsageKept DEF LimitsInv
<1> QED BY <1>1, <1>4, <1>5, <1>6, <1>7, <1>9 DEF LimitsInv

\* The file of an upload is created, with no bytes.
LEMMA OpenLimits ==
  ASSUME IInv, IInv', LimitsInv, NEW f \in Files, Open(f)
  PROVE  LimitsInv'
<1> DEFINE q == MinOf(quota[f], ZeroIfNegative(TotalLimit - total))
<1>1. /\ up[f] = "checked" /\ up' = [up EXCEPT ![f] = "writing"]
      /\ files' = files \cup {f} /\ quota' = [quota EXCEPT ![f] = q]
  BY DEF Open
<1>2. UNCHANGED <<now, born, bytes, total, row, size, mgr, sized, mixed>> BY DEF Open, table
<1>3. f \in Uploading /\ bytes[f] = 0 /\ f \notin files /\ quota[f] \in Nat
  BY <1>1 DEF Uploading, LimitsInv, QuotaOK
<1>4. total \in Nat => q \in Nat /\ q <= quota[f] /\ (total <= TotalLimit => total + q <= TotalLimit)
  BY <1>3, FileCacheAssumption, Minimum
<1>t. total \in Nat BY DEF LimitsInv, QuotaOK
<1> HIDE DEF q
<1>5. /\ \A g \in Files : g # f => up'[g] = up[g] /\ quota'[g] = quota[g]
      /\ up'[f] = "writing" /\ quota'[f] = q
  BY <1>1, SMTT(30) DEF IInv, Typed, LimitsInv, QuotaOK
<1>6. Uploading' = Uploading BY <1>3, <1>5 DEF Uploading
<1>7. QuotaOK' BY <1>1, <1>2, <1>3, <1>4, <1>t, <1>5, SMTT(30) DEF LimitsInv, QuotaOK
<1>8. Turns' BY <1>2, <1>6, TurnsKept DEF LimitsInv
<1>9. MarksLive' BY <1>2 DEF LimitsInv, MarksLive
<1>10. DirSize' = DirSize
  <2>1. SizesOK /\ SizesOK' BY SizesTyped, PTL
  <2>2. IsFiniteSet(files') /\ (\A x \in files' : bytes'[x] \in Int) BY <2>1, SMTT(30) DEF SizesOK
  <2>3. SumFunctionOnSet(bytes', files') = bytes'[f] + SumFunctionOnSet(bytes', files' \ {f})
    BY <1>1, <2>2, SumRemove, SMTT(30)
  <2>4. files' \ {f} = files /\ bytes' = bytes BY <1>1, <1>2, <1>3
  <2>5. DirSize \in Nat BY <2>1 DEF SizesOK
  <2> QED BY <1>3, <2>3, <2>4, <2>5, SMTT(30) DEF DirSize
<1>11. ASSUME mixed' = "no" PROVE TotalOK'
  <2>1. mixed = "no" /\ TotalOK BY <1>2, <1>11 DEF LimitsInv
  <2>2. mgr.step = "idle" /\ ~Pruning /\ Uncounted = {} BY <1>1, <1>3, <2>1, Alone
  <2>3. ~Pruning' /\ mgr'.step = "idle" BY <1>2, <2>2 DEF Pruning
  <2>4. DirSize = total /\ total <= TotalLimit BY <2>1, <2>2 DEF TotalOK
  <2>5. Uncounted' \subseteq {f} BY <1>5, <2>2 DEF Uncounted
  <2>6. f \in Uncounted' BY <1>5 DEF Uncounted
  <2>7. DirSize' = total' + bytes'[f] /\ total' + quota'[f] <= TotalLimit /\ total' <= TotalLimit
    BY <1>2, <1>3, <1>4, <1>t, <1>5, <1>10, <2>4, SMTT(30)
  <2>8. \A g \in Uncounted' : DirSize' = total' + bytes'[g] /\ total' + quota'[g] <= TotalLimit
    BY <2>5, <2>7
  <2> QED BY <2>3, <2>6, <2>7, <2>8 DEF TotalOK
<1>12. \A v : UsedBy(v)' = UsedBy(v) BY <1>2 DEF UsedBy
<1>13. \A g \in Files : quota'[g] <= quota[g] BY <1>4, <1>t, <1>5, SMTT(30) DEF LimitsInv, QuotaOK
<1>14. UsageOK => UsageOK' BY <1>2, <1>6, <1>7, <1>12, <1>13, UsageKept DEF LimitsInv
<1> QED BY <1>2, <1>7, <1>8, <1>9, <1>11, <1>14 DEF LimitsInv

\* Some bytes are written.
LEMMA CopyLimits ==
  ASSUME IInv, IInv', LimitsInv, NEW f \in Files, Copy(f)
  PROVE  LimitsInv'
<1>1. up[f] = "writing" /\ bytes[f] < quota[f] /\ bytes' = [bytes EXCEPT ![f] = @ + 1]
  BY DEF Copy
<1>2. UNCHANGED <<now, up, born, quota, files, total, row, size, mgr, sized, mixed>>
  BY DEF Copy, upload, table
<1>3. f \in Uploading /\ f \in Uncounted BY <1>1 DEF Uploading, Uncounted
<1>4. /\ \A g \in Files : bytes[g] \in Nat /\ bytes'[g] \in Nat /\ (g # f => bytes'[g] = bytes[g])
      /\ bytes'[f] = bytes[f] + 1 /\ f \in files /\ files \subseteq Files
  BY <1>1 DEF IInv, Typed, Stages
<1>5. Uploading' = Uploading /\ Uncounted' = Uncounted BY <1>2 DEF Uploading, Uncounted
<1>6. QuotaOK' BY <1>1, <1>2, <1>4, SMTT(30) DEF LimitsInv, QuotaOK
<1>7. Turns' BY <1>2, <1>5, TurnsKept DEF LimitsInv
<1>8. MarksLive' BY <1>2 DEF LimitsInv, MarksLive
<1>9. DirSize' = DirSize + 1
  <2>1. SizesOK BY SizesTyped
  <2>2. IsFiniteSet(files) /\ (\A x \in files : bytes[x] \in Int) /\ (\A x \in files : bytes'[x] \in Int)
    BY <1>4, <2>1, SMTT(30) DEF SizesOK
  <2>3. \A x \in files \ {f} : bytes[x] = bytes'[x] BY <1>4
  <2>4. SumFunctionOnSet(bytes', files) = SumFunctionOnSet(bytes, files) + (bytes'[f] - bytes[f])
    BY <1>4, <2>2, <2>3, SumChange, SMTT(30)
  <2>5. DirSize \in Nat BY <2>1 DEF SizesOK
  <2> QED BY <1>2, <1>4, <2>4, <2>5, SMTT(30) DEF DirSize
<1>10. ASSUME mixed' = "no" PROVE TotalOK'
  <2>1. mixed = "no" /\ TotalOK BY <1>2, <1>10 DEF LimitsInv
  <2>2. mgr.step = "idle" /\ ~Pruning /\ Uncounted = {f} BY <1>1, <1>3, <2>1, Alone
  <2>3. ~Pruning' /\ mgr'.step = "idle" BY <1>2, <2>2 DEF Pruning
  <2>4. DirSize = total + bytes[f] /\ total + quota[f] <= TotalLimit /\ total <= TotalLimit
    BY <1>3, <2>1 DEF TotalOK
  <2>5. total \in Nat BY DEF LimitsInv, QuotaOK
  <2>6. DirSize' = total' + bytes'[f] /\ total' + quota'[f] <= TotalLimit /\ total' <= TotalLimit
    BY <1>2, <1>4, <1>9, <2>4, <2>5, SMTT(30)
  <2> QED BY <1>5, <2>2, <2>3, <2>6 DEF TotalOK
<1>11. (\A v : UsedBy(v)' = UsedBy(v)) /\ \A g \in Files : quota[g] <= quota[g]
  BY <1>2, SMTT(30) DEF UsedBy, LimitsInv, QuotaOK
<1>12. UsageOK => UsageOK' BY <1>2, <1>5, <1>6, <1>11, UsageKept DEF LimitsInv
<1> QED BY <1>2, <1>6, <1>7, <1>8, <1>10, <1>12 DEF LimitsInv

\* An upload is aborted and its file removed, or the total grows by its size.
LEMMA AbortCountLimits ==
  ASSUME IInv, IInv', LimitsInv, NEW f \in Files, Abort(f) \/ Count(f)
  PROVE  LimitsInv'
<1>1. /\ f \in Uncounted
      /\ up' = [up EXCEPT ![f] = "ended"] \/ up' = [up EXCEPT ![f] = "counted"]
      /\ UNCHANGED <<now, quota, born, bytes, row, size, mgr, sized>>
  BY DEF Abort, Count, dir, table, Uncounted
<1>2. /\ files' \subseteq files
      /\ mixed' = "no" => mixed = "no"
      /\ mixed' = "no" => \/ files' = files \ {f} /\ total' = total
                          \/ files' = files /\ total' = total + bytes[f]
      /\ total' \in {total, total + bytes[f]}
  BY DEF Abort, Count, dir, table
<1>3. f \in Uploading BY <1>1 DEF Uploading, Uncounted
<1>4. /\ \A g \in Files : g # f => up'[g] = up[g]
      /\ up'[f] \in {"counted", "ended"} /\ bytes[f] \in Nat
  BY <1>1 DEF IInv, Typed
<1>5. Uploading' \subseteq Uploading BY <1>3, <1>4 DEF Uploading
<1>6. QuotaOK'
  <2>1. total' \in Nat BY <1>2, <1>4, SMTT(30) DEF LimitsInv, QuotaOK
  <2> QED BY <1>1, <1>2, <1>4, <2>1 DEF LimitsInv, QuotaOK, Uncounted
<1>7. Turns' BY <1>1, <1>2, <1>5, TurnsKept DEF LimitsInv
<1>8. MarksLive' BY <1>1 DEF LimitsInv, MarksLive
<1>9. ASSUME mixed' = "no" PROVE TotalOK'
  <2>1. mixed = "no" /\ TotalOK BY <1>2, <1>9 DEF LimitsInv
  <2>2. mgr.step = "idle" /\ ~Pruning /\ Uncounted \subseteq {f} BY <1>3, <2>1, Alone
  <2>3. ~Pruning' /\ mgr'.step = "idle" BY <1>1, <2>2 DEF Pruning
  <2>4. DirSize = total + bytes[f] /\ total + quota[f] <= TotalLimit /\ total <= TotalLimit
    BY <1>1, <2>1 DEF TotalOK
  <2>5. total \in Nat /\ bytes[f] <= quota[f] /\ quota[f] \in Nat BY <1>1 DEF LimitsInv, QuotaOK,
                              Uncounted
  <2>6. Uncounted' = {} BY <1>4, <2>2, SMTT(30) DEF Uncounted
  <2>7. DirSize' = total'
    <3>1. CASE files' = files /\ total' = total + bytes[f]
      BY <1>1, <2>4, <3>1 DEF DirSize
    <3>2. CASE files' = files \ {f} /\ total' = total
      <4>1. SizesOK /\ SizesOK' BY SizesTyped, PTL
      <4>2. f \in files BY <1>1 DEF IInv, Stages, Uncounted
      <4>3. IsFiniteSet(files) /\ (\A x \in files : bytes[x] \in Int) BY <4>1, SMTT(30) DEF SizesOK
      <4>4. SumFunctionOnSet(bytes, files) = bytes[f] + SumFunctionOnSet(bytes, files \ {f})
        BY <4>2, <4>3, SumRemove
      <4>5. DirSize = bytes[f] + DirSize' BY <1>1, <3>2, <4>4 DEF DirSize
      <4>6. DirSize' \in Nat BY <4>1 DEF SizesOK
      <4> QED BY <1>4, <2>4, <2>5, <3>2, <4>5, <4>6, SMTT(30)
    <3> QED BY <1>2, <1>9, <3>1, <3>2
  <2>8. total' <= TotalLimit BY <1>2, <1>4, <1>9, <2>4, <2>5, FileCacheAssumption, SMTT(30)
  <2> QED BY <2>3, <2>6, <2>7, <2>8 DEF TotalOK
<1>10. (\A v : UsedBy(v)' = UsedBy(v)) /\ \A g \in Files : quota[g] <= quota[g]
  BY <1>1, SMTT(30) DEF UsedBy, LimitsInv, QuotaOK
<1>11. UsageOK => UsageOK' BY <1>1, <1>5, <1>6, <1>10, UsageKept DEF LimitsInv
<1> QED BY <1>2, <1>6, <1>7, <1>8, <1>9, <1>11 DEF LimitsInv

\* The message of an upload is inserted: it adds what the quota left room for.
LEMMA AddMessageLimits ==
  ASSUME IInv, IInv', LimitsInv, NEW f \in Files, AddMessage(f)
  PROVE  LimitsInv'
<1>1. /\ up[f] = "counted" /\ up' = [up EXCEPT ![f] = "ended"]
      /\ UNCHANGED <<now, quota, born, files, bytes, total, mgr, sized, mixed>>
      /\ \/ row' = [row EXCEPT ![f] = "live"] /\ size' = [size EXCEPT ![f] = bytes[f]]
         \/ row' = row /\ size' = size
  BY DEF AddMessage, dir, table
<1>2. f \in Uploading /\ row[f] = "none" BY <1>1 DEF Uploading, IInv, Stages
<1>3. /\ \A g \in Files : g # f => up'[g] = up[g] /\ row'[g] = row[g] /\ size'[g] = size[g]
      /\ up'[f] = "ended" /\ (row'[f] # "none" => size'[f] = bytes[f])
  BY <1>1, <1>2, SMTT(30) DEF IInv, Typed
<1>4. f \notin mgr.ids /\ mgr.ids \subseteq Files BY <1>2 DEF IInv, ManagerOK, Typed
<1>5. Uploading' \subseteq Uploading \ {f} /\ Uncounted' = Uncounted
  BY <1>1, <1>3 DEF Uploading, Uncounted
<1>6. QuotaOK' BY <1>1, <1>3 DEF LimitsInv, QuotaOK
<1>7. Turns' BY <1>1, <1>5, TurnsKept DEF LimitsInv
<1>8. MarksLive'
  <2>1. mgr' = mgr /\ \A g \in mgr.ids : row'[g] = row[g] BY <1>1, <1>3, <1>4
  <2> QED BY <2>1 DEF LimitsInv, MarksLive
<1>9. TotalOK => TotalOK' BY <1>1, <1>5, TotalKept
<1>10. ASSUME mixed' = "no" PROVE UsageOK'
  <2>1. mixed = "no" /\ UsageOK BY <1>1, <1>10 DEF LimitsInv
  <2>2. Uploading' = {} BY <1>2, <1>5, <2>1, Alone
  <2>3. SizesOK /\ SizesOK' BY SizesTyped, PTL
  <2>4. ASSUME NEW v \in Visitors PROVE BytesUsed(v)' <= VisitorLimit
    <3>1. BytesUsed(v) <= VisitorLimit /\ BytesUsed(v) \in Nat /\ BytesUsed(v)' \in Nat
      BY <2>1, <2>3 DEF UsageOK, SizesOK
    <3>2. CASE f \notin UsedBy(v)'
      <4>1. UsedBy(v)' \subseteq UsedBy(v) BY <1>1, <1>3, <3>2 DEF UsedBy
      <4>2. \A g \in UsedBy(v)' : size'[g] = size[g] BY <1>3, <3>2 DEF UsedBy
      <4>3. BytesUsed(v)' <= BytesUsed(v) BY <4>1, <4>2, UsageLess
      <4> QED BY <3>1, <4>3, FileCacheAssumption, SMTT(30)
    <3>3. CASE f \in UsedBy(v)'
      <4>1. Owner[f] = v /\ size'[f] = bytes[f] /\ UsedBy(v)' \ {f} = UsedBy(v)
        BY <1>1, <1>2, <1>3, <3>3 DEF UsedBy
      <4>2. IsFiniteSet(UsedBy(v)') /\ (\A x \in UsedBy(v)' : size'[x] \in Int)
        BY <2>3, SMTT(30) DEF SizesOK
      <4> DEFINE U == UsedBy(v)'
      <4>3. SumFunctionOnSet(size', U) = size'[f] + SumFunctionOnSet(size', U \ {f})
        BY <3>3, <4>2, SumRemove
      <4>4. IsFiniteSet(UsedBy(v)) /\ (\A x \in UsedBy(v) : size[x] \in Int)
        BY <2>3, SMTT(30) DEF SizesOK
      <4>5. \A x \in UsedBy(v) : size[x] = size'[x] BY <1>2, <1>3 DEF UsedBy
      <4>6. SumFunctionOnSet(size, UsedBy(v)) = SumFunctionOnSet(size', UsedBy(v))
        BY <4>4, <4>5, SumSame
      <4>7. BytesUsed(v)' = bytes[f] + BytesUsed(v) BY <4>1, <4>3, <4>6 DEF BytesUsed
      <4>8. BytesUsed(v) + quota[f] <= VisitorLimit BY <1>2, <2>1, <4>1 DEF UsageOK
      <4>9. bytes[f] <= quota[f] /\ quota[f] \in Nat /\ bytes[f] \in Nat
        BY <1>1 DEF LimitsInv, QuotaOK, IInv, Typed
      <4> QED BY <3>1, <4>7, <4>8, <4>9, FileCacheAssumption, SMTT(30)
    <3> QED BY <3>2, <3>3
  <2> QED BY <2>2, <2>4 DEF UsageOK
<1> QED BY <1>1, <1>6, <1>7, <1>8, <1>9, <1>10 DEF LimitsInv

\* The manager selects what has expired.
LEMMA SelectLimits ==
  ASSUME IInv, IInv', LimitsInv, AttachmentsExpired \/ MessagesExpired
  PROVE  LimitsInv'
<1>1. /\ UNCHANGED <<now, up, quota, born, files, bytes, total, row, size, sized>>
      /\ mgr.step = "idle"
      /\ mixed' = "no" => mixed = "no" /\ Uploading = {}
  BY DEF AttachmentsExpired, MessagesExpired, upload, dir, table
<1>2. \/ mgr'.step = "attachments" /\ \A f \in mgr'.ids : row[f] = "live"
      \/ mgr'.step = "messages"
  BY SMTT(30) DEF AttachmentsExpired, MessagesExpired
<1>3. QuotaOK' BY <1>1 DEF LimitsInv, QuotaOK
<1>4. Uploading' = Uploading BY <1>1 DEF Uploading
<1>5. Turns' BY <1>1, <1>4, TurnsKept DEF LimitsInv
<1>6. MarksLive' BY <1>1, <1>2 DEF MarksLive
<1>7. ASSUME mixed' = "no" PROVE TotalOK'
  <2>1. TotalOK /\ Uncounted = {} /\ Uncounted' = {} BY <1>1, <1>7 DEF LimitsInv, Uncounted, Uploading
  <2>2. ~Pruning BY <1>1 DEF Pruning
  <2>3. DirSize = total /\ total <= TotalLimit BY <2>1, <2>2 DEF TotalOK
  <2>4. Pruning' /\ mgr'.step \notin {"attachments_sized", "messages_sized"} BY <1>2 DEF Pruning
  <2>5. DirSize' = DirSize /\ total' = total BY <1>1 DEF DirSize
  <2>6. total \in Nat BY DEF LimitsInv, QuotaOK
  <2>7. DirSize' <= total' /\ total' <= TotalLimit BY <2>3, <2>5, <2>6, SMTT(30)
  <2> QED BY <2>1, <2>4, <2>7 DEF TotalOK
<1>8. (\A v : UsedBy(v)' = UsedBy(v)) /\ \A g \in Files : quota[g] <= quota[g]
  BY <1>1, SMTT(30) DEF UsedBy, LimitsInv, QuotaOK
<1>9. UsageOK => UsageOK' BY <1>1, <1>3, <1>4, <1>8, UsageKept DEF LimitsInv
<1> QED BY <1>1, <1>3, <1>5, <1>6, <1>7, <1>9 DEF LimitsInv

\* The manager removes a file, which makes the directory no larger.
LEMMA RemoveLimits ==
  ASSUME IInv, IInv', LimitsInv, NEW f \in Files, RemoveFile(f)
  PROVE  LimitsInv'
<1>1. /\ f \in mgr.left /\ mgr' = [mgr EXCEPT !.left = @ \ {f}] /\ files' \in SUBSET files
      /\ UNCHANGED <<now, up, quota, born, bytes, total, row, size, sized, mixed>>
  BY DEF RemoveFile, upload, table
<1>2. mgr'.step = mgr.step /\ mgr'.ids = mgr.ids BY <1>1 DEF IInv, Typed
<1>3. mgr.step \in {"attachments", "messages"} BY <1>1 DEF IInv, ManagerOK
<1>4. QuotaOK' BY <1>1 DEF LimitsInv, QuotaOK
<1>5. Uploading' = Uploading /\ Uncounted' = Uncounted BY <1>1 DEF Uploading, Uncounted
<1>6. Turns' BY <1>1, <1>2, <1>5, TurnsKept DEF LimitsInv
<1>7. MarksLive' BY <1>1, <1>2 DEF LimitsInv, MarksLive
<1>8. SizesOK /\ SizesOK' BY SizesTyped, PTL
<1>9. DirSize' <= DirSize
  <2>1. IsFiniteSet(files) /\ (\A x \in files : bytes[x] \in Nat) BY <1>8 DEF SizesOK
  <2>2. SumFunctionOnSet(bytes, files') <= SumFunctionOnSet(bytes, files) BY <1>1, <2>1, SumSubset
  <2> QED BY <1>1, <2>2 DEF DirSize
<1>10. ASSUME mixed' = "no" PROVE TotalOK'
  <2>1. mixed = "no" /\ TotalOK /\ mgr.step # "idle" BY <1>1, <1>3, <1>10 DEF LimitsInv
  <2>2. Uncounted' = {} BY <1>5, <2>1 DEF LimitsInv, Turns, Uncounted, Uploading
  <2>3. Pruning /\ Pruning' BY <1>2, <1>3 DEF Pruning
  <2>4. DirSize <= total /\ total <= TotalLimit BY <2>1, <2>3 DEF TotalOK
  <2>5. mgr'.step \notin {"attachments_sized", "messages_sized"} BY <1>2, <1>3
  <2>6. total \in Nat /\ DirSize \in Nat /\ DirSize' \in Nat BY <1>8 DEF SizesOK, LimitsInv, QuotaOK
  <2>7. DirSize' <= total' /\ total' <= TotalLimit BY <1>1, <1>9, <2>4, <2>6, SMTT(30)
  <2> QED BY <2>2, <2>3, <2>5, <2>7 DEF TotalOK
<1>11. (\A v : UsedBy(v)' = UsedBy(v)) /\ \A g \in Files : quota[g] <= quota[g]
  BY <1>1, SMTT(30) DEF UsedBy, LimitsInv, QuotaOK
<1>12. UsageOK => UsageOK' BY <1>1, <1>4, <1>5, <1>11, UsageKept DEF LimitsInv
<1> QED BY <1>1, <1>4, <1>6, <1>7, <1>10, <1>12 DEF LimitsInv

\* The manager reads the directory ...
LEMMA ReadLimits ==
  ASSUME IInv, IInv', LimitsInv, ReadDirSize
  PROVE  LimitsInv'
<1>1. UNCHANGED <<now, up, quota, born, files, bytes, total, row, size, mixed>> /\ sized' = DirSize
  BY DEF ReadDirSize, upload, dir, table
<1>2. SizesOK /\ total \in Nat BY SizesTyped DEF LimitsInv, QuotaOK
<1>3. mgr.step \in {"attachments", "messages"} /\ mgr' = [mgr EXCEPT !.step = Sized(mgr.step)]
  BY DEF ReadDirSize
<1>4. mgr'.ids = mgr.ids /\ mgr'.step = Sized(mgr.step) BY <1>3 DEF IInv, Typed
<1>d. DirSize \in Nat BY <1>2 DEF SizesOK
<1>5. QuotaOK' BY <1>1, <1>2, <1>d DEF LimitsInv, QuotaOK
<1>6. Uploading' = Uploading /\ Uncounted' = Uncounted BY <1>1 DEF Uploading, Uncounted
<1>7. Turns' BY <1>1, <1>3, <1>6, TurnsKept DEF LimitsInv
<1>8. MarksLive' BY <1>1, <1>3, <1>4, SMTT(30) DEF LimitsInv, MarksLive, Sized
<1>9. ASSUME mixed' = "no" PROVE TotalOK'
  <2>1. mixed = "no" /\ TotalOK BY <1>1, <1>9 DEF LimitsInv
  <2>2. Uncounted' = {} BY <1>3, <1>6, <2>1 DEF LimitsInv, Turns, Uncounted, Uploading
  <2>3. Pruning BY <1>3 DEF Pruning
  <2>4. DirSize <= total /\ total <= TotalLimit BY <2>1, <2>3 DEF TotalOK
  <2>5. DirSize' = DirSize BY <1>1 DEF DirSize
  <2>6. Pruning' BY <1>3, <1>4 DEF Pruning, Sized
  <2>7. DirSize' <= total' /\ total' <= TotalLimit /\ sized' = DirSize' BY <1>1, <2>4, <2>5
  <2> QED BY <2>2, <2>6, <2>7 DEF TotalOK
<1>10. (\A v : UsedBy(v)' = UsedBy(v)) /\ \A g \in Files : quota[g] <= quota[g]
  BY <1>1, SMTT(30) DEF UsedBy, LimitsInv, QuotaOK
<1>11. UsageOK => UsageOK' BY <1>1, <1>5, <1>6, <1>10, UsageKept DEF LimitsInv
<1> QED BY <1>1, <1>5, <1>7, <1>8, <1>9, <1>11 DEF LimitsInv

\* ... and sets the total to what it read.
LEMMA SetLimits ==
  ASSUME IInv, IInv', LimitsInv, SetTotal
  PROVE  LimitsInv'
<1>1. /\ UNCHANGED <<now, up, quota, born, files, bytes, row, size>> /\ sized' = 0
      /\ mixed' = "no" => mixed = "no" /\ total' = sized
      /\ total' = sized \/ total' = total
  BY DEF SetTotal, upload, dir, table
<1>2. SizesOK /\ total \in Nat /\ sized \in Nat BY SizesTyped DEF LimitsInv, QuotaOK
<1>3. /\ mgr.step \in {"attachments_sized", "messages_sized"}
      /\ mgr' = [mgr EXCEPT !.step = Marking(mgr.step)]
  BY DEF SetTotal
<1>4. mgr'.ids = mgr.ids /\ mgr'.step = Marking(mgr.step) BY <1>3 DEF IInv, Typed
<1>5. QuotaOK' BY <1>1, <1>2 DEF LimitsInv, QuotaOK
<1>6. Uploading' = Uploading /\ Uncounted' = Uncounted BY <1>1 DEF Uploading, Uncounted
<1>7. Turns' BY <1>1, <1>3, <1>6, TurnsKept DEF LimitsInv
<1>8. MarksLive' BY <1>1, <1>3, <1>4, SMTT(30) DEF LimitsInv, MarksLive, Marking
<1>9. ASSUME mixed' = "no" PROVE TotalOK'
  <2>1. mixed = "no" /\ TotalOK BY <1>1, <1>9 DEF LimitsInv
  <2>2. Uncounted' = {} BY <1>3, <1>6, <2>1 DEF LimitsInv, Turns, Uncounted, Uploading
  <2>3. Pruning BY <1>3 DEF Pruning
  <2>4. DirSize <= total /\ total <= TotalLimit /\ sized = DirSize BY <1>3, <2>1, <2>3 DEF TotalOK
  <2>5. DirSize' = DirSize /\ total' = DirSize BY <1>1, <1>9, <2>4 DEF DirSize
  <2>6. ~Pruning' /\ mgr'.step \notin {"attachments_sized", "messages_sized"}
    BY <1>3, <1>4, SMTT(30) DEF Pruning, Marking
  <2>7. DirSize' = total' /\ total' <= TotalLimit
    BY <1>2, <2>4, <2>5, FileCacheAssumption, SMTT(30)
  <2> QED BY <2>2, <2>6, <2>7 DEF TotalOK
<1>10. (\A v : UsedBy(v)' = UsedBy(v)) /\ \A g \in Files : quota[g] <= quota[g]
  BY <1>1, SMTT(30) DEF UsedBy, LimitsInv, QuotaOK
<1>11. UsageOK => UsageOK' BY <1>1, <1>5, <1>6, <1>10, UsageKept DEF LimitsInv
<1> QED BY <1>1, <1>5, <1>7, <1>8, <1>9, <1>11 DEF LimitsInv

\* The manager marks or deletes messages: their visitors use no more than before.
LEMMA MarkLimits ==
  ASSUME IInv, IInv', LimitsInv, MarkAttachmentsDeleted \/ DeleteMessages
  PROVE  LimitsInv'
<1>1. /\ UNCHANGED <<now, up, quota, born, files, bytes, total, size, sized, mixed>>
      /\ mgr' = Idle /\ mgr.step \in {"mark_attachments", "delete_messages"}
  BY DEF MarkAttachmentsDeleted, DeleteMessages, upload, dir
<1>2. mgr'.step = "idle" BY <1>1 DEF Idle
<1>3. \A f \in Files : row'[f] \in {"live", "deleted"} => row[f] \in {"live", "deleted"}
  BY DEF MarkAttachmentsDeleted, DeleteMessages, LimitsInv, MarksLive
<1>4. QuotaOK' BY <1>1 DEF LimitsInv, QuotaOK
<1>5. Uploading' = Uploading /\ Uncounted' = Uncounted BY <1>1 DEF Uploading, Uncounted
<1>6. Turns' BY <1>1, <1>2, <1>5, TurnsKept DEF LimitsInv
<1>7. MarksLive' BY <1>2 DEF MarksLive
<1>8. ASSUME mixed' = "no" PROVE TotalOK'
  <2>1. mixed = "no" /\ TotalOK BY <1>1, <1>8 DEF LimitsInv
  <2>2. Uncounted = {} BY <1>1, <2>1 DEF LimitsInv, Turns, Uncounted, Uploading
  <2>3. ~Pruning /\ ~Pruning' BY <1>1, <1>2 DEF Pruning
  <2>4. DirSize = total /\ total <= TotalLimit BY <2>1, <2>2, <2>3 DEF TotalOK
  <2>5. DirSize' = total' /\ total' <= TotalLimit BY <1>1, <2>4 DEF DirSize
  <2> QED BY <1>2, <1>5, <2>2, <2>3, <2>5 DEF TotalOK
<1>9. /\ \A v : UsedBy(v)' \subseteq UsedBy(v)
      /\ \A g \in Files : quota[g] <= quota[g]
  BY <1>1, <1>3, SMTT(30) DEF UsedBy, LimitsInv, QuotaOK
<1>10. UsageOK => UsageOK' BY <1>1, <1>4, <1>5, <1>9, UsageKept DEF LimitsInv
<1> QED BY <1>1, <1>4, <1>6, <1>7, <1>8, <1>10 DEF LimitsInv

\* As time passes, visitors use less.
LEMMA TickLimits ==
  ASSUME IInv, IInv', LimitsInv, Tick
  PROVE  LimitsInv'
<1>1. /\ now \in Nat /\ now' = now + 1
      /\ UNCHANGED <<up, quota, born, files, bytes, total, row, size, mgr, sized, mixed>>
  BY DEF Tick, upload, dir, table, IInv, Typed
<1>2. QuotaOK' BY <1>1 DEF LimitsInv, QuotaOK
<1>3. Uploading' = Uploading /\ Uncounted' = Uncounted BY <1>1 DEF Uploading, Uncounted
<1>4. Turns' BY <1>1, <1>3, TurnsKept DEF LimitsInv
<1>5. MarksLive' BY <1>1 DEF LimitsInv, MarksLive
<1>6. TotalOK => TotalOK' BY <1>1, <1>3, TotalKept
<1>7. \A f \in Files : born[f] \in Nat BY DEF IInv, Typed
<1>8. \A v : UsedBy(v)' \subseteq UsedBy(v) BY <1>1, <1>7, FileCacheAssumption, SMTT(30) DEF UsedBy
<1>9. \A g \in Files : quota[g] <= quota[g] BY SMTT(30) DEF LimitsInv, QuotaOK
<1>10. UsageOK => UsageOK' BY <1>1, <1>2, <1>3, <1>8, <1>9, UsageKept DEF LimitsInv
<1> QED BY <1>1, <1>2, <1>4, <1>5, <1>6, <1>10 DEF LimitsInv

\* The directory never exceeds its limit as long as the total is right.
LEMMA Within == IInv /\ QuotaOK /\ TotalOK => DirSize <= TotalLimit
<1> SUFFICES ASSUME IInv, QuotaOK, TotalOK PROVE DirSize <= TotalLimit
  OBVIOUS
<1>1. SizesOK BY SizesTyped
<1>2. DirSize \in Nat /\ total \in Nat /\ TotalLimit \in Nat /\ total <= TotalLimit
  BY <1>1, FileCacheAssumption DEF SizesOK, QuotaOK, TotalOK
<1>3. CASE Pruning \/ Uncounted = {}
  <2>1. DirSize <= total BY <1>2, <1>3, SMTT(30) DEF TotalOK
  <2> QED BY <1>2, <2>1, SMTT(30)
<1>4. CASE Uncounted # {}
  <2>1. PICK f \in Uncounted : TRUE BY <1>4
  <2>2. DirSize = total + bytes[f] /\ total + quota[f] <= TotalLimit BY <2>1 DEF TotalOK
  <2>3. bytes[f] <= quota[f] /\ bytes[f] \in Nat /\ quota[f] \in Nat
    BY <2>1 DEF Uncounted, QuotaOK, IInv, Typed
  <2> QED BY <1>2, <2>2, <2>3, SMTT(30)
<1> QED BY <1>3, <1>4

\* A crash ends what is under way, and the total is read from the directory.
LEMMA CrashLimits ==
  ASSUME IInv, IInv', LimitsInv, Crash
  PROVE  LimitsInv'
<1>1. /\ UNCHANGED <<now, quota, born, files, bytes, row, size, mixed>>
      /\ mgr' = Idle /\ sized' = 0 /\ total' = DirSize
      /\ up' = [f \in Files |-> IF f \in Uploading THEN "ended" ELSE up[f]]
  BY DEF Crash, dir, table
<1>2. mgr'.step = "idle" BY <1>1 DEF Idle
<1>3. \A f \in Files : up'[f] = "ended" \/ (up'[f] = "new" /\ up[f] = "new")
  BY <1>1 DEF IInv, Typed, Uploading
<1>4. SizesOK BY SizesTyped
<1>5. DirSize \in Nat BY <1>4 DEF SizesOK
<1>6. QuotaOK' BY <1>1, <1>3, <1>5 DEF LimitsInv, QuotaOK
<1>7. Uploading' = {} /\ Uncounted' = {} BY <1>3 DEF Uploading, Uncounted
<1>8. Turns' BY <1>2, <1>7 DEF Turns
<1>9. MarksLive' BY <1>2 DEF MarksLive
<1>10. ASSUME TotalOK PROVE TotalOK'
  <2>1. DirSize <= TotalLimit BY <1>10, Within DEF LimitsInv
  <2>2. DirSize' = total' /\ total' <= TotalLimit BY <1>1, <2>1 DEF DirSize
  <2>3. ~Pruning' BY <1>2 DEF Pruning
  <2> QED BY <1>2, <1>7, <2>2, <2>3 DEF TotalOK
<1>11. (\A v : UsedBy(v)' = UsedBy(v)) /\ \A g \in Files : quota[g] <= quota[g]
  BY <1>1, SMTT(30) DEF UsedBy, LimitsInv, QuotaOK
<1>12. UsageOK => UsageOK' BY <1>1, <1>6, <1>7, <1>11, UsageKept DEF LimitsInv
<1> QED BY <1>1, <1>6, <1>8, <1>9, <1>10, <1>12 DEF LimitsInv

\* Initially nothing is stored.
LEMMA InitLimits == Init => LimitsInv
<1> SUFFICES ASSUME Init PROVE LimitsInv
  OBVIOUS
<1>1. Uploading = {} /\ Uncounted = {} BY DEF Init, Uploading, Uncounted
<1>2. mgr.step = "idle" /\ ~Pruning BY DEF Init, Idle, Pruning
<1>3. Turns /\ MarksLive BY <1>1, <1>2 DEF Turns, MarksLive
<1>4. QuotaOK BY DEF Init, QuotaOK
<1>5. DirSize = 0 BY SumEmpty DEF Init, DirSize
<1>6. TotalOK BY <1>1, <1>2, <1>5, FileCacheAssumption, SMTT(30) DEF Init, TotalOK
<1>7. \A v : UsedBy(v) = {} BY DEF Init, UsedBy
<1>8. \A v : BytesUsed(v) = 0 BY <1>7, SumEmpty DEF BytesUsed
<1>9. UsageOK BY <1>1, <1>8, FileCacheAssumption, SMTT(30) DEF UsageOK
<1> QED BY <1>3, <1>4, <1>6, <1>9 DEF LimitsInv

\* Every step keeps the limits.
LEMMA LimitsInductive ==
  ASSUME IInv, IInv', LimitsInv, [Next]_vars
  PROVE  LimitsInv'
<1>1. ASSUME NEW f \in Files,
             Check(f) \/ Refuse(f) \/ Copy(f) \/ Abort(f) \/ Upload(f) \/ RemoveFile(f)
      PROVE  LimitsInv'
  BY <1>1, CheckLimits, StageLimits, OpenLimits, CopyLimits, AbortCountLimits, AddMessageLimits,
     RemoveLimits DEF Upload
<1>2. CASE AttachmentsExpired \/ MessagesExpired BY <1>2, SelectLimits
<1>3. CASE ReadDirSize \/ SetTotal BY <1>3, ReadLimits, SetLimits
<1>4. CASE MarkAttachmentsDeleted \/ DeleteMessages BY <1>4, MarkLimits
<1>5. CASE Tick \/ Crash BY <1>5, TickLimits, CrashLimits
<1>6. CASE UNCHANGED vars
  <2>1. UNCHANGED <<now, up, quota, born, files, bytes, total, row, size, mgr, sized, mixed>>
    BY <1>6 DEF vars, upload, dir, table
  <2>2. Turns' /\ QuotaOK' /\ MarksLive'
    BY <2>1 DEF LimitsInv, Turns, QuotaOK, MarksLive, Uploading
  <2>3. Uncounted' = Uncounted /\ Uploading' = Uploading BY <2>1 DEF Uncounted, Uploading
  <2>4. TotalOK => TotalOK' BY <2>1, <2>3, TotalKept
  <2>5. (\A v : UsedBy(v)' = UsedBy(v)) /\ \A g \in Files : quota[g] <= quota[g]
    BY <2>1, SMTT(30) DEF UsedBy, LimitsInv, QuotaOK
  <2>6. UsageOK => UsageOK' BY <2>1, <2>2, <2>3, <2>5, UsageKept DEF LimitsInv
  <2> QED BY <2>1, <2>2, <2>4, <2>6 DEF LimitsInv
<1> QED BY <1>1, <1>2, <1>3, <1>4, <1>5, <1>6 DEF Next, Manager

\* Neither the directory nor what a visitor uses ever exceeds its limit, as long as
\* uploads and prunings take turns and none fails, also after restarts.
THEOREM LimitsKept == Spec => []LimitsRespected
<1>1. IInv /\ LimitsInv => LimitsRespected
  BY Within DEF LimitsInv, UsageOK, LimitsRespected
<1>2. Init => LimitsInv BY InitLimits
<1>3. IInv /\ IInv' /\ LimitsInv /\ [Next]_vars => LimitsInv'
  BY LimitsInductive
<1> QED BY <1>1, <1>2, <1>3, Inductive, PTL DEF Spec

-----------------------------------------------------------------------------
(* Limiters *)

\* The types, and the position of a write in the list of its writer.
WritersOK ==
  /\ value \in [Fixed \cup Rate -> Int]
  /\ pc \in [Writers -> {"idle", "taking", "reverting"}]
  /\ at \in [Writers -> Int] /\ chunk \in [Writers -> Nat] /\ written \in [Writers -> Nat]
  /\ \A w \in Writers :
       /\ pc[w] = "taking" => at[w] \in 1..(Len(Limiters[w]) + 1)
       /\ pc[w] = "reverting" => at[w] \in 0..Len(Limiters[w])

LimiterInv == WritersOK /\ FixedExact

\* Whether a limiter is among the first k of a writer.
Among(w, l, k) == \E i \in 1..k : Limiters[w][i] = l

\* A limiter among the first k is the last of them or among those before, not both.
LEMMA AmongNext ==
  ASSUME NEW w \in Writers, NEW k \in 1..Len(Limiters[w]), NEW l
  PROVE  /\ Among(w, l, k) <=> Among(w, l, k - 1) \/ Limiters[w][k] = l
         /\ Limiters[w][k] = l => ~Among(w, l, k - 1)
<1>1. Len(Limiters[w]) \in Nat BY LimitersAssumption
<1>2. \A i \in 1..k : i \in 1..(k - 1) \/ i = k BY <1>1, SMTT(30)
<1>3. \A i \in 1..(k - 1) : i \in 1..k /\ i \in 1..Len(Limiters[w]) /\ i # k BY <1>1, SMTT(30)
<1>4. k \in 1..k BY <1>1, SMTT(30)
<1>5. \A i, j \in 1..Len(Limiters[w]) : Limiters[w][i] = Limiters[w][j] => i = j BY LimitersAssumption
<1>6. Among(w, l, k) <=> Among(w, l, k - 1) \/ Limiters[w][k] = l
  BY <1>2, <1>3, <1>4 DEF Among
<1>7. Limiters[w][k] = l => ~Among(w, l, k - 1)
  BY <1>3, <1>5 DEF Among
<1> QED BY <1>6, <1>7

UsedOK ==
  /\ \A w, l : L!Used(w, l) = written[w] + IF Among(w, l, L!Charged(w)) THEN chunk[w] ELSE 0
  /\ \A w \in Writers : \A l : L!Used(w, l) \in Nat

\* What a writer uses of a limiter, by how far its write has been charged.
LEMMA UsedCases == WritersOK => UsedOK
<1>1. \A w, l : L!Used(w, l) = written[w] + IF Among(w, l, L!Charged(w)) THEN chunk[w] ELSE 0
  BY DEF L!Used, Among
<1>2. ASSUME WritersOK, NEW w \in Writers, NEW l PROVE L!Used(w, l) \in Nat
  <2>1. written[w] \in Nat /\ chunk[w] \in Nat BY <1>2 DEF WritersOK
  <2>2. L!Used(w, l) = written[w] + IF Among(w, l, L!Charged(w)) THEN chunk[w] ELSE 0 BY <1>1
  <2> QED BY <2>1, <2>2, SMTT(30)
<1> QED BY <1>1, <1>2 DEF UsedOK

\* The sum of the instance is the sum.
LEMMA SumL == \A f, S : L!SumFunctionOnSet(f, S) = SumFunctionOnSet(f, S)
BY DEF L!SumFunctionOnSet, L!FoldFunctionOnSet, L!MapThenFoldSet,
             SumFunctionOnSet, FoldFunctionOnSet, MapThenFoldSet

\* A limiter stays exact when it grows by as much as the use of the one writer that moves.
LEMMA ExactStep ==
  ASSUME LimiterInv, WritersOK', NEW w \in Writers, NEW l \in Fixed,
         \A v \in Writers \ {w} : L!Used(v, l)' = L!Used(v, l),
         w \in L!Sharing(l) => value'[l] = value[l] + (L!Used(w, l)' - L!Used(w, l)),
         w \notin L!Sharing(l) => value'[l] = value[l]
  PROVE  value'[l] = SumFunctionOnSet([v \in Writers |-> L!Used(v, l)'], L!Sharing(l))
<1> DEFINE f == [v \in Writers |-> L!Used(v, l)]
           k == [v \in Writers |-> L!Used(v, l)']
           S == L!Sharing(l)
<1>1. S \subseteq Writers /\ IsFiniteSet(S)
  <2>1. S \in SUBSET Writers BY DEF L!Sharing
  <2> QED BY <2>1, FS_Subset, LimitersAssumption
<1>u. UsedOK /\ UsedOK' BY UsedCases, PTL DEF LimiterInv
<1>2. (\A x \in S : f[x] \in Int) /\ (\A x \in S : k[x] \in Int)
  BY <1>1, <1>u, SMTT(30) DEF UsedOK
<1>3. value[l] = SumFunctionOnSet(f, S) BY SumL DEF LimiterInv, FixedExact, L!FixedExact
<1>4. CASE w \in S
  <2>1. \A y \in S \ {w} : f[y] = k[y] BY <1>1
  <2>2. SumFunctionOnSet(k, S) = SumFunctionOnSet(f, S) + (k[w] - f[w])
    <3> HIDE DEF f, k, S
    <3> QED BY <1>1, <1>2, <1>4, <2>1, SumChange, SMTT(30)
  <2>3. k[w] = L!Used(w, l)' /\ f[w] = L!Used(w, l) OBVIOUS
  <2> QED BY <1>3, <1>4, <2>2, <2>3
<1>5. CASE w \notin S
  <2>1. \A y \in S : f[y] = k[y] BY <1>1, <1>5
  <2>2. SumFunctionOnSet(f, S) = SumFunctionOnSet(k, S)
    <3> HIDE DEF f, k, S
    <3> QED BY <1>1, <1>2, <2>1, SumSame
  <2> QED BY <1>3, <1>5, <2>2
<1> QED BY <1>4, <1>5

\* A step of one writer leaves what the others use alone.
OthersKept(w) ==
  \A v \in Writers \ {w} :
    pc'[v] = pc[v] /\ at'[v] = at[v] /\ chunk'[v] = chunk[v] /\ written'[v] = written[v]

\* So it is enough to look at the limiters of that writer.
LEMMA WriterStep ==
  ASSUME LimiterInv, WritersOK', NEW w \in Writers, OthersKept(w),
         \A l \in Fixed :
           /\ w \in L!Sharing(l) => value'[l] = value[l] + (L!Used(w, l)' - L!Used(w, l))
           /\ w \notin L!Sharing(l) => value'[l] = value[l]
           /\ value'[l] <= Limit[l]
  PROVE  LimiterInv'
<1>1. \A v \in Writers \ {w} : L!Charged(v)' = L!Charged(v) BY DEF OthersKept, L!Charged
<1>2. ASSUME NEW v \in Writers \ {w}, NEW l PROVE L!Used(v, l)' = L!Used(v, l)
  BY <1>1 DEF OthersKept, L!Used
<1>3. ASSUME NEW l \in Fixed
      PROVE  value'[l] = SumFunctionOnSet([v \in Writers |-> L!Used(v, l)'], L!Sharing(l))
  BY <1>2, <1>3, ExactStep
<1>s. \A l : L!Sharing(l)' = L!Sharing(l) BY DEF L!Sharing
<1>4. \A l \in Fixed : value'[l] = L!SumFunctionOnSet([v \in Writers |-> L!Used(v, l)'], L!Sharing(l)')
  BY <1>3, <1>s, SumL
<1>5. FixedExact' BY <1>4 DEF FixedExact, L!FixedExact
<1> QED BY <1>5 DEF LimiterInv

\* Beginning, refusing and ending a write.
LEMMA QuietStep ==
  ASSUME LimiterInv, NEW w \in Writers,
         (\E n \in Chunks : L!Write(w, n)) \/ L!Refuse(w) \/ L!Through(w) \/ L!Refused(w)
  PROVE  LimiterInv'
<1>1. value' = value BY DEF L!Write, L!Refuse, L!Through, L!Refused
<1>2. Len(Limiters[w]) \in Nat /\ Chunks \subseteq Nat BY LimitersAssumption
<1>3. WritersOK'
  <2>1. ASSUME NEW n \in Chunks, L!Write(w, n) PROVE WritersOK'
    BY <1>2, <2>1, SMTT(30) DEF L!Write, LimiterInv, WritersOK
  <2>2. CASE L!Refuse(w) BY <1>2, <2>2, SMTT(30) DEF L!Refuse, LimiterInv, WritersOK
  <2>3. CASE L!Through(w) BY <1>2, <2>3, SMTT(30) DEF L!Through, LimiterInv, WritersOK
  <2>4. CASE L!Refused(w) BY <1>2, <2>4 DEF L!Refused, LimiterInv, WritersOK
  <2> QED BY <2>1, <2>2, <2>3, <2>4
<1>4. OthersKept(w)
  BY DEF L!Write, L!Refuse, L!Through, L!Refused, OthersKept, LimiterInv, WritersOK
<1>5. UsedOK /\ UsedOK' BY <1>3, UsedCases, PTL DEF LimiterInv
<1>6. ASSUME NEW l \in Fixed PROVE w \in L!Sharing(l) => L!Used(w, l)' = L!Used(w, l)
  <2>0. /\ L!Used(w, l) = written[w] + IF Among(w, l, L!Charged(w)) THEN chunk[w] ELSE 0
        /\ L!Used(w, l)' = written'[w] + IF Among(w, l, L!Charged(w)') THEN chunk'[w] ELSE 0
    BY <1>5 DEF UsedOK, Among
  <2>n. written[w] \in Nat /\ chunk[w] \in Nat BY DEF LimiterInv, WritersOK
  <2>e. ~Among(w, l, 0) BY SMTT(30) DEF Among
  <2>1. ASSUME NEW n \in Chunks, L!Write(w, n) PROVE L!Used(w, l)' = L!Used(w, l)
    <3>1. L!Charged(w) = 0 /\ L!Charged(w)' = 0 /\ written'[w] = written[w]
      BY <2>1, SMTT(30) DEF L!Write, L!Charged, LimiterInv, WritersOK
    <3> QED BY <2>0, <2>n, <2>e, <3>1
  <2>2. CASE L!Refuse(w)
    <3>1. L!Charged(w)' = L!Charged(w) /\ written'[w] = written[w] /\ chunk'[w] = chunk[w]
      BY <2>2 DEF L!Refuse, L!Charged, LimiterInv, WritersOK
    <3> QED BY <2>0, <2>n, <3>1, SMTT(30)
  <2>3. CASE L!Through(w) /\ w \in L!Sharing(l)
    <3>0. at[w] \in 1..(Len(Limiters[w]) + 1) /\ at[w] > Len(Limiters[w])
      BY <2>3 DEF L!Through, LimiterInv, WritersOK
    <3>1. at[w] - 1 = Len(Limiters[w]) BY <1>2, <3>0, SMTT(30)
    <3>2. L!Charged(w) = Len(Limiters[w]) BY <2>3, <3>1 DEF L!Through, L!Charged
    <3>3. Among(w, l, L!Charged(w)) BY <2>3, <3>2 DEF L!Sharing, Among
    <3>4. L!Charged(w)' = 0 /\ written'[w] = written[w] + chunk[w]
      BY <2>3 DEF L!Through, L!Charged, LimiterInv, WritersOK
    <3> QED BY <2>0, <2>n, <2>e, <3>3, <3>4, SMTT(30)
  <2>4. CASE L!Refused(w)
    <3>1. L!Charged(w) = 0 /\ L!Charged(w)' = 0 /\ written'[w] = written[w]
      BY <2>4 DEF L!Refused, L!Charged, LimiterInv, WritersOK
    <3> QED BY <2>0, <2>n, <2>e, <3>1
  <2> QED BY <2>1, <2>2, <2>3, <2>4
<1>7. ASSUME NEW l \in Fixed
      PROVE  /\ w \in L!Sharing(l) => value'[l] = value[l] + (L!Used(w, l)' - L!Used(w, l))
             /\ w \notin L!Sharing(l) => value'[l] = value[l]
             /\ value'[l] <= Limit[l]
  <2>1. value[l] \in Int BY DEF LimiterInv, WritersOK
  <2>3. value[l] <= Limit[l] BY DEF LimiterInv, FixedExact, L!FixedExact
  <2>2. L!Used(w, l) \in Nat BY <1>5 DEF UsedOK
  <2> QED BY <1>1, <1>6, <2>1, <2>2, <2>3, SMTT(30)
<1> QED BY <1>3, <1>4, <1>7, WriterStep

\* Charging the next limiter or taking back the last charge moves the position by one and
\* the count of that limiter by the size of the write.
LEMMA MoveStep ==
  ASSUME LimiterInv, NEW w \in Writers, L!Take(w) \/ L!Revert(w)
  PROVE  LimiterInv'
<1> DEFINE m == at[w]
           x == Limiters[w][m]
           d == IF pc[w] = "taking" THEN chunk[w] ELSE -chunk[w]
<1>1. /\ pc' = pc /\ chunk' = chunk /\ written' = written
      /\ \/ pc[w] = "taking" /\ at' = [at EXCEPT ![w] = @ + 1]
         \/ pc[w] = "reverting" /\ at' = [at EXCEPT ![w] = @ - 1]
  BY DEF L!Take, L!Revert
<1>2. Len(Limiters[w]) \in Nat /\ m \in 1..Len(Limiters[w])
  <2>1. Len(Limiters[w]) \in Nat BY LimitersAssumption
  <2>2. CASE L!Take(w) BY <2>1, <2>2, SMTT(30) DEF L!Take, LimiterInv, WritersOK
  <2>3. CASE L!Revert(w) BY <2>1, <2>3, SMTT(30) DEF L!Revert, LimiterInv, WritersOK
  <2> QED BY <2>1, <2>2, <2>3
<1>3. x \in Fixed \cup Rate BY <1>2, LimitersAssumption
<1>4. written[w] \in Nat /\ chunk[w] \in Nat /\ \A l \in Fixed : value[l] \in Int
  BY DEF LimiterInv, WritersOK
<1>5. \A l \in Fixed : value[l] <= Limit[l] /\ Limit[l] \in Nat
  <2>1. \A l \in Fixed : value[l] <= Limit[l] BY DEF LimiterInv, FixedExact, L!FixedExact
  <2> QED BY <2>1, LimitersAssumption
<1>6. /\ value' \in [Fixed \cup Rate -> Int]
      /\ \A l \in Fixed : l # x => value'[l] = value[l]
      /\ x \in Fixed => value'[x] = value[x] + d /\ value'[x] <= Limit[x]
  <2>1. value \in [Fixed \cup Rate -> Int] BY DEF LimiterInv, WritersOK
  <2>2. CASE L!Take(w)
    <3>1. /\ pc[w] = "taking" /\ value' = [value EXCEPT ![x] = @ + chunk[w]]
          /\ x \in Fixed => value[x] + chunk[w] <= Limit[x]
      BY <2>2 DEF L!Take, L!Charge, L!Allows, L!FixedAllows
    <3> HIDE DEF x
    <3> QED BY <1>3, <1>4, <2>1, <3>1, SMTT(30)
  <2>3. CASE L!Revert(w)
    <3>1. /\ pc[w] = "reverting"
          /\ value' = value \/ value' = [value EXCEPT ![x] = @ + -chunk[w]]
          /\ x \in Fixed /\ value[x] + -chunk[w] <= Limit[x] => value' = [value EXCEPT ![x] = @ + -chunk[w]]
      BY <2>3 DEF L!Revert, L!Charge, L!Allows, L!FixedAllows
    <3>2. x \in Fixed => value[x] + -chunk[w] <= Limit[x]
      <4> HIDE DEF x
      <4> QED BY <1>4, <1>5, SMTT(30)
    <3> HIDE DEF x
    <3> QED BY <1>3, <1>4, <2>1, <3>1, <3>2, SMTT(30)
  <2> QED BY <2>2, <2>3
<1>7. WritersOK'
  <2>1. at' \in [Writers -> Int] /\ (\A v \in Writers \ {w} : at'[v] = at[v])
        /\ (pc[w] = "taking" => at'[w] = m + 1) /\ (pc[w] = "reverting" => at'[w] = m - 1)
    BY <1>1, SMTT(30) DEF LimiterInv, WritersOK
  <2>2. pc'[w] = "taking" => at'[w] \in 1..(Len(Limiters[w]) + 1) BY <1>1, <1>2, <2>1, SMTT(30)
  <2>3. pc'[w] = "reverting" => at'[w] \in 0..Len(Limiters[w]) BY <1>1, <1>2, <2>1, SMTT(30)
  <2>4. ASSUME NEW v \in Writers
        PROVE  /\ pc'[v] = "taking" => at'[v] \in 1..(Len(Limiters[v]) + 1)
               /\ pc'[v] = "reverting" => at'[v] \in 0..Len(Limiters[v])
    <3>1. CASE v = w BY <2>2, <2>3, <3>1
    <3>2. CASE v # w
      <4>1. pc'[v] = pc[v] /\ at'[v] = at[v] BY <1>1, <2>1, <3>2
      <4> QED BY <4>1 DEF LimiterInv, WritersOK
    <3> QED BY <3>1, <3>2
  <2>5. value' \in [Fixed \cup Rate -> Int] BY <1>6
  <2>6. /\ pc' \in [Writers -> {"idle", "taking", "reverting"}]
        /\ at' \in [Writers -> Int] /\ chunk' \in [Writers -> Nat] /\ written' \in [Writers -> Nat]
    BY <1>1, <2>1 DEF LimiterInv, WritersOK
  <2> QED BY <2>4, <2>5, <2>6 DEF WritersOK
<1>8. OthersKept(w) BY <1>1 DEF OthersKept, LimiterInv, WritersOK
<1>9. UsedOK /\ UsedOK' BY <1>7, UsedCases, PTL DEF LimiterInv
<1>10. \/ pc[w] = "taking" /\ L!Charged(w) = m - 1 /\ L!Charged(w)' = m
       \/ pc[w] = "reverting" /\ L!Charged(w) = m /\ L!Charged(w)' = m - 1
  BY <1>1, <1>2, SMTT(30) DEF L!Charged, LimiterInv, WritersOK
<1>11. ASSUME NEW l \in Fixed
       PROVE  /\ w \in L!Sharing(l) => value'[l] = value[l] + (L!Used(w, l)' - L!Used(w, l))
              /\ w \notin L!Sharing(l) => value'[l] = value[l]
              /\ value'[l] <= Limit[l]
  <2>1. /\ L!Used(w, l) = written[w] + IF Among(w, l, L!Charged(w)) THEN chunk[w] ELSE 0
        /\ L!Used(w, l)' = written[w] + IF Among(w, l, L!Charged(w)') THEN chunk[w] ELSE 0
    BY <1>1, <1>9 DEF UsedOK, Among
  <2>2. /\ Among(w, l, m) <=> Among(w, l, m - 1) \/ x = l
        /\ x = l => ~Among(w, l, m - 1)
    BY <1>2, AmongNext
  <2>3. x = l => w \in L!Sharing(l) BY <1>2 DEF L!Sharing
  <2> HIDE DEF x, m
  <2>4. L!Used(w, l)' - L!Used(w, l) = IF x = l THEN d ELSE 0
    BY <1>4, <1>10, <2>1, <2>2, SMTT(30)
  <2> HIDE DEF d
  <2> QED BY <1>4, <1>5, <1>6, <2>3, <2>4, SMTT(30)
<1> QED BY <1>7, <1>8, <1>11, WriterStep

\* Nothing is counted initially.
LEMMA InitLimiters == L!Init => LimiterInv
<1> SUFFICES ASSUME L!Init PROVE LimiterInv
  OBVIOUS
<1>1. WritersOK BY SMTT(30) DEF L!Init, WritersOK
<1>2. \A w \in Writers : \A l : L!Used(w, l) = 0 BY SMTT(30) DEF L!Init, L!Used, L!Charged
<1>3. ASSUME NEW l \in Fixed
      PROVE  value[l] = L!SumFunctionOnSet([w \in Writers |-> L!Used(w, l)], L!Sharing(l)) /\ value[l] <= Limit[l]
  <2> DEFINE f == [w \in Writers |-> L!Used(w, l)]
             S == L!Sharing(l)
  <2>1. S \in SUBSET Writers BY DEF L!Sharing
  <2>2. IsFiniteSet(S) BY <2>1, FS_Subset, LimitersAssumption
  <2>3. \A y \in S : f[y] = 0 BY <1>2, <2>1
  <2>4. SumFunctionOnSet(f, S) = 0
    <3> HIDE DEF f, S
    <3> QED BY <2>2, <2>3, SumZero
  <2>5. value[l] = 0 /\ Limit[l] \in Nat BY LimitersAssumption DEF L!Init
  <2>6. L!SumFunctionOnSet(f, S) = 0 BY <2>4, SumL
  <2> QED BY <2>5, <2>6, SMTT(30)
<1> QED BY <1>1, <1>3 DEF LimiterInv, FixedExact, L!FixedExact

\* However the writes and refusals of concurrent uploads interleave, a FixedLimiter
\* counts exactly what its writers have written and hold, and never more than its limit.
THEOREM LimitersExact == L!Spec => []FixedExact
<1>1. LimiterInv /\ [L!Next]_(L!vars) => LimiterInv'
  <2> SUFFICES ASSUME LimiterInv, [L!Next]_(L!vars) PROVE LimiterInv'
    OBVIOUS
  <2>1. ASSUME NEW w \in Writers,
               \/ \E n \in Chunks : L!Write(w, n)
               \/ L!Take(w) \/ L!Refuse(w) \/ L!Through(w) \/ L!Revert(w) \/ L!Refused(w)
        PROVE  LimiterInv'
    BY <2>1, QuietStep, MoveStep
  <2>2. CASE UNCHANGED <<value, pc, at, chunk, written>>
    <3>1. WritersOK' BY <2>2 DEF LimiterInv, WritersOK
    <3>2. FixedExact' BY <2>2 DEF LimiterInv, FixedExact, L!FixedExact, L!Used, L!Charged, L!Sharing
    <3> QED BY <3>1, <3>2 DEF LimiterInv
  <2> QED BY <2>1, <2>2 DEF L!Next, L!Refill, L!vars
<1>2. LimiterInv => FixedExact BY DEF LimiterInv
<1> QED BY <1>1, <1>2, InitLimiters, PTL DEF L!Spec
==============================================================================
