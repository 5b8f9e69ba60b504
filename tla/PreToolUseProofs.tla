-------------------------- MODULE PreToolUseProofs --------------------------
(***************************************************************************)
(* Proofs about one invocation of the hook, for any commands, any number   *)
(* of workers and any limit of operands: first that uniquePackages returns *)
(* every operand once and in order, then the invocation.                   *)
(***************************************************************************)
EXTENDS PreToolUse, QualifyCommandProofs, SequenceTheorems, FiniteSetTheorems, TLAPS

-----------------------------------------------------------------------------
(* Induction.  The library's induction theorems take a predicate; that a   *)
(* set of naturals has a least element says the same of sets.              *)

LEMMA LeastNatural ==
    ASSUME NEW T \in SUBSET Nat, T # {}
    PROVE  \E x \in T : \A y \in T : x <= y
<1> DEFINE F == {1..n : n \in T}
<1>1. ASSUME NEW n \in T PROVE 1..n \in FiniteSubsetsOf(Nat)
  <2>1. IsFiniteSet(1..n)
    BY FS_Interval
  <2>2. 1..n \subseteq Nat
    OBVIOUS
  <2> QED
    BY <2>1, <2>2 DEF FiniteSubsetsOf
<1>2. F # {} /\ F \subseteq FiniteSubsetsOf(Nat)
  BY <1>1
<1>3. PICK U \in F : \A V \in F : <<V, U>> \notin StrictSubsetOrdering(Nat)
  BY <1>2, FS_StrictSubsetOrderingWellFounded, WFMin
<1>4. PICK x \in T : U = 1..x
  BY <1>3
<1>5. ASSUME NEW y \in T PROVE x <= y
  <2> SUFFICES ASSUME y < x PROVE FALSE
    OBVIOUS
  <2>1. 1..y \subseteq 1..x /\ x \in 1..x /\ x \notin 1..y
    OBVIOUS
  <2>2. <<1..y, 1..x>> \in StrictSubsetOrdering(Nat)
    BY <2>1 DEF StrictSubsetOrdering
  <2> QED
    BY <1>3, <1>4, <2>2
<1> QED
  BY <1>5

\* The greatest element of a set of positions.
LEMMA MaxIsGreatest ==
    ASSUME NEW n \in Nat, NEW T \in SUBSET (1..n), T # {}
    PROVE  Max(T) \in T /\ \A y \in T : y <= Max(T)
<1> DEFINE D == {n - y : y \in T}
<1>0. \A y \in T : y \in 1..n /\ n - y \in Nat
  OBVIOUS
<1>1. D \in SUBSET Nat /\ D # {}
  BY <1>0
<1>2. PICK d \in D : \A e \in D : d <= e
  BY <1>1, LeastNatural
<1>3. PICK x \in T : d = n - x
  OBVIOUS
<1>4. ASSUME NEW y \in T PROVE y <= x
  <2>1. n - x <= n - y
    BY <1>2, <1>3
  <2> QED
    BY <1>0, <2>1
<1> QED
  BY <1>3, <1>4 DEF Max

-----------------------------------------------------------------------------
(* uniquePackages.                                                         *)

\* One step of the filter.
Seen(u, p) == IF Contains(u, p) THEN u ELSE Append(u, p)

\* The fold over the positions in T, given the fold over fewer positions; and
\* the same up to a number of positions.
Folded(s, f, T) ==
    IF T = {} THEN <<>> ELSE Seen(f[T \ {Max(T)}], s[Max(T)])
Fold(s, f) == [T \in SUBSET DOMAIN s |-> Folded(s, f, T)]
FoldUpTo(s, f, n) ==
    [T \in SUBSET DOMAIN s |-> IF Cardinality(T) > n THEN <<>> ELSE Folded(s, f, T)]

LEMMA FoldIsChosen ==
    ASSUME NEW s
    PROVE  UniquePackages(s) = (CHOOSE f : f = Fold(s, f))[DOMAIN s]
  BY DEF UniquePackages, FoldLeft, MapThenFoldSet, Fold, Folded, Seen

\* Positions without their greatest one.
LEMMA OneLess ==
    ASSUME NEW n \in Nat, NEW T \in SUBSET (1..n)
    PROVE  /\ IsFiniteSet(T) /\ Cardinality(T) \in 0..n
           /\ Cardinality(T) = 0 <=> T = {}
           /\ T # {} => Cardinality(T \ {Max(T)}) = Cardinality(T) - 1
<1>1. IsFiniteSet(1..n) /\ Cardinality(1..n) = n
  BY FS_Interval
<1>2. IsFiniteSet(T) /\ Cardinality(T) <= n
  BY <1>1, FS_Subset
<1>3. Cardinality(T) \in Nat
  BY <1>2, FS_CardinalityType
<1>4. Cardinality(T) = 0 <=> T = {}
  BY <1>2, FS_EmptySet
<1>5. ASSUME T # {} PROVE Cardinality(T \ {Max(T)}) = Cardinality(T) - 1
  BY <1>2, <1>5, MaxIsGreatest, FS_RemoveElement
<1> QED
  BY <1>2, <1>3, <1>4, <1>5

\* The fold is well defined.
LEMMA FoldExists ==
    ASSUME NEW S, NEW s \in Seq(S)
    PROVE  \E f : f = Fold(s, f)
<1> DEFINE n == Len(s)
<1>1. n \in Nat /\ DOMAIN s = 1..n
  BY LenProperties
<1> HIDE DEF n
<1>1a. ASSUME NEW T \in SUBSET DOMAIN s
       PROVE  /\ Cardinality(T) \in Nat /\ Cardinality(T) <= n
              /\ Cardinality(T) = 0 <=> T = {}
              /\ T # {} => Cardinality(T \ {Max(T)}) = Cardinality(T) - 1
  <2>1. T \in SUBSET (1..n)
    BY <1>1
  <2>2. /\ Cardinality(T) \in 0..n
        /\ Cardinality(T) = 0 <=> T = {}
        /\ T # {} => Cardinality(T \ {Max(T)}) = Cardinality(T) - 1
    BY <1>1, <2>1, OneLess, Zenon
  <2> QED
    BY <1>1, <2>2
<1> DEFINE Bad == {k \in Nat : ~\E f : f = FoldUpTo(s, f, k)}
<1>2. Bad = {}
  <2> SUFFICES ASSUME Bad # {} PROVE FALSE
    OBVIOUS
  <2>1. PICK m \in Bad : \A k \in Bad : m <= k
    BY LeastNatural
  <2>2. CASE m = 0
    <3>1. ASSUME NEW T \in SUBSET DOMAIN s
          PROVE  Cardinality(T) > 0 \/ T = {}
      <4>1. Cardinality(T) \in Nat /\ (Cardinality(T) = 0 <=> T = {})
        BY <1>1a, Zenon
      <4> QED
        BY <4>1
    <3>2. \A f : FoldUpTo(s, f, 0) = [T \in SUBSET DOMAIN s |-> <<>>]
      BY <3>1 DEF FoldUpTo, Folded
    <3> QED
      BY <2>2, <3>2
  <2>3. CASE m # 0
    <3>1. PICK f : f = FoldUpTo(s, f, m - 1)
      BY <2>1, <2>3
    <3> DEFINE g == FoldUpTo(s, f, m)
    <3>2. ASSUME NEW T \in SUBSET DOMAIN s, Cardinality(T) <= m - 1
          PROVE  g[T] = f[T]
      <4>0. Cardinality(T) \in Nat /\ m \in Nat
        BY <1>1a, Zenon
      <4>0a. ~(Cardinality(T) > m - 1) /\ ~(Cardinality(T) > m)
        BY <3>2, <4>0
      <4>1. f[T] = Folded(s, f, T)
        BY <3>1, <4>0a, Zenon DEF FoldUpTo
      <4>2. g[T] = Folded(s, f, T)
        BY <4>0a, Zenon DEF FoldUpTo
      <4> QED
        BY <4>1, <4>2
    <3> HIDE DEF g
    <3>3. ASSUME NEW T \in SUBSET DOMAIN s, Cardinality(T) <= m
          PROVE  Folded(s, f, T) = Folded(s, g, T)
      <4>1. CASE T = {}
        BY <4>1 DEF Folded
      <4>2. CASE T # {}
        <5>1. Cardinality(T \ {Max(T)}) <= m - 1 /\ T \ {Max(T)} \in SUBSET DOMAIN s
          <6>1. Cardinality(T \ {Max(T)}) = Cardinality(T) - 1 /\ Cardinality(T) \in Nat
            BY <1>1a, <4>2, Zenon
          <6> QED
            BY <3>3, <6>1
        <5> QED
          BY <3>2, <5>1 DEF Folded
      <4> QED
        BY <4>1, <4>2
    <3>4. g = FoldUpTo(s, g, m)
      <4>1. \A T \in SUBSET DOMAIN s : Cardinality(T) \in Nat
        BY <1>1a
      <4>2. \A T \in SUBSET DOMAIN s : ~(Cardinality(T) > m) => Cardinality(T) <= m
        BY <2>1, <4>1
      <4> QED
        BY <3>3, <4>2 DEF FoldUpTo, g
    <3> QED
      BY <3>4, <2>1
  <2> QED
    BY <2>2, <2>3
<1>3. PICK f : f = FoldUpTo(s, f, n)
  BY <1>1, <1>2
<1>4. ASSUME NEW T \in SUBSET DOMAIN s PROVE ~(Cardinality(T) > n)
  <2>1. Cardinality(T) \in Nat /\ Cardinality(T) <= n
    BY <1>1a, Zenon
  <2> QED
    BY <1>1, <2>1
<1>5. f = Fold(s, f)
  BY <1>3, <1>4 DEF Fold, FoldUpTo
<1> QED
  BY <1>5

\* What the filter keeps of the first k packages.
Kept(S, s, u, k) ==
    /\ u \in Seq(S) /\ Len(u) <= k
    /\ \A p : Contains(u, p) <=> \E i \in 1..k : s[i] = p
    /\ \A i, j \in 1..Len(u) : u[i] = u[j] => i = j

LEMMA KeepsOneMore ==
    ASSUME NEW S, NEW s \in Seq(S), NEW k \in 1..Len(s), NEW u, Kept(S, s, u, k - 1)
    PROVE  Kept(S, s, Seen(u, s[k]), k)
<1>1. Len(s) \in Nat /\ s[k] \in S /\ u \in Seq(S) /\ Len(u) \in Nat /\ k \in Nat
  BY LenProperties, ElementOfSeq DEF Kept
<1>2. \A p : (\E i \in 1..k : s[i] = p) <=> (\E i \in 1..(k-1) : s[i] = p) \/ s[k] = p
  BY <1>1
<1>3. CASE Contains(u, s[k])
  BY <1>1, <1>2, <1>3 DEF Kept, Seen
<1>4. CASE ~Contains(u, s[k])
  <2> DEFINE v == Append(u, s[k])
  <2>1. /\ v \in Seq(S) /\ Len(v) = Len(u) + 1
        /\ \A i \in 1..Len(u) : v[i] = u[i]
        /\ v[Len(u) + 1] = s[k]
    BY <1>1
  <2> HIDE DEF v
  <2>2. \A p : Contains(v, p) <=> Contains(u, p) \/ s[k] = p
    BY <1>1, <2>1 DEF Contains
  <2>3. \A i \in 1..Len(u) : v[i] # s[k]
    BY <1>4, <2>1 DEF Contains
  <2>4. \A i, j \in 1..Len(v) : v[i] = v[j] => i = j
    BY <1>1, <2>1, <2>3 DEF Kept
  <2>5. Seen(u, s[k]) = v
    BY <1>4 DEF Seen, v
  <2> QED
    BY <1>1, <1>2, <2>1, <2>2, <2>4, <2>5 DEF Kept
<1> QED
  BY <1>3, <1>4

\* uniquePackages returns each package once, and all of them.
LEMMA UniquePackagesOnce ==
    ASSUME NEW S, NEW s \in Seq(S)
    PROVE  Kept(S, s, UniquePackages(s), Len(s))
<1> DEFINE n == Len(s)
<1>1. n \in Nat /\ DOMAIN s = 1..n
  BY LenProperties
<1> HIDE DEF n
<1>2. PICK f : f = Fold(s, f) /\ UniquePackages(s) = f[1..n]
  BY <1>1, FoldExists, FoldIsChosen
<1> DEFINE Bad == {k \in 0..n : ~Kept(S, s, f[1..k], k)}
<1>3. Bad = {}
  <2> SUFFICES ASSUME Bad # {} PROVE FALSE
    OBVIOUS
  <2>0. Bad \in SUBSET Nat
    BY <1>1
  <2>1. PICK m \in Bad : \A k \in Bad : m <= k
    BY <2>0, LeastNatural
  <2>1a. m \in Nat /\ m <= n
    BY <1>1
  <2>2. CASE m = 0
    <3>0. 1..m = {} /\ {} \in SUBSET DOMAIN s
      BY <2>2
    <3>1. f[1..m] = <<>>
      BY <1>2, <3>0, Zenon DEF Fold, Folded
    <3>2. <<>> \in Seq(S) /\ Len(<<>>) = 0
      BY EmptySeq
    <3>3. \A p : ~Contains(<<>>, p) /\ ~(\E i \in 1..0 : s[i] = p)
      BY <3>2 DEF Contains
    <3>4. Kept(S, s, <<>>, 0)
      BY <3>2, <3>3 DEF Kept
    <3> QED
      BY <2>1, <2>2, <3>1, <3>4
  <2>3. CASE m # 0
    <3>1. m \in 1..n /\ m - 1 \in 0..n /\ m - 1 \notin Bad
      BY <1>1, <2>1, <2>1a, <2>3
    <3>2. 1..m \in SUBSET (1..n) /\ 1..m # {} /\ m \in 1..m
      <4>1. \A i \in 1..m : i \in 1..n
        BY <1>1, <2>1a
      <4>2. m \in 1..m
        BY <3>1
      <4> QED
        BY <4>1, <4>2, Zenon
    <3>3. Max(1..m) = m
      <4>1. Max(1..m) \in 1..m /\ m <= Max(1..m)
        BY <1>1, <3>2, MaxIsGreatest
      <4> QED
        BY <2>1a, <4>1
    <3>4. (1..m) \ {m} = 1..(m - 1)
      BY <3>1
    <3>5. f[1..m] = Seen(f[1..(m - 1)], s[m])
      BY <1>1, <1>2, <3>2, <3>3, <3>4 DEF Fold, Folded
    <3>6. Kept(S, s, f[1..m], m)
      BY <3>1, <3>5, KeepsOneMore DEF n
    <3> QED
      BY <2>1, <3>6
  <2> QED
    BY <2>2, <2>3
<1> QED
  BY <1>1, <1>2, <1>3 DEF n

-----------------------------------------------------------------------------
(* Verdicts and approvals.                                                 *)

\* combineVerdicts returns the highest verdict of a set, or "allow".
LEMMA HighestVerdict ==
    ASSUME NEW V \in SUBSET Verdicts
    PROVE  /\ CombineVerdicts(V) \in V \cup {"allow"}
           /\ \A w \in V : verdictRank[w] <= verdictRank[CombineVerdicts(V)]
<1> DEFINE Top(v) == v \in V \cup {"allow"} /\ \A w \in V : verdictRank[w] <= verdictRank[v]
<1>1. Verdicts = {"allow", "warn", "review", "block", "error"}
  BY DEF Verdicts, verdictRank
<1>2. /\ verdictRank["allow"] = 0 /\ verdictRank["warn"] = 1 /\ verdictRank["review"] = 2
      /\ verdictRank["block"] = 3 /\ verdictRank["error"] = 4
  BY DEF verdictRank
<1>3. \E v : Top(v)
  <2>1. CASE "error" \in V
    BY <1>1, <1>2, <2>1
  <2>2. CASE "error" \notin V /\ "block" \in V
    BY <1>1, <1>2, <2>2
  <2>3. CASE "error" \notin V /\ "block" \notin V /\ "review" \in V
    BY <1>1, <1>2, <2>3
  <2>4. CASE V \subseteq {"allow", "warn"} /\ "warn" \in V
    BY <1>1, <1>2, <2>4
  <2>5. CASE V \subseteq {"allow"}
    <3>1. Top("allow")
      BY <1>2, <2>5
    <3> QED
      BY <3>1
  <2> QED
    BY <1>1, <2>1, <2>2, <2>3, <2>4, <2>5
<1> QED
  BY <1>3 DEF CombineVerdicts

\* The verdict on a package, given what it was before approvals were applied.
Bounded(a) ==
    /\ a.original \in Verdicts /\ a.verdict \in Verdicts /\ a.approval \in BOOLEAN
    /\ verdictRank[a.verdict] <= verdictRank[a.original]
    /\ a.original \in {"block", "error"} => a.verdict = a.original
    /\ a.approval => a.original \in {"review", "block"}
    /\ ~a.approval => a.verdict = a.original

\* An approval lifts reviews only: it never touches a block nor an error.
LEMMA ApprovalsAreBounded ==
    ASSUME NEW errors \in BOOLEAN, NEW F \in SUBSET Findings, NEW matched \in BOOLEAN
    PROVE  Bounded(ApplyApprovals(errors, F, matched))
<1> DEFINE V(G) == {f.verdict : f \in G}
           Review == {f \in F : f.verdict = "review" /\ f.approvable}
           a == ApplyApprovals(errors, F, matched)
<1>1. \A G \in SUBSET F : V(G) \in SUBSET {"warn", "review", "block"}
  BY DEF Findings
<1>2. Verdicts = {"allow", "warn", "review", "block", "error"}
  BY DEF Verdicts, verdictRank
<1>3. /\ verdictRank["allow"] = 0 /\ verdictRank["warn"] = 1 /\ verdictRank["review"] = 2
      /\ verdictRank["block"] = 3 /\ verdictRank["error"] = 4
  BY DEF verdictRank
<1>4. ASSUME NEW G \in SUBSET F
      PROVE  /\ CombineVerdicts(V(G)) \in V(G) \cup {"allow"}
             /\ CombineVerdicts(V(G)) \in {"allow", "warn", "review", "block"}
             /\ \A w \in V(G) : verdictRank[w] <= verdictRank[CombineVerdicts(V(G))]
  <2>1. V(G) \in SUBSET Verdicts /\ V(G) \in SUBSET {"warn", "review", "block"}
    BY <1>1, <1>2
  <2> HIDE DEF V
  <2> QED
    BY <2>1, HighestVerdict
<1> DEFINE o == CombineVerdicts(V(F))
           r == CombineVerdicts(V(F \ Review))
<1>5. /\ a.original = IF errors THEN "error" ELSE o
      /\ a.approval = (matched /\ ~errors /\ Review # {})
      /\ a.verdict = IF matched /\ ~errors /\ Review # {} THEN r ELSE IF errors THEN "error" ELSE o
  BY DEF ApplyApprovals
<1>6. F \ Review \in SUBSET F /\ V(F \ Review) \subseteq V(F)
  OBVIOUS
<1>7. /\ o \in {"allow", "warn", "review", "block"} /\ r \in {"allow", "warn", "review", "block"}
      /\ r \in V(F) \cup {"allow"}
      /\ \A w \in V(F) : verdictRank[w] <= verdictRank[o]
      /\ \A w \in V(F \ Review) : verdictRank[w] <= verdictRank[r]
      /\ o \in V(F) \cup {"allow"}
  <2>1. F \in SUBSET F
    OBVIOUS
  <2> HIDE DEF V
  <2> QED
    BY <1>4, <1>6, <2>1
<1>8. o = "block" => "block" \in V(F \ Review)
  BY <1>7
<1>9. Review # {} => "review" \in V(F)
  OBVIOUS
<1> HIDE DEF V, Review, o, r, a
<1>10. verdictRank[r] <= verdictRank[o]
  BY <1>3, <1>7
<1>11. o = "block" => r = "block"
  BY <1>3, <1>7, <1>8
<1>12. Review # {} => o \in {"review", "block"}
  BY <1>3, <1>7, <1>9
<1>13. CASE matched /\ ~errors /\ Review # {}
  <2>1. a.original = o /\ a.approval = TRUE /\ a.verdict = r
    BY <1>5, <1>13, Zenon
  <2>2. Bounded(a)
    BY <1>2, <1>3, <1>7, <1>10, <1>11, <1>12, <1>13, <2>1 DEF Bounded
  <2> QED
    BY <2>2 DEF a
<1>14. CASE ~(matched /\ ~errors /\ Review # {})
  <2>1. a.approval = FALSE /\ a.verdict = a.original
    BY <1>5, <1>14, Zenon
  <2>2. a.original \in Verdicts
    BY <1>2, <1>5, <1>7
  <2>3. Bounded(a)
    <3>1. verdictRank[a.verdict] <= verdictRank[a.original]
      BY <1>2, <1>3, <2>1, <2>2
    <3> QED
      BY <2>1, <2>2, <3>1, Zenon DEF Bounded
  <2> QED
    BY <2>3 DEF a
<1> QED
  BY <1>13, <1>14

\* The same of every report of a package.
LEMMA ReportsAreBounded ==
    ASSUME NEW p, NEW r \in ReportsOf(p)
    PROVE  Bounded(r) /\ r.target = p
<1>1. PICK e \in BOOLEAN, F \in SUBSET Findings, m \in BOOLEAN :
        LET a == ApplyApprovals(e, F, m)
        IN  r = [target |-> p, original |-> a.original, verdict |-> a.verdict, approval |-> a.approval]
  BY DEF ReportsOf, Applications
<1> DEFINE a == ApplyApprovals(e, F, m)
<1>2. Bounded(a)
  BY ApprovalsAreBounded
<1>3. r = [target |-> p, original |-> a.original, verdict |-> a.verdict, approval |-> a.approval]
  BY <1>1
<1> HIDE DEF a
<1> QED
  BY <1>2, <1>3 DEF Bounded

\* uniquePackages, as it is used: no more packages than operands, and the same.
LEMMA UniqueOperands ==
    ASSUME NEW s \in Seq(Packages), Len(s) <= MaxOperands, s # <<>>
    PROVE  LET u == UniquePackages(s)
           IN  /\ u \in Seq(Packages) /\ u # <<>> /\ Len(u) <= MaxOperands
               /\ \A i \in DOMAIN s : \E k \in DOMAIN u : u[k] = s[i]
               /\ \A i, j \in DOMAIN u : u[i] = u[j] => i = j
<1> DEFINE u == UniquePackages(s)
<1>1. Kept(Packages, s, u, Len(s))
  BY UniquePackagesOnce
<1> HIDE DEF u
<1>2. /\ Len(s) \in Nat /\ DOMAIN s = 1..Len(s) /\ Len(s) # 0
      /\ u \in Seq(Packages) /\ Len(u) \in Nat /\ DOMAIN u = 1..Len(u) /\ Len(u) <= Len(s)
  BY <1>1, LenProperties, EmptySeq DEF Kept
<1>3. \A i \in DOMAIN s : \E k \in DOMAIN u : u[k] = s[i]
  BY <1>1, <1>2 DEF Kept, Contains
<1>4. u # <<>>
  <2>1. 1 \in DOMAIN s
    BY <1>2
  <2>2. DOMAIN u # {}
    BY <1>3, <2>1
  <2> QED
    BY <2>2
<1>5. Len(u) <= MaxOperands
  BY <1>2, QualifyCommandAssumption
<1> QED
  BY <1>1, <1>2, <1>3, <1>4, <1>5 DEF Kept, u
\* What the schema of decisions asks of the pool's outcome always holds of it,
\* and the verdict is at least that of every operand.
LEMMA OutcomeIsExpressible ==
    ASSUME request \in Seq(Packages), request # <<>>, Len(request) <= MaxOperands,
           unique = UniquePackages(request),
           \A k \in DOMAIN unique : reports[k] \in ReportsOf(unique[k])
    PROVE  /\ ValidApprovalTransition
           /\ Verdict \in Verdicts
           /\ \A i \in DOMAIN request : /\ Expanded[i] \in ReportsOf(request[i])
                                        /\ \E k \in DOMAIN unique : Expanded[i] = reports[k]
                                        /\ verdictRank[Expanded[i].verdict] <= verdictRank[Verdict]
<1> DEFINE D == DOMAIN request
           V == {Expanded[i].verdict : i \in D}
           O == {Expanded[i].original : i \in D}
<1>1. ASSUME NEW i \in D
      PROVE  /\ Expanded[i] \in ReportsOf(request[i])
             /\ \E k \in DOMAIN unique : Expanded[i] = reports[k]
  <2>1. \E k \in DOMAIN unique : unique[k] = request[i]
    BY UniqueOperands
  <2>2. PICK k \in DOMAIN unique : unique[k] = request[i] /\ Expanded[i] = reports[k]
    BY <2>1 DEF Expanded
  <2> QED
    BY <2>2
<1>2. ASSUME NEW i \in D PROVE Bounded(Expanded[i])
  BY <1>1, ReportsAreBounded
<1>3. Verdict = CombineVerdicts(V) /\ OriginalVerdict = CombineVerdicts(O)
  BY DEF Verdict, OriginalVerdict, Combined, ToSet
<1>4. V \in SUBSET Verdicts /\ O \in SUBSET Verdicts
  BY <1>2 DEF Bounded
<1>5. Verdicts = {"allow", "warn", "review", "block", "error"}
  BY DEF Verdicts, verdictRank
<1>6. /\ verdictRank["allow"] = 0 /\ verdictRank["warn"] = 1 /\ verdictRank["review"] = 2
      /\ verdictRank["block"] = 3 /\ verdictRank["error"] = 4
  BY DEF verdictRank
<1>7. /\ Verdict \in V \cup {"allow"} /\ OriginalVerdict \in O \cup {"allow"}
      /\ \A v \in V : verdictRank[v] <= verdictRank[Verdict]
      /\ \A o \in O : verdictRank[o] <= verdictRank[OriginalVerdict]
  <2> HIDE DEF V, O
  <2> QED
    BY <1>3, <1>4, HighestVerdict
<1>8. Verdict \in Verdicts /\ OriginalVerdict \in Verdicts
  BY <1>4, <1>5, <1>7
<1>9. \A i \in D : verdictRank[Expanded[i].verdict] <= verdictRank[Verdict]
  BY <1>7
<1>10. ValidApprovalTransition
  <2>1. CASE ~AnyApproval
    <3>1. \A i \in D : Expanded[i].verdict = Expanded[i].original
      BY <1>2, <2>1, Zenon DEF AnyApproval, Bounded
    <3>2. V = O
      BY <3>1
    <3>3. Verdict = OriginalVerdict
      BY <1>3, <3>2
    <3> QED
      BY <2>1, <3>3 DEF ValidApprovalTransition, ApprovalApplied
  <2>2. CASE AnyApproval
    <3>1. PICK i \in D : Expanded[i].approval
      BY <2>2 DEF AnyApproval
    <3>2. Expanded[i].original \in {"review", "block"}
      BY <1>2, <3>1 DEF Bounded
    <3>3. OriginalVerdict \in {"review", "block", "error"}
      <4>1. verdictRank[Expanded[i].original] <= verdictRank[OriginalVerdict]
        BY <1>7
      <4> QED
        BY <1>5, <1>6, <1>8, <3>2, <4>1
    <3>4. CASE OriginalVerdict = "review"
      <4>1. \A j \in D : verdictRank[Expanded[j].verdict] <= 2
        <5> SUFFICES ASSUME NEW j \in D PROVE verdictRank[Expanded[j].verdict] <= 2
          OBVIOUS
        <5>1. /\ verdictRank[Expanded[j].verdict] <= verdictRank[Expanded[j].original]
              /\ Expanded[j].verdict \in Verdicts /\ Expanded[j].original \in Verdicts
          BY <1>2 DEF Bounded
        <5>2. verdictRank[Expanded[j].original] <= 2
          BY <1>6, <1>7, <3>4
        <5> QED
          BY <1>5, <1>6, <5>1, <5>2
      <4>2. Verdict \in {"allow", "warn", "review"}
        BY <1>5, <1>6, <1>7, <1>8, <4>1
      <4> QED
        BY <2>2, <3>4, <4>2 DEF ValidApprovalTransition, ApprovalApplied
    <3>5. ASSUME NEW w \in {"block", "error"}, OriginalVerdict = w
          PROVE  Verdict = w
      <4>1. PICK j \in D : Expanded[j].original = w
        BY <1>7, <3>5
      <4>2. Expanded[j].verdict = w
        BY <1>2, <3>5, <4>1 DEF Bounded
      <4>3. verdictRank[w] <= verdictRank[Verdict]
        BY <1>9, <4>2
      <4>4. w = "block" => Verdict # "error"
        <5> SUFFICES ASSUME w = "block", Verdict = "error" PROVE FALSE
          OBVIOUS
        <5>1. PICK k \in D : Expanded[k].verdict = "error"
          BY <1>7
        <5>2. /\ verdictRank[Expanded[k].verdict] <= verdictRank[Expanded[k].original]
              /\ Expanded[k].original \in Verdicts
          BY <1>2 DEF Bounded
        <5>3. verdictRank[Expanded[k].original] <= 3
          BY <1>6, <1>7, <3>5
        <5> QED
          BY <1>5, <1>6, <5>1, <5>2, <5>3
      <4> QED
        BY <1>5, <1>6, <1>8, <4>3, <4>4
    <3>6. CASE OriginalVerdict = "block"
      BY <3>5, <3>6, <2>2 DEF ValidApprovalTransition, ApprovalApplied
    <3>7. CASE OriginalVerdict = "error"
      BY <3>5, <3>7 DEF ValidApprovalTransition, ApprovalApplied
    <3> QED
      BY <3>3, <3>4, <3>6, <3>7
  <2> QED
    BY <2>1, <2>2
<1> QED
  BY <1>1, <1>8, <1>9, <1>10

-----------------------------------------------------------------------------
(* The inductive invariant.                                                *)

\* What was read and qualified by the time the process is where it is.
InputInv ==
    /\ qualification = NotQualified
       \/ (command \in Commands /\ qualification = QualifyCommand(command))
    /\ pc \in {"input", "launch", "verify", "evaluate"} => qualification = NotQualified
    /\ pc \in {"launch", "verify", "evaluate"} => command \in Commands
    /\ pc \in {"authority", "pool"} => category = "dependency_add"

\* Unless the pool has started nothing of it has changed.
Unstarted ==
    /\ failure = "none" /\ cursor = 1
    /\ \A w \in Workers : worker[w] = Idle
    /\ \A i \in 1..MaxOperands : reports[i] = NoReport

PoolInv ==
    /\ pc = "pool" => unique # <<>>
    /\ pc \in {"input", "launch", "verify", "evaluate", "authority"} => unique = <<>>
    /\ unique = <<>> => Unstarted
    /\ unique # <<>> => category = "dependency_add" /\ unique = UniquePackages(request)
    /\ pc = "pool" /\ signal # "none" => failure # "none"

\* A report is that of a package that was claimed, and in its place.
ReportsInv ==
    /\ DOMAIN reports = 1..MaxOperands
    /\ \A i \in 1..MaxOperands : reports[i] # NoReport =>
          i < cursor /\ reports[i] \in ReportsOf(unique[i])

WorkersInv ==
    /\ \A w \in Workers : worker[w].state = "busy" => worker[w].index \in 1..(cursor - 1)
    /\ NoDoubleEvaluation
    /\ NoWorkOutlivesAnswer

\* What the decision rests on.
AnswerInv ==
    /\ pc \in {"input", "launch", "verify", "evaluate", "authority", "pool"} => decision = "none"
    /\ exit # "none" => pc = "exited"
    /\ Proceeds => signal = "none" /\ decision \in NeutralReasons
    /\ decision = "unrelated" => category = "unrelated"
    /\ \A v \in Verdicts : decision = EvaluationReasons[v] =>
          unique # <<>> /\ Complete /\ Verdict = v
    /\ decision = "internal_error" /\ unique # <<>> => ~(Complete /\ failure = "none")

IInv == TypeOK /\ InputInv /\ PoolInv /\ ReportsInv /\ WorkersInv /\ AnswerInv

\* What is known of a command's qualification.
LEMMA CommandFacts ==
    ASSUME NEW c \in Commands
    PROVE  LET q == QualifyCommand(c)
           IN  /\ c # NotRead
               /\ q.packages \in Seq(Packages) /\ Len(q.packages) <= MaxOperands
               /\ q.category = "dependency_add" => q.packages # <<>>
               /\ q.category # "dependency_add" =>
                     q.category \in {"unrelated", "invalid", "install_like_unsupported",
                                     "ephemeral_execution"}
<1>1. IsCommand(c)
  BY PreToolUseAssumption
<1>2. c # NotRead
  BY <1>1 DEF IsCommand, NotRead
<1>3. <<>> \in Seq(Packages) /\ Len(<<>>) = 0 /\ 0 <= MaxOperands
  BY EmptySeq, QualifyCommandAssumption
<1>4. CASE QualifyCommand(c).category = "dependency_add"
  BY <1>1, <1>2, <1>4, AdditionIsWhole
<1>5. CASE QualifyCommand(c).category # "dependency_add"
  BY <1>1, <1>2, <1>3, <1>5, OtherCategories
<1> QED
  BY <1>4, <1>5

\* When the pool has started, in the terms of its operands.
LEMMA PoolFacts ==
    ASSUME InputInv, PoolInv, unique # <<>>
    PROVE  /\ request \in Seq(Packages) /\ request # <<>> /\ Len(request) <= MaxOperands
           /\ unique = UniquePackages(request)
           /\ unique \in Seq(Packages) /\ Len(unique) \in 1..MaxOperands
           /\ DOMAIN unique = 1..Len(unique)
           /\ \A k \in DOMAIN unique : k \in 1..MaxOperands /\ unique[k] \in Packages
           /\ command \in Commands /\ qualification = QualifyCommand(command)
<1>1. category = "dependency_add" /\ unique = UniquePackages(request)
  BY DEF PoolInv
<1>2. command \in Commands /\ qualification = QualifyCommand(command)
  BY <1>1 DEF InputInv, category, NotQualified
<1>3. request \in Seq(Packages) /\ request # <<>> /\ Len(request) <= MaxOperands
  BY <1>1, <1>2, CommandFacts DEF request, category
<1>4. unique \in Seq(Packages) /\ Len(unique) <= MaxOperands
  BY <1>1, <1>3, UniqueOperands
<1>5. /\ Len(unique) \in Nat /\ DOMAIN unique = 1..Len(unique) /\ Len(unique) # 0
      /\ MaxOperands \in Nat
  BY <1>4, LenProperties, EmptySeq, QualifyCommandAssumption
<1>6. \A k \in DOMAIN unique : unique[k] \in Packages
  BY <1>4, <1>5, ElementOfSeq
<1> QED
  BY <1>1, <1>2, <1>3, <1>4, <1>5, <1>6

\* A step that leaves the pool and the qualification alone.
LEMMA PoolFrame ==
    ASSUME UNCHANGED <<qualification, pool>>
    PROVE  /\ request' = request /\ category' = category
           /\ Unstarted' = Unstarted
           /\ ReportsInv' = ReportsInv
           /\ NoDoubleEvaluation' = NoDoubleEvaluation
           /\ Complete' = Complete /\ Verdict' = Verdict
<1>1. /\ qualification' = qualification /\ unique' = unique /\ failure' = failure
      /\ cursor' = cursor /\ worker' = worker /\ reports' = reports
  BY DEF pool
<1>2. request' = request /\ category' = category
  BY <1>1 DEF request, category
<1>3. Expanded' = Expanded
  BY <1>1, <1>2 DEF Expanded
<1> QED
  BY <1>1, <1>2, <1>3
  DEF Unstarted, ReportsInv, NoDoubleEvaluation, Complete, Verdict

-----------------------------------------------------------------------------
(* Every step preserves it.                                                *)

LEMMA InitInv == Init => IInv
<1> SUFFICES ASSUME Init PROVE IInv
  OBVIOUS
<1>1. /\ MaxOperands \in Nat /\ Concurrency \in Nat
      /\ <<>> \in Seq(Packages) /\ Len(<<>>) = 0 /\ 0 <= MaxOperands
  BY EmptySeq, QualifyCommandAssumption, PreToolUseAssumption
<1>2. \A w \in Workers : worker[w] = Idle
  BY DEF Init
<1>3. \A i \in 1..MaxOperands : reports[i] = NoReport
  BY DEF Init
<1>4. TypeOK
  <2>1. request = <<>> /\ DOMAIN reports = 1..MaxOperands
    BY DEF Init, request, NotQualified
  <2>2. cursor \in 1..(Len(unique) + 1)
    BY <1>1 DEF Init
  <2>3. worker \in [Workers -> [state : {"idle", "busy", "returned", "threw"}, index : 0..Len(unique)]]
    BY <1>1 DEF Init, Idle
  <2>4. qualification = NotQualified /\ unique = <<>>
    BY DEF Init
  <2> QED
    BY <1>1, <1>3, <2>1, <2>2, <2>3, <2>4 DEF Init, TypeOK
<1>5. InputInv /\ PoolInv
  BY <1>2, <1>3 DEF Init, InputInv, PoolInv, Unstarted
<1>6. ReportsInv /\ WorkersInv
  BY <1>2, <1>3 DEF Init, ReportsInv, WorkersInv, NoDoubleEvaluation, NoWorkOutlivesAnswer, Idle
<1>7. AnswerInv
  BY DEF Init, AnswerInv, Proceeds, EvaluationReasons, Verdicts, verdictRank
<1> QED
  BY <1>4, <1>5, <1>6, <1>7 DEF IInv

\* Before the pool starts nobody is busy.
LEMMA NobodyBusy ==
    ASSUME PoolInv, unique = <<>>
    PROVE  \A w \in Workers : worker[w].state # "busy"
  BY DEF PoolInv, Unstarted, Idle

LEMMA ReadInputInv == ASSUME IInv, ReadInput PROVE IInv'
<1>1. /\ pc = "input" /\ UNCHANGED <<project, host, qualification, signal, pool, answer>>
      /\ pc' \in {"launch", "evaluate", "emergency"}
      /\ command' \in Commands \/ (command' = command /\ pc' = "emergency")
  BY DEF ReadInput, Emergency
<1>2. qualification = NotQualified /\ unique = <<>>
  BY <1>1 DEF IInv, InputInv, PoolInv
<1>3. TypeOK'
  <2>1. request' = request
    BY <1>1 DEF request
  <2> QED
    BY <1>1, <1>2, <2>1 DEF IInv, TypeOK, pool, answer
<1>4. InputInv'
  BY <1>1, <1>2 DEF IInv, InputInv
<1>5. PoolInv'
  BY <1>1, <1>2, PoolFrame DEF IInv, PoolInv, pool
<1>6. ReportsInv' /\ WorkersInv'
  BY <1>1, <1>2, PoolFrame, NobodyBusy DEF IInv, WorkersInv, NoWorkOutlivesAnswer, pool
<1>7. AnswerInv'
  BY <1>1, <1>2, PoolFrame DEF IInv, AnswerInv, Proceeds, answer, pool
<1> QED
  BY <1>3, <1>4, <1>5, <1>6, <1>7 DEF IInv

\* The two steps between the input and the evaluation.
LEMMA StartInv == ASSUME IInv, LaunchAuthority \/ VerifyInvocation PROVE IInv'
<1>1. /\ pc \in {"launch", "verify"} /\ UNCHANGED <<input, signal, pool, answer>>
      /\ pc' \in {"verify", "evaluate", "emergency"}
  BY DEF LaunchAuthority, VerifyInvocation, Emergency
<1>2. qualification = NotQualified /\ unique = <<>> /\ command \in Commands
  BY <1>1 DEF IInv, InputInv, PoolInv
<1>3. TypeOK'
  <2>1. request' = request
    BY <1>1 DEF request, input
  <2> QED
    BY <1>1, <1>2, <2>1 DEF IInv, TypeOK, pool, answer, input
<1>4. InputInv'
  BY <1>1, <1>2 DEF IInv, InputInv, input
<1>5. PoolInv'
  BY <1>1, <1>2, PoolFrame DEF IInv, PoolInv, pool, input
<1>6. ReportsInv' /\ WorkersInv'
  BY <1>1, <1>2, PoolFrame, NobodyBusy DEF IInv, WorkersInv, NoWorkOutlivesAnswer, pool, input
<1>7. AnswerInv'
  BY <1>1, <1>2, PoolFrame DEF IInv, AnswerInv, Proceeds, answer, pool, input
<1> QED
  BY <1>3, <1>4, <1>5, <1>6, <1>7 DEF IInv

\* The last steps of the process.
LEMMA WriteInv == ASSUME IInv, WriteOutput \/ WriteError PROVE IInv'
<1>1. /\ pc \in {"output", "emergency"} /\ UNCHANGED <<input, signal, pool, decision>>
      /\ \/ pc' = "exited" /\ denied' = TRUE /\ exit' = "ok"
         \/ pc' = "emergency" /\ UNCHANGED <<denied, exit>>
         \/ pc' = "exited" /\ exit' = "emergency" /\ UNCHANGED denied
  BY DEF WriteOutput, WriteError, Emergency, answer
<1>2. /\ qualification' = qualification /\ command' = command /\ project' = project /\ host' = host
      /\ signal' = signal /\ decision' = decision
      /\ unique' = unique /\ failure' = failure /\ cursor' = cursor
      /\ worker' = worker /\ reports' = reports
  BY <1>1 DEF input, pool
<1>3. request' = request /\ category' = category
  BY <1>2 DEF request, category
<1>4. exit = "none" /\ exit' \in {"none", "ok", "emergency"} /\ denied' \in BOOLEAN
  BY <1>1 DEF IInv, AnswerInv, TypeOK
<1>5. TypeOK'
  BY <1>1, <1>2, <1>3, <1>4 DEF IInv, TypeOK
<1>6. InputInv'
  BY <1>1, <1>2, <1>3 DEF IInv, InputInv
<1>7. PoolInv'
  BY <1>1, <1>2, <1>3, PoolFrame DEF IInv, PoolInv
<1>8. ReportsInv' /\ WorkersInv'
  BY <1>1, <1>2, PoolFrame DEF IInv, WorkersInv, NoWorkOutlivesAnswer
<1>9. AnswerInv'
  BY <1>1, <1>2, <1>3, <1>4, PoolFrame DEF IInv, AnswerInv, Proceeds
<1> QED
  BY <1>5, <1>6, <1>7, <1>8, <1>9 DEF IInv

\* A decision or an emergency without the pool.
LEMMA LeaveInv ==
    ASSUME IInv, unique = <<>>, UNCHANGED <<project, host, command, signal, pool>>,
           decision = "none", exit = "none",
           \/ qualification' = NotQualified
           \/ command \in Commands /\ qualification' = QualifyCommand(command),
           \/ Emergency
           \/ \E reason \in {"invalid_action", "unsupported_dependency_action",
                             "ephemeral_execution_denied", "deadline_exceeded"} \cup AuthorityReasons :
                 Decide(reason)
           \/ Decide("unrelated") /\ category' = "unrelated" /\ signal = "none"
    PROVE  IInv'
<1>1. /\ command' = command /\ project' = project /\ host' = host /\ signal' = signal
      /\ unique' = unique /\ failure' = failure /\ cursor' = cursor
      /\ worker' = worker /\ reports' = reports
  BY DEF pool
<1>2. /\ request' \in Seq(Packages) /\ Len(request') <= MaxOperands
      /\ qualification' = NotQualified
         \/ (command' # NotRead /\ qualification' = QualifyCommand(command'))
  <2>1. CASE qualification' = NotQualified
    BY <2>1, EmptySeq, QualifyCommandAssumption DEF request, NotQualified
  <2>2. CASE command \in Commands /\ qualification' = QualifyCommand(command)
    BY <1>1, <2>2, CommandFacts DEF request
  <2> QED
    BY <2>1, <2>2
<1>3. /\ pc' \in {"output", "exited", "emergency"} /\ denied' = denied
      /\ pc' = "exited" => exit' = "ok" /\ decision' = "unrelated" /\ category' = "unrelated" /\ signal = "none"
      /\ pc' # "exited" => exit' = "none"
      /\ decision' \in {"none", "unrelated", "invalid_action", "unsupported_dependency_action",
                        "ephemeral_execution_denied", "deadline_exceeded"} \cup AuthorityReasons
      /\ decision' = "unrelated" => category' = "unrelated"
  BY DEF Emergency, Decide, NeutralReasons, AuthorityReasons, answer
<1>4. decision' \in Reasons \cup {"none"}
  <2>1. /\ QualificationReasons["unrelated"] = "unrelated"
        /\ QualificationReasons["invalid"] = "invalid_action"
        /\ QualificationReasons["install_like_unsupported"] = "unsupported_dependency_action"
        /\ QualificationReasons["ephemeral_execution"] = "ephemeral_execution_denied"
        /\ {"unrelated", "invalid", "install_like_unsupported", "ephemeral_execution"}
              \subseteq DOMAIN QualificationReasons
    BY DEF QualificationReasons
  <2> HIDE DEF QualificationReasons
  <2>2. {"unrelated", "invalid_action", "unsupported_dependency_action", "ephemeral_execution_denied"}
           \subseteq {QualificationReasons[k] : k \in DOMAIN QualificationReasons}
    BY <2>1
  <2> QED
    BY <1>3, <2>2 DEF Reasons
<1>5. TypeOK'
  <2>1. unique' \in {<<>>, UniquePackages(request')}
    BY <1>1
  <2> QED
    BY <1>1, <1>2, <1>3, <1>4, <2>1 DEF IInv, TypeOK
<1>6. InputInv'
  BY <1>1, <1>3 DEF IInv, InputInv
<1>7. PoolInv'
  BY <1>1, <1>3 DEF IInv, PoolInv, Unstarted
<1>8. ReportsInv' /\ WorkersInv'
  BY <1>1, <1>3, NobodyBusy DEF IInv, ReportsInv, WorkersInv, NoDoubleEvaluation, NoWorkOutlivesAnswer
<1>9. AnswerInv'
  <2>1. \A v \in Verdicts : decision' # EvaluationReasons[v]
    BY <1>3 DEF AuthorityReasons, Verdicts, verdictRank, EvaluationReasons
  <2> QED
    BY <1>1, <1>3, <2>1 DEF AnswerInv, Proceeds, NeutralReasons
<1> QED
  BY <1>5, <1>6, <1>7, <1>8, <1>9 DEF IInv

\* The workers' first packages are claimed at once.
LEMMA StartPoolInv ==
    ASSUME IInv, unique = <<>>, UNCHANGED <<project, host, command, signal>>, signal = "none",
           decision = "none", exit = "none",
           command \in Commands, qualification' = QualifyCommand(command),
           category' = "dependency_add", StartPool(request')
    PROVE  IInv'
<1>1. /\ command' = command /\ project' = project /\ host' = host /\ signal' = signal
      /\ pc' = "pool" /\ unique' = UniquePackages(request')
      /\ failure' = failure /\ reports' = reports
      /\ decision' = decision /\ denied' = denied /\ exit' = exit
  BY DEF StartPool, answer
<1>2. request' \in Seq(Packages) /\ Len(request') <= MaxOperands /\ request' # <<>> /\ command # NotRead
  BY CommandFacts DEF request, category
<1> DEFINE n == Len(unique')
<1>3. /\ unique' \in Seq(Packages) /\ unique' # <<>> /\ n \in 1..MaxOperands
      /\ DOMAIN unique' = 1..n
  <2>1. unique' \in Seq(Packages) /\ unique' # <<>> /\ Len(unique') <= MaxOperands
    BY <1>1, <1>2, UniqueOperands
  <2> QED
    BY <2>1, LenProperties, EmptySeq, QualifyCommandAssumption
<1>4. Concurrency \in Nat /\ Concurrency >= 1 /\ MaxOperands \in Nat
  BY PreToolUseAssumption, QualifyCommandAssumption
<1>5. /\ worker' = [w \in Workers |-> IF w <= n THEN Busy(w) ELSE Idle]
      /\ cursor' = 1 + (IF Concurrency <= n THEN Concurrency ELSE n)
  BY DEF StartPool
<1>6. Unstarted
  BY DEF IInv, PoolInv
<1> HIDE DEF n
<1>7. ASSUME NEW w \in Workers
      PROVE  /\ worker'[w] \in [state : {"idle", "busy", "returned", "threw"}, index : 0..n]
             /\ worker'[w].state = "busy" => worker'[w].index = w /\ w \in 1..(cursor' - 1)
  <2>1. w \in 1..Concurrency
    BY DEF Workers
  <2>2. CASE w <= n
    <3>1. worker'[w] = Busy(w)
      BY <1>5, <2>2
    <3> QED
      BY <1>3, <1>4, <1>5, <2>1, <2>2, <3>1 DEF Busy
  <2>3. CASE ~(w <= n)
    <3>1. worker'[w] = Idle
      BY <1>5, <2>3
    <3> QED
      BY <1>3, <3>1 DEF Idle
  <2> QED
    BY <2>2, <2>3
<1>8. TypeOK'
  <2>1. cursor' \in 1..(n + 1)
    BY <1>3, <1>4, <1>5
  <2>2. worker' \in [Workers -> [state : {"idle", "busy", "returned", "threw"}, index : 0..n]]
    BY <1>5, <1>7
  <2>3. \A i \in 1..MaxOperands : reports'[i] = NoReport
    BY <1>1, <1>6 DEF Unstarted
  <2> QED
    BY <1>1, <1>2, <2>1, <2>2, <2>3 DEF IInv, TypeOK, n
<1>9. InputInv'
  BY <1>1 DEF InputInv
<1>10. PoolInv'
  BY <1>1, <1>3 DEF PoolInv
<1>11. ReportsInv'
  BY <1>1, <1>6 DEF IInv, ReportsInv, Unstarted
<1>12. WorkersInv'
  <2>1. \A w \in Workers : worker'[w].state = "busy" => w \in 1..MaxOperands
    BY <1>3, <1>4, <1>5, <1>7
  <2>2. \A w \in Workers : worker'[w].state = "busy" => reports'[worker'[w].index] = NoReport
    BY <1>1, <1>6, <1>7, <2>1 DEF Unstarted
  <2> QED
    BY <1>1, <1>7, <2>2 DEF WorkersInv, NoDoubleEvaluation, NoWorkOutlivesAnswer
<1>13. AnswerInv'
  BY <1>1 DEF AnswerInv, Proceeds, EvaluationReasons, Verdicts, verdictRank
<1> QED
  BY <1>8, <1>9, <1>10, <1>11, <1>12, <1>13 DEF IInv

LEMMA EvaluateInv == ASSUME IInv, Evaluate PROVE IInv'
<1>1. /\ pc = "evaluate" /\ UNCHANGED <<project, host, command, signal>>
      /\ command \in Commands /\ qualification = NotQualified /\ unique = <<>>
      /\ decision = "none" /\ exit = "none"
  BY DEF Evaluate, IInv, InputInv, PoolInv, AnswerInv, TypeOK
<1>2. CASE Emergency /\ UNCHANGED <<qualification, pool>>
  BY <1>1, <1>2, LeaveInv DEF pool
<1>3. CASE DecideCancellation /\ UNCHANGED <<qualification, pool>>
  <2>1. Emergency \/ Decide("deadline_exceeded")
    BY <1>3 DEF DecideCancellation
  <2> QED
    BY <1>1, <1>3, <2>1, LeaveInv DEF pool
<1>4. CASE /\ signal = "none" /\ qualification' = QualifyCommand(command)
           /\ category' # "dependency_add"
           /\ Decide(QualificationReasons[category']) /\ UNCHANGED pool
  <2>1. category' \in {"unrelated", "invalid", "install_like_unsupported", "ephemeral_execution"}
    BY <1>1, <1>4, CommandFacts DEF category
  <2>2. \/ Decide("unrelated") /\ category' = "unrelated"
        \/ \E reason \in {"invalid_action", "unsupported_dependency_action",
                          "ephemeral_execution_denied"} : Decide(reason)
    BY <1>4, <2>1 DEF QualificationReasons
  <2> QED
    BY <1>1, <1>4, <2>2, LeaveInv DEF pool
<1>5. CASE /\ signal = "none" /\ qualification' = QualifyCommand(command)
           /\ category' = "dependency_add" /\ pc' = "authority" /\ UNCHANGED <<answer, pool>>
  <2>1. request' \in Seq(Packages) /\ Len(request') <= MaxOperands /\ command # NotRead
    BY <1>1, <1>5, CommandFacts DEF request
  <2>2. /\ command' = command /\ project' = project /\ host' = host /\ signal' = signal
        /\ unique' = unique /\ failure' = failure /\ cursor' = cursor
        /\ worker' = worker /\ reports' = reports
        /\ decision' = decision /\ denied' = denied /\ exit' = exit
    BY <1>1, <1>5 DEF pool, answer
  <2>3. TypeOK'
    <3>1. unique' \in {<<>>, UniquePackages(request')}
      BY <1>1, <2>2
    <3> QED
      BY <1>5, <2>1, <2>2, <3>1 DEF IInv, TypeOK
  <2>4. InputInv' /\ PoolInv'
    BY <1>1, <1>5, <2>2 DEF IInv, InputInv, PoolInv, Unstarted
  <2>5. ReportsInv' /\ WorkersInv'
    BY <1>5, <2>2 DEF IInv, ReportsInv, WorkersInv, NoDoubleEvaluation, NoWorkOutlivesAnswer
  <2>6. AnswerInv'
    BY <1>1, <2>2 DEF AnswerInv, Proceeds, EvaluationReasons, Verdicts, verdictRank
  <2> QED
    BY <2>3, <2>4, <2>5, <2>6 DEF IInv
<1>6. CASE /\ signal = "none" /\ qualification' = QualifyCommand(command)
           /\ category' = "dependency_add" /\ OwnAuthority(request')
  <2>1. CASE StartPool(request')
    BY <1>1, <1>6, <2>1, StartPoolInv
  <2>2. CASE Decide("internal_error") /\ UNCHANGED pool
    BY <1>1, <1>6, <2>2, LeaveInv DEF AuthorityReasons, pool
  <2> QED
    BY <1>6, <2>1, <2>2 DEF OwnAuthority
<1> QED
  BY <1>2, <1>3, <1>4, <1>5, <1>6 DEF Evaluate, AbortedBefore

LEMMA LoadAuthorityInv == ASSUME IInv, LoadAuthority PROVE IInv'
<1>1. /\ pc = "authority" /\ UNCHANGED <<input, signal>> /\ unique = <<>>
      /\ category = "dependency_add" /\ decision = "none" /\ exit = "none"
  BY DEF LoadAuthority, IInv, InputInv, PoolInv, AnswerInv, TypeOK
<1>2. command \in Commands /\ qualification' = QualifyCommand(command) /\ qualification' = qualification
  BY <1>1 DEF IInv, InputInv, category, NotQualified, input
<1>3. UNCHANGED <<project, host, command, signal>> /\ request' = request /\ category' = category
  BY <1>1, <1>2 DEF input, request, category
<1>4. CASE signal # "none" /\ DecideCancellation /\ UNCHANGED pool
  <2>1. Emergency \/ Decide("deadline_exceeded")
    BY <1>4 DEF DecideCancellation
  <2> QED
    BY <1>1, <1>2, <1>3, <1>4, <2>1, LeaveInv DEF pool
<1>5. CASE signal = "none" /\ StartPool(request)
  BY <1>1, <1>2, <1>3, <1>5, StartPoolInv
<1>6. CASE \E reason \in AuthorityReasons : Decide(reason) /\ UNCHANGED pool
  <2>1. PICK reason \in AuthorityReasons : Decide(reason) /\ UNCHANGED pool
    BY <1>6
  <2> QED
    BY <1>1, <1>2, <1>3, <2>1, LeaveInv DEF pool
<1> QED
  BY <1>4, <1>5, <1>6 DEF LoadAuthority

\* A busy worker of the pool, and the package it has claimed.
LEMMA BusyFacts ==
    ASSUME IInv, pc = "pool", NEW w \in Workers, worker[w].state = "busy"
    PROVE  LET i == worker[w].index
           IN  /\ i \in 1..(cursor - 1) /\ i \in DOMAIN unique /\ i \in 1..MaxOperands
               /\ unique[i] \in Packages /\ reports[i] = NoReport
               /\ unique # <<>>
<1>1. unique # <<>> /\ worker[w].index \in 1..(cursor - 1)
  BY DEF IInv, PoolInv, WorkersInv
<1>2. /\ Len(unique) \in 1..MaxOperands /\ DOMAIN unique = 1..Len(unique)
      /\ \A k \in DOMAIN unique : k \in 1..MaxOperands /\ unique[k] \in Packages
  BY <1>1, PoolFacts DEF IInv
<1>3. cursor \in 1..(Len(unique) + 1)
  BY DEF IInv, TypeOK
<1>4. worker[w].index \in DOMAIN unique
  BY <1>1, <1>2, <1>3
<1> QED
  BY <1>1, <1>2, <1>4 DEF IInv, WorkersInv, NoDoubleEvaluation

\* A worker's state after it stopped.
LEMMA StoppedType ==
    ASSUME TypeOK, NEW w \in Workers, NEW s \in {"returned", "threw"}
    PROVE  /\ Stopped(s, w) \in [state : {"idle", "busy", "returned", "threw"}, index : 0..Len(unique)]
           /\ Stopped(s, w).state = s
<1>1. worker[w] \in [state : {"idle", "busy", "returned", "threw"}, index : 0..Len(unique)]
  BY DEF TypeOK
<1> QED
  BY <1>1 DEF Stopped

LEMMA RejectInv == ASSUME IInv, NEW w \in Workers, Reject(w) PROVE IInv'
<1>1. /\ pc = "pool" /\ worker[w].state = "busy"
      /\ worker' = [worker EXCEPT ![w] = Stopped("threw", w)]
      /\ failure' = FirstFailure("internal")
      /\ pc' = pc /\ project' = project /\ host' = host /\ command' = command
      /\ qualification' = qualification /\ signal' = signal /\ unique' = unique
      /\ cursor' = cursor /\ reports' = reports
      /\ decision' = decision /\ denied' = denied /\ exit' = exit
  BY DEF Reject, input, answer
<1>2. unique # <<>> /\ decision = "none"
  BY <1>1 DEF IInv, PoolInv, AnswerInv
<1>3. /\ worker' \in [Workers -> [state : {"idle", "busy", "returned", "threw"}, index : 0..Len(unique)]]
      /\ \A v \in Workers : worker'[v].state = "busy" => worker'[v] = worker[v]
  BY <1>1, StoppedType DEF IInv, TypeOK
<1>4. failure' \in Causes \cup {"none", "internal"} /\ failure' # "none"
  BY <1>1 DEF FirstFailure, IInv, TypeOK
<1>5. request' = request /\ category' = category
  BY <1>1 DEF request, category
<1>6. TypeOK'
  BY <1>1, <1>3, <1>4, <1>5 DEF IInv, TypeOK
<1>7. InputInv' /\ PoolInv' /\ ReportsInv'
  BY <1>1, <1>2, <1>4, <1>5 DEF IInv, InputInv, PoolInv, ReportsInv
<1>8. WorkersInv'
  BY <1>1, <1>3 DEF IInv, WorkersInv, NoDoubleEvaluation, NoWorkOutlivesAnswer
<1>9. AnswerInv'
  BY <1>1, <1>2, <1>5 DEF IInv, AnswerInv, Proceeds, EvaluationReasons, Verdicts, verdictRank
<1> QED
  BY <1>6, <1>7, <1>8, <1>9 DEF IInv

LEMMA DeliverInv == ASSUME IInv, NEW w \in Workers, Deliver(w) PROVE IInv'
<1> DEFINE i == worker[w].index
<1>1. /\ pc = "pool" /\ worker[w].state = "busy"
      /\ pc' = pc /\ project' = project /\ host' = host /\ command' = command
      /\ qualification' = qualification /\ signal' = signal /\ unique' = unique
      /\ failure' = failure
      /\ decision' = decision /\ denied' = denied /\ exit' = exit
  BY DEF Deliver, input, answer
<1>2. PICK r \in ReportsOf(unique[i]) : reports' = [reports EXCEPT ![i] = r]
  BY DEF Deliver, Slot
<1>3. /\ i \in 1..(cursor - 1) /\ i \in DOMAIN unique /\ i \in 1..MaxOperands
      /\ unique[i] \in Packages /\ reports[i] = NoReport /\ unique # <<>>
  BY <1>1, BusyFacts
<1>4. r # NoReport
  BY <1>3, NoReportAssumption
<1>5. \/ /\ \E s \in {"returned", "threw"} : worker' = [worker EXCEPT ![w] = Stopped(s, w)]
         /\ cursor' = cursor
      \/ /\ cursor <= Len(unique) /\ worker' = [worker EXCEPT ![w] = Busy(cursor)]
         /\ cursor' = cursor + 1
  BY DEF Deliver, Remaining, NextCursor
<1>6. /\ Len(unique) \in 1..MaxOperands /\ DOMAIN unique = 1..Len(unique)
      /\ cursor \in 1..(Len(unique) + 1)
  BY <1>3, PoolFacts DEF IInv, TypeOK
<1>7. /\ cursor' \in 1..(Len(unique) + 1) /\ cursor <= cursor'
      /\ worker' \in [Workers -> [state : {"idle", "busy", "returned", "threw"}, index : 0..Len(unique)]]
      /\ \A v \in Workers \ {w} : worker'[v] = worker[v]
      /\ worker'[w].state = "busy" => worker'[w].index = cursor /\ cursor' = cursor + 1
  <2>1. CASE /\ \E s \in {"returned", "threw"} : worker' = [worker EXCEPT ![w] = Stopped(s, w)]
             /\ cursor' = cursor
    <3>1. PICK s \in {"returned", "threw"} : worker' = [worker EXCEPT ![w] = Stopped(s, w)]
      BY <2>1
    <3> QED
      BY <1>6, <2>1, <3>1, StoppedType DEF IInv, TypeOK
  <2>2. CASE /\ cursor <= Len(unique) /\ worker' = [worker EXCEPT ![w] = Busy(cursor)]
             /\ cursor' = cursor + 1
    <3>1. Busy(cursor) \in [state : {"idle", "busy", "returned", "threw"}, index : 0..Len(unique)]
      BY <1>6, <2>2 DEF Busy
    <3> QED
      BY <1>6, <2>2, <3>1 DEF IInv, TypeOK, Busy
  <2> QED
    BY <1>5, <2>1, <2>2
<1>8. /\ DOMAIN reports' = 1..MaxOperands /\ reports'[i] = r
      /\ \A k \in (1..MaxOperands) \ {i} : reports'[k] = reports[k]
  BY <1>2, <1>3 DEF IInv, ReportsInv
<1>9. request' = request /\ category' = category
  BY <1>1 DEF request, category
<1> HIDE DEF i
<1>10. TypeOK'
  <2>1. \A k \in 1..MaxOperands : reports'[k] = NoReport \/ \E p \in Packages : reports'[k] \in ReportsOf(p)
    BY <1>2, <1>3, <1>8 DEF IInv, TypeOK
  <2> QED
    BY <1>1, <1>7, <1>9, <2>1 DEF IInv, TypeOK
<1>11. InputInv' /\ PoolInv'
  BY <1>1, <1>3, <1>9 DEF IInv, InputInv, PoolInv
<1>12. ReportsInv'
  <2>1. cursor' \in Nat /\ cursor \in Nat /\ i < cursor
    BY <1>3, <1>6, <1>7
  <2>2. ASSUME NEW k \in 1..MaxOperands, reports'[k] # NoReport
        PROVE  k < cursor' /\ reports'[k] \in ReportsOf(unique'[k])
    <3>1. CASE k = i
      BY <1>1, <1>2, <1>7, <1>8, <2>1, <3>1
    <3>2. CASE k # i
      BY <1>1, <1>7, <1>8, <2>1, <2>2, <3>2 DEF IInv, ReportsInv
    <3> QED
      BY <3>1, <3>2
  <2> QED
    BY <1>8, <2>2 DEF ReportsInv
<1>13. WorkersInv'
  <2>1. \A v \in Workers : worker[v].state = "busy" =>
           worker[v].index \in 1..(cursor - 1) /\ (worker[v].index = i => v = w)
                                               /\ reports[worker[v].index] = NoReport
    BY <1>1 DEF IInv, WorkersInv, NoDoubleEvaluation, i
  <2>2. ASSUME NEW v \in Workers, worker'[v].state = "busy"
        PROVE  worker'[v].index \in 1..(cursor' - 1) /\ reports'[worker'[v].index] = NoReport
    <3>1. CASE v = w
      <4>1. worker'[v].index = cursor /\ cursor' = cursor + 1
        BY <1>7, <2>2, <3>1
      <4>2. cursor # i /\ cursor \in 1..MaxOperands /\ cursor \in 1..(cursor' - 1)
        BY <1>3, <1>6, <1>7, <4>1, QualifyCommandAssumption
      <4>3. reports[cursor] = NoReport
        BY <4>2 DEF IInv, ReportsInv
      <4> QED
        BY <1>8, <4>1, <4>2, <4>3
    <3>2. CASE v # w
      <4>1. worker'[v] = worker[v]
        BY <1>7, <3>2
      <4>2. /\ worker[v].index \in 1..(cursor - 1) /\ worker[v].index # i
            /\ reports[worker[v].index] = NoReport
        BY <2>1, <2>2, <3>2, <4>1
      <4>3. worker[v].index \in 1..MaxOperands /\ worker[v].index \in 1..(cursor' - 1)
        BY <1>6, <1>7, <4>2, QualifyCommandAssumption
      <4> QED
        BY <1>8, <4>1, <4>2, <4>3
    <3> QED
      BY <3>1, <3>2
  <2>3. ASSUME NEW u \in Workers, NEW v \in Workers, u # v,
               worker'[u].state = "busy", worker'[v].state = "busy"
        PROVE  worker'[u].index # worker'[v].index
    <3>1. \A x \in Workers \ {w} : worker'[x].state = "busy" => worker'[x].index < cursor
      BY <1>6, <1>7, <2>1
    <3>2. CASE u = w
      BY <1>6, <1>7, <2>3, <3>1, <3>2
    <3>3. CASE v = w
      BY <1>6, <1>7, <2>3, <3>1, <3>3
    <3>4. CASE u # w /\ v # w
      BY <1>7, <2>3, <3>4 DEF IInv, WorkersInv, NoDoubleEvaluation
    <3> QED
      BY <3>2, <3>3, <3>4
  <2> QED
    BY <1>1, <2>2, <2>3 DEF WorkersInv, NoDoubleEvaluation, NoWorkOutlivesAnswer
<1>14. AnswerInv'
  BY <1>1, <1>3, <1>9 DEF IInv, AnswerInv, Proceeds, EvaluationReasons, Verdicts, verdictRank
<1> QED
  BY <1>10, <1>11, <1>12, <1>13, <1>14 DEF IInv

\* When every package has its report, what the pool concludes is expressible.
LEMMA CompleteOutcome ==
    ASSUME IInv, unique # <<>>, Complete
    PROVE  /\ ValidApprovalTransition /\ Verdict \in Verdicts
           /\ \A i \in DOMAIN request :
                 /\ Expanded[i] \in ReportsOf(request[i])
                 /\ \E k \in 1..MaxOperands : Expanded[i] = reports[k] /\ reports[k] # NoReport
                 /\ verdictRank[Expanded[i].verdict] <= verdictRank[Verdict]
<1>1. /\ request \in Seq(Packages) /\ request # <<>> /\ Len(request) <= MaxOperands
      /\ unique = UniquePackages(request)
      /\ \A k \in DOMAIN unique : k \in 1..MaxOperands
  BY PoolFacts DEF IInv
<1>2. \A k \in DOMAIN unique : reports[k] # NoReport /\ reports[k] \in ReportsOf(unique[k])
  BY <1>1 DEF Complete, IInv, ReportsInv
<1> QED
  BY <1>1, <1>2, OutcomeIsExpressible

LEMMA ConcludeInv == ASSUME IInv, Conclude PROVE IInv'
<1>1. /\ pc = "pool" /\ Settled
      /\ project' = project /\ host' = host /\ command' = command
      /\ qualification' = qualification /\ signal' = signal /\ unique' = unique
      /\ failure' = failure /\ cursor' = cursor /\ worker' = worker /\ reports' = reports
  BY DEF Conclude, input, pool
<1>2. unique # <<>> /\ decision = "none" /\ exit = "none"
  BY <1>1 DEF IInv, PoolInv, AnswerInv
<1>3. /\ request' = request /\ category' = category
      /\ Unstarted' = Unstarted /\ ReportsInv' = ReportsInv
      /\ NoDoubleEvaluation' = NoDoubleEvaluation
      /\ Complete' = Complete /\ Verdict' = Verdict
  BY <1>1, PoolFrame DEF pool
<1>4. \/ Emergency
      \/ Decide("deadline_exceeded")
      \/ /\ Decide("internal_error") /\ ~(Complete /\ failure = "none")
      \/ /\ Decide(EvaluationReasons[Verdict]) /\ Complete /\ Verdict \in Verdicts
         /\ failure = "none" /\ signal = "none"
  BY <1>2, CompleteOutcome, Zenon DEF Conclude, DecideCancellation
<1>5. /\ \A v, w \in Verdicts : EvaluationReasons[v] = EvaluationReasons[w] => v = w
      /\ \A v \in Verdicts : EvaluationReasons[v] \notin {"none", "deadline_exceeded", "internal_error", "unrelated"}
      /\ \A v \in Verdicts : EvaluationReasons[v] \in Reasons
      /\ {"deadline_exceeded", "internal_error"} \subseteq Reasons
  <2>1. Verdicts = {"allow", "warn", "review", "block", "error"}
    BY DEF Verdicts, verdictRank
  <2> QED
    BY <2>1 DEF EvaluationReasons, Reasons, AuthorityReasons
<1>6. /\ pc' \in {"output", "exited", "emergency"} /\ denied' = denied
      /\ pc' = "exited" => exit' = "ok" /\ decision' \in NeutralReasons /\ signal = "none"
      /\ pc' # "exited" => exit' = "none"
      /\ decision' \in Reasons \cup {"none"} /\ decision' # "unrelated"
      /\ decision' = "internal_error" => ~(Complete /\ failure = "none")
      /\ \A v \in Verdicts : decision' = EvaluationReasons[v] => Complete /\ Verdict = v
  <2>1. CASE Emergency
    BY <1>2, <1>5, <2>1 DEF Emergency, answer
  <2>2. CASE Decide("deadline_exceeded")
    BY <1>2, <1>5, <2>2 DEF Decide, NeutralReasons
  <2>3. CASE Decide("internal_error") /\ ~(Complete /\ failure = "none")
    BY <1>2, <1>5, <2>3 DEF Decide, NeutralReasons
  <2>4. CASE /\ Decide(EvaluationReasons[Verdict]) /\ Complete /\ Verdict \in Verdicts
             /\ failure = "none" /\ signal = "none"
    BY <1>2, <1>5, <2>4 DEF Decide
  <2> QED
    BY <1>4, <2>1, <2>2, <2>3, <2>4
<1>7. TypeOK'
  BY <1>1, <1>3, <1>6 DEF IInv, TypeOK
<1>8. InputInv' /\ PoolInv'
  BY <1>1, <1>2, <1>3, <1>6 DEF IInv, InputInv, PoolInv
<1>9. ReportsInv' /\ WorkersInv'
  BY <1>1, <1>3 DEF IInv, WorkersInv, NoWorkOutlivesAnswer, Settled
<1>10. AnswerInv'
  BY <1>1, <1>2, <1>3, <1>6 DEF AnswerInv, Proceeds
<1> QED
  BY <1>7, <1>8, <1>9, <1>10 DEF IInv

LEMMA AbortInv == ASSUME IInv, NEW cause \in Causes, Abort(cause) PROVE IInv'
<1>1. /\ Awaiting /\ signal = "none" /\ signal' = cause /\ cause # "none"
      /\ pc' = pc /\ project' = project /\ host' = host /\ command' = command
      /\ qualification' = qualification /\ unique' = unique
      /\ cursor' = cursor /\ worker' = worker /\ reports' = reports
      /\ decision' = decision /\ denied' = denied /\ exit' = exit
  BY PreToolUseAssumption DEF Abort, input, answer
<1>2. /\ pc # "exited"
      /\ failure' \in Causes \cup {"none", "internal"}
      /\ pc = "pool" => failure' # "none"
      /\ pc # "pool" => failure' = failure
  BY <1>1 DEF Awaiting, Abort, PoolFailure, FirstFailure, IInv, TypeOK
<1>3. request' = request /\ category' = category
  BY <1>1 DEF request, category
<1>4. Expanded' = Expanded
  BY <1>1, <1>3 DEF Expanded
<1>5. Complete' = Complete /\ Verdict' = Verdict
  BY <1>1, <1>3, <1>4 DEF Complete, Verdict
<1>6. TypeOK'
  BY <1>1, <1>2, <1>3 DEF IInv, TypeOK
<1>7. InputInv' /\ ReportsInv' /\ WorkersInv'
  BY <1>1, <1>3 DEF IInv, InputInv, ReportsInv, WorkersInv, NoDoubleEvaluation, NoWorkOutlivesAnswer
<1>8. PoolInv'
  BY <1>1, <1>2, <1>3 DEF IInv, PoolInv, Unstarted
<1>9. AnswerInv'
  <2>1. pc = "pool" => decision = "none"
    BY DEF IInv, AnswerInv
  <2>2. exit = "none"
    BY <1>2 DEF IInv, AnswerInv
  <2> QED
    BY <1>1, <1>2, <1>3, <1>5, <2>1, <2>2 DEF IInv, AnswerInv, Proceeds
<1> QED
  BY <1>6, <1>7, <1>8, <1>9 DEF IInv

LEMMA StutterInv == ASSUME IInv, UNCHANGED vars PROVE IInv'
<1>1. /\ pc' = pc /\ project' = project /\ host' = host /\ command' = command
      /\ qualification' = qualification /\ signal' = signal /\ unique' = unique
      /\ failure' = failure /\ cursor' = cursor /\ worker' = worker /\ reports' = reports
      /\ decision' = decision /\ denied' = denied /\ exit' = exit
  BY DEF vars, input, pool, answer
<1>2. /\ request' = request /\ category' = category
      /\ Unstarted' = Unstarted /\ ReportsInv' = ReportsInv
      /\ NoDoubleEvaluation' = NoDoubleEvaluation
      /\ Complete' = Complete /\ Verdict' = Verdict
  BY <1>1, PoolFrame DEF pool
<1> QED
  BY <1>1, <1>2 DEF IInv, TypeOK, InputInv, PoolInv, WorkersInv, NoWorkOutlivesAnswer, AnswerInv, Proceeds

LEMMA NextInv == ASSUME IInv, [Next]_vars PROVE IInv'
  BY StutterInv, ReadInputInv, StartInv, EvaluateInv, LoadAuthorityInv, DeliverInv, RejectInv,
     ConcludeInv, WriteInv, AbortInv
  DEF Next

\* The invariant the theorems below rest on: with it each of them is a matter
\* of one state.
LEMMA Invariance == Spec => []IInv
  BY InitInv, NextInv, PTL DEF Spec

-----------------------------------------------------------------------------
(* What follows.                                                           *)

\* Every variable keeps its type, for any number of workers and operands.
THEOREM TypeCorrect == Spec => []TypeOK
<1>1. IInv => TypeOK
  BY DEF IInv
<1> QED
  BY <1>1, Invariance, PTL

\* The host never goes on with a command that may be a manager's unless all it
\* adds was evaluated, and each package allowed by itself or by its approval;
\* or unless its managers are yarn or bun with a path or a suffix, and no other.
THEOREM RecognizedIsAllowed == Spec => []RecognizedOnlyWhenAllowed
<1>1. ASSUME IInv, Proceeds PROVE RecognizedOnlyWhenAllowed
  <2>1. decision \in {"dependency_allowed", "unrelated"}
    BY <1>1 DEF IInv, AnswerInv, NeutralReasons
  <2>2. CASE decision = "unrelated"
    <3>1. category = "unrelated"
      BY <1>1, <2>2 DEF IInv, AnswerInv
    <3>2. command \in Commands /\ qualification = QualifyCommand(command)
      BY <1>1, <3>1 DEF IInv, InputInv, category, NotQualified
    <3>3. \A i \in ReadAsManager(command) : command.words[i] \in Overlooked
      BY <3>1, <3>2, PreToolUseAssumption, UnrelatedIsUnrecognized DEF category
    <3> QED
      BY <3>3 DEF RecognizedOnlyWhenAllowed
  <2>3. CASE decision = "dependency_allowed"
    <3>1. "allow" \in Verdicts /\ EvaluationReasons["allow"] = "dependency_allowed"
      BY DEF Verdicts, verdictRank, EvaluationReasons
    <3>2. unique # <<>> /\ Complete /\ Verdict = "allow"
      BY <1>1, <2>3, <3>1 DEF IInv, AnswerInv
    <3>3. category = "dependency_add" /\ command \in Commands /\ qualification = QualifyCommand(command)
      BY <1>1, <3>2, PoolFacts DEF IInv, PoolInv
    <3>4. Adds(command, request)
      BY <3>3, PreToolUseAssumption, AdditionIsWhole DEF category, request
    <3>5. ASSUME NEW p \in ToSet(request)
          PROVE  \E r \in ToSet(reports) \ {NoReport} :
                    /\ r.target = p /\ r.verdict = "allow"
                    /\ r.original = "allow" \/ (r.original = "review" /\ r.approval)
      <4>1. PICK i \in DOMAIN request : request[i] = p
        BY DEF ToSet
      <4>2. /\ Expanded[i] \in ReportsOf(p)
            /\ \E k \in 1..MaxOperands : Expanded[i] = reports[k] /\ reports[k] # NoReport
            /\ verdictRank[Expanded[i].verdict] <= verdictRank["allow"]
        BY <1>1, <3>2, <4>1, CompleteOutcome
      <4>3. Bounded(Expanded[i]) /\ Expanded[i].target = p
        BY <4>2, ReportsAreBounded
      <4>4. Expanded[i].verdict = "allow"
        BY <4>2, <4>3 DEF Bounded, Verdicts, verdictRank
      <4>5. Expanded[i].original = "allow" \/ (Expanded[i].original = "review" /\ Expanded[i].approval)
        BY <4>3, <4>4 DEF Bounded
      <4>6. Expanded[i] \in ToSet(reports) \ {NoReport}
        BY <1>1, <4>2 DEF ToSet, IInv, ReportsInv
      <4> QED
        BY <4>3, <4>4, <4>5, <4>6
    <3> QED
      BY <3>4, <3>5 DEF RecognizedOnlyWhenAllowed, AddedAndAllowed
  <2> QED
    BY <2>1, <2>2, <2>3
<1>2. IInv => RecognizedOnlyWhenAllowed
  BY <1>1 DEF RecognizedOnlyWhenAllowed
<1> QED
  BY <1>2, Invariance, PTL

\* An abort, wherever it strikes, never ends in a process that lets the host go on.
THEOREM AbortDenies == Spec => []AbortNeverAdmits
<1>1. IInv => AbortNeverAdmits
  BY DEF IInv, AnswerInv, AbortNeverAdmits
<1> QED
  BY <1>1, Invariance, PTL

\* No package is evaluated twice, and each operand is judged by its own report,
\* in whatever order the workers finish.
THEOREM ReportsAreInOrder == Spec => []ReportsFollowOperands
<1>1. ASSUME IInv, NEW v \in Verdicts, decision = EvaluationReasons[v], NEW i \in DOMAIN request
      PROVE  Expanded[i] # NoReport /\ Expanded[i].target = request[i]
  <2>1. unique # <<>> /\ Complete
    BY <1>1 DEF IInv, AnswerInv
  <2>2. /\ Expanded[i] \in ReportsOf(request[i])
        /\ \E k \in 1..MaxOperands : Expanded[i] = reports[k] /\ reports[k] # NoReport
    BY <1>1, <2>1, CompleteOutcome
  <2> QED
    BY <2>2, ReportsAreBounded
<1>2. IInv => ReportsFollowOperands
  BY <1>1 DEF ReportsFollowOperands, IInv, WorkersInv
<1> QED
  BY <1>2, Invariance, PTL

\* The decision schema never refuses what the pool concluded.
THEOREM OutcomeIsReported == Spec => []VerdictIsExpressible
<1>1. IInv => VerdictIsExpressible
  BY DEF IInv, AnswerInv, VerdictIsExpressible
<1> QED
  BY <1>1, Invariance, PTL

\* No evaluation is still running when the hook answers or exits.
THEOREM WorkEndsFirst == Spec => []NoWorkOutlivesAnswer
<1>1. IInv => NoWorkOutlivesAnswer
  BY DEF IInv, WorkersInv
<1> QED
  BY <1>1, Invariance, PTL

\* After a failure no worker starts another package: it holds for every step,
\* those that start the pool included, because no failure precedes the pool.
THEOREM FailureStopsThePool == Spec => NoEvaluationAfterFailure
<1>1. ASSUME IInv, Next, failure # "none", NEW w \in Workers, worker'[w].state = "busy"
      PROVE  worker'[w] = worker[w]
  <2>1. unique # <<>> /\ pc \notin {"evaluate", "authority"}
    BY <1>1 DEF IInv, PoolInv, Unstarted
  <2>2. worker \in [Workers -> [state : {"idle", "busy", "returned", "threw"}, index : 0..Len(unique)]]
    BY <1>1 DEF IInv, TypeOK
  <2>3. ASSUME NEW v \in Workers, Deliver(v) \/ Reject(v) PROVE worker'[w] = worker[w]
    <3>1. \E s \in {"returned", "threw"} : worker' = [worker EXCEPT ![v] = Stopped(s, v)]
      BY <1>1, <2>3 DEF Deliver, Reject, MayContinue
    <3> QED
      BY <1>1, <2>2, <3>1, StoppedType DEF IInv
  <2>4. CASE \E v \in Workers : Deliver(v) \/ Reject(v)
    BY <2>3, <2>4
  <2>5. CASE ~\E v \in Workers : Deliver(v) \/ Reject(v)
    <3>1. worker' = worker
      BY <1>1, <2>1, <2>5
      DEF Next, ReadInput, LaunchAuthority, VerifyInvocation, Evaluate, LoadAuthority,
          Conclude, WriteOutput, WriteError, Abort, pool
    <3> QED
      BY <3>1
  <2> QED
    BY <2>4, <2>5
<1>2. IInv /\ [Next]_vars => [failure # "none" =>
          \A w \in Workers : worker'[w].state = "busy" => worker'[w] = worker[w]]_vars
  BY <1>1
<1> QED
  BY <1>2, Invariance, PTL DEF Spec, NoEvaluationAfterFailure
=============================================================================
