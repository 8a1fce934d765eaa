---------------------------- MODULE AuthzProofs ----------------------------
(***************************************************************************)
(* Theorems about Authz, for any resources, chains, policies, bindings and *)
(* subjects: a list plan lets through what asking for every row would,     *)
(* unknown fails closed, a delegation only narrows, the remedy of a        *)
(* missing scope helps, and granting never escalates.                      *)
(*                                                                         *)
(* approvalFor walks a chain with a fold. What it computes is proved by    *)
(* induction over the subsets of the chain, in the form of a least         *)
(* counterexample.                                                         *)
(***************************************************************************)
EXTENDS Authz, FiniteSetTheorems, TLAPS

-----------------------------------------------------------------------------
\* Least elements

\* A set of naturals has a least one.
LEMMA LeastNatural ==
  ASSUME NEW T \in SUBSET Nat, T # {} PROVE \E m \in T : \A n \in T : m <= n
<1> DEFINE R == OpToRel(<, Nat)
<1>1. PICK m \in T : \A n \in T : <<n, m>> \notin R
  <2> HIDE DEF R
  <2>1. IsWellFoundedOn(R, Nat)
    BY NatLessThanWellFounded DEF R
  <2> QED
    BY <2>1, WFMin
<1>2. \A n \in T : n < m => <<n, m>> \in R
  BY DEF OpToRel
<1> HIDE DEF R
<1>3. \A n \in T : ~(n < m)
  BY <1>1, <1>2
<1> QED
  BY <1>3

\* Among subsets of a finite set there is one that contains no other of them.
LEMMA LeastSubset ==
  ASSUME NEW D, IsFiniteSet(D), NEW T \in SUBSET (SUBSET D), T # {}
  PROVE  \E s \in T : \A t \in T : t \subseteq s => t = s
<1> DEFINE R == StrictSubsetOrdering(D)
<1>1. FiniteSubsetsOf(D) = SUBSET D
  BY FS_FiniteSubsetsOfFinite
<1>2. PICK s \in T : \A t \in T : <<t, s>> \notin R
  <2> HIDE DEF R
  <2>1. IsWellFoundedOn(R, SUBSET D)
    BY <1>1, FS_StrictSubsetOrderingWellFounded DEF R
  <2> QED
    BY <2>1, WFMin
<1>3. \A t \in T : t \subseteq s /\ t # s => <<t, s>> \in R
  BY DEF StrictSubsetOrdering
<1> HIDE DEF R
<1>4. \A t \in T : t \subseteq s => t = s
  BY <1>2, <1>3
<1> QED
  BY <1>4

-----------------------------------------------------------------------------
\* Recursion over the subsets of a finite set

\* A function that is defined by recursion over the subsets of a finite set:
\* `before` takes something away, `op` computes from what is left.
Solves(h, S, base, op, before) ==
  \A s \in SUBSET S : h[s] = IF s = {} THEN base ELSE op[s][h[before[s]]]

Shrinks(before, D) ==
  /\ before \in [SUBSET D -> SUBSET D]
  /\ \A s \in SUBSET D : s # {} => before[s] \subseteq s /\ before[s] # s

\* Two solutions agree where both are defined.
LEMMA SolutionsAgree ==
  ASSUME NEW D, IsFiniteSet(D), NEW base, NEW op, NEW before,
         \A s \in SUBSET D : s # {} => before[s] \subseteq s /\ before[s] # s,
         NEW S \in SUBSET D, NEW T \in SUBSET D,
         NEW g, NEW h, Solves(g, S, base, op, before), Solves(h, T, base, op, before)
  PROVE  \A s \in SUBSET (S \cap T) : g[s] = h[s]
<1> DEFINE Bad == {s \in SUBSET (S \cap T) : g[s] # h[s]}
<1> SUFFICES ASSUME Bad # {} PROVE FALSE
  OBVIOUS
<1>1. PICK s \in Bad : \A t \in Bad : t \subseteq s => t = s
  <2> HIDE DEF Bad
  <2>1. Bad \in SUBSET (SUBSET D)
    BY DEF Bad
  <2> QED
    BY <2>1, LeastSubset
<1>2. CASE s = {}
  BY <1>1, <1>2 DEF Solves
<1>3. CASE s # {}
  <2>1. before[s] \in SUBSET (S \cap T) /\ before[s] \notin Bad
    BY <1>1, <1>3
  <2>2. g[before[s]] = h[before[s]]
    BY <2>1
  <2>3. s \in SUBSET S /\ s \in SUBSET T
    OBVIOUS
  <2>4. g[s] = op[s][g[before[s]]] /\ h[s] = op[s][h[before[s]]]
    BY <1>3, <2>3 DEF Solves
  <2> QED
    BY <1>1, <2>2, <2>4
<1> QED
  BY <1>2, <1>3

\* And there is one.
LEMMA SolutionExists ==
  ASSUME NEW D, IsFiniteSet(D), NEW Acc, NEW base \in Acc, NEW op \in [SUBSET D -> [Acc -> Acc]],
         NEW before, Shrinks(before, D)
  PROVE  \E h \in [SUBSET D -> Acc] : Solves(h, D, base, op, before)
<1> USE DEF Shrinks
<1> DEFINE Solved(S) == \E h \in [SUBSET S -> Acc] : Solves(h, S, base, op, before)
           Bad == {S \in SUBSET D : ~Solved(S)}
<1> SUFFICES ASSUME Bad # {} PROVE FALSE
  OBVIOUS
<1>1. PICK S \in Bad : \A t \in Bad : t \subseteq S => t = S
  <2> HIDE DEF Bad
  <2>1. Bad \in SUBSET (SUBSET D)
    BY DEF Bad
  <2> QED
    BY <2>1, LeastSubset
<1> DEFINE H == [T \in SUBSET S |-> CHOOSE h \in [SUBSET T -> Acc] : Solves(h, T, base, op, before)]
           g == [T \in SUBSET S |-> IF T = {} THEN base ELSE op[T][H[before[T]][before[T]]]]
<1>2. ASSUME NEW T \in SUBSET S, T # S
      PROVE  H[T] \in [SUBSET T -> Acc] /\ Solves(H[T], T, base, op, before)
  <2>1. \E h \in [SUBSET T -> Acc] : Solves(h, T, base, op, before)
    BY <1>1, <1>2
  <2> QED
    BY <2>1
<1>3. ASSUME NEW T \in SUBSET S, T # {}
      PROVE  /\ before[T] \in SUBSET S /\ before[T] # S /\ before[T] \subseteq T
             /\ H[before[T]][before[T]] \in Acc
  <2>1. before[T] \in SUBSET S /\ before[T] # S /\ before[T] \subseteq T
    BY <1>3
  <2>2. H[before[T]] \in [SUBSET before[T] -> Acc]
    BY <1>2, <2>1
  <2> QED
    BY <2>1, <2>2
<1> HIDE DEF H
<1>4. g \in [SUBSET S -> Acc]
  BY <1>3
<1>5. ASSUME NEW T \in SUBSET S, T # S PROVE g[T] = H[T][T]
  <2>1. CASE T = {}
    BY <1>2, <1>5, <2>1 DEF Solves
  <2>2. CASE T # {}
    <3> DEFINE U == before[T]
    <3>1. U \in SUBSET S /\ U # S /\ U \subseteq T /\ U \in SUBSET D /\ T \in SUBSET D
      BY <1>3, <2>2
    <3> HIDE DEF U
    <3>2. Solves(H[T], T, base, op, before) /\ Solves(H[U], U, base, op, before)
      BY <1>2, <1>5, <3>1
    <3> DEFINE x == H[T]
               y == H[U]
    <3>6. Solves(x, T, base, op, before) /\ Solves(y, U, base, op, before)
      BY <3>2
    <3> HIDE DEF x, y
    <3>7. \A s \in SUBSET (T \cap U) : x[s] = y[s]
      BY <3>1, <3>6, SolutionsAgree
    <3>3. \A s \in SUBSET (T \cap U) : H[T][s] = H[U][s]
      BY <3>7 DEF x, y
    <3>4. H[T][U] = H[U][U]
      BY <3>1, <3>3
    <3>5. H[T][T] = op[T][H[T][U]]
      BY <2>2, <3>2 DEF Solves, U
    <3> QED
      BY <2>2, <3>4, <3>5 DEF U
  <2> QED
    BY <2>1, <2>2
<1>6. Solves(g, S, base, op, before)
  <2> SUFFICES ASSUME NEW T \in SUBSET S, T # {} PROVE g[T] = op[T][g[before[T]]]
    BY DEF Solves
  <2>1. g[before[T]] = H[before[T]][before[T]]
    BY <1>3, <1>5
  <2> QED
    BY <2>1
<1> QED
  BY <1>1, <1>4, <1>6

-----------------------------------------------------------------------------
\* Chains and levels

\* A chain is the resource and its ancestors, and the rest of it after a scope
\* are the ancestors of that scope.
LEMMA ChainShape ==
  ASSUME AuthzAssumption, AncestorsNest, NEW rn \in Rn
  PROVE  /\ Chain(rn) \in Seq(Rn) /\ Scopes(rn) = {Chain(rn)[i] : i \in DOMAIN Chain(rn)}
         /\ Scopes(rn) = {rn} \cup ToSet(Ancestors[rn]) /\ Scopes(rn) \subseteq Rn
         /\ \A i \in DOMAIN Chain(rn) :
              /\ Chain(rn)[i] \notin ToSet(Ancestors[Chain(rn)[i]])
              /\ ToSet(Ancestors[Chain(rn)[i]]) = {Chain(rn)[j] : j \in i + 1 .. Len(Chain(rn))}
<1> DEFINE anc == Ancestors[rn]
           c == <<rn>> \o anc
<1>0. anc \in Seq(Rn)
  BY DEF AuthzAssumption
<1>1. Chain(rn) = c /\ Scopes(rn) = {c[i] : i \in DOMAIN c} /\ ToSet(anc) = {anc[i] : i \in DOMAIN anc}
  BY DEF Chain, Scopes, ToSet
<1> HIDE DEF anc
<1>2. /\ c \in Seq(Rn) /\ Len(c) = Len(anc) + 1 /\ c[1] = rn
      /\ \A i \in 1 .. Len(anc) : c[i + 1] = anc[i]
  BY <1>0
<1>3. DOMAIN c = 1 .. Len(anc) + 1 /\ DOMAIN anc = 1 .. Len(anc) /\ Len(anc) \in Nat
  BY <1>0, <1>2
<1> HIDE DEF c
<1>4. ASSUME NEW i \in DOMAIN c, i # 1 PROVE i - 1 \in DOMAIN anc /\ c[i] = anc[i - 1]
  <2>1. i - 1 \in 1 .. Len(anc) /\ (i - 1) + 1 = i
    BY <1>3, <1>4
  <2> QED
    BY <1>2, <1>3, <2>1
<1>5. ASSUME NEW i \in DOMAIN c PROVE c[i] \in {rn} \cup {anc[j] : j \in DOMAIN anc}
  <2>1. CASE i = 1
    BY <1>2, <2>1
  <2>2. CASE i # 1
    BY <1>4, <1>5, <2>2
  <2> QED
    BY <2>1, <2>2
<1>6. ASSUME NEW i \in DOMAIN anc PROVE anc[i] \in {c[j] : j \in DOMAIN c}
  <2>1. i + 1 \in DOMAIN c /\ c[i + 1] = anc[i]
    BY <1>2, <1>3, <1>6
  <2> QED
    BY <2>1
<1>7. rn \in {c[j] : j \in DOMAIN c}
  <2>1. 1 \in DOMAIN c /\ c[1] = rn
    BY <1>2, <1>3
  <2> QED
    BY <2>1
<1>8. Scopes(rn) = {rn} \cup ToSet(anc) /\ Scopes(rn) \subseteq Rn
  <2>1. {anc[i] : i \in DOMAIN anc} \subseteq Rn
    BY <1>0
  <2> DEFINE C == {c[i] : i \in DOMAIN c}
             A == {anc[i] : i \in DOMAIN anc}
  <2>2. \A x \in C : x \in {rn} \cup A
    BY <1>5
  <2>3. \A x \in A : x \in C
    BY <1>6
  <2>4. rn \in C /\ Scopes(rn) = C /\ ToSet(anc) = A /\ A \subseteq Rn
    BY <1>1, <1>7, <2>1
  <2> HIDE DEF C, A
  <2> QED
    BY <2>2, <2>3, <2>4
<1>9. ASSUME NEW i \in 1 .. Len(c)
      PROVE  {c[j] : j \in i + 1 .. Len(c)} = {anc[j] : j \in i .. Len(anc)}
  <2>1. ASSUME NEW j \in i + 1 .. Len(c) PROVE c[j] \in {anc[k] : k \in i .. Len(anc)}
    <3>1. j - 1 \in i .. Len(anc) /\ j \in DOMAIN c /\ j # 1
      BY <1>2, <1>3, <2>1
    <3> QED
      BY <1>4, <3>1
  <2>2. ASSUME NEW k \in i .. Len(anc) PROVE anc[k] \in {c[j] : j \in i + 1 .. Len(c)}
    <3>1. k + 1 \in i + 1 .. Len(c) /\ k \in 1 .. Len(anc)
      BY <1>2, <1>3, <2>2
    <3> QED
      BY <1>2, <3>1
  <2> DEFINE C == {c[j] : j \in i + 1 .. Len(c)}
             A == {anc[j] : j \in i .. Len(anc)}
  <2>3. \A x \in C : x \in A
    BY <2>1
  <2>4. \A x \in A : x \in C
    BY <2>2
  <2>5. C = A
    <3> HIDE DEF C, A
    <3> QED
      BY <2>3, <2>4
  <2> QED
    BY <2>5
<1>10. ASSUME NEW i \in DOMAIN c
       PROVE  c[i] \notin ToSet(Ancestors[c[i]]) /\ ToSet(Ancestors[c[i]]) = {c[j] : j \in i + 1 .. Len(c)}
  <2>1. c[i] \in Rn /\ i \in 1 .. Len(c)
    BY <1>2, <1>3
  <2>2. c[i] \notin ToSet(Ancestors[c[i]])
    BY <2>1 DEF AncestorsNest
  <2>3. CASE i = 1
    <3>1. ToSet(Ancestors[c[i]]) = {anc[j] : j \in 1 .. Len(anc)}
      BY <1>1, <1>2, <1>3, <2>3 DEF anc
    <3> QED
      BY <1>9, <2>1, <2>2, <2>3, <3>1
  <2>4. CASE i # 1
    <3>1. i - 1 \in DOMAIN anc /\ c[i] = anc[i - 1]
      BY <1>4, <2>4
    <3>2. ToSet(Ancestors[anc[i - 1]]) = {anc[j] : j \in (i - 1) + 1 .. Len(anc)}
      BY <3>1 DEF AncestorsNest, anc
    <3>3. (i - 1) + 1 = i
      BY <2>1
    <3> QED
      BY <1>9, <2>1, <2>2, <3>1, <3>2, <3>3
  <2> QED
    BY <2>3, <2>4
<1>11. Scopes(rn) = {rn} \cup ToSet(Ancestors[rn]) /\ Scopes(rn) \subseteq Rn
  BY <1>8 DEF anc
<1> DEFINE Rest(s) == \A i \in DOMAIN s : /\ s[i] \notin ToSet(Ancestors[s[i]])
                                         /\ ToSet(Ancestors[s[i]]) = {s[j] : j \in i + 1 .. Len(s)}
           Whole(s) == s \in Seq(Rn) /\ Scopes(rn) = {s[i] : i \in DOMAIN s}
<1>12. Whole(c) /\ Rest(c)
  BY <1>1, <1>2, <1>10
<1> HIDE DEF Rest, Whole
<1>13. Whole(Chain(rn)) /\ Rest(Chain(rn))
  BY <1>1, <1>12
<1> QED
  BY <1>11, <1>13 DEF Rest, Whole

\* Max and Min of levels are what their names say.
LEMMA LevelExtremes ==
  ASSUME NEW S \in SUBSET Level, S # {}
  PROVE  /\ Max(S) \in S /\ \A x \in S : x <= Max(S)
         /\ Min(S) \in S /\ \A x \in S : Min(S) <= x
<1>0. \A x \in S : x \in {-1, 0, 1, 2}
  BY DEF Level, HumansOnly
<1>1. \E m \in S : \A x \in S : m >= x
  <2>1. CASE 2 \in S
    BY <1>0, <2>1
  <2>2. CASE 2 \notin S /\ 1 \in S
    BY <1>0, <2>2
  <2>3. CASE 2 \notin S /\ 1 \notin S /\ 0 \in S
    BY <1>0, <2>3
  <2>4. CASE 2 \notin S /\ 1 \notin S /\ 0 \notin S
    BY <1>0, <2>4
  <2> QED
    BY <2>1, <2>2, <2>3, <2>4
<1>2. \E m \in S : \A x \in S : m =< x
  <2>1. CASE -1 \in S
    BY <1>0, <2>1
  <2>2. CASE -1 \notin S /\ 0 \in S
    BY <1>0, <2>2
  <2>3. CASE -1 \notin S /\ 0 \notin S /\ 1 \in S
    BY <1>0, <2>3
  <2>4. CASE -1 \notin S /\ 0 \notin S /\ 1 \notin S
    BY <1>0, <2>4
  <2> QED
    BY <2>1, <2>2, <2>3, <2>4
<1>3. Max(S) \in S /\ \A x \in S : Max(S) >= x
  BY <1>1 DEF Max
<1>4. Min(S) \in S /\ \A x \in S : Min(S) =< x
  BY <1>2 DEF Min
<1> QED
  BY <1>3, <1>4 DEF Level

Acc == [level : Level, floor : Level]

LEMMA StepType ==
  ASSUME Valid(policy), NEW a, NEW scope, NEW acc \in Acc
  PROVE  Step(a, scope, acc) \in Acc
<1> DEFINE on == ApprovalsOn(a, scope)
<1>1. on \subseteq policy.approvals
  BY DEF ApprovalsOn
<1>2. ASSUME NEW X \in SUBSET on PROVE Strictest(X) \in Level
  <2> DEFINE S == {-1} \cup {x.level : x \in X}
  <2>1. S \in SUBSET Level /\ S # {}
    BY <1>1, <1>2 DEF Valid, Level, HumansOnly
  <2> HIDE DEF S
  <2>2. Max(S) \in Level
    BY <2>1, LevelExtremes
  <2> QED
    BY <2>2 DEF Strictest, S
<1>3. Strictest(on) \in Level /\ Strictest({x \in on : x.locked}) \in Level
  BY <1>2
<1>4. acc.level \in Level /\ acc.floor \in Level
  BY DEF Acc
<1>5. \A x, y \in Level : Max({x, y}) \in Level
  BY LevelExtremes
<1> HIDE DEF on
<1>6. /\ Max({Strictest(on), acc.floor}) \in Level
      /\ Max({acc.floor, Strictest({x \in on : x.locked})}) \in Level
  BY <1>3, <1>4, <1>5
<1> QED
  BY <1>6 DEF Step, Acc, on

LEMMA LeastOf ==
  ASSUME NEW s \in SUBSET Nat, s # {} PROVE Min(s) \in s /\ \A x \in s : Min(s) <= x
<1>1. \E m \in s : \A x \in s : m =< x
  BY LeastNatural
<1>2. Min(s) \in s /\ \A x \in s : Min(s) =< x
  BY <1>1 DEF Min
<1> QED
  BY <1>2

\* The walk up the chain, as a function of the part of the chain it has left.
WalksChain(h, a, c) ==
  \A s \in SUBSET DOMAIN c :
    h[s] = IF s = {} THEN [level |-> -1, floor |-> Floor[a]] ELSE Step(a, c[Min(s)], h[s \ {Min(s)}])

\* The recursion behind the fold has a solution, so that the fold is one.
LEMMA ApprovalWalks ==
  ASSUME AuthzAssumption, Valid(policy), NEW a \in Action, NEW rn \in Rn
  PROVE  \E h \in [SUBSET DOMAIN Chain(rn) -> Acc] :
           WalksChain(h, a, Chain(rn)) /\ Approval(a, rn) = h[DOMAIN Chain(rn)]
<1> DEFINE c == Chain(rn)
           D == DOMAIN c
           base == [level |-> -1, floor |-> Floor[a]]
           first(s) == Min(s)
           op == [s \in SUBSET D |-> [acc \in Acc |-> Step(a, c[Min(s)], acc)]]
           before == [s \in SUBSET D |-> s \ {Min(s)}]
           Is(it) == it = [s \in SUBSET D |-> IF s = {} THEN base ELSE Step(a, c[Min(s)], it[s \ {Min(s)}])]
           iter == CHOOSE it : Is(it)
<1>1. c \in Seq(Rn) /\ Len(c) \in Nat /\ D = 1 .. Len(c)
  <2>1. Ancestors[rn] \in Seq(Rn) /\ <<rn>> \in Seq(Rn)
    BY DEF AuthzAssumption
  <2>2. c \in Seq(Rn)
    BY <2>1 DEF Chain
  <2> QED
    BY <2>2
<1> HIDE DEF c
<1>2. IsFiniteSet(D) /\ D \subseteq Nat
  <2> HIDE DEF D
  <2>1. IsFiniteSet(1 .. Len(c))
    <3>1. \A x, y \in Int : IsFiniteSet(x .. y)
      BY FS_Interval
    <3>2. 1 \in Int /\ Len(c) \in Int
      BY <1>1
    <3> QED
      BY <3>1, <3>2, Zenon
  <2> QED
    BY <1>1, <2>1
<1>3. base \in Acc
  BY DEF AuthzAssumption, Acc, Level, HumansOnly
<1>4. ASSUME NEW s \in SUBSET D, s # {} PROVE Min(s) \in s
  BY <1>2, <1>4, LeastOf
<1> HIDE DEF D, base
<1>5. op \in [SUBSET D -> [Acc -> Acc]]
  BY StepType
<1>6. Shrinks(before, D)
  BY <1>4 DEF Shrinks
<1>7. PICK h \in [SUBSET D -> Acc] : Solves(h, D, base, op, before)
  <2> HIDE DEF op, before
  <2>1. \E h \in [SUBSET D -> Acc] : Solves(h, D, base, op, before)
    BY <1>2, <1>3, <1>5, <1>6, SolutionExists
  <2> QED
    BY <2>1
<1>8. Is(h)
  <2>1. ASSUME NEW s \in SUBSET D
        PROVE  h[s] = IF s = {} THEN base ELSE Step(a, c[Min(s)], h[s \ {Min(s)}])
    <3>1. s \ {Min(s)} \in SUBSET D /\ h[s \ {Min(s)}] \in Acc
      OBVIOUS
    <3> QED
      BY <1>7, <3>1 DEF Solves
  <2> QED
    BY <2>1
<1>9. Is(iter)
  BY <1>8
<1> HIDE DEF iter
<1>10. \A s \in SUBSET D : iter[s] \in Acc
  <2> DEFINE Bad == {s \in SUBSET D : iter[s] \notin Acc}
  <2> SUFFICES ASSUME Bad # {} PROVE FALSE
    OBVIOUS
  <2>1. PICK s \in Bad : \A t \in Bad : t \subseteq s => t = s
    <3> HIDE DEF Bad
    <3>1. Bad \in SUBSET (SUBSET D)
      BY DEF Bad
    <3> QED
      BY <1>2, <3>1, LeastSubset
  <2>2. iter[s] = IF s = {} THEN base ELSE Step(a, c[Min(s)], iter[s \ {Min(s)}])
    BY <1>9
  <2>3. CASE s = {}
    BY <1>3, <2>1, <2>2, <2>3
  <2>4. CASE s # {}
    <3>1. s \ {Min(s)} \in SUBSET D /\ s \ {Min(s)} \notin Bad
      BY <1>4, <2>1, <2>4
    <3> QED
      BY <2>1, <2>2, <2>4, <3>1, StepType
  <2> QED
    BY <2>3, <2>4
<1>11. Approval(a, rn) = iter[D]
  BY DEF Approval, FoldRight, MapThenFoldSet, iter, D, c, base
<1>12. iter \in [SUBSET D -> Acc]
  BY <1>9, <1>10
<1>13. WalksChain(iter, a, c)
  BY <1>9 DEF WalksChain, D, base
<1> HIDE DEF D
<1>14. \E g \in [SUBSET D -> Acc] : WalksChain(g, a, c) /\ Approval(a, rn) = g[D]
  BY <1>11, <1>12, <1>13
<1> QED
  BY <1>14 DEF D, c

\* Whatever approvals there are, the walk ends with two levels.
LEMMA ApprovalType ==
  ASSUME AuthzAssumption, Valid(policy), NEW a \in Action, NEW rn \in Rn
  PROVE  Approval(a, rn) \in Acc
<1>1. PICK h \in [SUBSET DOMAIN Chain(rn) -> Acc] : Approval(a, rn) = h[DOMAIN Chain(rn)]
  BY ApprovalWalks
<1> QED
  BY <1>1

-----------------------------------------------------------------------------
\* What a decision depends on

\* The ceilings that a subject brings with it.
CapsLevelled(s) == s.restrictions # None => Levelled(s.restrictions)

LEMMA CeilingRules ==
  ASSUME AuthzAssumption, Valid(policy), NEW s, CapsLevelled(s), NEW c \in Ceilings(s)
  PROVE  Levelled(c.rules)
<1>1. CASE c \in {[layer |-> "guardrail", on |-> g.on, rules |-> g.rules] :
                    g \in {x \in policy.guardrails : Applies(x, s)}}
  BY <1>1 DEF Valid
<1>2. CASE c \in {[layer |-> "boundary", on |-> None, rules |-> b.rules] :
                    b \in {x \in policy.boundaries : \E p \in Actors(s) : Selects(x.principals, p)}}
  BY <1>2 DEF Valid
<1>3. CASE c = [layer |-> "scope", on |-> None,
                rules |-> UNION {TokenScope[t] : t \in s.scopes \cap DOMAIN TokenScope}]
  BY <1>3 DEF AuthzAssumption, Levelled
<1>4. CASE s.restrictions # None /\ c = [layer |-> "restriction", on |-> None, rules |-> s.restrictions]
  BY <1>4 DEF CapsLevelled
<1> QED
  BY <1>1, <1>2, <1>3, <1>4 DEF Ceilings

LEMMA CeilingLevelType ==
  ASSUME AuthzAssumption, Valid(policy), NEW s, CapsLevelled(s), NEW a, NEW rn, NEW w
  PROVE  CeilingLevel(s, a, rn, w) \in RuleLevel
<1> DEFINE Passed == CeilingsAt(s, rn) \ Failed(s, a, rn, w)
           LevelOf(c) == Min({r.level : r \in Passing(c, a, rn, w)})
           S == {-1} \cup {LevelOf(c) : c \in Passed}
<1>0. RuleLevel \subseteq Level /\ -1 \in RuleLevel
  BY DEF RuleLevel, Level, HumansOnly
<1>1. \A c \in Ceilings(s) : \A r \in c.rules : r.level \in RuleLevel
  BY CeilingRules DEF Levelled
<1>2. ASSUME NEW c \in Passed PROVE LevelOf(c) \in RuleLevel
  <2> DEFINE L == {r.level : r \in Passing(c, a, rn, w)}
  <2>1. Passing(c, a, rn, w) # {} /\ c \in Ceilings(s)
    BY <1>2 DEF Failed, CeilingsAt
  <2>2. L \in SUBSET RuleLevel /\ L # {}
    <3>1. \A r \in Passing(c, a, rn, w) : r.level \in RuleLevel
      BY <1>1, <2>1 DEF Passing
    <3> QED
      BY <2>1, <3>1
  <2> HIDE DEF L
  <2>3. Min(L) \in L
    BY <1>0, <2>2, LevelExtremes
  <2> QED
    BY <2>2, <2>3 DEF L
<1>3. S \in SUBSET RuleLevel /\ S # {}
  <2> HIDE DEF LevelOf, Passed
  <2> QED
    BY <1>0, <1>2
<1>4. CeilingLevel(s, a, rn, w) = Max(S)
  BY DEF CeilingLevel
<1> HIDE DEF S
<1>5. Max(S) \in S
  BY <1>0, <1>3, LevelExtremes
<1> QED
  BY <1>3, <1>4, <1>5

\* A rule is never humans-only, so the ceilings do not decide that an approval is.
LEMMA CeilingsDoNotShutOut ==
  ASSUME AuthzAssumption, Valid(policy), NEW a \in Action, NEW rn \in Rn,
         NEW c \in RuleLevel, NEW d \in RuleLevel, ApprovalLevel(a, rn, c) # HumansOnly
  PROVE  ApprovalLevel(a, rn, d) # HumansOnly
<1> DEFINE x == Approval(a, rn).level
           y == Approval(a, rn).floor
<1>1. x \in Level /\ y \in Level
  BY ApprovalType DEF Acc
<1>2. ApprovalLevel(a, rn, c) = Max({0, x, y, c}) /\ ApprovalLevel(a, rn, d) = Max({0, x, y, d})
  BY DEF ApprovalLevel
<1> HIDE DEF x, y
<1>3. {0, x, y, c} \in SUBSET Level /\ {0, x, y, d} \in SUBSET Level
  BY <1>1 DEF RuleLevel, Level, HumansOnly
<1>4. /\ Max({0, x, y, c}) \in Level /\ \A z \in {0, x, y, c} : z <= Max({0, x, y, c})
      /\ Max({0, x, y, d}) \in {0, x, y, d}
  BY <1>3, LevelExtremes
<1>5. x # HumansOnly /\ y # HumansOnly
  BY <1>1, <1>2, <1>4 DEF Level, HumansOnly
<1> QED
  BY <1>2, <1>4, <1>5 DEF RuleLevel, HumansOnly

\* The approval that shuts a workload out.
ShutOut(s, a, rn) == IsWorkload(s) /\ ApprovalLevel(a, rn, -1) = HumansOnly

LEMMA DecidesSplit ==
  ASSUME AuthzAssumption, Valid(policy), NEW s, CapsLevelled(s), NEW a \in Action, NEW rn \in Rn,
         NEW w, NEW only \in BOOLEAN
  PROVE  Decides(s, a, rn, w, only) <=>
           /\ ~Denied(s, a, rn, w, only) /\ Failed(s, a, rn, w) = {}
           /\ Granted(s, a, rn, w, only) /\ ~ShutOut(s, a, rn)
<1>1. CeilingLevel(s, a, rn, w) \in RuleLevel /\ -1 \in RuleLevel
  <2>1. -1 \in RuleLevel
    BY DEF RuleLevel, Level, HumansOnly
  <2> QED
    BY <2>1, CeilingLevelType
<1>2. ApprovalLevel(a, rn, CeilingLevel(s, a, rn, w)) # HumansOnly
        <=> ApprovalLevel(a, rn, -1) # HumansOnly
  BY <1>1, CeilingsDoNotShutOut
<1> QED
  BY <1>2 DEF Decides, ShutOut

\* The subjects that ask, and those that a property compares them with.
LEMMA SubjectCaps ==
  ASSUME AuthzAssumption, NEW s \in Subject
  PROVE  CapsLevelled(s)
BY DEF AuthzAssumption, CapsLevelled

-----------------------------------------------------------------------------
\* Unknown fails closed

\* What v leaves of the answers of w: every test that w settles comes out the same.
Keeps(s, rn, w, v) ==
  \A t \in TestsFor(s) : Outcome(t, rn, w) # "unknown" => Outcome(t, rn, v) = Outcome(t, rn, w)

LEMMA TestedKnown ==
  ASSUME NEW s, NEW rn, NEW w, NEW v, Keeps(s, rn, w, v), NEW tests \in SUBSET TestsFor(s),
         Tested(tests, rn, w) # "unknown"
  PROVE  Tested(tests, rn, v) = Tested(tests, rn, w)
<1> DEFINE Of(x) == {Outcome(t, rn, x) : t \in tests}
<1>1. Tested(tests, rn, w) = (IF "no" \in Of(w) THEN "no" ELSE IF "unknown" \in Of(w) THEN "unknown" ELSE "yes")
  BY DEF Tested
<1>2. Tested(tests, rn, v) = (IF "no" \in Of(v) THEN "no" ELSE IF "unknown" \in Of(v) THEN "unknown" ELSE "yes")
  BY DEF Tested
<1>3. CASE "no" \in Of(w)
  <2>1. "no" \in Of(v)
    BY <1>3 DEF Keeps
  <2> HIDE DEF Of
  <2> QED
    BY <1>1, <1>2, <1>3, <2>1
<1>4. CASE "no" \notin Of(w)
  <2>1. "unknown" \notin Of(w)
    BY <1>1, <1>4
  <2>2. Of(v) = Of(w)
    BY <2>1 DEF Keeps
  <2> HIDE DEF Of
  <2> QED
    BY <1>1, <1>2, <2>2
<1> QED
  BY <1>3, <1>4

\* The tests for a subject and the rules, part by part.
LEMMA TestsParts ==
  ASSUME NEW s, NEW t
  PROVE  t \in TestsFor(s) <=> \/ \E r \in RulesFor(policy, s) : t \in r.tests
                               \/ \E b \in bindings : t \in b.tests
<1> DEFINE A == {r.tests : r \in RulesFor(policy, s)}
           B == {b.tests : b \in bindings}
<1>1. t \in TestsFor(s) <=> (\E y \in A : t \in y) \/ (\E y \in B : t \in y)
  <2>1. TestsFor(s) = (UNION A) \cup (UNION B)
    BY Zenon DEF TestsFor
  <2> HIDE DEF A, B
  <2>2. t \in (UNION A) \cup (UNION B) <=> (\E y \in A : t \in y) \/ (\E y \in B : t \in y)
    BY Zenon
  <2> QED
    BY <2>1, <2>2, Zenon
<1>2. (\E y \in A : t \in y) <=> \E r \in RulesFor(policy, s) : t \in r.tests
  OBVIOUS
<1>3. (\E y \in B : t \in y) <=> \E b \in bindings : t \in b.tests
  OBVIOUS
<1> HIDE DEF A, B
<1> QED
  BY <1>1, <1>2, <1>3

LEMMA RulesParts ==
  ASSUME NEW s, NEW r
  PROVE  /\ \A d \in policy.denies \cup policy.allows : d.rule \in RulesFor(policy, s)
         /\ \A c \in policy.guardrails \cup policy.boundaries : r \in c.rules => r \in RulesFor(policy, s)
         /\ \A x \in DOMAIN TokenScope : r \in TokenScope[x] => r \in RulesFor(policy, s)
         /\ s.restrictions # None /\ r \in s.restrictions => r \in RulesFor(policy, s)
<1> DEFINE A == {d.rule : d \in policy.denies \cup policy.allows}
           B == {c.rules : c \in policy.guardrails \cup policy.boundaries}
           C == {TokenScope[x] : x \in DOMAIN TokenScope}
           D == IF s.restrictions = None THEN {} ELSE s.restrictions
<1>1. \A y : y \in RulesFor(policy, s)
               <=> y \in A \/ (\E z \in B : y \in z) \/ (\E z \in C : y \in z) \/ y \in D
  <2>1. RulesFor(policy, s) = A \cup (UNION B) \cup (UNION C) \cup D
    BY Zenon DEF RulesFor
  <2> HIDE DEF A, B, C, D
  <2>2. \A y : y \in A \cup (UNION B) \cup (UNION C) \cup D
               <=> y \in A \/ (\E z \in B : y \in z) \/ (\E z \in C : y \in z) \/ y \in D
    BY Zenon
  <2> QED
    BY <2>1, <2>2, Zenon
<1>2. \A d \in policy.denies \cup policy.allows : d.rule \in A
  OBVIOUS
<1>3. \A c \in policy.guardrails \cup policy.boundaries : c.rules \in B
  OBVIOUS
<1>4. \A x \in DOMAIN TokenScope : TokenScope[x] \in C
  OBVIOUS
<1>5. s.restrictions # None => D = s.restrictions
  OBVIOUS
<1> HIDE DEF A, B, C, D
<1> QED
  BY <1>1, <1>2, <1>3, <1>4, <1>5

\* What is asked in deciding is among the tests for the subject.
LEMMA TestsAreAsked ==
  ASSUME NEW s
  PROVE  /\ \A d \in policy.denies \cup policy.allows : d.rule.tests \subseteq TestsFor(s)
         /\ \A b \in bindings : b.tests \subseteq TestsFor(s)
         /\ \A c \in Ceilings(s) : \A r \in c.rules : r.tests \subseteq TestsFor(s)
<1>1. \A r \in RulesFor(policy, s) : r.tests \subseteq TestsFor(s)
  BY TestsParts
<1>2. \A d \in policy.denies \cup policy.allows : d.rule \in RulesFor(policy, s)
  BY RulesParts
<1>3. \A b \in bindings : b.tests \subseteq TestsFor(s)
  BY TestsParts
<1>4. ASSUME NEW c \in Ceilings(s), NEW r \in c.rules PROVE r \in RulesFor(policy, s)
  <2>1. CASE c \in {[layer |-> "guardrail", on |-> g.on, rules |-> g.rules] :
                      g \in {x \in policy.guardrails : Applies(x, s)}}
    <3>1. PICK g \in policy.guardrails : c = [layer |-> "guardrail", on |-> g.on, rules |-> g.rules]
      BY <2>1
    <3> QED
      BY <1>4, <3>1, RulesParts
  <2>2. CASE c \in {[layer |-> "boundary", on |-> None, rules |-> b.rules] :
                      b \in {x \in policy.boundaries : \E p \in Actors(s) : Selects(x.principals, p)}}
    <3>1. PICK b \in policy.boundaries : c = [layer |-> "boundary", on |-> None, rules |-> b.rules]
      BY <2>2
    <3> QED
      BY <1>4, <3>1, RulesParts
  <2>3. CASE c = [layer |-> "scope", on |-> None,
                  rules |-> UNION {TokenScope[x] : x \in s.scopes \cap DOMAIN TokenScope}]
    <3>1. \E x \in s.scopes \cap DOMAIN TokenScope : r \in TokenScope[x]
      BY <1>4, <2>3
    <3> QED
      BY <3>1, RulesParts
  <2>4. CASE s.restrictions # None /\ c = [layer |-> "restriction", on |-> None, rules |-> s.restrictions]
    BY <1>4, <2>4, RulesParts
  <2> QED
    BY <2>1, <2>2, <2>3, <2>4 DEF Ceilings
<1> QED
  BY <1>1, <1>2, <1>3, <1>4

\* What leaves the settled tests as they are takes nothing from who is allowed.
LEMMA KeepingAllows ==
  ASSUME NEW s, NEW a, NEW rn, NEW w, NEW v, Keeps(s, rn, w, v)
  PROVE  /\ Denied(s, a, rn, v, FALSE) => Denied(s, a, rn, w, FALSE)
         /\ Granted(s, a, rn, w, FALSE) => Granted(s, a, rn, v, FALSE)
         /\ Failed(s, a, rn, v) \subseteq Failed(s, a, rn, w)
<1>1. \A tests \in SUBSET TestsFor(s) :
        Tested(tests, rn, w) # "unknown" => Tested(tests, rn, v) = Tested(tests, rn, w)
  BY TestedKnown
<1>2. \A r : r.tests \subseteq TestsFor(s) /\ Matches(r, a, rn, w) # "unknown"
               => Matches(r, a, rn, v) = Matches(r, a, rn, w)
  BY <1>1 DEF Matches
<1>3. Denied(s, a, rn, v, FALSE) => Denied(s, a, rn, w, FALSE)
  <2>1. \A d \in policy.denies : Matches(d.rule, a, rn, v) # "no" => Matches(d.rule, a, rn, w) # "no"
    BY <1>2, TestsAreAsked
  <2> QED
    BY <2>1 DEF Denied
<1>4. Granted(s, a, rn, w, FALSE) => Granted(s, a, rn, v, FALSE)
  <2>1. \A st \in policy.allows : Matches(st.rule, a, rn, w) = "yes" => Matches(st.rule, a, rn, v) = "yes"
    BY <1>2, TestsAreAsked
  <2>2. \A b \in bindings : Tested(b.tests, rn, w) = "yes" => Tested(b.tests, rn, v) = "yes"
    BY <1>1, TestsAreAsked
  <2> QED
    BY <2>1, <2>2 DEF Granted
<1>5. ASSUME NEW c \in Failed(s, a, rn, v) PROVE c \in Failed(s, a, rn, w)
  <2>1. c \in CeilingsAt(s, rn) /\ Passing(c, a, rn, v) = {}
    BY DEF Failed
  <2>2. c \in Ceilings(s)
    BY <2>1 DEF CeilingsAt
  <2>3. \A r \in c.rules : Matches(r, a, rn, w) = "yes" => Matches(r, a, rn, v) = "yes"
    BY <1>2, <2>2, TestsAreAsked
  <2>4. Passing(c, a, rn, w) = {}
    BY <2>1, <2>3 DEF Passing
  <2> QED
    BY <2>1, <2>4 DEF Failed
<1> QED
  BY <1>3, <1>4, <1>5

\* The tests that exist look at what answers are given to.
LEMMA TestsAreKnown ==
  ASSUME AuthzAssumption, policy \in Policy, bindings \subseteq Binding, NEW s \in Subject
  PROVE  TestsFor(s) \subseteq Test
<1>1. \A r \in RulesFor(policy, s) : r.tests \subseteq Test
  BY DEF AuthzAssumption
<1>2. \A b \in bindings : b.tests \subseteq Test
  BY DEF AuthzAssumption
<1> HIDE DEF Test
<1> QED
  BY <1>1, <1>2, TestsParts

LEMMA LearningKeepsAllow ==
  ASSUME AuthzAssumption, Valid(policy), policy \in Policy, bindings \subseteq Binding,
         NEW s \in Subject, NEW a \in Action, NEW rn \in Rn, NEW l \in Learnings,
         Appears(l) \cap PresenceAsked(s) = {}, Decides(s, a, rn, l[1], FALSE)
  PROVE  Decides(s, a, rn, l[2], FALSE)
<1>1. CapsLevelled(s)
  BY SubjectCaps
<1>2. Keeps(s, rn, l[1], l[2])
  <2> SUFFICES ASSUME NEW t \in TestsFor(s), Outcome(t, rn, l[1]) # "unknown"
               PROVE  Outcome(t, rn, l[2]) = Outcome(t, rn, l[1])
    BY DEF Keeps
  <2>1. t.of \in Fact \cup OfRow \cup OfRest /\ t.op \in {"is", "not", "present", "absent"}
    BY TestsAreKnown DEF Test
  <2>2. /\ \A x \in Fact \cup OfRow, n \in Rn : l[1].row[x][n] \in {l[2].row[x][n]} \cup Unknown
        /\ \A x \in OfRest : l[1].rest[x] \in {l[2].rest[x]} \cup Unknown
    BY DEF Learnings
  <2> DEFINE was == IF t.of \in OfRest THEN l[1].rest[t.of] ELSE l[1].row[t.of][rn]
             is  == IF t.of \in OfRest THEN l[2].rest[t.of] ELSE l[2].row[t.of][rn]
  <2>3. was = is \/ was \in Unknown
    BY <2>1, <2>2
  <2>4. t.op \in {"present", "absent"} => (was = "missing" <=> is = "missing")
    <3>1. t.op \in {"present", "absent"} => t.of \in PresenceAsked(s)
      BY DEF PresenceAsked
    <3>2. t.op \in {"present", "absent"} => t.of \notin Appears(l)
      BY <3>1
    <3>3. t.of \in OfRest /\ t.of \notin Appears(l) => ~Differ(l[1].rest[t.of], l[2].rest[t.of])
      BY DEF Appears
    <3>4. t.of \in Fact \cup OfRow /\ t.of \notin Appears(l) => ~Differ(l[1].row[t.of][rn], l[2].row[t.of][rn])
      BY DEF Appears
    <3> QED
      BY <2>1, <3>2, <3>3, <3>4 DEF Differ
  <2>5. Outcome(t, rn, l[1]) = Judge(t.op, was) /\ Outcome(t, rn, l[2]) = Judge(t.op, is)
    BY DEF Outcome
  <2> HIDE DEF was, is
  <2> QED
    BY <2>3, <2>4, <2>5 DEF Judge
<1>3. /\ ~Denied(s, a, rn, l[1], FALSE) /\ Failed(s, a, rn, l[1]) = {}
      /\ Granted(s, a, rn, l[1], FALSE) /\ ~ShutOut(s, a, rn)
  BY <1>1, DecidesSplit
<1>4. ~Denied(s, a, rn, l[2], FALSE) /\ Failed(s, a, rn, l[2]) = {} /\ Granted(s, a, rn, l[2], FALSE)
  <2> DEFINE w == l[1]
             v == l[2]
  <2>0. Keeps(s, rn, w, v) /\ ~Denied(s, a, rn, w, FALSE) /\ Failed(s, a, rn, w) = {} /\ Granted(s, a, rn, w, FALSE)
    BY <1>2, <1>3
  <2> HIDE DEF w, v
  <2>1. ~Denied(s, a, rn, v, FALSE) /\ Failed(s, a, rn, v) = {} /\ Granted(s, a, rn, v, FALSE)
    BY <2>0, KeepingAllows
  <2> QED
    BY <2>1 DEF w, v
<1> QED
  BY <1>1, <1>3, <1>4, DecidesSplit

-----------------------------------------------------------------------------
\* Delegation

Everyone(s) == Actors(s) \cup {Authority(s)}

\* t asks with a part of the identities of s, and for the same authority.
Narrower(t, s) ==
  /\ Everyone(t) \subseteq Everyone(s) /\ Authority(t) = Authority(s)
  /\ t.scopes = s.scopes /\ t.restrictions = s.restrictions

LEMMA NarrowerIsFreer ==
  ASSUME NEW t, NEW s, Narrower(t, s), NEW a, NEW rn, NEW w
  PROVE  /\ Denied(t, a, rn, w, FALSE) => Denied(s, a, rn, w, FALSE)
         /\ Granted(t, a, rn, w, FALSE) <=> Granted(s, a, rn, w, FALSE)
         /\ \A c \in Failed(t, a, rn, w) : c \in Failed(s, a, rn, w) \/ c.layer = "boundary"
         /\ Actors(t) \subseteq Actors(s) => Failed(t, a, rn, w) \subseteq Failed(s, a, rn, w)
<1>1. \A d : Applies(d, t) => Applies(d, s)
  BY DEF Applies, Narrower, Everyone
<1>2. Denied(t, a, rn, w, FALSE) => Denied(s, a, rn, w, FALSE)
  BY <1>1 DEF Denied
<1>3. Granted(t, a, rn, w, FALSE) <=> Granted(s, a, rn, w, FALSE)
  BY DEF Granted, Narrower
<1>4. ASSUME NEW c \in Ceilings(t)
      PROVE  \/ c \in Ceilings(s)
             \/ /\ c.layer = "boundary"
                /\ ~(Actors(t) \subseteq Actors(s))
  <2>1. CASE c \in {[layer |-> "guardrail", on |-> g.on, rules |-> g.rules] :
                      g \in {x \in policy.guardrails : Applies(x, t)}}
    BY <1>1, <2>1 DEF Ceilings
  <2>2. CASE c \in {[layer |-> "boundary", on |-> None, rules |-> b.rules] :
                      b \in {x \in policy.boundaries : \E p \in Actors(t) : Selects(x.principals, p)}}
    <3>1. c.layer = "boundary"
      BY <2>2
    <3>2. Actors(t) \subseteq Actors(s) =>
            c \in {[layer |-> "boundary", on |-> None, rules |-> b.rules] :
                    b \in {x \in policy.boundaries : \E p \in Actors(s) : Selects(x.principals, p)}}
      BY <2>2
    <3> QED
      BY <3>1, <3>2 DEF Ceilings
  <2>3. CASE c \in IF t.scopes = None THEN {}
                   ELSE {[layer |-> "scope", on |-> None,
                          rules |-> UNION {TokenScope[x] : x \in t.scopes \cap DOMAIN TokenScope}]}
    BY <2>3 DEF Ceilings, Narrower
  <2>4. CASE c \in IF t.restrictions = None THEN {}
                   ELSE {[layer |-> "restriction", on |-> None, rules |-> t.restrictions]}
    BY <2>4 DEF Ceilings, Narrower
  <2> QED
    BY <2>1, <2>2, <2>3, <2>4 DEF Ceilings
<1>5. ASSUME NEW c \in Failed(t, a, rn, w), c \in Ceilings(s) PROVE c \in Failed(s, a, rn, w)
  BY <1>5 DEF Failed, CeilingsAt
<1>6. \A c \in Failed(t, a, rn, w) : c \in Ceilings(t)
  BY DEF Failed, CeilingsAt
<1> QED
  BY <1>2, <1>3, <1>4, <1>5, <1>6

SubjectShape(s) ==
  s \in [id : Principal, via : SUBSET Principal, behalf : Principal \cup {None},
         scopes : {x.scopes : x \in Subject}, restrictions : {x.restrictions : x \in Subject}]

LEMMA Agreeing ==
  ASSUME AnswersToConditions, NEW w \in World, NEW p \in Asker, NEW q \in Asker,
         OnAuthorityOf(p) = OnAuthorityOf(q)
  PROVE  /\ \A x : x \in OfRow \ Fact /\ x \notin OfActor => w[p].row[x] = w[q].row[x]
         /\ \A x : x \in OfRest /\ x \notin OfActor => w[p].rest[x] = w[q].rest[x]
BY DEF AnswersToConditions

\* Two ways to ask on the same authority find the same where they are judged alike.
LEMMA AlikeKeeps ==
  ASSUME AuthzAssumption, AnswersToConditions, policy \in Policy, bindings \subseteq Binding,
         NEW s \in Subject, NEW t, SubjectShape(t), Authority(t) = Authority(s), t.restrictions = s.restrictions,
         NEW rn \in Rn, NEW w \in World, JudgedAlike(s, t, rn, w)
  PROVE  Keeps(t, rn, w[Who(s)], w[Who(t)])
<1> DEFINE p == Who(s)
           q == Who(t)
<1>1. p \in Asker /\ q \in Asker /\ OnAuthorityOf(p) = OnAuthorityOf(q)
  <2>1. SubjectShape(s)
    BY DEF AuthzAssumption, SubjectShape
  <2> QED
    BY <2>1 DEF SubjectShape, Who, Asker, OnAuthorityOf, Authority
<1>2. TestsFor(t) = TestsFor(s)
  BY DEF TestsFor, RulesFor
<1> SUFFICES ASSUME NEW x \in TestsFor(s) PROVE Outcome(x, rn, w[p]) = Outcome(x, rn, w[q])
  BY <1>2 DEF Keeps
<1>3. x.of \in Fact \cup OfRow \cup OfRest
  BY TestsAreKnown DEF Test
<1>4. CASE x.of \in Fact \cup OfActor
  BY <1>4 DEF JudgedAlike
<1>5. CASE x.of \in OfRest \ OfActor
  <2> HIDE DEF p, q
  <2>1. \A y : y \in OfRest /\ y \notin OfActor => w[p].rest[y] = w[q].rest[y]
    BY <1>1, Agreeing
  <2>2. w[p].rest[x.of] = w[q].rest[x.of]
    BY <1>5, <2>1
  <2> QED
    BY <1>5, <2>2 DEF Outcome, p, q
<1>6. CASE x.of \in (OfRow \ Fact) \ OfActor
  <2> HIDE DEF p, q
  <2>0. \A y : y \in OfRow \ Fact /\ y \notin OfActor => w[p].row[y] = w[q].row[y]
    BY <1>1, Agreeing
  <2>1. w[p].row[x.of] = w[q].row[x.of]
    BY <1>6, <2>0
  <2>2. x.of \notin OfRest
    BY <1>6 DEF AuthzAssumption
  <2> QED
    BY <2>1, <2>2 DEF Outcome, p, q
<1> QED
  BY <1>3, <1>4, <1>5, <1>6

Narrows(s, a, rn, w) ==
  /\ \A link \in s.via :
       JudgedAlike(s, Without(s, link), rn, w) =>
         Decides(Without(s, link), a, rn, w[Who(Without(s, link))], FALSE)
  /\ JudgedAlike(s, Alone(s), rn, w) =>
       LET own == w[Who(Alone(s))]
       IN /\ ~Denied(Alone(s), a, rn, own, FALSE) /\ Granted(Alone(s), a, rn, own, FALSE)
          /\ \A c \in Failed(Alone(s), a, rn, own) : c.layer = "boundary"

LEMMA DelegationOnlyNarrows ==
  ASSUME AuthzAssumption, AnswersToConditions, Valid(policy), policy \in Policy, bindings \subseteq Binding,
         NEW s \in Subject, NEW a \in Action, NEW rn \in Rn, NEW w \in World, Decides(s, a, rn, w[Who(s)], FALSE)
  PROVE  Narrows(s, a, rn, w)
<1>0. SubjectShape(s) /\ CapsLevelled(s)
  BY SubjectCaps DEF AuthzAssumption, SubjectShape
<1> DEFINE found == w[Who(s)]
<1>1. /\ ~Denied(s, a, rn, found, FALSE) /\ Failed(s, a, rn, found) = {}
      /\ Granted(s, a, rn, found, FALSE) /\ ~ShutOut(s, a, rn)
  BY <1>0, DecidesSplit
<1> HIDE DEF found
<1>2. ASSUME NEW link \in s.via, JudgedAlike(s, Without(s, link), rn, w)
      PROVE  Decides(Without(s, link), a, rn, w[Who(Without(s, link))], FALSE)
  <2> DEFINE t == Without(s, link)
  <2>1. /\ t.id = s.id /\ t.via = s.via \ {link} /\ t.behalf = s.behalf
        /\ t.scopes = s.scopes /\ t.restrictions = s.restrictions /\ SubjectShape(t)
    BY <1>0 DEF SubjectShape, Without
  <2>2. JudgedAlike(s, t, rn, w)
    BY <1>2
  <2> HIDE DEF t
  <2>3. Actors(t) \subseteq Actors(s) /\ Authority(t) = Authority(s) /\ CapsLevelled(t)
    BY <1>0, <2>1 DEF Actors, Authority, CapsLevelled
  <2>4. Narrower(t, s)
    BY <2>1, <2>3 DEF Narrower, Everyone
  <2>5. ~Denied(t, a, rn, found, FALSE) /\ Failed(t, a, rn, found) = {} /\ Granted(t, a, rn, found, FALSE)
    BY <1>1, <2>3, <2>4, NarrowerIsFreer
  <2>6. Keeps(t, rn, found, w[Who(t)])
    BY <2>1, <2>2, <2>3, AlikeKeeps DEF found
  <2>7. ~Denied(t, a, rn, w[Who(t)], FALSE) /\ Failed(t, a, rn, w[Who(t)]) = {} /\ Granted(t, a, rn, w[Who(t)], FALSE)
    BY <2>5, <2>6, KeepingAllows
  <2>8. ~ShutOut(t, a, rn)
    BY <1>1, <2>3 DEF ShutOut, IsWorkload
  <2>9. Decides(t, a, rn, w[Who(t)], FALSE)
    BY <2>3, <2>7, <2>8, DecidesSplit
  <2> QED
    BY <2>9 DEF t
<1>3. ASSUME JudgedAlike(s, Alone(s), rn, w)
      PROVE  /\ ~Denied(Alone(s), a, rn, w[Who(Alone(s))], FALSE)
             /\ Granted(Alone(s), a, rn, w[Who(Alone(s))], FALSE)
             /\ \A c \in Failed(Alone(s), a, rn, w[Who(Alone(s))]) : c.layer = "boundary"
  <2> DEFINE t == Alone(s)
  <2>1. /\ t.id = Authority(s) /\ t.via = {} /\ t.behalf = None
        /\ t.scopes = s.scopes /\ t.restrictions = s.restrictions /\ SubjectShape(t)
    BY <1>0 DEF SubjectShape, Alone, Authority
  <2>2. JudgedAlike(s, t, rn, w)
    BY <1>3
  <2> HIDE DEF t
  <2>3. Actors(t) = {Authority(s)} /\ Authority(t) = Authority(s)
    BY <2>1 DEF Actors, Authority
  <2>4. Narrower(t, s)
    BY <2>1, <2>3 DEF Narrower, Everyone
  <2>5. /\ ~Denied(t, a, rn, found, FALSE) /\ Granted(t, a, rn, found, FALSE)
        /\ \A c \in Failed(t, a, rn, found) : c.layer = "boundary"
    <3>1. /\ Denied(t, a, rn, found, FALSE) => Denied(s, a, rn, found, FALSE)
          /\ Granted(t, a, rn, found, FALSE) <=> Granted(s, a, rn, found, FALSE)
          /\ \A c \in Failed(t, a, rn, found) : c \in Failed(s, a, rn, found) \/ c.layer = "boundary"
      BY <2>4, NarrowerIsFreer, Zenon
    <3> QED
      BY <1>1, <3>1
  <2>6. Keeps(t, rn, found, w[Who(t)])
    BY <2>1, <2>2, <2>3, AlikeKeeps DEF found
  <2>7. /\ ~Denied(t, a, rn, w[Who(t)], FALSE) /\ Granted(t, a, rn, w[Who(t)], FALSE)
        /\ \A c \in Failed(t, a, rn, w[Who(t)]) : c.layer = "boundary"
    BY <2>5, <2>6, KeepingAllows
  <2> QED
    BY <2>7 DEF t
<1> QED
  BY <1>2, <1>3 DEF Narrows

-----------------------------------------------------------------------------
\* The remedy of a missing token scope

LEMMA RemedyHelps ==
  ASSUME AuthzAssumption, Valid(policy), NEW s \in Subject, NEW a \in Action, NEW rn \in Rn,
         NEW w, NEW x \in ScopeRemedy(s, a, rn, w)
  PROVE  Decides([s EXCEPT !.scopes = @ \cup {x}], a, rn, w, FALSE)
<1> DEFINE t == [s EXCEPT !.scopes = @ \cup {x}]
<1>0. SubjectShape(s) /\ CapsLevelled(s)
  BY SubjectCaps DEF AuthzAssumption, SubjectShape
<1>1. /\ ~Denied(s, a, rn, w, FALSE) /\ Granted(s, a, rn, w, FALSE) /\ ~ShutOut(s, a, rn)
      /\ Failed(s, a, rn, w) # {} /\ \A c \in Failed(s, a, rn, w) : c.layer = "scope"
      /\ x \in DOMAIN TokenScope /\ \E r \in TokenScope[x] : Matches(r, a, rn, w) = "yes"
  BY DEF ScopeRemedy, ShutOut
<1>2. /\ t.id = s.id /\ t.via = s.via /\ t.behalf = s.behalf
      /\ t.scopes = s.scopes \cup {x} /\ t.restrictions = s.restrictions
  BY <1>0 DEF SubjectShape
<1> HIDE DEF t
<1>3. Actors(t) = Actors(s) /\ Authority(t) = Authority(s) /\ CapsLevelled(t)
  BY <1>0, <1>2 DEF Actors, Authority, CapsLevelled
<1>4. \A d : Applies(d, t) <=> Applies(d, s)
  BY <1>3 DEF Applies
<1>5. ~Denied(t, a, rn, w, FALSE)
  BY <1>1, <1>4 DEF Denied
<1>6. Granted(t, a, rn, w, FALSE)
  BY <1>1, <1>3 DEF Granted
<1>7. ASSUME NEW c \in Failed(t, a, rn, w) PROVE FALSE
  <2>1. c \in Ceilings(t) /\ (c.on = None \/ c.on \in Scopes(rn)) /\ Passing(c, a, rn, w) = {}
    BY <1>7 DEF Failed, CeilingsAt
  <2>2. ASSUME c \in Ceilings(s), c.layer # "scope" PROVE FALSE
    BY <1>1, <2>1, <2>2 DEF Failed, CeilingsAt
  <2>3. CASE c \in {[layer |-> "guardrail", on |-> g.on, rules |-> g.rules] :
                      g \in {y \in policy.guardrails : Applies(y, t)}}
    <3>1. c \in {[layer |-> "guardrail", on |-> g.on, rules |-> g.rules] :
                   g \in {y \in policy.guardrails : Applies(y, s)}}
      BY <1>4, <2>3
    <3>2. c.layer = "guardrail"
      BY <2>3
    <3> QED
      BY <2>2, <3>1, <3>2 DEF Ceilings
  <2>4. CASE c \in {[layer |-> "boundary", on |-> None, rules |-> b.rules] :
                      b \in {y \in policy.boundaries : \E p \in Actors(t) : Selects(y.principals, p)}}
    <3>1. c.layer = "boundary"
      BY <2>4
    <3> QED
      BY <1>3, <2>2, <2>4, <3>1 DEF Ceilings
  <2>5. CASE c = [layer |-> "scope", on |-> None,
                  rules |-> UNION {TokenScope[y] : y \in t.scopes \cap DOMAIN TokenScope}]
    <3>1. \A r \in TokenScope[x] : r \in c.rules
      BY <1>1, <1>2, <2>5
    <3> QED
      BY <1>1, <2>1, <3>1 DEF Passing
  <2>6. CASE c \in IF t.restrictions = None THEN {}
                   ELSE {[layer |-> "restriction", on |-> None, rules |-> t.restrictions]}
    <3>1. c.layer = "restriction"
      BY <2>6
    <3> QED
      BY <1>2, <2>2, <2>6, <3>1 DEF Ceilings
  <2> QED
    BY <2>1, <2>3, <2>4, <2>5, <2>6 DEF Ceilings
<1>8. ~ShutOut(t, a, rn)
  BY <1>1, <1>3 DEF ShutOut, IsWorkload
<1>9. Decides(t, a, rn, w, FALSE)
  BY <1>3, <1>5, <1>6, <1>7, <1>8, DecidesSplit
<1> QED
  BY <1>9 DEF t

-----------------------------------------------------------------------------
\* Lists

Unset(a, scope) == ApprovalsOn(a, scope) = {}
Strict(a, scope) == ~Unset(a, scope) /\ Strictest(ApprovalsOn(a, scope)) = HumansOnly

LEMMA StrictestLevel ==
  ASSUME Valid(policy), NEW a, NEW scope, NEW X \in SUBSET ApprovalsOn(a, scope)
  PROVE  /\ Strictest(X) \in Level
         /\ Strictest(X) = HumansOnly <=> \E x \in X : x.level = HumansOnly
<1> DEFINE S == {-1} \cup {x.level : x \in X}
<1>1. S \in SUBSET Level /\ S # {}
  BY DEF Valid, ApprovalsOn, Level, HumansOnly
<1>2. Strictest(X) = Max(S) /\ (HumansOnly \in S <=> \E x \in X : x.level = HumansOnly)
  BY DEF Strictest, HumansOnly
<1> HIDE DEF S
<1>3. Max(S) \in S /\ \A x \in S : x <= Max(S)
  BY <1>1, LevelExtremes
<1>4. HumansOnly \in S => Max(S) = HumansOnly
  <2>1. \A x \in Level : HumansOnly <= x => x = HumansOnly
    BY DEF Level, HumansOnly
  <2> QED
    BY <1>1, <1>3, <2>1
<1> QED
  BY <1>1, <1>2, <1>3, <1>4

\* One step of the walk: what is set below replaces the level but not the floor.
LEMMA StrictStep ==
  ASSUME Valid(policy), NEW a, NEW scope, NEW acc \in Acc
  PROVE  LET next == Step(a, scope, acc)
         IN /\ next.floor = HumansOnly <=> acc.floor = HumansOnly \/ LockedStrict(a, scope)
            /\ Unset(a, scope) => next = acc
            /\ ~Unset(a, scope) =>
                 (next.level = HumansOnly \/ next.floor = HumansOnly <=>
                    acc.floor = HumansOnly \/ Strict(a, scope))
            /\ LockedStrict(a, scope) => Strict(a, scope)
<1> DEFINE on == ApprovalsOn(a, scope)
           locked == {x \in on : x.locked}
           p == Strictest(on)
           q == Strictest(locked)
<1>1. p \in Level /\ q \in Level
  BY StrictestLevel
<1>2. /\ p = HumansOnly <=> \E x \in on : x.level = HumansOnly
      /\ q = HumansOnly <=> \E x \in on : x.locked /\ x.level = HumansOnly
  BY StrictestLevel
<1>3. LockedStrict(a, scope) => Strict(a, scope)
  BY <1>2 DEF LockedStrict, Strict, Unset
<1>4. q = HumansOnly <=> LockedStrict(a, scope)
  BY <1>2 DEF LockedStrict
<1>5. on # {} => (p = HumansOnly <=> Strict(a, scope))
  BY DEF Strict, Unset
<1>6. \A x, y \in Level : Max({x, y}) = HumansOnly <=> x = HumansOnly \/ y = HumansOnly
  <2> SUFFICES ASSUME NEW x \in Level, NEW y \in Level
               PROVE  Max({x, y}) = HumansOnly <=> x = HumansOnly \/ y = HumansOnly
    OBVIOUS
  <2>1. Max({x, y}) \in {x, y} /\ x <= Max({x, y}) /\ y <= Max({x, y})
    BY LevelExtremes
  <2> QED
    BY <2>1 DEF Level, HumansOnly
<1>7. acc.level \in Level /\ acc.floor \in Level
  BY DEF Acc
<1>8. CASE on = {}
  <2>1. Step(a, scope, acc) = acc /\ Unset(a, scope)
    BY <1>8 DEF Step, Unset
  <2>2. ~LockedStrict(a, scope)
    BY <1>8 DEF LockedStrict
  <2> QED
    BY <1>3, <2>1, <2>2
<1>9. CASE on # {}
  <2>1. Step(a, scope, acc) = [level |-> Max({p, acc.floor}), floor |-> Max({acc.floor, q})]
    BY <1>9 DEF Step
  <2> HIDE DEF p, q
  <2>2. /\ Step(a, scope, acc).level = HumansOnly <=> p = HumansOnly \/ acc.floor = HumansOnly
        /\ Step(a, scope, acc).floor = HumansOnly <=> acc.floor = HumansOnly \/ q = HumansOnly
    BY <1>1, <1>6, <1>7, <2>1
  <2> QED
    BY <1>3, <1>4, <1>5, <1>9, <2>2 DEF Unset
<1> QED
  BY <1>8, <1>9

\* What the walk over a part s of a chain has found: a locked humans-only
\* setting, or a humans-only setting that nothing in s below it replaces.
SomeLocked(a, c, s) == Floor[a] = HumansOnly \/ \E i \in s : LockedStrict(a, c[i])
SomeNearest(a, c, s) == \E i \in s : Strict(a, c[i]) /\ \A j \in s : j < i => Unset(a, c[j])

Found(acc, a, c, s) ==
  /\ acc.floor = HumansOnly <=> SomeLocked(a, c, s)
  /\ acc.level = HumansOnly \/ acc.floor = HumansOnly <=> SomeLocked(a, c, s) \/ SomeNearest(a, c, s)

LEMMA WalkFinds ==
  ASSUME Valid(policy), NEW a, NEW c, DOMAIN c \subseteq Nat, IsFiniteSet(DOMAIN c),
         NEW h \in [SUBSET DOMAIN c -> Acc], WalksChain(h, a, c)
  PROVE  \A s \in SUBSET DOMAIN c : Found(h[s], a, c, s)
<1> DEFINE D == DOMAIN c
           Bad == {s \in SUBSET D : ~Found(h[s], a, c, s)}
<1> SUFFICES ASSUME Bad # {} PROVE FALSE
  OBVIOUS
<1>1. PICK s \in Bad : \A t \in Bad : t \subseteq s => t = s
  <2> HIDE DEF Bad
  <2>1. Bad \in SUBSET (SUBSET D)
    BY DEF Bad
  <2> QED
    BY <2>1, LeastSubset
<1> HIDE DEF D
<1>2. s \in SUBSET D /\ s \in SUBSET Nat /\ ~Found(h[s], a, c, s)
  BY <1>1 DEF D
<1>3. CASE s = {}
  <2>1. h[s] = [level |-> -1, floor |-> Floor[a]]
    BY <1>2, <1>3 DEF WalksChain, D
  <2> QED
    BY <1>2, <1>3, <2>1 DEF Found, SomeLocked, SomeNearest, HumansOnly
<1>4. CASE s # {}
  <2> DEFINE m == Min(s)
             rest == s \ {m}
             acc == h[rest]
             next == h[s]
  <2>1. m \in s /\ \A x \in s : m <= x
    BY <1>2, <1>4, LeastOf
  <2>2. rest \in SUBSET D /\ Found(acc, a, c, rest)
    BY <1>1, <1>2, <2>1 DEF D
  <2>3. acc \in Acc /\ next = Step(a, c[m], acc)
    BY <1>2, <1>4, <2>2 DEF WalksChain, D
  <2> HIDE DEF m, acc, next
  <2>4. /\ next.floor = HumansOnly <=> acc.floor = HumansOnly \/ LockedStrict(a, c[m])
        /\ Unset(a, c[m]) => next = acc
        /\ ~Unset(a, c[m]) =>
             (next.level = HumansOnly \/ next.floor = HumansOnly <=>
                acc.floor = HumansOnly \/ Strict(a, c[m]))
        /\ LockedStrict(a, c[m]) => Strict(a, c[m])
    BY <2>3, StrictStep
  <2>5. SomeLocked(a, c, s) <=> SomeLocked(a, c, rest) \/ LockedStrict(a, c[m])
    BY <2>1 DEF SomeLocked
  <2>6. next.floor = HumansOnly <=> SomeLocked(a, c, s)
    BY <2>2, <2>4, <2>5 DEF Found
  <2>7. CASE Unset(a, c[m])
    <3>1. ~Strict(a, c[m])
      BY <2>7 DEF Strict
    <3>2. SomeNearest(a, c, s) <=> SomeNearest(a, c, rest)
      BY <1>2, <2>1, <2>7, <3>1 DEF SomeNearest
    <3> QED
      BY <2>2, <2>4, <2>5, <2>6, <2>7, <3>1, <3>2, <1>2 DEF Found, next
  <2>8. CASE ~Unset(a, c[m])
    <3>1. SomeNearest(a, c, s) <=> Strict(a, c[m])
      <4>1. ASSUME NEW i \in s, \A j \in s : j < i => Unset(a, c[j]) PROVE i = m
        <5>1. i \in Nat /\ m \in Nat /\ m <= i /\ ~(m < i)
          BY <1>2, <2>1, <2>8, <4>1
        <5> QED
          BY <5>1
      <4>2. \A j \in s : ~(j < m)
        BY <1>2, <2>1
      <4> QED
        BY <2>1, <4>1, <4>2 DEF SomeNearest
    <3> QED
      BY <2>2, <2>4, <2>5, <2>6, <2>8, <3>1, <1>2 DEF Found, next
  <2> QED
    BY <2>7, <2>8
<1> QED
  BY <1>3, <1>4

Lower(a, scope) == ~Unset(a, scope) /\ ~Strict(a, scope)

\* The scopes of a resource whose humans-only setting holds there, by the filters.
Holds(a, rn, on) ==
  /\ on \in Scopes(rn) /\ Strict(a, on)
  /\ LockedStrict(a, on) \/ ~\E y \in Scopes(rn) : Lower(a, y) /\ on \in ToSet(Ancestors[y])

LEMMA TestedNothing == ASSUME NEW rn, NEW w PROVE Tested({}, rn, w) = "yes"
BY DEF Tested

LEMMA FiltersHold ==
  ASSUME AuthzAssumption, Valid(policy), NEW a \in Action, NEW rn \in Rn, NEW w
  PROVE  (\E f \in HumansOnlyFilters(a) : Filtered(f, rn, w) # "no") <=> \E on \in Rn : Holds(a, rn, on)
<1> DEFINE scopes == {x.on : x \in {y \in policy.approvals : a \in y.actions}}
           lower == {y \in scopes : Strictest(ApprovalsOn(a, y)) < HumansOnly}
           Exceptions(on) == IF LockedStrict(a, on) THEN {} ELSE {y \in lower : on \in ToSet(Ancestors[y])}
           F(on) == [within |-> on, except |-> Exceptions(on), resources |-> None, tests |-> {}]
<1>1. HumansOnlyFilters(a) = {F(on) : on \in scopes \ lower}
  BY DEF HumansOnlyFilters
<1>2. \A on : on \in scopes <=> ~Unset(a, on)
  BY DEF Unset, ApprovalsOn
<1>3. \A on : on \in scopes => (Strictest(ApprovalsOn(a, on)) < HumansOnly <=> ~Strict(a, on))
  <2>1. \A on : Strictest(ApprovalsOn(a, on)) \in Level
    BY StrictestLevel
  <2> QED
    BY <1>2, <2>1 DEF Strict, Level, HumansOnly
<1>4. /\ \A y : y \in lower <=> Lower(a, y)
      /\ \A on : on \in scopes \ lower <=> Strict(a, on)
  BY <1>2, <1>3 DEF Lower, Strict
<1>5. scopes \subseteq Rn
  BY DEF Valid
<1> HIDE DEF scopes, lower
<1>6. ASSUME NEW on \in Rn, Strict(a, on) PROVE Filtered(F(on), rn, w) # "no" <=> Holds(a, rn, on)
  <2>1. on # None
    BY DEF AuthzAssumption
  <2>2. F(on).within = on /\ F(on).except = Exceptions(on) /\ F(on).resources = None /\ F(on).tests = {}
    OBVIOUS
  <2>3. Exceptions(on) \cap Scopes(rn) = {}
          <=> LockedStrict(a, on) \/ ~\E y \in Scopes(rn) : Lower(a, y) /\ on \in ToSet(Ancestors[y])
    BY <1>4
  <2> HIDE DEF Exceptions
  <2>4. Filtered(F(on), rn, w) = IF on \in Scopes(rn) /\ Exceptions(on) \cap Scopes(rn) = {} THEN "yes" ELSE "no"
    BY <2>1, <2>2, TestedNothing DEF Filtered, Reaches
  <2> QED
    BY <1>6, <2>3, <2>4 DEF Holds
<1> HIDE DEF F
<1>7. ASSUME NEW f \in HumansOnlyFilters(a), Filtered(f, rn, w) # "no" PROVE \E on \in Rn : Holds(a, rn, on)
  <2>1. PICK on \in scopes \ lower : f = F(on)
    BY <1>1, <1>7
  <2> QED
    BY <1>4, <1>5, <1>6, <1>7, <2>1
<1>8. ASSUME NEW on \in Rn, Holds(a, rn, on)
      PROVE  \E f \in HumansOnlyFilters(a) : Filtered(f, rn, w) # "no"
  <2>1. Strict(a, on)
    BY <1>8 DEF Holds
  <2>2. F(on) \in HumansOnlyFilters(a)
    BY <1>1, <1>4, <2>1
  <2> QED
    BY <1>6, <1>8, <2>1, <2>2
<1> QED
  BY <1>7, <1>8

\* The filters take the settings scope by scope, the walk takes them in the
\* order of the chain: what the one exempts is what the other replaces.
LEMMA FiltersFollowTheWalk ==
  ASSUME AuthzAssumption, AncestorsNest, Valid(policy), NEW a \in Action, NEW rn \in Rn
  PROVE  LET c == Chain(rn)
         IN (\E on \in Rn : Holds(a, rn, on))
              <=> (\E i \in DOMAIN c : LockedStrict(a, c[i])) \/ SomeNearest(a, c, DOMAIN c)
<1> DEFINE c == Chain(rn)
           D == DOMAIN c
<1>1. c \in Seq(Rn) /\ Scopes(rn) = {c[i] : i \in DOMAIN c} /\ Scopes(rn) \subseteq Rn
  BY ChainShape
<1>2. \A i \in DOMAIN c : /\ c[i] \notin ToSet(Ancestors[c[i]])
                          /\ ToSet(Ancestors[c[i]]) = {c[j] : j \in i + 1 .. Len(c)}
  BY ChainShape
<1> HIDE DEF c
<1>3. D = 1 .. Len(c) /\ Len(c) \in Nat /\ D \in SUBSET Nat
  BY <1>1
<1>4. \A x \in Scopes(rn) : \E i \in D : x = c[i]
  BY <1>1
<1>5. \A i \in D : c[i] \in Scopes(rn) /\ c[i] \in Rn
  BY <1>1
<1>6. ASSUME NEW i \in D, NEW j \in D PROVE c[i] \in ToSet(Ancestors[c[j]]) <=> j < i
  <2>1. \A x : x \in ToSet(Ancestors[c[j]]) <=> \E k \in j + 1 .. Len(c) : x = c[k]
    <3>1. ToSet(Ancestors[c[j]]) = {c[k] : k \in j + 1 .. Len(c)}
      BY <1>2
    <3> QED
      BY <3>1, Zenon
  <2>2. CASE j < i
    <3>1. i \in j + 1 .. Len(c)
      BY <1>3, <2>2
    <3> QED
      BY <2>1, <2>2, <3>1
  <2>3. CASE ~(j < i)
    <3> SUFFICES ASSUME NEW k \in j + 1 .. Len(c), c[i] = c[k] PROVE FALSE
      BY <2>1, <2>3
    <3>1. k \in D /\ k \in i + 1 .. Len(c)
      BY <1>3, <2>3
    <3>2. c[k] \in ToSet(Ancestors[c[i]])
      <4>1. ToSet(Ancestors[c[i]]) = {c[m] : m \in i + 1 .. Len(c)}
        BY <1>2
      <4> QED
        BY <3>1, <4>1
    <3> QED
      BY <1>2, <3>2
  <2> QED
    BY <2>2, <2>3
<1>7. \A x \in Rn : LockedStrict(a, x) => Strict(a, x)
  <2>1. [level |-> -1, floor |-> -1] \in Acc
    BY DEF Acc, Level, HumansOnly
  <2> QED
    BY <2>1, StrictStep
<1>8. ASSUME NEW i \in D, Strict(a, c[i]), LockedStrict(a, c[i]) \/ \A j \in D : j < i => ~Lower(a, c[j])
      PROVE  Holds(a, rn, c[i])
  <2> SUFFICES ASSUME ~LockedStrict(a, c[i]), NEW y \in Scopes(rn), Lower(a, y), c[i] \in ToSet(Ancestors[y])
               PROVE  FALSE
    BY <1>5, <1>8 DEF Holds
  <2>1. PICK j \in D : y = c[j]
    BY <1>4
  <2> QED
    BY <1>6, <1>8, <2>1
<1>9. ASSUME NEW on \in Rn, Holds(a, rn, on)
      PROVE  (\E i \in D : LockedStrict(a, c[i])) \/ SomeNearest(a, c, D)
  <2>1. PICK i \in D : on = c[i]
    BY <1>4, <1>9 DEF Holds
  <2>2. CASE LockedStrict(a, on)
    BY <2>1, <2>2
  <2>3. CASE ~LockedStrict(a, on)
    <3> DEFINE T == {k \in D : k <= i /\ ~Unset(a, c[k])}
    <3>1. \A j \in D : j < i => ~Lower(a, c[j])
      BY <1>5, <1>6, <1>9, <2>1, <2>3 DEF Holds
    <3>2. i \in T /\ Strict(a, c[i])
      BY <1>3, <1>9, <2>1 DEF Holds, Strict
    <3>3. PICK m \in T : \A k \in T : m <= k
      <4>1. T \in SUBSET Nat /\ T # {}
        BY <1>3, <3>2
      <4> HIDE DEF T
      <4> QED
        BY <4>1, LeastNatural
    <3>4. m \in D /\ m <= i /\ ~Unset(a, c[m])
      BY <3>3
    <3>5. Strict(a, c[m])
      <4>1. m = i \/ m < i
        BY <1>3, <3>4
      <4> QED
        BY <3>1, <3>2, <3>4, <4>1 DEF Lower
    <3>6. ASSUME NEW j \in D, j < m PROVE Unset(a, c[j])
      <4>1. j <= i /\ ~(m <= j)
        BY <1>3, <3>4, <3>6
      <4> QED
        BY <3>3, <4>1
    <3> QED
      BY <3>4, <3>5, <3>6 DEF SomeNearest
  <2> QED
    BY <2>2, <2>3
<1>10. ASSUME NEW i \in D, LockedStrict(a, c[i]) PROVE \E on \in Rn : Holds(a, rn, on)
  BY <1>5, <1>7, <1>8, <1>10
<1>11. ASSUME SomeNearest(a, c, D) PROVE \E on \in Rn : Holds(a, rn, on)
  <2>1. PICK i \in D : Strict(a, c[i]) /\ \A j \in D : j < i => Unset(a, c[j])
    BY <1>11 DEF SomeNearest
  <2> QED
    BY <1>5, <1>8, <2>1 DEF Lower
<1> QED
  BY <1>9, <1>10, <1>11 DEF c

\* Where an action is humans-only is where the floor or a filter says so.
LEMMA FiltersShutOut ==
  ASSUME AuthzAssumption, AncestorsNest, Valid(policy), NEW a \in Action, NEW rn \in Rn, NEW w
  PROVE  ApprovalLevel(a, rn, -1) = HumansOnly
           <=> \/ Floor[a] = HumansOnly
               \/ \E f \in HumansOnlyFilters(a) : Filtered(f, rn, w) # "no"
<1> DEFINE c == Chain(rn)
           x == Approval(a, rn).level
           y == Approval(a, rn).floor
<1>1. x \in Level /\ y \in Level
  BY ApprovalType DEF Acc
<1>2. ApprovalLevel(a, rn, -1) = Max({0, x, y, -1})
  BY DEF ApprovalLevel
<1>3. ApprovalLevel(a, rn, -1) = HumansOnly <=> x = HumansOnly \/ y = HumansOnly
  <2> HIDE DEF x, y
  <2>1. {0, x, y, -1} \in SUBSET Level
    BY <1>1 DEF Level, HumansOnly
  <2>2. /\ Max({0, x, y, -1}) \in {0, x, y, -1}
        /\ \A z \in {0, x, y, -1} : z <= Max({0, x, y, -1})
    BY <2>1, LevelExtremes
  <2> QED
    BY <1>1, <1>2, <2>2 DEF Level, HumansOnly
<1>4. c \in Seq(Rn) /\ DOMAIN c = 1 .. Len(c) /\ Len(c) \in Nat /\ DOMAIN c \subseteq Nat
  <2>1. c \in Seq(Rn)
    BY ChainShape
  <2> HIDE DEF c
  <2> QED
    BY <2>1
<1>5. IsFiniteSet(DOMAIN c)
  <2>1. \A m, n \in Int : IsFiniteSet(m .. n)
    BY FS_Interval
  <2>2. 1 \in Int /\ Len(c) \in Int
    BY <1>4
  <2>3. IsFiniteSet(1 .. Len(c))
    BY <2>1, <2>2, Zenon
  <2> QED
    BY <1>4, <2>3
<1>6. Found(Approval(a, rn), a, c, DOMAIN c)
  <2>1. PICK h \in [SUBSET DOMAIN c -> Acc] : WalksChain(h, a, c) /\ Approval(a, rn) = h[DOMAIN c]
    BY ApprovalWalks
  <2> HIDE DEF c
  <2> QED
    <3>1. DOMAIN c \subseteq Nat /\ h \in [SUBSET DOMAIN c -> Acc] /\ WalksChain(h, a, c)
      BY <1>4, <2>1
    <3>2. \A s \in SUBSET DOMAIN c : Found(h[s], a, c, s)
      BY <1>5, <3>1, WalkFinds, Zenon
    <3>3. DOMAIN c \in SUBSET DOMAIN c /\ Approval(a, rn) = h[DOMAIN c]
      BY <2>1
    <3> QED
      BY <3>2, <3>3, Zenon
<1>7. (\E on \in Rn : Holds(a, rn, on))
        <=> (\E i \in DOMAIN c : LockedStrict(a, c[i])) \/ SomeNearest(a, c, DOMAIN c)
  BY FiltersFollowTheWalk
<1>8. (\E f \in HumansOnlyFilters(a) : Filtered(f, rn, w) # "no") <=> \E on \in Rn : Holds(a, rn, on)
  BY FiltersHold
<1> HIDE DEF c
<1>9. x = HumansOnly \/ y = HumansOnly
        <=> Floor[a] = HumansOnly \/ (\E i \in DOMAIN c : LockedStrict(a, c[i])) \/ SomeNearest(a, c, DOMAIN c)
  BY <1>6 DEF Found, SomeLocked
<1> QED
  BY <1>3, <1>7, <1>8, <1>9, Zenon

LEMMA TestedParts ==
  ASSUME NEW rn, NEW w, NEW tests
  PROVE  /\ Tested(tests, rn, w) = "yes" <=> \A t \in tests : Outcome(t, rn, w) = "yes"
         /\ Tested(tests, rn, w) = "no" <=> \E t \in tests : Outcome(t, rn, w) = "no"
<1> DEFINE S == {Outcome(t, rn, w) : t \in tests}
<1>1. Tested(tests, rn, w) = (IF "no" \in S THEN "no" ELSE IF "unknown" \in S THEN "unknown" ELSE "yes")
  BY DEF Tested
<1>2. \A op, v : Judge(op, v) \in {"yes", "no", "unknown"}
  BY DEF Judge
<1>3. \A t \in tests : Outcome(t, rn, w) \in {"yes", "no", "unknown"}
  BY <1>2 DEF Outcome
<1>4. /\ "no" \in S <=> \E t \in tests : Outcome(t, rn, w) = "no"
      /\ "unknown" \in S <=> \E t \in tests : Outcome(t, rn, w) = "unknown"
  OBVIOUS
<1> HIDE DEF S
<1> QED
  BY <1>1, <1>3, <1>4

\* What a plan decides before the rows are known comes to the same.
LEMMA ResidualAgrees ==
  ASSUME NEW rn, NEW w, NEW within, NEW r
  PROVE  LET here == (within = None \/ within \in Scopes(rn)) /\ Reaches(r.resources, rn)
         IN /\ (\E f \in Residual(within, r, "allow", w) : Filtered(f, rn, w) = "yes")
                 <=> here /\ Tested(r.tests, rn, w) = "yes"
            /\ (\E f \in Residual(within, r, "deny", w) : Filtered(f, rn, w) # "no")
                 <=> here /\ Tested(r.tests, rn, w) # "no"
<1> DEFINE here == (within = None \/ within \in Scopes(rn)) /\ Reaches(r.resources, rn)
           now == {t \in r.tests : t.of \in OfRest}
           found == {Judge(t.op, w.rest[t.of]) : t \in now}
           f == [within |-> within, except |-> {}, resources |-> r.resources, tests |-> r.tests \ now]
           rest == Tested(r.tests \ now, rn, w)
           whole == Tested(r.tests, rn, w)
<1>1. Filtered(f, rn, w) = IF here THEN rest ELSE "no"
  BY DEF Filtered
<1>2. \A p : Residual(within, r, p, w) =
               IF "no" \in found \/ ("unknown" \in found /\ p = "allow") THEN {} ELSE {f}
  BY DEF Residual
<1>3. /\ rest = "yes" <=> \A t \in r.tests \ now : Outcome(t, rn, w) = "yes"
      /\ rest = "no" <=> \E t \in r.tests \ now : Outcome(t, rn, w) = "no"
      /\ whole = "yes" <=> \A t \in r.tests : Outcome(t, rn, w) = "yes"
      /\ whole = "no" <=> \E t \in r.tests : Outcome(t, rn, w) = "no"
  <2>1. \A tests : /\ Tested(tests, rn, w) = "yes" <=> \A t \in tests : Outcome(t, rn, w) = "yes"
                   /\ Tested(tests, rn, w) = "no" <=> \E t \in tests : Outcome(t, rn, w) = "no"
    BY TestedParts
  <2> HIDE DEF now
  <2> QED
    BY <2>1
<1>4. \A t \in now : Outcome(t, rn, w) = Judge(t.op, w.rest[t.of])
  BY DEF Outcome
<1>5. \A t \in now : Outcome(t, rn, w) \in {"yes", "no", "unknown"}
  BY <1>4 DEF Judge
<1>6. /\ "no" \in found <=> \E t \in now : Outcome(t, rn, w) = "no"
      /\ "unknown" \in found <=> \E t \in now : Outcome(t, rn, w) = "unknown"
  BY <1>4
<1>7. now \subseteq r.tests
  OBVIOUS
<1> HIDE DEF here, f, rest, whole, now, found
<1>8. /\ whole = "yes" <=> rest = "yes" /\ "no" \notin found /\ "unknown" \notin found
      /\ whole = "no" <=> rest = "no" \/ "no" \in found
  BY <1>3, <1>5, <1>6, <1>7
<1>9. (\E g \in Residual(within, r, "allow", w) : Filtered(g, rn, w) = "yes") <=> here /\ whole = "yes"
  <2>1. CASE "no" \in found \/ "unknown" \in found
    BY <1>2, <1>8, <2>1
  <2>2. CASE ~("no" \in found \/ "unknown" \in found)
    BY <1>1, <1>2, <1>8, <2>2
  <2> QED
    BY <2>1, <2>2
<1>10. (\E g \in Residual(within, r, "deny", w) : Filtered(g, rn, w) # "no") <=> here /\ whole # "no"
  <2>1. CASE "no" \in found
    BY <1>2, <1>8, <2>1
  <2>2. CASE "no" \notin found
    BY <1>1, <1>2, <1>8, <2>2
  <2> QED
    BY <2>1, <2>2
<1> QED
  BY <1>9, <1>10 DEF here, whole

\* A list plan lets a row through exactly when asking for that row would.
LEMMA PlanAgrees ==
  ASSUME AuthzAssumption, AncestorsNest, Valid(policy), bindings \subseteq Binding,
         NEW s \in Subject, NEW a \in Action, NEW w, NEW rn \in Rn
  PROVE  rn \in ApplyPlan(ListAllowed(s, a, w), w) <=> Decides(s, a, rn, w, FALSE)
<1> DEFINE
      Cap(c) == [within |-> c.on, anyOf |-> Wanted(c, a, w)]
      held == {x \in bindings : Selects({x.principal}, Authority(s)) /\ a \in RoleActions[x.role]}
      OfHeld(b) == Residual(b.on, [resources |-> None, tests |-> b.tests], "allow", w)
      allowing == {x \in policy.allows : /\ a \in x.rule.actions /\ Selects(x.principals, Authority(s))
                                        /\ ~Selects(x.except, Authority(s))}
      denying == {x \in policy.denies : a \in x.rule.actions /\ Applies(x, s)}
      shut == IF IsWorkload(s) THEN HumansOnlyFilters(a) ELSE {}
      caps == Requires(s, a, w)
      include == FromBindings(s, a, w) \cup FromAllows(s, a, w)
      exclude == FromDenies(s, a, w) \cup shut
      none == \/ IsWorkload(s) /\ Floor[a] = HumansOnly
              \/ \E c \in caps : c.anyOf = {} /\ c.within = None
              \/ include = {}
      Lets(f) == Filtered(f, rn, w) = "yes"
      Stops(f) == Filtered(f, rn, w) # "no"
      CapHolds(c) == c.within \in {None} \cup Scopes(rn) => \E f \in c.anyOf : Lets(f)
<1>0. \A within, r :
        LET here == (within = None \/ within \in Scopes(rn)) /\ Reaches(r.resources, rn)
        IN /\ (\E f \in Residual(within, r, "allow", w) : Lets(f)) <=> here /\ Tested(r.tests, rn, w) = "yes"
           /\ (\E f \in Residual(within, r, "deny", w) : Stops(f)) <=> here /\ Tested(r.tests, rn, w) # "no"
  BY ResidualAgrees
<1>1. ListAllowed(s, a, w) =
        IF none THEN NoPlan ELSE [include |-> include, require |-> caps, exclude |-> exclude]
  BY DEF ListAllowed
<1> HIDE DEF Lets, Stops
<1>2. (\E f \in include : Lets(f)) <=> Granted(s, a, rn, w, FALSE)
  <2>1. ASSUME NEW b \in held
        PROVE  (\E f \in OfHeld(b) : Lets(f)) <=> b.on \in Scopes(rn) /\ Tested(b.tests, rn, w) = "yes"
    <3>1. b.on # None
      <4>1. b \in Binding /\ None \notin Rn /\ \A x \in Binding : x.on \in Rn
        BY DEF AuthzAssumption
      <4> QED
        BY <4>1
    <3>2. Reaches(None, rn)
      BY DEF Reaches
    <3> DEFINE r == [resources |-> None, tests |-> b.tests]
    <3>3. (\E f \in Residual(b.on, r, "allow", w) : Lets(f)) <=>
            (b.on = None \/ b.on \in Scopes(rn)) /\ Reaches(r.resources, rn) /\ Tested(r.tests, rn, w) = "yes"
      BY <1>0
    <3> QED
      BY <3>1, <3>2, <3>3
  <2>2. ASSUME NEW st \in allowing
        PROVE  (\E f \in Residual(st.on, st.rule, "allow", w) : Lets(f))
                 <=> st.on \in Scopes(rn) /\ Matches(st.rule, a, rn, w) = "yes"
    <3>1. st.on # None /\ a \in st.rule.actions
      BY DEF AuthzAssumption, Valid
    <3> QED
      BY <3>1, <1>0 DEF Matches
  <2>3. (\E f \in include : Lets(f)) <=>
          \/ \E b \in held : \E f \in OfHeld(b) : Lets(f)
          \/ \E st \in allowing : \E f \in Residual(st.on, st.rule, "allow", w) : Lets(f)
    <3>1. \A f : f \in include <=> \/ \E b \in held : f \in OfHeld(b)
                                  \/ \E st \in allowing : f \in Residual(st.on, st.rule, "allow", w)
      <4>1. \A f : f \in FromBindings(s, a, w) <=> \E b \in held : f \in OfHeld(b)
        BY Zenon DEF FromBindings
      <4>2. \A f : f \in FromAllows(s, a, w)
                    <=> \E st \in allowing : f \in Residual(st.on, st.rule, "allow", w)
        BY Zenon DEF FromAllows
      <4> HIDE DEF OfHeld, held, allowing
      <4> QED
        BY <4>1, <4>2
    <3> HIDE DEF OfHeld, held, allowing, include
    <3> QED
      BY <3>1
  <2>4. (\E b \in held : b.on \in Scopes(rn) /\ Tested(b.tests, rn, w) = "yes") <=>
          \E b \in bindings : /\ b.on \in Scopes(rn) /\ Selects({b.principal}, Authority(s))
                              /\ a \in RoleActions[b.role] /\ Tested(b.tests, rn, w) = "yes"
    OBVIOUS
  <2>5. (\E st \in allowing : st.on \in Scopes(rn) /\ Matches(st.rule, a, rn, w) = "yes") <=>
          \E st \in policy.allows : /\ st.on \in Scopes(rn) /\ Selects(st.principals, Authority(s))
                                    /\ ~Selects(st.except, Authority(s)) /\ Matches(st.rule, a, rn, w) = "yes"
    BY DEF Matches
  <2> QED
    BY <2>1, <2>2, <2>3, <2>4, <2>5 DEF Granted
<1>3. (\E f \in exclude : Stops(f)) <=> Denied(s, a, rn, w, FALSE) \/ \E f \in shut : Stops(f)
  <2>1. ASSUME NEW d \in denying
        PROVE  (\E f \in Residual(d.on, d.rule, "deny", w) : Stops(f))
                 <=> d.on \in Scopes(rn) /\ Matches(d.rule, a, rn, w) # "no"
    <3>1. d.on # None /\ a \in d.rule.actions
      BY DEF AuthzAssumption, Valid
    <3> QED
      BY <3>1, <1>0 DEF Matches
  <2>2. (\E f \in exclude : Stops(f)) <=>
          \/ \E d \in denying : \E f \in Residual(d.on, d.rule, "deny", w) : Stops(f)
          \/ \E f \in shut : Stops(f)
    <3>1. \A f : f \in exclude
                  <=> (\E d \in denying : f \in Residual(d.on, d.rule, "deny", w)) \/ f \in shut
      <4>1. \A f : f \in FromDenies(s, a, w) <=> \E d \in denying : f \in Residual(d.on, d.rule, "deny", w)
        BY Zenon DEF FromDenies
      <4> HIDE DEF shut, denying
      <4> QED
        BY <4>1
    <3> HIDE DEF denying, exclude
    <3> QED
      BY <3>1
  <2> HIDE DEF shut
  <2> QED
    BY <2>1, <2>2 DEF Denied, Matches
<1>4. ASSUME NEW c \in Ceilings(s)
      PROVE  (\E f \in Wanted(c, a, w) : Lets(f)) <=> Passing(c, a, rn, w) # {}
  <2>1. ASSUME NEW r \in c.rules, a \in r.actions
        PROVE  (\E f \in Residual(None, r, "allow", w) : Lets(f)) <=> Matches(r, a, rn, w) = "yes"
    BY <2>1, <1>0 DEF Matches
  <2>2. (\E f \in Wanted(c, a, w) : Lets(f)) <=>
          \E r \in {x \in c.rules : a \in x.actions} : \E f \in Residual(None, r, "allow", w) : Lets(f)
    <3>1. \A f : f \in Wanted(c, a, w)
                  <=> \E r \in {x \in c.rules : a \in x.actions} : f \in Residual(None, r, "allow", w)
      BY Zenon DEF Wanted
    <3> QED
      BY <3>1
  <2> QED
    BY <2>1, <2>2 DEF Passing, Matches
<1>5. Failed(s, a, rn, w) = {} <=> \A c \in Ceilings(s) : CapHolds(Cap(c))
  <2>1. \A c \in Ceilings(s) : CapHolds(Cap(c)) <=>
          (c.on = None \/ c.on \in Scopes(rn) => Passing(c, a, rn, w) # {})
    <3> QED
      BY <1>4
  <2> HIDE DEF CapHolds, Cap
  <2> QED
    BY <2>1 DEF Failed, CeilingsAt
<1>6. ASSUME NEW x \in Ceilings(s), NEW f \in Wanted(x, a, w), f.resources = None, f.tests = {} PROVE Lets(f)
  <2>1. PICK r \in x.rules : f \in Residual(None, r, "allow", w)
    BY DEF Wanted
  <2>2. f.within = None /\ f.except = {}
    <3>1. f = [within |-> None, except |-> {}, resources |-> r.resources, tests |-> r.tests \ {t \in r.tests : t.of \in OfRest}]
      BY <2>1, Zenon DEF Residual
    <3> QED
      BY <3>1
  <2> QED
    BY <1>6, <2>2, TestedNothing DEF Filtered, Reaches, Lets
<1>7. (\A c \in caps : CapHolds(c)) <=> \A c \in Ceilings(s) : CapHolds(Cap(c))
  <2>1. ASSUME NEW x \in Ceilings(s), Cap(x) \notin caps PROVE CapHolds(Cap(x))
    <3>1. PICK f \in Wanted(x, a, w) : f.resources = None /\ f.tests = {}
      BY <2>1 DEF Requires
    <3> QED
      BY <1>6, <3>1
  <2>2. \A c \in caps : \E x \in Ceilings(s) : c = Cap(x)
    BY DEF Requires
  <2> HIDE DEF caps
  <2> HIDE DEF CapHolds, Cap
  <2> QED
    BY <2>1, <2>2
<1>8. ShutOut(s, a, rn) <=> IsWorkload(s) /\ (Floor[a] = HumansOnly \/ \E f \in shut : Stops(f))
  <2>1. ApprovalLevel(a, rn, -1) = HumansOnly
          <=> Floor[a] = HumansOnly \/ \E f \in HumansOnlyFilters(a) : Stops(f)
    BY FiltersShutOut DEF Stops
  <2> QED
    BY <2>1 DEF ShutOut
<1>9. Decides(s, a, rn, w, FALSE) <=>
        /\ ~Denied(s, a, rn, w, FALSE) /\ Failed(s, a, rn, w) = {}
        /\ Granted(s, a, rn, w, FALSE) /\ ~ShutOut(s, a, rn)
  BY SubjectCaps, DecidesSplit
<1>10. CASE none
  <2>1. rn \notin ApplyPlan(ListAllowed(s, a, w), w)
    <3>1. ListAllowed(s, a, w) = NoPlan
      <4> HIDE DEF none
      <4> QED
        BY <1>1, <1>10
    <3> QED
      BY <3>1 DEF NoPlan, ApplyPlan
  <2>2. ASSUME \E c \in caps : c.anyOf = {} /\ c.within = None PROVE ~\A c \in caps : CapHolds(c)
    BY <2>2
  <2>3. include = {} => ~\E f \in include : Lets(f)
    OBVIOUS
  <2> HIDE DEF CapHolds, shut, include, caps
  <2> QED
    BY <1>2, <1>5, <1>7, <1>8, <1>9, <1>10, <2>1, <2>2, <2>3
<1>11. CASE ~none
  <2> HIDE DEF include, caps, shut
  <2>1. rn \in ApplyPlan(ListAllowed(s, a, w), w) <=>
          /\ \E f \in include : Lets(f)
          /\ \A f \in exclude : ~Stops(f)
          /\ \A c \in caps : CapHolds(c)
    BY <1>1, <1>11 DEF ApplyPlan, Lets, Stops
  <2>2. ~(IsWorkload(s) /\ Floor[a] = HumansOnly)
    BY <1>11
  <2>3. ~IsWorkload(s) => shut = {}
    BY DEF shut
  <2> HIDE DEF CapHolds
  <2> QED
    BY <1>2, <1>3, <1>5, <1>7, <1>8, <1>9, <2>1, <2>2, <2>3
<1> QED
  BY <1>10, <1>11

-----------------------------------------------------------------------------
\* Every reachable state

InDomain == policy \in Policy /\ founding \in Founding /\ bindings \subseteq Binding

LEMMA InDomainHolds == Spec => []InDomain
<1> USE AuthzAssumption
<1>1. Init => InDomain
  BY DEF Init, InDomain, AuthzAssumption
<1>2. InDomain /\ [Next]_vars => InDomain'
  BY DEF InDomain, Next, Grant, Revoke, vars
<1> QED
  BY <1>1, <1>2, PTL DEF Spec

LEMMA InDomainValid == InDomain => Valid(policy)
  BY AuthzAssumption DEF AuthzAssumption, InDomain

\* What a list plan lets through is what asking for every row would allow.
THEOREM ListsAgreeTheorem == Spec => []ListsAgree
<1> USE AuthzAssumption, AncestorsNest
<1>1. InDomain => ListsAgree
  <2> SUFFICES ASSUME InDomain, NEW s \in Subject, NEW a \in Action, NEW w \in Answer
               PROVE  ApplyPlan(ListAllowed(s, a, w), w) = {rn \in Rn : Decides(s, a, rn, w, FALSE)}
    BY DEF ListsAgree
  <2>1. ApplyPlan(ListAllowed(s, a, w), w) \subseteq Rn
    BY DEF ApplyPlan
  <2>2. \A rn \in Rn : rn \in ApplyPlan(ListAllowed(s, a, w), w) <=> Decides(s, a, rn, w, FALSE)
    BY InDomainValid, PlanAgrees DEF InDomain
  <2> QED
    BY <2>1, <2>2
<1> QED
  BY <1>1, InDomainHolds, PTL

\* What is allowed while something is unknown is allowed however it turns out, unless
\* an attribute appears whose presence a rule asks for.
THEOREM UnknownFailsClosedTheorem == Spec => []UnknownFailsClosed
<1> USE AuthzAssumption
<1>1. InDomain => UnknownFailsClosed
  <2> SUFFICES ASSUME InDomain, NEW s \in Subject, NEW l \in Learnings, Appears(l) \cap PresenceAsked(s) = {},
                      NEW a \in Action, NEW rn \in Rn, Decides(s, a, rn, l[1], FALSE)
               PROVE  Decides(s, a, rn, l[2], FALSE)
    BY DEF UnknownFailsClosed
  <2> QED
    BY InDomainValid, LearningKeepsAllow DEF InDomain
<1> QED
  BY <1>1, InDomainHolds, PTL

\* A chain of delegation may do nothing that it may not without a link, and
\* nothing that the person on whose behalf it acts was not granted, unless a rule
\* asks who acts or for a fact that is answered differently.
THEOREM DelegationNarrowsTheorem == Spec => []DelegationNarrows
<1> USE AuthzAssumption, AnswersToConditions
<1>1. InDomain => DelegationNarrows
  <2> SUFFICES ASSUME InDomain, NEW s \in Subject, NEW a \in Action, NEW rn \in Rn, NEW w \in World,
                      Decides(s, a, rn, w[Who(s)], FALSE)
               PROVE  Narrows(s, a, rn, w)
    BY Zenon DEF DelegationNarrows, Narrows
  <2>1. policy \in Policy /\ bindings \subseteq Binding /\ Valid(policy)
    BY InDomainValid DEF InDomain
  <2> QED
    BY <2>1, DelegationOnlyNarrows
<1> QED
  BY <1>1, InDomainHolds, PTL

\* Any one of the token scopes that a denial names turns it into an allow.
THEOREM ScopeRemedyWorksTheorem == Spec => []ScopeRemedyWorks
<1>1. InDomain => ScopeRemedyWorks
  BY AuthzAssumption, InDomainValid, RemedyHelps DEF ScopeRemedyWorks
<1> QED
  BY <1>1, InDomainHolds, PTL

\* However subjects hand roles on, and whatever is revoked meanwhile, no
\* binding reaches what no binding of the tenant's own reached.
THEOREM AccessIsConservedTheorem == Spec => []AccessIsConserved
<1> USE AuthzAssumption, AncestorsNest
<1>1. ASSUME NEW rn \in Rn, NEW x \in Scopes(rn) PROVE Scopes(x) \subseteq Scopes(rn)
  <2> DEFINE c == Chain(rn)
  <2>1. Scopes(rn) = {c[i] : i \in DOMAIN c} /\ Scopes(rn) \subseteq Rn /\ c \in Seq(Rn)
    BY ChainShape
  <2>2. \A i \in DOMAIN c : ToSet(Ancestors[c[i]]) = {c[j] : j \in i + 1 .. Len(c)}
    BY ChainShape
  <2>3. Scopes(x) = {x} \cup ToSet(Ancestors[x])
    BY <2>1, ChainShape
  <2> HIDE DEF c
  <2>4. PICK i \in DOMAIN c : x = c[i]
    BY <2>1
  <2>5. DOMAIN c = 1 .. Len(c) /\ Len(c) \in Nat /\ i \in Nat
    BY <2>1, <2>4
  <2>6. \A j \in i + 1 .. Len(c) : c[j] \in Scopes(rn)
    BY <2>1, <2>5
  <2>7. ToSet(Ancestors[x]) \subseteq Scopes(rn)
    <3>1. ToSet(Ancestors[x]) = {c[j] : j \in i + 1 .. Len(c)}
      BY <2>2, <2>4
    <3>2. ASSUME NEW y \in {c[j] : j \in i + 1 .. Len(c)} PROVE y \in Scopes(rn)
      BY <2>6
    <3> QED
      BY <3>1, <3>2
  <2> QED
    BY <2>3, <2>7
<1>2. Init => AccessIsConserved
  BY DEF Init, AccessIsConserved
<1>3. InDomain /\ AccessIsConserved /\ [Next]_vars => AccessIsConserved'
  <2> SUFFICES ASSUME InDomain, AccessIsConserved, [Next]_vars PROVE AccessIsConserved'
    OBVIOUS
  <2>1. ASSUME NEW s \in Subject, NEW b \in Binding, NEW w \in Answer, Grant(s, b, w)
        PROVE  AccessIsConserved'
    <3>1. bindings' = bindings \cup {b} /\ founding' = founding
      BY <2>1 DEF Grant
    <3>2. ASSUME NEW a \in RoleActions[b.role], NEW rn \in Rn, b.on \in Scopes(rn)
          PROVE  \E f \in founding : a \in RoleActions[f.role] /\ f.on \in Scopes(rn)
      <4>1. \E v \in Probes(w) : Granted(s, a, b.on, v, TRUE)
        BY <2>1, <3>2 DEF Grant, CanGrant, Decides
      <4>2. PICK held \in bindings : held.on \in Scopes(b.on) /\ a \in RoleActions[held.role]
        BY <4>1 DEF Granted
      <4>3. held.on \in Scopes(rn)
        BY <1>1, <3>2, <4>2
      <4> QED
        BY <4>2, <4>3 DEF AccessIsConserved
    <3> QED
      BY <3>1, <3>2 DEF AccessIsConserved
  <2>2. ASSUME NEW b \in Binding, Revoke(b) PROVE AccessIsConserved'
    BY <2>2 DEF Revoke, AccessIsConserved
  <2>3. CASE UNCHANGED vars
    BY <2>3 DEF vars, AccessIsConserved
  <2> QED
    BY <2>1, <2>2, <2>3 DEF Next
<1> QED
  BY <1>2, <1>3, InDomainHolds, PTL DEF Spec
=============================================================================
