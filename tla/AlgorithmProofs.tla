--------------------------- MODULE AlgorithmProofs ---------------------------
(***************************************************************************)
(* What the algorithms keep from one generation to the next, for any size  *)
(* of the population, any fitness vectors and children, and without the    *)
(* bound on the number of generations, when the comparisons are exact.     *)
(*                                                                         *)
(* NSGA-II: every solution of a pool has one rank, as a set of solutions   *)
(* that is not empty has an undominated one; the cut keeps as many as the  *)
(* population holds, all of a lower rank first; each of them has a place   *)
(* of its own in the order of the fronts; and the ends of a front are the  *)
(* only ones at an infinite distance, so a cut through the first front     *)
(* keeps them when the population can hold them all.                       *)
(*                                                                         *)
(* NSGA-III: the fronts are cut in the same way; a pick only exchanges     *)
(* two solutions of the partial front and never moves one that is picked   *)
(* behind those that are left; the closest of a direction is the same for  *)
(* all of its picks; and counting one more solution for a direction moves  *)
(* it behind the others with as few, so the directions stay ordered.       *)
(*                                                                         *)
(* The single-objective algorithm: whichever of the replacements is used,  *)
(* a candidate with the greatest fitness of the ones it may keep is kept.  *)
(*                                                                         *)
(* The cone tree: no point is lost while it is built, and what a search    *)
(* skips is not better than what it returns, by the inequality of Cauchy   *)
(* and Schwarz.                                                            *)
(***************************************************************************)
EXTENDS Nsga2, Nsga3, Soga, ConeTree, Induction, SequenceTheorems

-----------------------------------------------------------------------------
(* The fronts of a pool *)

Exact == Tolerance = 0

LEMMA LessTransitive ==
    ASSUME Exact, NEW a \in Fitness, NEW b \in Fitness, NEW c \in Fitness,
           paretoCompareLess(a, b), paretoCompareLess(b, c)
    PROVE  paretoCompareLess(a, c)
<1>1. a \in [Objectives -> Int] /\ b \in [Objectives -> Int] /\ c \in [Objectives -> Int]
  BY FitnessAssumption
<1>2. \A o \in Objectives : a[o] <= b[o] /\ b[o] <= c[o]
  BY <1>1 DEF Exact, paretoCompareLess, floatIsLess
<1>3. PICK o \in Objectives : a[o] < b[o]
  BY <1>1 DEF Exact, paretoCompareLess, floatIsLess
<1>4. a[o] < c[o] /\ \A q \in Objectives : a[q] <= c[q] BY <1>1, <1>2, <1>3
<1> QED BY <1>1, <1>4 DEF Exact, paretoCompareLess, floatIsLess

LEMMA LessIrreflexive ==
    ASSUME Exact, NEW a \in Fitness PROVE ~ paretoCompareLess(a, a)
<1>1. a \in [Objectives -> Int] BY FitnessAssumption
<1> QED BY <1>1 DEF Exact, paretoCompareLess, floatIsLess

\* What is left of a pool after one more front.
Behind(p, S) == {i \in S : \E j \in S : paretoCompareLess(p[i], p[j])}

LEMMA UnpeeledLeft ==
    ASSUME NEW n \in Nat, NEW p \in [1 .. n -> Fitness]
    PROVE  /\ Unpeeled(p)[1] = 1 .. n
           /\ \A k \in 1 .. n : Unpeeled(p)[k + 1] = Behind(p, Unpeeled(p)[k])
           /\ \A k \in 1 .. n + 1 : Unpeeled(p)[k] \subseteq 1 .. n
<1> DEFINE D == 1 .. n
           X == Seq(SUBSET D)
           In(x, k) == x[k] \cap D
           step == [q \in (1 .. n) \X X |-> Append(q[2], Behind(p, In(q[2], q[1])))]
           Defines(f) == f = [k \in 0 .. Len(p) |->
                                IF k = 0 THEN <<DOMAIN p>>
                                ELSE Append(f[k - 1], Behind(p, f[k - 1][k]))]
           left == CHOOSE f : Defines(f)
           Right(f, k) == /\ f[k] \in Seq(SUBSET D) /\ Len(f[k]) = k + 1 /\ f[k][1] = D
                          /\ \A l \in 1 .. k : f[k][l + 1] = Behind(p, f[k][l])
<1>1. DOMAIN p = D /\ Len(p) = n OBVIOUS
<1>2. Unpeeled(p) = left[n] BY <1>1 DEF Unpeeled, Behind
<1>3. step \in [(1 .. n) \X X -> X]
  <2>1. \A q \in (1 .. n) \X X : Behind(p, In(q[2], q[1])) \in SUBSET D BY DEF Behind
  <2> QED BY <2>1
<1>4. PICK f \in [0 .. n -> X] : f[0] = <<D>> /\ \A k \in 1 .. n : f[k] = step[<<k, f[k - 1]>>]
  <2>1. <<D>> \in X OBVIOUS
  <2> HIDE DEF step, X, D
  <2>2. \E f : Iterates(f, n, X, <<D>>, step) BY <1>3, <2>1, IterationExists
  <2> QED BY <2>2 DEF Iterates
<1>5. \A k \in 1 .. n : f[k] = Append(f[k - 1], Behind(p, In(f[k - 1], k)))
  <2>1. \A k \in 1 .. n : <<k, f[k - 1]>> \in (1 .. n) \X X OBVIOUS
  <2> QED BY <1>4, <2>1
<1> DEFINE S == {k \in 0 .. n : Right(f, k)}
<1>6. 0 \in S
  <2>1. <<D>> \in Seq(SUBSET D) /\ Len(<<D>>) = 1 /\ <<D>>[1] = D OBVIOUS
  <2>2. Right(f, 0) BY <1>4, <2>1
  <2> QED BY <2>2
<1>7. ASSUME NEW k \in 0 .. n - 1, k \in S PROVE k + 1 \in S
  <2>1. k + 1 \in 1 .. n /\ (k + 1) - 1 = k /\ Right(f, k) BY <1>7
  <2>2. f[k + 1] = Append(f[k], Behind(p, In(f[k], k + 1))) BY <1>5, <2>1
  <2>3. k + 1 \in 1 .. Len(f[k]) /\ f[k][k + 1] \in SUBSET D /\ In(f[k], k + 1) = f[k][k + 1]
    BY <2>1
  <2>4. Behind(p, f[k][k + 1]) \in SUBSET D BY <2>3 DEF Behind
  <2>5. f[k + 1] \in Seq(SUBSET D) /\ Len(f[k + 1]) = k + 2 BY <2>1, <2>2, <2>3, <2>4
  <2>6. /\ \A l \in 1 .. k + 1 : f[k + 1][l] = f[k][l]
        /\ f[k + 1][k + 2] = Behind(p, f[k][k + 1])
    <3> DEFINE s == f[k]
               e == Behind(p, f[k][k + 1])
    <3>1. s \in Seq(SUBSET D) /\ Len(s) = k + 1 /\ e \in SUBSET D BY <2>1, <2>4
    <3>2. f[k + 1] = Append(s, e) BY <2>2, <2>3
    <3> HIDE DEF s, e
    <3>3. \A l \in 1 .. k + 1 : Append(s, e)[l] = s[l] BY <3>1
    <3>4. Append(s, e)[k + 2] = e BY <3>1
    <3> QED BY <3>2, <3>3, <3>4 DEF s, e
  <2>7. \A l \in 1 .. k + 1 : f[k + 1][l + 1] = Behind(p, f[k + 1][l])
    <3> TAKE l \in 1 .. k + 1
    <3>1. CASE l = k + 1 BY <2>6, <3>1
    <3>2. CASE l # k + 1
      <4>1. k \in Nat BY <2>1
      <4>2. l \in 1 .. k /\ l + 1 \in 1 .. k + 1 BY <3>2, <4>1
      <4> QED BY <2>1, <2>6, <4>2
    <3> QED BY <3>1, <3>2
  <2>8. f[k + 1][1] = D
    <3>1. 1 \in 1 .. k + 1 BY <2>1
    <3> QED BY <2>1, <2>6, <3>1
  <2> QED BY <2>1, <2>5, <2>7, <2>8
<1>8. \A k \in 0 .. n : Right(f, k)
  <2>1. 0 .. n \subseteq S
    <3> HIDE DEF S
    <3> QED BY <1>6, <1>7, IntervalInduction
  <2> QED BY <2>1
<1>9. Defines(f)
  <2>1. ASSUME NEW k \in 1 .. n PROVE f[k] = Append(f[k - 1], Behind(p, f[k - 1][k]))
    <3>1. k - 1 \in 0 .. n /\ (k - 1) + 1 = k OBVIOUS
    <3>2. Right(f, k - 1) BY <1>8, <3>1
    <3>3. f[k - 1][k] \in SUBSET D BY <3>1, <3>2
    <3>4. In(f[k - 1], k) = f[k - 1][k] BY <3>3
    <3> QED BY <1>5, <3>4
  <2> DEFINE g == [k \in 0 .. n |-> IF k = 0 THEN <<D>> ELSE Append(f[k - 1], Behind(p, f[k - 1][k]))]
  <2>2. f = g
    <3>1. \A k \in 0 .. n : k = 0 \/ k \in 1 .. n OBVIOUS
    <3>2. \A k \in 0 .. n : f[k] = g[k] BY <1>4, <2>1, <3>1
    <3> QED BY <1>4, <3>2
  <2> QED BY <1>1, <2>2
<1>10. Defines(left)
  <2> HIDE DEF Defines
  <2> QED BY <1>9
\* The function is the only one.
<1>11. left[n] = f[n]
  <2> DEFINE T == {k \in 0 .. n : left[k] = f[k]}
  <2> HIDE DEF left
  <2>1. 0 \in T
    <3>1. left[0] = <<D>> BY <1>1, <1>10
    <3>2. left[0] = f[0] BY <1>4, <3>1
    <3> QED BY <3>2
  <2>2. ASSUME NEW k \in 0 .. n - 1, k \in T PROVE k + 1 \in T
    <3>1. k + 1 \in 0 .. n /\ k + 1 # 0 /\ (k + 1) - 1 = k OBVIOUS
    <3>2. left[k + 1] = Append(left[k], Behind(p, left[k][k + 1]))
      <4> HIDE DEF left
      <4> QED BY <1>1, <1>10, <3>1
    <3>3. f[k + 1] = Append(f[k], Behind(p, f[k][k + 1])) BY <1>1, <1>9, <3>1
    <3> QED BY <2>2, <3>1, <3>2, <3>3
  <2>3. 0 .. n \subseteq T
    <3> HIDE DEF T
    <3> QED BY <2>1, <2>2, IntervalInduction
  <2>4. n \in T BY <2>3
  <2> QED BY <2>4
<1>12. Right(f, n) BY <1>8
<1>13. \A k \in 1 .. n + 1 : f[n][k] \in SUBSET D BY <1>12
<1> QED BY <1>2, <1>11, <1>12, <1>13

\* A set of solutions that is not empty has one that none of the set dominates.
LEMMA UndominatedExists ==
    ASSUME Exact, NEW n \in Nat, NEW p \in [1 .. n -> Fitness], NEW S \in SUBSET (1 .. n), S # {}
    PROVE  \E i \in S : \A j \in S : ~ paretoCompareLess(p[i], p[j])
<1> DEFINE Above(i) == {j \in S : paretoCompareLess(p[i], p[j])}
           Sets == {Above(i) : i \in S}
<1>1. Sets \subseteq FiniteSubsetsOf(1 .. n)
  <2>1. ASSUME NEW i \in S PROVE Above(i) \in SUBSET (1 .. n) /\ IsFiniteSet(Above(i))
    <3>1. IsFiniteSet(1 .. n) BY FS_Interval
    <3>2. Above(i) \in SUBSET (1 .. n) OBVIOUS
    <3> QED BY <3>1, <3>2, FS_Subset
  <2> QED BY <2>1 DEF FiniteSubsetsOf
<1>2. Sets # {} OBVIOUS
<1>3. PICK B \in Sets : \A C \in Sets : <<C, B>> \notin StrictSubsetOrdering(1 .. n)
  BY <1>1, <1>2, WFMin, FS_StrictSubsetOrderingWellFounded
<1>4. PICK i \in S : B = Above(i) OBVIOUS
<1>5. ASSUME NEW j \in S, paretoCompareLess(p[i], p[j]) PROVE FALSE
  <2>1. p[i] \in Fitness /\ p[j] \in Fitness OBVIOUS
  <2>2. Above(j) \subseteq Above(i)
    <3>1. ASSUME NEW l \in S, paretoCompareLess(p[j], p[l]) PROVE paretoCompareLess(p[i], p[l])
      <4>1. p[l] \in Fitness OBVIOUS
      <4> QED BY <1>5, <2>1, <3>1, <4>1, LessTransitive
    <3> QED BY <3>1
  <2>3. j \in Above(i) /\ j \notin Above(j) BY <1>5, <2>1, LessIrreflexive
  <2>4. Above(j) \in Sets /\ Above(j) \in SUBSET (1 .. n) /\ Above(i) \in SUBSET (1 .. n) OBVIOUS
  <2>5. <<Above(j), Above(i)>> \in StrictSubsetOrdering(1 .. n)
    BY <2>2, <2>3, <2>4 DEF StrictSubsetOrdering
  <2> QED BY <1>3, <1>4, <2>4, <2>5
<1> QED BY <1>5

\* Every solution is left by some number of fronts and not by the next: it has one rank.
LEMMA UnpeeledShrinks ==
    ASSUME Exact, NEW n \in Nat, NEW p \in [1 .. n -> Fitness]
    PROVE  /\ \A m \in 1 .. n + 1 : \A k \in 1 .. m : Unpeeled(p)[m] \subseteq Unpeeled(p)[k]
           /\ Unpeeled(p)[n + 1] = {}
<1> DEFINE L == Unpeeled(p)
<1> HIDE DEF L
<1>1. /\ L[1] = 1 .. n
      /\ \A k \in 1 .. n : L[k + 1] = Behind(p, L[k])
      /\ \A k \in 1 .. n + 1 : L[k] \subseteq 1 .. n
  BY UnpeeledLeft DEF L
<1>2. \A k \in 1 .. n : L[k + 1] \subseteq L[k] BY <1>1 DEF Behind
<1>3. \A m \in 1 .. n + 1 : \A k \in 1 .. m : L[m] \subseteq L[k]
  <2> DEFINE S == {m \in 0 .. n : \A k \in 1 .. m + 1 : L[m + 1] \subseteq L[k]}
  <2>1. 0 \in S OBVIOUS
  <2>2. ASSUME NEW m \in 0 .. n - 1, m \in S PROVE m + 1 \in S
    <3>1. m + 1 \in 1 .. n /\ (m + 1) + 1 = m + 2 BY <2>2
    <3>2. L[m + 2] \subseteq L[m + 1] BY <1>2, <3>1
    <3>3. ASSUME NEW k \in 1 .. m + 2 PROVE L[m + 2] \subseteq L[k]
      <4>1. CASE k = m + 2 BY <4>1
      <4>2. CASE k # m + 2
        <5>1. k \in 1 .. m + 1 BY <4>2
        <5> QED BY <2>2, <3>2, <5>1
      <4> QED BY <4>1, <4>2
    <3> QED BY <3>1, <3>3
  <2>3. 0 .. n \subseteq S
    <3> HIDE DEF S
    <3> QED BY <2>1, <2>2, IntervalInduction
  <2>4. ASSUME NEW m \in 1 .. n + 1, NEW k \in 1 .. m PROVE L[m] \subseteq L[k]
    <3>1. m - 1 \in 0 .. n /\ (m - 1) + 1 = m OBVIOUS
    <3> QED BY <2>3, <3>1
  <2> QED BY <2>4
<1>4. L[n + 1] = {}
  <2>0. \A k \in 1 .. n + 1 : IsFiniteSet(L[k]) /\ Cardinality(L[k]) \in Nat
    <3> TAKE k \in 1 .. n + 1
    <3>1. IsFiniteSet(1 .. n) BY FS_Interval
    <3>2. L[k] \in SUBSET (1 .. n) BY <1>1
    <3> QED BY <3>1, <3>2, FS_Subset, FS_CardinalityType
  <2> DEFINE S == {m \in 0 .. n : Cardinality(L[m + 1]) <= n - m}
  <2>1. 0 \in S BY <1>1, FS_Interval
  <2>2. ASSUME NEW m \in 0 .. n - 1, m \in S PROVE m + 1 \in S
    <3>1. m + 1 \in 1 .. n /\ m + 1 \in 1 .. n + 1 /\ m + 2 \in 1 .. n + 1 /\ (m + 1) + 1 = m + 2
      BY <2>2
    <3>2. L[m + 2] = Behind(p, L[m + 1]) /\ L[m + 2] \subseteq L[m + 1] BY <1>1, <1>2, <3>1
    <3>3. CASE L[m + 1] = {}
      <4>1. L[m + 2] = {} BY <3>2, <3>3
      <4>2. Cardinality(L[m + 2]) = 0 BY <4>1, FS_EmptySet
      <4> QED BY <3>1, <4>2
    <3>4. CASE L[m + 1] # {}
      <4>1. PICK i \in L[m + 1] : \A j \in L[m + 1] : ~ paretoCompareLess(p[i], p[j])
        BY <1>1, <3>1, <3>4, UndominatedExists
      <4>2. i \notin L[m + 2] BY <3>2, <4>1 DEF Behind
      <4>3. Cardinality(L[m + 2]) < Cardinality(L[m + 1])
        <5>1. IsFiniteSet(L[m + 1]) BY <2>0, <3>1
        <5>2. L[m + 2] \subseteq L[m + 1] /\ L[m + 2] # L[m + 1] BY <3>2, <4>1, <4>2
        <5> DEFINE A == L[m + 1]
                   B == L[m + 2]
        <5>3. IsFiniteSet(A) /\ B \in SUBSET A /\ B # A BY <5>1, <5>2
        <5> HIDE DEF A, B
        <5>4. Cardinality(B) <= Cardinality(A) /\ Cardinality(B) # Cardinality(A)
          BY <5>3, FS_Subset
        <5>5. Cardinality(B) \in Nat /\ Cardinality(A) \in Nat BY <2>0, <3>1 DEF A, B
        <5> QED BY <5>4, <5>5 DEF A, B
      <4> QED BY <2>0, <2>2, <3>1, <4>3
    <3> QED BY <3>3, <3>4
  <2>3. 0 .. n \subseteq S
    <3> HIDE DEF S
    <3> QED BY <2>1, <2>2, IntervalInduction
  <2>4. n \in 0 .. n /\ n + 1 \in 1 .. n + 1 OBVIOUS
  <2>5. Cardinality(L[n + 1]) <= n - n BY <2>3, <2>4
  <2>6. Cardinality(L[n + 1]) = 0 BY <2>0, <2>4, <2>5
  <2> QED BY <2>0, <2>4, <2>6, FS_EmptySet
<1> QED BY <1>3, <1>4 DEF L

LEMMA NextLevels ==
    ASSUME NEW n \in Nat, NEW i \in 0 .. n - 1, NEW j \in 0 .. n - 1, i <= j
    PROVE  i + 1 \in 1 .. n /\ j + 1 \in 1 .. n /\ i + 1 \in 1 .. j + 1 /\ (i + 1) + 1 = i + 2
OBVIOUS

LEMMA RanksOfIsRanking ==
    ASSUME Exact, NEW n \in Nat, NEW p \in [1 .. n -> Fitness]
    PROVE  RanksOf(p) \in [1 .. n -> 0 .. n - 1] /\ IsRanking(RanksOf(p), p)
<1> DEFINE L == Unpeeled(p)
           At(i, k) == i \in L[k + 1] \ L[k + 2]
           r == RanksOf(p)
<1> HIDE DEF L
<1>1. /\ L[1] = 1 .. n
      /\ \A k \in 1 .. n : L[k + 1] = Behind(p, L[k])
      /\ \A k \in 1 .. n + 1 : L[k] \subseteq 1 .. n
      /\ \A m \in 1 .. n + 1 : \A k \in 1 .. m : L[m] \subseteq L[k]
      /\ L[n + 1] = {}
  BY UnpeeledLeft, UnpeeledShrinks DEF L
<1>2. DOMAIN p = 1 .. n /\ Len(p) = n OBVIOUS
<1>3. r = [i \in 1 .. n |-> CHOOSE k \in 0 .. n - 1 : At(i, k)] BY <1>2 DEF RanksOf, L
<1>4. \A i \in 1 .. n : \E k \in 0 .. n - 1 : At(i, k)
  <2> TAKE i \in 1 .. n
  <2> DEFINE T == {k \in 1 .. n + 1 : i \notin L[k]}
  <2>1. n + 1 \in T /\ T \in SUBSET Nat BY <1>1
  <2>2. PICK m \in T : \A k \in T : m <= k BY <2>1, LeastNatural
  <2>3. m # 1 BY <1>1, <2>2
  <2>4. m - 2 \in 0 .. n - 1 /\ (m - 2) + 1 = m - 1 /\ (m - 2) + 2 = m BY <2>2, <2>3
  <2>5. m - 1 \notin T BY <2>2
  <2>6. i \in L[m - 1] BY <2>4, <2>5
  <2> QED BY <2>2, <2>4, <2>6
<1>10. \A i \in 1 .. n : r[i] \in 0 .. n - 1 /\ At(i, r[i])
  <2> HIDE DEF At
  <2> QED BY <1>3, <1>4
<1> HIDE DEF r
<1>5. \A i \in 1 .. n : r[i] \in 0 .. n - 1 /\ i \in L[r[i] + 1] /\ i \notin L[r[i] + 2] BY <1>10
<1>11. \A i \in 1 .. n : r[i] \in Int /\ 0 <= r[i] /\ r[i] <= n - 1 BY <1>5
<1>6. ASSUME NEW i \in 1 .. n, NEW j \in 1 .. n, paretoCompareLess(p[i], p[j])
      PROVE  r[j] < r[i]
  <2> SUFFICES ASSUME r[i] <= r[j] PROVE FALSE BY <1>11
  <2>1. r[i] + 1 \in 1 .. n /\ r[j] + 1 \in 1 .. n /\ r[i] + 1 \in 1 .. r[j] + 1
        /\ (r[i] + 1) + 1 = r[i] + 2
    <3>1. r[i] \in 0 .. n - 1 /\ r[j] \in 0 .. n - 1
      BY <1>5
    <3> QED BY <3>1, NextLevels
  <2>2. j \in L[r[i] + 1]
    <3>1. j \in L[r[j] + 1] BY <1>5
    <3>2. r[j] + 1 \in 1 .. n + 1 BY <2>1
    <3>3. L[r[j] + 1] \subseteq L[r[i] + 1]
      <4>1. \A m \in 1 .. n + 1 : \A k \in 1 .. m : L[m] \subseteq L[k] BY <1>1
      <4>2. r[i] + 1 \in 1 .. r[j] + 1 BY <2>1
      <4> QED BY <3>2, <4>1, <4>2
    <3> QED BY <3>1, <3>3
  <2>3. L[r[i] + 2] = Behind(p, L[r[i] + 1]) BY <1>1, <2>1
  <2>4. i \in L[r[i] + 2]
    <3>1. i \in L[r[i] + 1] BY <1>5
    <3> QED BY <1>6, <2>2, <2>3, <3>1 DEF Behind
  <2> QED BY <1>5, <2>4
<1>7. ASSUME NEW i \in 1 .. n, r[i] > 0
      PROVE  \E j \in 1 .. n : paretoCompareLess(p[i], p[j]) /\ r[j] = r[i] - 1
  <2>1. r[i] \in 1 .. n /\ r[i] + 1 \in 1 .. n
    <3>1. r[i] \in Int /\ 0 <= r[i] /\ r[i] <= n - 1 BY <1>11
    <3> QED BY <1>7, <3>1
  <2>2. i \in Behind(p, L[r[i]])
    <3>1. L[r[i] + 1] = Behind(p, L[r[i]]) BY <1>1, <2>1
    <3>2. i \in L[r[i] + 1] BY <1>5
    <3> QED BY <3>1, <3>2
  <2>3. PICK j \in L[r[i]] : paretoCompareLess(p[i], p[j]) BY <2>2 DEF Behind
  <2>4. j \in 1 .. n BY <1>1, <2>1
  <2>5. r[j] < r[i] BY <1>6, <2>3, <2>4
  <2>6. ~ (r[j] + 2 <= r[i])
    <3> SUFFICES ASSUME r[j] + 2 <= r[i] PROVE FALSE OBVIOUS
    <3>1. r[i] \in 1 .. n + 1 /\ r[j] + 2 \in 1 .. r[i] BY <1>11, <2>1, <2>4
    <3>2. L[r[i]] \subseteq L[r[j] + 2] BY <1>1, <3>1
    <3> QED BY <1>5, <2>4, <3>2
  <2>7. r[j] = r[i] - 1
    <3>1. r[j] \in Int /\ r[i] \in Int BY <1>11, <2>4
    <3> QED BY <2>5, <2>6, <3>1
  <2> QED BY <2>3, <2>4, <2>7
<1>8. r \in [1 .. n -> 0 .. n - 1] BY <1>3, <1>5 DEF r
<1>9. IsRanking(r, p)
  <2>1. \A i \in 1 .. n : r[i] \in Nat BY <1>5
  <2>2. DOMAIN p = 1 .. n /\ DOMAIN r = 1 .. n BY <1>2, <1>8
  <2> QED BY <1>6, <1>7, <2>1, <2>2 DEF IsRanking
<1> QED BY <1>8, <1>9 DEF r

-----------------------------------------------------------------------------
(* The cut at the size of the population *)

UpTo(r, k) == {i \in DOMAIN r : r[i] <= k}
Before(r, k) == {i \in DOMAIN r : r[i] < k}

LEMMA CutIsRight ==
    ASSUME NEW n \in Nat, n >= PopulationSize, NEW r \in [1 .. n -> 0 .. n - 1]
    PROVE  /\ Cut(r) \in 0 .. n - 1
           /\ Cardinality(Before(r, Cut(r))) < PopulationSize
           /\ Cardinality(UpTo(r, Cut(r))) >= PopulationSize
<1> DEFINE D == 1 .. n
           T == {k \in Nat : Cardinality(UpTo(r, k)) >= PopulationSize}
           IsCut(k) == /\ Cardinality(Before(r, k)) < PopulationSize
                       /\ Cardinality(UpTo(r, k)) >= PopulationSize
<1>1. IsFiniteSet(D) /\ Cardinality(D) = n /\ DOMAIN r = D BY FS_Interval
<1>2. n \in T
  <2>1. UpTo(r, n) = D BY <1>1 DEF UpTo
  <2> QED BY <1>1, <2>1
<1>3. PICK m \in T : \A k \in T : m <= k
  <2>1. T \in SUBSET Nat OBVIOUS
  <2> QED BY <1>2, <2>1, LeastNatural
<1>4. Cardinality(Before(r, m)) < PopulationSize
  <2>1. CASE m = 0
    <3>1. Before(r, m) = {} BY <1>1, <2>1 DEF Before
    <3> QED BY <3>1, FS_EmptySet, PopulationSizeAssumption
  <2>2. CASE m # 0
    <3>1. m - 1 \in Nat /\ m - 1 \notin T BY <1>3, <2>2
    <3>2. Before(r, m) = UpTo(r, m - 1) BY <1>1, <1>3 DEF Before, UpTo
    <3>3. UpTo(r, m - 1) \in SUBSET D BY <1>1 DEF UpTo
    <3>4. Cardinality(UpTo(r, m - 1)) \in Nat BY <1>1, <3>3, FS_Subset, FS_CardinalityType
    <3> QED BY <3>1, <3>2, <3>4, PopulationSizeAssumption
  <2> QED BY <2>1, <2>2
<1>5. m \in Range(r)
  <2>1. Before(r, m) # UpTo(r, m)
    <3>1. Before(r, m) \in SUBSET D /\ UpTo(r, m) \in SUBSET D BY <1>1 DEF Before, UpTo
    <3>2. Cardinality(Before(r, m)) \in Nat /\ Cardinality(UpTo(r, m)) \in Nat
      BY <1>1, <3>1, FS_Subset, FS_CardinalityType
    <3> QED BY <1>3, <1>4, <3>2, PopulationSizeAssumption
  <2>2. PICK i \in D : r[i] = m BY <1>1, <1>3, <2>1 DEF Before, UpTo
  <2> QED BY <1>1, <2>2 DEF Range
<1>6. IsCut(m) BY <1>3, <1>4
<1>7. Cut(r) = CHOOSE k \in Range(r) : IsCut(k) BY DEF Cut, Before, UpTo
<1>8. Cut(r) \in Range(r) /\ IsCut(Cut(r))
  <2> HIDE DEF IsCut
  <2> QED BY <1>5, <1>6, <1>7
<1>9. Range(r) \subseteq 0 .. n - 1 BY DEF Range
<1> QED BY <1>8, <1>9

\* What is kept is as many as the population holds: all before the cut, none behind it.
LEMMA KeptIsBest ==
    ASSUME NEW n \in Nat, n >= PopulationSize, NEW r \in [1 .. n -> 0 .. n - 1], NEW p,
           NEW S \in Kept(p, r)
    PROVE  /\ S \in SUBSET (1 .. n) /\ Cardinality(S) = PopulationSize
           /\ \A i \in S : r[i] <= Cut(r)
           /\ \A i \in 1 .. n : r[i] < Cut(r) => i \in S
<1> DEFINE k == Cut(r)
           partial == PartialFront(r)
<1>1. k \in 0 .. n - 1 /\ Cardinality(Before(r, k)) < PopulationSize
      /\ Cardinality(UpTo(r, k)) >= PopulationSize
  BY CutIsRight
<1> HIDE DEF k
<1>2. DOMAIN r = 1 .. n /\ Before(r, k) \in SUBSET (1 .. n) /\ UpTo(r, k) \in SUBSET (1 .. n)
      /\ FrontOf(r, k) \in SUBSET (1 .. n)
  BY DEF Before, UpTo, FrontOf
<1>3. IsFiniteSet(1 .. n) BY FS_Interval
<1>4. IsFiniteSet(Before(r, k)) /\ Cardinality(Before(r, k)) \in Nat
  BY <1>2, <1>3, FS_Subset, FS_CardinalityType
<1>5. CASE partial = {}
  <2>1. S = UpTo(r, k) BY <1>5 DEF Kept, UpTo, k
  <2>2. Cardinality(UpTo(r, k)) = PopulationSize
    <3> SUFFICES ASSUME Cardinality(UpTo(r, k)) # PopulationSize PROVE FALSE OBVIOUS
    <3>1. FrontOf(r, k) = {} BY <1>5 DEF PartialFront, UpTo, k
    <3>2. UpTo(r, k) = Before(r, k) BY <1>1, <1>2, <3>1 DEF FrontOf, UpTo, Before
    <3> QED BY <1>1, <1>4, <3>2, PopulationSizeAssumption
  <2> QED BY <1>1, <1>2, <2>1, <2>2 DEF UpTo, k
<1>6. CASE partial # {}
  <2>1. partial = FrontOf(r, k) BY <1>6 DEF PartialFront, k
  <2>2. PICK K \in KeptOfPartial(p, partial, PopulationSize - Cardinality(Before(r, k))) :
          S = Before(r, k) \cup K
    BY <1>6 DEF Kept, Before, k
  <2>3. K \in SUBSET partial /\ Cardinality(K) = PopulationSize - Cardinality(Before(r, k))
    BY <2>2 DEF KeptOfPartial, kSubset
  <2>4. IsFiniteSet(K) BY <1>2, <1>3, <2>1, <2>3, FS_Subset
  <2>5. Before(r, k) \cap K = {} BY <2>1, <2>3 DEF Before, FrontOf
  <2>6. Cardinality(S) = PopulationSize
    <3>1. Cardinality(S) = Cardinality(Before(r, k)) + Cardinality(K) - 0
      BY <1>4, <2>2, <2>4, <2>5, FS_Union, FS_EmptySet
    <3> QED BY <1>4, <2>3, <3>1, PopulationSizeAssumption
  <2>7. S \in SUBSET (1 .. n) BY <1>2, <2>1, <2>2, <2>3
  <2>8. \A i \in S : r[i] <= k BY <1>1, <1>2, <2>1, <2>2, <2>3 DEF Before, FrontOf
  <2>9. \A i \in 1 .. n : r[i] < k => i \in S BY <1>2, <2>2 DEF Before
  <2> QED BY <2>6, <2>7, <2>8, <2>9 DEF k
<1> QED BY <1>5, <1>6

-----------------------------------------------------------------------------
(* The order of a front *)

\* An order of the front S holds each of its solutions once, ascending in objective o.
IsAscending(p, S, o, s) ==
    /\ s \in Seq(S) /\ Len(s) = Cardinality(S)
    /\ \A k, l \in 1 .. Len(s) : s[k] = s[l] => k = l
    /\ \A i \in S : \E k \in 1 .. Len(s) : s[k] = i
    /\ \A k \in 1 .. Len(s) : \A l \in k .. Len(s) : p[s[k]][o] <= p[s[l]][o]

LEMMA AscendingOrders ==
    ASSUME NEW n \in Nat, NEW p \in [1 .. n -> Fitness], NEW S \in SUBSET (1 .. n),
           NEW o \in Objectives, NEW s \in Ascending(p, S, o)
    PROVE  IsAscending(p, S, o, s)
<1> DEFINE c == Cardinality(S)
           Least(t) == {j \in S \ ToSet(t) : \A l \in S \ ToSet(t) : p[j][o] <= p[l][o]}
           Longer(T) == UNION {{Append(t, i) : i \in Least(t)} : t \in T}
           Defines(f) == f = [k \in 0 .. c |-> IF k = 0 THEN {<<>>} ELSE Longer(f[k - 1])]
           orders == CHOOSE f : Defines(f)
           X == SUBSET Seq(S)
           step == [q \in (1 .. c) \X X |-> Longer(q[2])]
           Good(t, k) ==
             /\ t \in Seq(S) /\ Len(t) = k
             /\ \A a, b \in 1 .. k : t[a] = t[b] => a = b
             /\ \A a \in 1 .. k : /\ \A b \in a .. k : p[t[a]][o] <= p[t[b]][o]
                                  /\ \A i \in S \ ToSet(t) : p[t[a]][o] <= p[i][o]
<1>1. IsFiniteSet(S) /\ c \in Nat
  <2>1. IsFiniteSet(1 .. n) BY FS_Interval
  <2> QED BY <2>1, FS_Subset, FS_CardinalityType
<1>2. Ascending(p, S, o) = orders[c] BY DEF Ascending
<1>3. \A T \in X : Longer(T) \in X
  <2>1. \A t \in Seq(S) : \A i \in S : Append(t, i) \in Seq(S) OBVIOUS
  <2> QED BY <2>1
<1>4. \E f : Defines(f)
  <2>1. step \in [(1 .. c) \X X -> X]
    <3> HIDE DEF X, Longer
    <3> QED BY <1>3
  <2>2. {<<>>} \in X OBVIOUS
  <2>3. \E f : Iterates(f, c, X, {<<>>}, step)
    <3> HIDE DEF step, X, c
    <3> QED BY <1>1, <2>1, <2>2, IterationExists
  <2>4. PICK f \in [0 .. c -> X] : f[0] = {<<>>} /\ \A k \in 1 .. c : f[k] = step[<<k, f[k - 1]>>]
    BY <2>3 DEF Iterates
  <2> HIDE DEF X, Longer, c
  <2>5. \A k \in 1 .. c : f[k] = Longer(f[k - 1])
    <3> TAKE k \in 1 .. c
    <3>1. k - 1 \in 0 .. c BY <1>1
    <3>2. <<k, f[k - 1]>> \in (1 .. c) \X X BY <3>1
    <3> QED BY <2>4, <3>2
  <2>6. \A k \in 0 .. c : f[k] = IF k = 0 THEN {<<>>} ELSE Longer(f[k - 1])
    <3>1. \A k \in 0 .. c : k = 0 \/ k \in 1 .. c BY <1>1
    <3> QED BY <2>4, <2>5, <3>1
  <2>7. Defines(f) BY <2>6
  <2> QED BY <2>7
<1>5. Defines(orders)
  <2> HIDE DEF Defines
  <2> QED BY <1>4
<1> HIDE DEF orders
<1>6. orders[0] = {<<>>} /\ \A k \in 1 .. c : orders[k] = Longer(orders[k - 1])
  <2> HIDE DEF Longer, c
  <2>1. 0 \in 0 .. c /\ \A k \in 1 .. c : k \in 0 .. c /\ k # 0 BY <1>1
  <2> QED BY <1>5, <2>1
<1> DEFINE Cases == {k \in 0 .. c : \A t \in orders[k] : Good(t, k)}
<1>7. 0 \in Cases
  <2>1. \A t \in {<<>>} : Good(t, 0) OBVIOUS
  <2> HIDE DEF Good, c
  <2> QED BY <1>1, <1>6, <2>1
<1>8. ASSUME NEW k \in 0 .. c - 1, k \in Cases PROVE k + 1 \in Cases
  <2> SUFFICES ASSUME NEW u \in orders[k + 1] PROVE Good(u, k + 1)
    <3> HIDE DEF Good, c
    <3> QED BY <1>1
  <2>1. k \in Nat /\ orders[k + 1] = Longer(orders[k])
    <3>1. k + 1 \in 1 .. c /\ (k + 1) - 1 = k BY <1>1
    <3> HIDE DEF Longer
    <3> QED BY <1>6, <3>1
  <2>0. PICK t \in orders[k] : \E i \in Least(t) : u = Append(t, i) BY <2>1
  <2>2. PICK i \in Least(t) : u = Append(t, i) BY <2>0
  <2>3. Good(t, k) BY <1>8
  <2>4. i \in S /\ i \notin ToSet(t) /\ \A l \in S \ ToSet(t) : p[i][o] <= p[l][o] BY <2>2
  <2>5. /\ u \in Seq(S) /\ Len(u) = k + 1 /\ u[k + 1] = i
        /\ \A a \in 1 .. k : u[a] = t[a] /\ t[a] \in S /\ t[a] \in ToSet(t)
    <3>1. t \in Seq(S) /\ Len(t) = k /\ i \in S BY <2>3, <2>4
    <3> HIDE DEF Good, Least
    <3>2. u \in Seq(S) /\ Len(u) = k + 1 /\ u[k + 1] = i /\ \A a \in 1 .. k : u[a] = t[a]
      BY <2>1, <2>2, <3>1
    <3>3. \A a \in 1 .. k : t[a] \in S /\ t[a] \in ToSet(t) BY <3>1 DEF ToSet
    <3> QED BY <3>2, <3>3
  <2>6. ToSet(u) = ToSet(t) \cup {i}
    <3>1. DOMAIN u = 1 .. k + 1 /\ DOMAIN t = 1 .. k BY <2>3, <2>5
    <3>2. \A a \in 1 .. k + 1 : a \in 1 .. k \/ a = k + 1 BY <2>1
    <3>3. \A a \in 1 .. k : a \in 1 .. k + 1 BY <2>1
    <3>4. k + 1 \in 1 .. k + 1 BY <2>1
    <3> QED BY <2>5, <3>1, <3>2, <3>3, <3>4 DEF ToSet
  <2>7. \A a, b \in 1 .. k + 1 : u[a] = u[b] => a = b
    <3>1. \A a \in 1 .. k + 1 : a \in 1 .. k \/ a = k + 1 BY <2>1
    <3> QED BY <2>3, <2>4, <2>5, <3>1
  <2>8. ASSUME NEW a \in 1 .. k + 1 PROVE \A b \in a .. k + 1 : p[u[a]][o] <= p[u[b]][o]
    <3> TAKE b \in a .. k + 1
    <3>1. CASE a = k + 1
      <4>1. b = a BY <2>1, <3>1
      <4>2. p[u[a]][o] \in Int
        <5>1. p[i] \in [Objectives -> Int] BY <2>4, FitnessAssumption
        <5> QED BY <2>5, <3>1, <5>1
      <4> QED BY <4>1, <4>2
    <3>2. CASE a # k + 1 /\ b = k + 1 BY <2>1, <2>3, <2>4, <2>5, <3>2
    <3>3. CASE a # k + 1 /\ b # k + 1
      <4>1. a \in 1 .. k /\ b \in a .. k /\ b \in 1 .. k BY <2>1, <3>3
      <4> QED BY <2>3, <2>5, <4>1
    <3> QED BY <3>1, <3>2, <3>3
  <2>9. ASSUME NEW a \in 1 .. k + 1, NEW l \in S \ ToSet(u) PROVE p[u[a]][o] <= p[l][o]
    <3>1. l \in S \ ToSet(t) BY <2>6
    <3>2. CASE a = k + 1 BY <2>4, <2>5, <3>1, <3>2
    <3>3. CASE a # k + 1
      <4>1. a \in 1 .. k BY <2>1, <3>3
      <4> QED BY <2>3, <2>5, <3>1, <4>1
    <3> QED BY <3>2, <3>3
  <2> QED BY <2>5, <2>7, <2>8, <2>9
<1>9. Good(s, c)
  <2>1. 0 .. c \subseteq Cases
    <3> HIDE DEF Cases, c
    <3> QED BY <1>1, <1>7, <1>8, IntervalInduction
  <2>2. c \in Cases BY <1>1, <2>1
  <2> QED BY <1>2, <2>2
\* As many different solutions as the front has are all of them.
<1>10. \A i \in S : \E k \in 1 .. c : s[k] = i
  <2>1. s \in [1 .. c -> S] BY <1>9
  <2>2. s \in Injection(1 .. c, S) BY <1>9, <2>1 DEF Injection, IsInjective
  <2>3. IsFiniteSet(1 .. c) /\ Cardinality(1 .. c) = c BY <1>1, FS_Interval
  <2>4. s \in Surjection(1 .. c, S)
    <3> HIDE DEF c, Good
    <3> QED BY <1>1, <2>2, <2>3, FS_Injection DEF c
  <2> QED BY <2>4 DEF Surjection
<1> QED BY <1>9, <1>10 DEF IsAscending

-----------------------------------------------------------------------------
(* The places of the solutions that are kept *)

LEMMA OutcomesAreOrdered ==
    ASSUME NEW n \in Nat, NEW p \in [1 .. n -> Fitness], NEW r \in [1 .. n -> Nat],
           NEW S \in SUBSET (1 .. n), NEW c \in Outcomes(p, S, r), NEW i \in S
    PROVE  IsAscending(p, {j \in S : r[j] = r[i]}, NumObjectives, c[r[i]].order)
<1> DEFINE F == {j \in S : r[j] = r[i]}
<1>1. c[r[i]] \in Crowded(p, F) BY DEF Outcomes
<1>2. PICK s \in Ascending(p, F, NumObjectives) : c[r[i]].order = s
  <2> DEFINE left(s) == Totals([[o \in Objectives |-> Contributions(p, F, o)]
                                  EXCEPT ![NumObjectives] = {Contribution(p, s, NumObjectives)}])
  <2>1. Crowded(p, F) = UNION {{[dist |-> d, order |-> s] : d \in left(s)} :
                                 s \in Ascending(p, F, NumObjectives)}
    BY DEF Crowded
  <2> HIDE DEF left, F
  <2>2. PICK s \in Ascending(p, F, NumObjectives) : \E d \in left(s) : c[r[i]] = [dist |-> d, order |-> s]
    BY <1>1, <2>1
  <2> QED BY <2>2
<1>3. NumObjectives \in Objectives BY NumObjectivesAssumption, ObjectivesAssumption DEF Objectives
<1>4. F \in SUBSET (1 .. n) OBVIOUS
<1> QED BY <1>2, <1>3, <1>4, AscendingOrders

\* Every place of the population is taken by one of the solutions that are kept.
LEMMA PlacesAreTaken ==
    ASSUME NEW n \in Nat, NEW p \in [1 .. n -> Fitness], NEW r \in [1 .. n -> Nat],
           NEW S \in SUBSET (1 .. n), Cardinality(S) = PopulationSize,
           NEW c \in Outcomes(p, S, r)
    PROVE  LET order == [m \in Places |-> CHOOSE i \in S : PlaceOf(S, r, c, i) = m]
           IN  /\ order \in [Places -> S]
               /\ \A l, m \in Places : order[l] = order[m] => l = m
               /\ \A i \in S : \E m \in Places : order[m] = i
<1> DEFINE At(i) == CHOOSE k \in DOMAIN c[r[i]].order : c[r[i]].order[k] = i
           Low(i) == {j \in S : r[j] < r[i]}
           Same(i) == {j \in S : r[j] = r[i]}
           Upto(i) == {j \in S : r[j] <= r[i]}
           place == [i \in S |-> PlaceOf(S, r, c, i)]
           order == [m \in Places |-> CHOOSE i \in S : PlaceOf(S, r, c, i) = m]
<1>1. IsFiniteSet(S)
  <2>1. IsFiniteSet(1 .. n) BY FS_Interval
  <2> QED BY <2>1, FS_Subset
<1>2. \A i \in S : /\ IsFiniteSet(Low(i)) /\ Cardinality(Low(i)) \in Nat
                   /\ IsFiniteSet(Same(i)) /\ Cardinality(Same(i)) \in Nat
                   /\ Cardinality(Upto(i)) \in Nat /\ Cardinality(Upto(i)) <= PopulationSize
                   /\ Cardinality(Upto(i)) = Cardinality(Low(i)) + Cardinality(Same(i))
  <2> TAKE i \in S
  <2>1. Low(i) \in SUBSET S /\ Same(i) \in SUBSET S /\ Upto(i) \in SUBSET S OBVIOUS
  <2>2. /\ IsFiniteSet(Low(i)) /\ IsFiniteSet(Same(i))
        /\ IsFiniteSet(Upto(i)) /\ Cardinality(Upto(i)) <= PopulationSize
    BY <1>1, <2>1, FS_Subset
  <2>3. Upto(i) = Low(i) \cup Same(i) /\ Low(i) \cap Same(i) = {}
    <3>1. \A j \in S : r[j] \in Int OBVIOUS
    <3>2. \A j \in S : /\ r[j] <= r[i] <=> r[j] < r[i] \/ r[j] = r[i]
                       /\ ~ (r[j] < r[i] /\ r[j] = r[i])
      BY <3>1
    <3> QED BY <3>2
  <2>4. Cardinality(Low(i)) \in Nat /\ Cardinality(Same(i)) \in Nat /\ Cardinality(Upto(i)) \in Nat
    BY <2>2, FS_CardinalityType
  <2> HIDE DEF Low, Same, Upto
  <2>5. Cardinality(Upto(i)) = Cardinality(Low(i)) + Cardinality(Same(i)) - 0
    BY <2>2, <2>3, FS_Union, FS_EmptySet
  <2> QED BY <2>2, <2>4, <2>5
<1>3. \A i \in S : /\ At(i) \in 1 .. Cardinality(Same(i))
                   /\ c[r[i]].order[At(i)] = i
  <2> TAKE i \in S
  <2> DEFINE s == c[r[i]].order
  <2>1. IsAscending(p, Same(i), NumObjectives, s) BY OutcomesAreOrdered
  <2> HIDE DEF s, Same
  <2>2. s \in Seq(Same(i)) /\ Len(s) = Cardinality(Same(i)) BY <2>1 DEF IsAscending
  <2>3. DOMAIN s = 1 .. Cardinality(Same(i)) BY <2>2
  <2>4. \E k \in DOMAIN s : s[k] = i
    <3>1. i \in Same(i) BY DEF Same
    <3> QED BY <2>1, <2>2, <2>3, <3>1 DEF IsAscending
  <2> QED BY <2>3, <2>4 DEF s
<1>4. \A i \in S : place[i] = Cardinality(Low(i)) + At(i) BY DEF PlaceOf
<1> HIDE DEF At, place
<1>5. \A i \in S : place[i] \in Places /\ place[i] <= Cardinality(Upto(i))
                   /\ place[i] > Cardinality(Low(i))
  <2> TAKE i \in S
  <2> HIDE DEF Low, Same, Upto
  <2>1. At(i) \in 1 .. Cardinality(Same(i)) BY <1>3
  <2>2. place[i] = Cardinality(Low(i)) + At(i) BY <1>4
  <2>3. /\ Cardinality(Low(i)) \in Nat /\ Cardinality(Same(i)) \in Nat
        /\ Cardinality(Upto(i)) \in Nat /\ Cardinality(Upto(i)) <= PopulationSize
        /\ Cardinality(Upto(i)) = Cardinality(Low(i)) + Cardinality(Same(i))
    BY <1>2
  <2> QED BY <2>1, <2>2, <2>3, PopulationSizeAssumption DEF Places
<1>6. ASSUME NEW i \in S, NEW j \in S, r[j] < r[i] PROVE place[j] < place[i]
  <2>1. Upto(j) \in SUBSET Low(i)
    <3>1. \A l \in S : r[l] \in Int OBVIOUS
    <3>2. \A l \in S : r[l] <= r[j] => r[l] < r[i] BY <1>6, <3>1
    <3> QED BY <3>2
  <2>2. Cardinality(Upto(j)) <= Cardinality(Low(i)) BY <1>2, <2>1, FS_Subset
  <2> HIDE DEF Low, Upto
  <2>3. place[j] \in Int /\ place[i] \in Int BY <1>5 DEF Places
  <2>4. Cardinality(Upto(j)) \in Nat /\ Cardinality(Low(i)) \in Nat BY <1>2
  <2>5. place[j] <= Cardinality(Upto(j)) /\ place[i] > Cardinality(Low(i)) BY <1>5
  <2> QED BY <2>2, <2>3, <2>4, <2>5
<1>7. \A i, j \in S : place[i] = place[j] => i = j
  <2> SUFFICES ASSUME NEW i \in S, NEW j \in S, place[i] = place[j] PROVE i = j OBVIOUS
  <2>0. place[i] = place[j] OBVIOUS
  <2>1. place[i] \in Int
    <3>1. place[i] \in Places BY <1>5
    <3> QED BY <3>1 DEF Places
  <2>2. ~ (r[i] < r[j]) /\ ~ (r[j] < r[i])
    <3>1. ~ (place[i] < place[j]) /\ ~ (place[j] < place[i]) BY <2>1
    <3> QED BY <1>6, <3>1
  <2>3. r[i] = r[j]
    <3>1. r[i] \in Nat /\ r[j] \in Nat OBVIOUS
    <3> QED BY <2>2, <3>1
  <2>4. Low(i) = Low(j) /\ Same(i) = Same(j) BY <2>3
  <2>5. At(i) = At(j)
    <3>1. Cardinality(Low(i)) \in Nat BY <1>2
    <3>2. At(i) \in Int /\ At(j) \in Int
      <4>1. At(i) \in 1 .. Cardinality(Same(i)) /\ At(j) \in 1 .. Cardinality(Same(j)) BY <1>3
      <4> HIDE DEF Same
      <4> QED BY <4>1
    <3>3. place[i] = Cardinality(Low(i)) + At(i) /\ place[j] = Cardinality(Low(i)) + At(j) BY <1>4, <2>4
    <3>4. ASSUME NEW a \in Int, NEW u \in Int, NEW v \in Int, a + u = a + v PROVE u = v
      BY <3>4
    <3>5. Cardinality(Low(i)) + At(i) = Cardinality(Low(i)) + At(j) BY <2>0, <3>3
    <3> HIDE DEF Low
    <3> QED BY <3>1, <3>2, <3>4, <3>5
  <2> QED BY <1>3, <2>3, <2>5
<1>8. \A m \in Places : \E i \in S : place[i] = m
  <2>1. place \in [S -> Places] BY <1>5 DEF place
  <2>2. place \in Injection(S, Places) BY <1>7, <2>1 DEF Injection, IsInjective
  <2>3. IsFiniteSet(Places) /\ Cardinality(Places) = PopulationSize
    BY PopulationSizeAssumption, FS_Interval DEF Places
  <2>4. place \in Surjection(S, Places) BY <2>2, <2>3, FS_Injection
  <2> QED BY <2>4 DEF Surjection
<1>9. \A m \in Places : order[m] \in S /\ place[order[m]] = m
  <2>1. \A i \in S : PlaceOf(S, r, c, i) = place[i] BY DEF place
  <2> TAKE m \in Places
  <2>2. \E i \in S : PlaceOf(S, r, c, i) = m BY <1>8, <2>1
  <2>3. order[m] = CHOOSE i \in S : PlaceOf(S, r, c, i) = m OBVIOUS
  <2>4. order[m] \in S /\ PlaceOf(S, r, c, order[m]) = m BY <2>2, <2>3
  <2> HIDE DEF order
  <2> QED BY <2>1, <2>4
<1>10. order \in [Places -> S] BY <1>9
<1>11. \A l, m \in Places : order[l] = order[m] => l = m
  <2> HIDE DEF order
  <2> QED BY <1>9
<1>12. \A i \in S : \E m \in Places : order[m] = i
  <2> HIDE DEF order
  <2> QED BY <1>5, <1>7, <1>9
<1> QED BY <1>10, <1>11, <1>12

-----------------------------------------------------------------------------
(* The population of the next generation *)

\* What a generation leaves behind: the first part says that there is a pool that the
\* population was picked out of.
PickedInv == /\ \E n \in Nat : pool \in [1 .. n -> Fitness] /\ survivors \in [Places -> 1 .. n]
             /\ RanksDescribePopulation
             /\ SurvivorsAreBest

\* The pool of a generation is made of the population and its children.
LEMMA PoolIsSequence ==
    ASSUME NEW a \in [Places -> Fitness], NEW b \in [Places -> Fitness]
    PROVE  a \o b \in [1 .. PopulationSize + PopulationSize -> Fitness]
<1>1. a \in Seq(Fitness) /\ Len(a) = PopulationSize BY PopulationSizeAssumption DEF Places
<1>2. b \in Seq(Fitness) /\ Len(b) = PopulationSize BY PopulationSizeAssumption DEF Places
<1>3. a \o b \in Seq(Fitness) /\ Len(a \o b) = PopulationSize + PopulationSize BY <1>1, <1>2
<1>4. \A s \in Seq(Fitness) : s \in [1 .. Len(s) -> Fitness] OBVIOUS
<1> QED BY <1>3, <1>4

LEMMA PickedInit == Exact /\ Init => PickedInv
<1> SUFFICES ASSUME Exact, Init PROVE PickedInv OBVIOUS
<1>1. PopulationSize \in Nat /\ Places = 1 .. PopulationSize
  BY PopulationSizeAssumption DEF Places
<1>2. pool \in [Places -> Fitness] /\ survivors = [i \in Places |-> i] /\ ranks = RanksOf(pool)
  BY DEF Init
<1>3. pop = pool BY <1>2 DEF pop
<1>4. RanksDescribePopulation
  <2>1. IsRanking(RanksOf(pool), pool) BY <1>1, <1>2, RanksOfIsRanking
  <2> QED BY <1>2, <1>3, <2>1 DEF RanksDescribePopulation
<1>5. SurvivorsAreBest
  <2>1. ToSet(survivors) = Places BY <1>2 DEF ToSet
  <2> QED BY <1>2, <2>1 DEF SurvivorsAreBest
<1> QED BY <1>1, <1>2, <1>4, <1>5 DEF PickedInv

\* What the order of survivors makes of the ranks and of the rest of the pool, when they
\* are all of the fronts before one of them and some of that.
LEMMA ChosenByRank ==
    ASSUME Exact, NEW n \in Nat, NEW p \in [1 .. n -> Fitness],
           NEW cut \in Nat, NEW S \in SUBSET (1 .. n),
           \A i \in S : RanksOf(p)[i] <= cut,
           \A i \in 1 .. n : RanksOf(p)[i] < cut => i \in S,
           NEW order \in [Places -> S],
           \A i \in S : \E m \in Places : order[m] = i
    PROVE  /\ IsRanking(RanksOfChosen(RanksOf(p), order), [i \in Places |-> p[order[i]]])
           /\ \A i \in Places, d \in 1 .. n :
                d \in ToSet(order) \/ ~ paretoCompareLess(p[order[i]], p[d])
<1> DEFINE r == RanksOf(p)
           q == [i \in Places |-> p[order[i]]]
           s == RanksOfChosen(r, order)
<1>1. r \in [1 .. n -> 0 .. n - 1] /\ IsRanking(r, p) BY RanksOfIsRanking
<1>2. /\ \A i \in S : r[i] <= cut
      /\ \A i \in 1 .. n : r[i] < cut => i \in S
  OBVIOUS
<1> HIDE DEF r
<1>4. \A i \in 1 .. n : r[i] \in Int BY <1>1
<1>5. /\ \A i, j \in 1 .. n : paretoCompareLess(p[i], p[j]) => r[j] < r[i]
      /\ \A i \in 1 .. n : r[i] > 0 => \E j \in 1 .. n : paretoCompareLess(p[i], p[j]) /\ r[j] = r[i] - 1
  BY <1>1 DEF IsRanking
<1>6. \A i \in Places : order[i] \in S /\ order[i] \in 1 .. n /\ s[i] = r[order[i]] /\ q[i] = p[order[i]]
  BY <1>2 DEF RanksOfChosen
<1>7. DOMAIN s = Places /\ DOMAIN q = Places BY DEF RanksOfChosen
<1>8. IsRanking(s, q)
  <2> HIDE DEF s, q
  <2>1. \A i \in Places : s[i] \in Nat
    <3>1. \A i \in 1 .. n : r[i] \in Nat BY <1>1
    <3> QED BY <1>6, <3>1
  <2>2. \A i, j \in Places : paretoCompareLess(q[i], q[j]) => s[j] < s[i] BY <1>5, <1>6
  <2>3. ASSUME NEW i \in Places, s[i] > 0
        PROVE  \E j \in Places : paretoCompareLess(q[i], q[j]) /\ s[j] = s[i] - 1
    <3>1. PICK d \in 1 .. n : paretoCompareLess(p[order[i]], p[d]) /\ r[d] = r[order[i]] - 1
      BY <1>5, <1>6, <2>3
    <3>2. r[order[i]] <= cut /\ r[order[i]] \in Int /\ r[d] \in Int BY <1>2, <1>4, <1>6
    <3>3. d \in S BY <1>2, <3>1, <3>2
    <3>4. PICK j \in Places : order[j] = d BY <3>3
    <3> QED BY <1>6, <3>1, <3>4
  <2> QED BY <1>7, <2>1, <2>2, <2>3 DEF IsRanking
<1>9. ASSUME NEW i \in Places, NEW d \in 1 .. n, paretoCompareLess(p[order[i]], p[d])
      PROVE  d \in ToSet(order)
  <2>1. r[d] < r[order[i]] /\ r[order[i]] <= cut BY <1>2, <1>5, <1>6, <1>9
  <2>2. r[d] \in Int /\ r[order[i]] \in Int BY <1>4, <1>6
  <2>3. d \in S BY <1>2, <2>1, <2>2
  <2>4. PICK j \in Places : order[j] = d BY <2>3
  <2> QED BY <2>4 DEF ToSet
<1> QED BY <1>8, <1>9 DEF r

LEMMA PickedFromPool ==
    ASSUME Exact, NEW n \in Nat, n >= PopulationSize, NEW p \in [1 .. n -> Fitness],
           NEW S \in Kept(p, RanksOf(p)),
           NEW order \in [Places -> S],
           \A i \in S : \E m \in Places : order[m] = i
    PROVE  /\ IsRanking(RanksOfChosen(RanksOf(p), order), [i \in Places |-> p[order[i]]])
           /\ \A i \in Places, d \in 1 .. n :
                d \in ToSet(order) \/ ~ paretoCompareLess(p[order[i]], p[d])
<1> DEFINE r == RanksOf(p)
           cut == Cut(r)
<1>1. r \in [1 .. n -> 0 .. n - 1] /\ S \in Kept(p, r) BY RanksOfIsRanking
<1> HIDE DEF r
<1>2. /\ S \in SUBSET (1 .. n)
      /\ \A i \in S : r[i] <= cut
      /\ \A i \in 1 .. n : r[i] < cut => i \in S
  BY <1>1, KeptIsBest
<1>3. cut \in Nat BY <1>1, CutIsRight
<1> HIDE DEF cut
<1> QED BY <1>2, <1>3, ChosenByRank DEF r

LEMMA PoolOfGeneration ==
    ASSUME PickedInv, NEW children \in Offspring
    PROVE  pop \o children \in [1 .. PopulationSize + PopulationSize -> Fitness]
<1>1. PICK m \in Nat : pool \in [1 .. m -> Fitness] /\ survivors \in [Places -> 1 .. m]
  BY DEF PickedInv
<1>2. pop \in [Places -> Fitness] BY <1>1 DEF pop
<1>3. children \in [Places -> Fitness] BY OffspringAssumption DEF Places
<1> QED BY <1>2, <1>3, PoolIsSequence

\* The survivors are the solutions that are kept, each at one place.
LEMMA PlacesOfGeneration ==
    ASSUME Exact, PickedInv, NEW children \in Offspring, NextPopulation(children)
    PROVE  LET r == RanksOf(pop \o children)
           IN  \E S \in Kept(pop \o children, r) :
                 /\ S \in SUBSET (1 .. PopulationSize + PopulationSize)
                 /\ survivors' \in [Places -> S]
                 /\ \A l, m \in Places : survivors'[l] = survivors'[m] => l = m
                 /\ \A i \in S : \E m \in Places : survivors'[m] = i
                 /\ ranks' = RanksOfChosen(r, survivors')
<1> DEFINE p == pop \o children
           r == RanksOf(p)
           n == PopulationSize + PopulationSize
<1>1. n \in Nat /\ n >= PopulationSize BY PopulationSizeAssumption
<1>2. p \in [1 .. n -> Fitness] BY PoolOfGeneration
<1> HIDE DEF n
<1>3. r \in [1 .. n -> 0 .. n - 1] BY <1>1, <1>2, RanksOfIsRanking
<1>4. r \in [1 .. n -> Nat] BY <1>3
<1>5. PICK S \in Kept(p, r) : \E c \in Outcomes(p, S, r) :
        LET order == [m \in Places |-> CHOOSE i \in S : PlaceOf(S, r, c, i) = m]
        IN  survivors' = order /\ ranks' = RanksOfChosen(r, order)
  BY DEF NextPopulation
<1>6. PICK c \in Outcomes(p, S, r) :
        LET order == [m \in Places |-> CHOOSE i \in S : PlaceOf(S, r, c, i) = m]
        IN  survivors' = order /\ ranks' = RanksOfChosen(r, order)
  BY <1>5
<1>7. S \in SUBSET (1 .. n) /\ Cardinality(S) = PopulationSize
  <2> HIDE DEF r, p
  <2> QED BY <1>1, <1>3, KeptIsBest
<1>8. /\ survivors' \in [Places -> S]
      /\ \A l, m \in Places : survivors'[l] = survivors'[m] => l = m
      /\ \A i \in S : \E m \in Places : survivors'[m] = i
  <2> HIDE DEF p, r
  <2> DEFINE order == [m \in Places |-> CHOOSE i \in S : PlaceOf(S, r, c, i) = m]
  <2>1. survivors' = order BY <1>6
  <2>2. /\ order \in [Places -> S]
        /\ \A l, m \in Places : order[l] = order[m] => l = m
        /\ \A i \in S : \E m \in Places : order[m] = i
    BY <1>2, <1>4, <1>1, <1>7, PlacesAreTaken
  <2> HIDE DEF order
  <2> QED BY <2>1, <2>2
<1>9. ranks' = RanksOfChosen(r, survivors') BY <1>6
<1> QED BY <1>7, <1>8, <1>9 DEF n

LEMMA PickedStep == Exact /\ PickedInv /\ [Next]_vars => PickedInv'
<1> SUFFICES ASSUME Exact, PickedInv, [Next]_vars PROVE PickedInv' OBVIOUS
<1>1. ASSUME NEW children \in Offspring, NextPopulation(children) PROVE PickedInv'
  <2> DEFINE p == pop \o children
             r == RanksOf(p)
             n == PopulationSize + PopulationSize
             order == survivors'
  <2>1. n \in Nat /\ n >= PopulationSize BY PopulationSizeAssumption
  <2>2. p \in [1 .. n -> Fitness] BY <1>1, PoolOfGeneration
  <2>3. PICK S \in Kept(p, r) :
          /\ S \in SUBSET (1 .. n)
          /\ order \in [Places -> S]
          /\ \A l, m \in Places : order[l] = order[m] => l = m
          /\ \A i \in S : \E m \in Places : order[m] = i
          /\ ranks' = RanksOfChosen(r, order)
    BY <1>1, PlacesOfGeneration
  <2>4. pool' = p BY <1>1 DEF NextPopulation
  <2> HIDE DEF n, p, order
  <2>5. /\ IsRanking(RanksOfChosen(RanksOf(p), order), [i \in Places |-> p[order[i]]])
        /\ \A i \in Places, d \in 1 .. n :
             d \in ToSet(order) \/ ~ paretoCompareLess(p[order[i]], p[d])
    BY <2>1, <2>2, <2>3, PickedFromPool
  <2>6. pop' = [i \in Places |-> p[order[i]]] BY <2>4 DEF pop, order
  <2>7. RanksDescribePopulation' BY <2>3, <2>5, <2>6 DEF RanksDescribePopulation
  <2>8. SurvivorsAreBest'
    <3>1. DOMAIN pool' = 1 .. n BY <2>2, <2>4
    <3>2. \A i \in Places : pop'[i] = p[order[i]] BY <2>6
    <3> QED BY <2>3, <2>4, <2>5, <3>1, <3>2 DEF SurvivorsAreBest, order
  <2>9. \E m \in Nat : pool' \in [1 .. m -> Fitness] /\ survivors' \in [Places -> 1 .. m]
    BY <2>1, <2>2, <2>3, <2>4 DEF order
  <2> QED BY <2>7, <2>8, <2>9 DEF PickedInv
<1>2. CASE UNCHANGED vars
  BY <1>2 DEF PickedInv, RanksDescribePopulation, SurvivorsAreBest, pop, vars
<1> QED BY <1>1, <1>2 DEF Next

LEMMA RanksGuideSelection ==
    ASSUME RanksDescribePopulation PROVE SelectionPrefersDominator
<1> SUFFICES ASSUME NEW i \in Places, NEW j \in Places, paretoCompareLess(pop[i], pop[j])
             PROVE  Select(i, j) = j /\ Select(j, i) = j
  BY DEF SelectionPrefersDominator
<1>1. DOMAIN pop = Places BY DEF pop
<1>2. ranks[i] \in Nat /\ ranks[j] \in Nat /\ ranks[j] < ranks[i]
  BY <1>1 DEF RanksDescribePopulation, IsRanking
<1> QED BY <1>2 DEF Select

(* The ranks that NSGA-II keeps are the ranking of its population, no      *)
(* solution is kept twice or dominated by a discarded one, and selectImpl  *)
(* never prefers a dominated solution, with an exact comparison.           *)
THEOREM RanksStayRight ==
    ASSUME Exact
    PROVE  Spec => [](RanksDescribePopulation /\ SurvivorsAreBest /\ SelectionPrefersDominator)
<1>1. Init => PickedInv BY PickedInit
<1>2. PickedInv /\ [Next]_vars => PickedInv' BY PickedStep
<1>3. PickedInv => RanksDescribePopulation /\ SurvivorsAreBest /\ SelectionPrefersDominator
  BY RanksGuideSelection DEF PickedInv
<1> QED BY <1>1, <1>2, <1>3, PTL DEF Spec

-----------------------------------------------------------------------------
(* The crowding distances *)

LEMMA SmallerOfTwo ==
    ASSUME NEW a \in Int, NEW b \in Int
    PROVE  Min({a, b}) = IF a <= b THEN a ELSE b
<1> DEFINE m == IF a <= b THEN a ELSE b
<1>1. m \in {a, b} /\ \A y \in {a, b} : m <= y OBVIOUS
<1>2. \A x \in {a, b} : (\A y \in {a, b} : x <= y) => x = m OBVIOUS
<1> HIDE DEF m
<1> QED BY <1>1, <1>2 DEF Min, m

\* A part of a whole, in units.
LEMMA PartOfWhole ==
    ASSUME NEW a \in Nat, NEW b \in Nat, NEW u \in Nat, 0 < a, a <= b
    PROVE  (a * u) \div b \in 0 .. u
<1> DEFINE x == a * u
           q == x \div b
<1>1. x \in Nat /\ x <= b * u
  <2>1. b = a + (b - a) /\ b - a \in Nat OBVIOUS
  <2>2. b * u = a * u + (b - a) * u BY <2>1
  <2>3. (b - a) * u \in Nat /\ a * u \in Nat BY <2>1
  <2> QED BY <2>2, <2>3
<1> HIDE DEF x
<1>2. q \in Int /\ b * q <= x /\ x < b * q + b BY <1>1
<1> HIDE DEF q
<1>3. q >= 0
  <2> SUFFICES ASSUME q <= -1 PROVE FALSE BY <1>2
  <2>1. b * q + b = b * (q + 1) BY <1>2
  <2>2. b * (q + 1) <= 0 BY <1>2
  <2> QED BY <1>1, <1>2, <2>1, <2>2
<1>4. q <= u
  <2> SUFFICES ASSUME q >= u + 1 PROVE FALSE BY <1>2
  <2>1. b * q = b * u + b * (q - u) BY <1>2
  <2>2. b * (q - u) >= b BY <1>2
  <2> QED BY <1>1, <1>2, <2>1, <2>2
<1> QED BY <1>2, <1>3, <1>4 DEF q, x

\* An infinite distance is that of an end of the order, and both ends have one.
LEMMA ContributionIsBounded ==
    ASSUME NEW n \in Nat, NEW p \in [1 .. n -> Fitness], NEW F \in SUBSET (1 .. n), F # {},
           NEW o \in Objectives, NEW s, IsAscending(p, F, o, s)
    PROVE  /\ Contribution(p, s, o) \in [F -> Nat]
           /\ Len(s) \in Nat \ {0} /\ s[Len(s)] \in F
           /\ Contribution(p, s, o)[s[Len(s)]] = Infinity
           /\ \A i \in F : \/ i = s[1] \/ i = s[Len(s)]
                           \/ Contribution(p, s, o)[i] <= Unit
<1> DEFINE At(i) == CHOOSE k \in DOMAIN s : s[k] = i
           width == p[s[Len(s)]][o] - p[s[1]][o]
           gap(k) == p[s[k + 1]][o] - p[s[k - 1]][o]
           value(k) == IF k \in {1, Len(s)} THEN Infinity
                       ELSE IF gap(k) = 0 THEN 0 ELSE (gap(k) * Unit) \div width
           C == Contribution(p, s, o)
<1>1. /\ s \in Seq(F) /\ DOMAIN s = 1 .. Len(s) /\ Len(s) \in Nat
      /\ \A k, l \in 1 .. Len(s) : s[k] = s[l] => k = l
      /\ \A i \in F : \E k \in 1 .. Len(s) : s[k] = i
      /\ \A k \in 1 .. Len(s) : \A l \in k .. Len(s) : p[s[k]][o] <= p[s[l]][o]
  BY DEF IsAscending
<1>0. Len(s) \in Nat BY <1>1
<1>2. ToSet(s) = F
  <2>1. \A k \in 1 .. Len(s) : s[k] \in F BY <1>1
  <2>2. \A i \in F : \E k \in 1 .. Len(s) : s[k] = i BY <1>1
  <2>3. DOMAIN s = 1 .. Len(s) BY <1>1
  <2> QED BY <2>1, <2>2, <2>3 DEF ToSet
<1>3. Len(s) # 0 /\ 1 \in 1 .. Len(s) /\ Len(s) \in 1 .. Len(s)
  <2>1. PICK k \in 1 .. Len(s) : TRUE BY <1>1
  <2> QED BY <1>0, <2>1
<1>4. \A k \in 1 .. Len(s) : s[k] \in F /\ p[s[k]][o] \in Int
  <2> TAKE k \in 1 .. Len(s)
  <2>1. s[k] \in F BY <1>1
  <2>2. p[s[k]] \in [Objectives -> Int] BY <2>1, FitnessAssumption
  <2> QED BY <2>1, <2>2
<1>5. C = [i \in F |-> value(At(i))] BY <1>2 DEF Contribution, Last
<1>6. \A i \in F : At(i) \in 1 .. Len(s) /\ s[At(i)] = i BY <1>1
<1>7. ASSUME NEW k \in 1 .. Len(s), k # 1, k # Len(s) PROVE value(k) \in 0 .. Unit
  <2>1. /\ k - 1 \in 1 .. Len(s) /\ k + 1 \in 1 .. Len(s) /\ k + 1 \in (k - 1) .. Len(s)
        /\ k - 1 \in 1 .. Len(s) /\ Len(s) \in (k + 1) .. Len(s)
    BY <1>0, <1>7
  <2>2. /\ p[s[1]][o] <= p[s[k - 1]][o] /\ p[s[k - 1]][o] <= p[s[k + 1]][o]
        /\ p[s[k + 1]][o] <= p[s[Len(s)]][o]
    BY <1>1, <1>3, <2>1
  <2>3. /\ p[s[1]][o] \in Int /\ p[s[k - 1]][o] \in Int
        /\ p[s[k + 1]][o] \in Int /\ p[s[Len(s)]][o] \in Int
    BY <1>3, <1>4, <2>1
  <2>4. gap(k) \in Nat /\ width \in Nat /\ gap(k) <= width
    <3>1. ASSUME NEW a \in Int, NEW b \in Int, NEW c \in Int, NEW d \in Int, a <= b, b <= c, c <= d
          PROVE  c - b \in Nat /\ d - a \in Nat /\ c - b <= d - a
      BY <3>1
    <3> QED BY <2>2, <2>3, <3>1
  <2> HIDE DEF gap, width
  <2>5. gap(k) # 0 => (gap(k) * Unit) \div width \in 0 .. Unit
    <3>1. Unit \in Nat BY UnitAssumption
    <3>2. gap(k) # 0 => 0 < gap(k) BY <2>4
    <3> QED BY <2>4, <3>1, <3>2, PartOfWhole
  <2> QED BY <1>7, <2>5, UnitAssumption
<1> HIDE DEF At
<1>8. \A k \in 1 .. Len(s) : value(k) \in Nat
  <2> TAKE k \in 1 .. Len(s)
  <2>1. CASE k = 1 \/ k = Len(s) BY <2>1, InfinityAssumption
  <2>2. CASE k # 1 /\ k # Len(s)
    <3>1. value(k) \in 0 .. Unit BY <1>7, <2>2
    <3> HIDE DEF value
    <3> QED BY <3>1, UnitAssumption
  <2> QED BY <2>1, <2>2
<1>9. value(Len(s)) = Infinity OBVIOUS
<1> HIDE DEF value
<1>10. C \in [F -> Nat] BY <1>5, <1>6, <1>8
<1>11. s[Len(s)] \in F /\ C[s[Len(s)]] = Infinity
  <2>1. s[Len(s)] \in F BY <1>3, <1>4
  <2>2. At(s[Len(s)]) = Len(s) BY <1>1, <1>3, <1>6, <2>1
  <2> QED BY <1>5, <1>9, <2>1, <2>2
<1>12. ASSUME NEW i \in F, i # s[1], i # s[Len(s)] PROVE C[i] <= Unit
  <2>1. At(i) \in 1 .. Len(s) /\ At(i) # 1 /\ At(i) # Len(s) BY <1>6, <1>12
  <2>2. value(At(i)) \in 0 .. Unit BY <1>7, <2>1
  <2> QED BY <1>5, <2>2, UnitAssumption
<1> QED BY <1>1, <1>3, <1>10, <1>11, <1>12

\* A sum is infinite if a summand is, and not if every summand is a unit at most.
LEMMA TotalIsBounded ==
    ASSUME NEW F, NEW added, \A o \in Objectives : added[o] \in [F -> Nat], NEW i \in F
    PROVE  /\ Total(added)[i] \in 0 .. Infinity
           /\ \A o \in Objectives : added[o][i] = Infinity => Total(added)[i] = Infinity
           /\ (\A o \in Objectives : added[o][i] <= Unit) => Total(added)[i] < Infinity
<1> DEFINE N == NumObjectives
           X == [F -> Nat]
           Plus(x, o) == [j \in F |-> Min({Infinity, x[j] + added[o][j]})]
           Zero == [j \in F |-> 0]
           Defines(f) == f = [o \in 0 .. N |-> IF o = 0 THEN Zero ELSE Plus(f[o - 1], o)]
           sum == CHOOSE f : Defines(f)
           step == [q \in (1 .. N) \X X |-> Plus(q[2], q[1])]
           Small(o) == \A q \in 1 .. o : added[q][i] <= Unit
           Right(o) == /\ sum[o] \in X
                       /\ sum[o][i] <= Infinity
                       /\ \A q \in 1 .. o : added[q][i] = Infinity => sum[o][i] = Infinity
                       /\ Small(o) => sum[o][i] <= o * Unit
<1>0. /\ N \in Nat /\ Objectives = 1 .. N /\ 1 \in Objectives
      /\ Unit \in Nat /\ Infinity \in Nat /\ Infinity > N * Unit
  BY NumObjectivesAssumption, ObjectivesAssumption, UnitAssumption, InfinityAssumption
  DEF Objectives
<1>1. \A x \in Nat, y \in Nat : /\ Min({Infinity, x + y}) \in Nat
                                /\ Min({Infinity, x + y}) = IF Infinity <= x + y THEN Infinity ELSE x + y
  <2> TAKE x \in Nat, y \in Nat
  <2>1. x + y \in Nat /\ x + y \in Int /\ Infinity \in Int BY <1>0
  <2>2. Min({Infinity, x + y}) = IF Infinity <= x + y THEN Infinity ELSE x + y
    BY <2>1, SmallerOfTwo
  <2> QED BY <1>0, <2>1, <2>2
<1>2. \A x \in X : \A o \in 1 .. N : Plus(x, o) \in X
  <2> TAKE x \in X
  <2> TAKE o \in 1 .. N
  <2>1. \A j \in F : x[j] \in Nat /\ added[o][j] \in Nat BY <1>0
  <2> QED BY <1>1, <2>1
<1>3. DOMAIN added[1] = F BY <1>0
<1>4. Total(added) = sum[N] BY <1>3 DEF Total
<1>5. \E f : Defines(f)
  <2>1. step \in [(1 .. N) \X X -> X]
    <3> HIDE DEF X, Plus
    <3> QED BY <1>2
  <2>2. Zero \in X OBVIOUS
  <2>3. \E f : Iterates(f, N, X, Zero, step)
    <3> HIDE DEF step, X, Zero
    <3> QED BY <1>0, <2>1, <2>2, IterationExists
  <2>4. PICK f \in [0 .. N -> X] : f[0] = Zero /\ \A k \in 1 .. N : f[k] = step[<<k, f[k - 1]>>]
    BY <2>3 DEF Iterates
  <2> HIDE DEF X, Plus, Zero
  <2>5. \A k \in 1 .. N : f[k] = Plus(f[k - 1], k)
    <3> TAKE k \in 1 .. N
    <3>1. k - 1 \in 0 .. N BY <1>0
    <3>2. <<k, f[k - 1]>> \in (1 .. N) \X X BY <3>1
    <3> QED BY <2>4, <3>2
  <2>6. \A k \in 0 .. N : f[k] = IF k = 0 THEN Zero ELSE Plus(f[k - 1], k)
    <3>1. \A k \in 0 .. N : k = 0 \/ k \in 1 .. N BY <1>0
    <3> QED BY <2>4, <2>5, <3>1
  <2>7. Defines(f) BY <2>6
  <2> QED BY <2>7
<1>6. Defines(sum)
  <2> HIDE DEF Defines
  <2> QED BY <1>5
<1> HIDE DEF sum
<1>7. sum[0] = Zero /\ \A o \in 1 .. N : sum[o] = Plus(sum[o - 1], o)
  <2> HIDE DEF Plus, Zero
  <2>1. 0 \in 0 .. N /\ \A o \in 1 .. N : o \in 0 .. N /\ o # 0 BY <1>0
  <2> QED BY <1>6, <2>1
<1> DEFINE Cases == {o \in 0 .. N : Right(o)}
<1>8. 0 \in Cases
  <2>1. sum[0] \in X /\ sum[0][i] = 0 BY <1>7
  <2>2. 0 \in 0 .. N /\ 0 * Unit = 0 BY <1>0
  <2> QED BY <1>0, <2>1, <2>2
<1>9. ASSUME NEW o \in 0 .. N - 1, o \in Cases PROVE o + 1 \in Cases
  <2>1. o + 1 \in 1 .. N /\ (o + 1) - 1 = o /\ o \in Nat BY <1>0
  <2>2. sum[o] \in X /\ sum[o][i] <= Infinity /\ Right(o) BY <1>9
  <2>3. sum[o + 1] = Plus(sum[o], o + 1) BY <1>7, <2>1
  <2>4. sum[o + 1] \in X
    <3> HIDE DEF Plus, X
    <3> QED BY <1>2, <2>1, <2>2, <2>3
  <2> DEFINE a == sum[o][i]
             b == added[o + 1][i]
             t == sum[o + 1][i]
  <2>5. a \in Nat /\ b \in Nat /\ a <= Infinity BY <1>0, <2>1, <2>2
  <2>6. t = IF Infinity <= a + b THEN Infinity ELSE a + b BY <1>1, <2>3, <2>5
  <2>7. Small(o + 1) => Small(o) /\ b <= Unit
    <3>1. \A q \in 1 .. o : q \in 1 .. o + 1 BY <2>1
    <3>2. o + 1 \in 1 .. o + 1 BY <2>1
    <3> QED BY <3>1, <3>2
  <2>8. \A q \in 1 .. o + 1 : q \in 1 .. o \/ q = o + 1 BY <2>1
  <2>9. /\ \A q \in 1 .. o : added[q][i] = Infinity => a = Infinity
        /\ Small(o) => a <= o * Unit
    BY <2>2
  <2>10. (o + 1) * Unit = o * Unit + Unit /\ o * Unit \in Nat BY <1>0, <2>1
  <2> HIDE DEF Small, a, b, t
  <2>11. t <= Infinity BY <1>0, <2>5, <2>6
  <2>12. Small(o + 1) => t <= (o + 1) * Unit BY <1>0, <2>5, <2>6, <2>7, <2>9, <2>10
  <2>13. ASSUME NEW q \in 1 .. o + 1, added[q][i] = Infinity PROVE t = Infinity
    <3>1. CASE q = o + 1
      <4>1. b = Infinity BY <2>13, <3>1 DEF b
      <4> QED BY <1>0, <2>5, <2>6, <4>1
    <3>2. CASE q \in 1 .. o
      <4>1. a = Infinity BY <2>9, <2>13, <3>2
      <4> QED BY <1>0, <2>5, <2>6, <4>1
    <3> QED BY <2>8, <3>1, <3>2
  <2>14. Right(o + 1) BY <2>4, <2>11, <2>12, <2>13 DEF t
  <2> QED BY <2>1, <2>14
<1>10. Right(N)
  <2>1. 0 .. N \subseteq Cases
    <3> HIDE DEF Cases
    <3> QED BY <1>0, <1>8, <1>9, IntervalInduction
  <2>2. N \in 0 .. N BY <1>0
  <2> QED BY <2>1, <2>2
<1>11. sum[N][i] \in 0 .. Infinity
  <2>1. sum[N][i] \in Nat /\ sum[N][i] <= Infinity BY <1>10
  <2> QED BY <1>0, <2>1
<1>12. Small(N) => sum[N][i] < Infinity
  <2>1. Small(N) => sum[N][i] <= N * Unit BY <1>10
  <2>2. N * Unit \in Nat BY <1>0
  <2> HIDE DEF Small
  <2> QED BY <1>0, <1>11, <2>1, <2>2
<1> QED BY <1>0, <1>4, <1>10, <1>11, <1>12

LEMMA PairHasTwo ==
    ASSUME NEW a, NEW b, a # b
    PROVE  IsFiniteSet({a, b}) /\ Cardinality({a, b}) = 2
<1>1. IsFiniteSet({a}) /\ Cardinality({a}) = 1 BY FS_Singleton
<1> DEFINE S == {a}
<1>2. IsFiniteSet(S) /\ Cardinality(S) = 1 /\ b \notin S BY <1>1
<1>3. S \cup {b} = {a, b} OBVIOUS
<1> HIDE DEF S
<1>4. IsFiniteSet(S \cup {b}) /\ Cardinality(S \cup {b}) = Cardinality(S) + 1
  BY <1>2, FS_AddElement
<1> QED BY <1>2, <1>3, <1>4

\* Only the two ends of every objective are infinitely far away, and the best value of
\* every objective is one of them.
FarIn(F, d) == {i \in F : d[i] = Infinity}

EndsStay(p, F, d) ==
    /\ \A i \in F : d[i] \in 0 .. Infinity
    /\ Cardinality(FarIn(F, d)) <= 2 * NumObjectives
    /\ \A o \in Objectives : \E m \in FarIn(F, d) : \A i \in F : p[i][o] <= p[m][o]

LEMMA EndsAreInfinite ==
    ASSUME NEW n \in Nat, NEW p \in [1 .. n -> Fitness], NEW F \in SUBSET (1 .. n), F # {},
           NEW d \in Distances(p, F)
    PROVE  EndsStay(p, F, d)
<1> USE DEF EndsStay, FarIn
<1> DEFINE Far == {i \in F : d[i] = Infinity}
           N == NumObjectives
<1>0. N \in Nat /\ Objectives = 1 .. N BY NumObjectivesAssumption DEF Objectives
<1>1. PICK c : (\A o \in Objectives : c[o] \in Contributions(p, F, o)) /\ d = Total(c)
  <2> DEFINE added == [o \in Objectives |-> Contributions(p, F, o)]
  <2>1. d \in Totals(added) BY DEF Distances
  <2> HIDE DEF added
  <2>2. PICK c \in [Objectives -> UNION Range(added)] :
          (\A o \in Objectives : c[o] \in added[o]) /\ d = Total(c)
    BY <2>1 DEF Totals
  <2> QED BY <2>2 DEF added
<1> DEFINE ord == [o \in Objectives |-> CHOOSE s \in Ascending(p, F, o) : c[o] = Contribution(p, s, o)]
<1>2. \A o \in Objectives : ord[o] \in Ascending(p, F, o) /\ c[o] = Contribution(p, ord[o], o)
  <2> TAKE o \in Objectives
  <2>1. \E s \in Ascending(p, F, o) : c[o] = Contribution(p, s, o) BY <1>1 DEF Contributions
  <2> QED BY <2>1
<1> HIDE DEF ord
<1>3. \A o \in Objectives : IsAscending(p, F, o, ord[o]) BY <1>2, AscendingOrders
<1>4. \A o \in Objectives :
        /\ c[o] \in [F -> Nat]
        /\ Len(ord[o]) \in Nat \ {0} /\ ord[o][Len(ord[o])] \in F
        /\ c[o][ord[o][Len(ord[o])]] = Infinity
        /\ \A i \in F : i = ord[o][1] \/ i = ord[o][Len(ord[o])] \/ c[o][i] <= Unit
  <2> TAKE o \in Objectives
  <2> DEFINE s == ord[o]
  <2>1. c[o] = Contribution(p, s, o) /\ IsAscending(p, F, o, s) BY <1>2, <1>3
  <2> HIDE DEF s
  <2>2. /\ Contribution(p, s, o) \in [F -> Nat]
        /\ Len(s) \in Nat \ {0} /\ s[Len(s)] \in F
        /\ Contribution(p, s, o)[s[Len(s)]] = Infinity
        /\ \A i \in F : i = s[1] \/ i = s[Len(s)] \/ Contribution(p, s, o)[i] <= Unit
    BY <2>1, ContributionIsBounded
  <2> QED BY <2>1, <2>2 DEF s
<1>5. ASSUME NEW i \in F
      PROVE  /\ d[i] \in 0 .. Infinity
             /\ \A o \in Objectives : c[o][i] = Infinity => d[i] = Infinity
             /\ (\A o \in Objectives : c[o][i] <= Unit) => d[i] < Infinity
  <2>1. \A o \in Objectives : c[o] \in [F -> Nat] BY <1>4
  <2>2. /\ Total(c)[i] \in 0 .. Infinity
        /\ \A o \in Objectives : c[o][i] = Infinity => Total(c)[i] = Infinity
        /\ (\A o \in Objectives : c[o][i] <= Unit) => Total(c)[i] < Infinity
    BY <2>1, TotalIsBounded
  <2> QED BY <1>1, <2>2
<1>6. Cardinality(Far) <= 2 * N
  <2> DEFINE Q == Objectives \X {0, 1}
             f == [q \in Q |-> IF q[2] = 0 THEN ord[q[1]][1] ELSE ord[q[1]][Len(ord[q[1]])]]
             E == {f[q] : q \in Q}
  <2>1. IsFiniteSet(Q) /\ Cardinality(Q) = 2 * N
    <3>1. IsFiniteSet(Objectives) /\ Cardinality(Objectives) = N BY <1>0, FS_Interval
    <3>2. IsFiniteSet({0, 1}) /\ Cardinality({0, 1}) = 2
      <4>1. \A a, b : a # b => IsFiniteSet({a, b}) /\ Cardinality({a, b}) = 2 BY PairHasTwo
      <4>2. 0 # 1 OBVIOUS
      <4> QED BY <4>1, <4>2, Zenon
    <3>3. IsFiniteSet(Q) /\ Cardinality(Q) = N * 2 BY <3>1, <3>2, FS_Product
    <3> QED BY <1>0, <3>3
  <2>2. f \in Surjection(Q, E)
    <3>1. DOMAIN f = Q /\ f \in [Q -> E] OBVIOUS
    <3> HIDE DEF f, Q
    <3> QED BY <3>1 DEF Surjection
  <2>3. IsFiniteSet(E) /\ Cardinality(E) <= 2 * N
    <3> HIDE DEF f, Q, E
    <3> QED BY <2>1, <2>2, FS_Surjection
  <2>4. Far \in SUBSET E
    <3> SUFFICES ASSUME NEW i \in Far PROVE i \in E OBVIOUS
    <3>1. ~ \A o \in Objectives : c[o][i] <= Unit
      <4>1. i \in F /\ d[i] = Infinity OBVIOUS
      <4>2. ~ (Infinity < Infinity) BY InfinityAssumption
      <4> QED BY <1>5, <4>1, <4>2
    <3>2. PICK o \in Objectives : i = ord[o][1] \/ i = ord[o][Len(ord[o])] BY <1>4, <3>1
    <3>3. <<o, 0>> \in Q /\ <<o, 1>> \in Q OBVIOUS
    <3>4. f[<<o, 0>>] = ord[o][1] /\ f[<<o, 1>>] = ord[o][Len(ord[o])] BY <3>3
    <3> HIDE DEF f, Q
    <3> QED BY <3>2, <3>3, <3>4
  <2>5. Cardinality(Far) <= Cardinality(E) /\ IsFiniteSet(Far) BY <2>3, <2>4, FS_Subset
  <2>6. Cardinality(Far) \in Nat /\ Cardinality(E) \in Nat /\ 2 * N \in Nat
    BY <1>0, <2>3, <2>5, FS_CardinalityType
  <2> QED BY <2>3, <2>5, <2>6
<1>7. ASSUME NEW o \in Objectives PROVE \E m \in Far : \A i \in F : p[i][o] <= p[m][o]
  <2> DEFINE s == ord[o]
             m == s[Len(s)]
  <2>1. m \in F /\ c[o][m] = Infinity /\ Len(s) \in Nat \ {0} BY <1>4
  <2>2. m \in Far BY <1>5, <2>1
  <2>3. ASSUME NEW i \in F PROVE p[i][o] <= p[m][o]
    <3>1. IsAscending(p, F, o, s) BY <1>3
    <3> HIDE DEF s
    <3>2. PICK k \in 1 .. Len(s) : s[k] = i BY <3>1 DEF IsAscending
    <3>3. Len(s) \in k .. Len(s) BY <2>1
    <3> QED BY <3>1, <3>2, <3>3 DEF IsAscending
  <2> HIDE DEF m
  <2> QED BY <2>2, <2>3
<1> QED BY <1>5, <1>6, <1>7

\* Neither the cut nor the crowding of the front it goes through loses the best value of
\* an objective, when the ends of the front fit into the population.
LEMMA ExtremesAreKept ==
    ASSUME Exact, PopulationSize >= 2 * NumObjectives,
           NEW n \in Nat, n >= PopulationSize, NEW p \in [1 .. n -> Fitness],
           NEW S \in Kept(p, RanksOf(p)), NEW o \in Objectives, NEW d \in 1 .. n
    PROVE  \E i \in S : p[i][o] >= p[d][o]
<1> DEFINE r == RanksOf(p)
<1>0. PopulationSize \in Nat /\ NumObjectives \in Nat
  BY PopulationSizeAssumption, NumObjectivesAssumption
<1>1. r \in [1 .. n -> 0 .. n - 1] /\ IsRanking(r, p) BY RanksOfIsRanking
<1> HIDE DEF r
<1>2. /\ S \in SUBSET (1 .. n) /\ Cardinality(S) = PopulationSize
      /\ \A i \in 1 .. n : r[i] < Cut(r) => i \in S
  BY <1>1, KeptIsBest DEF r
<1>3. Cut(r) \in Nat
  <2>1. Cut(r) \in 0 .. n - 1 BY <1>1, CutIsRight
  <2> QED BY <2>1
<1>4. \A i \in 1 .. n : p[i] \in [Objectives -> Int] /\ p[i][o] \in Int /\ r[i] \in Nat
  BY <1>1, FitnessAssumption
<1>5. PICK e \in 1 .. n : r[e] = 0 /\ p[e][o] >= p[d][o]
  <2> DEFINE T == {k \in Nat : \E i \in 1 .. n : r[i] = k /\ p[i][o] >= p[d][o]}
  <2>1. r[d] \in T BY <1>4
  <2>2. PICK k \in T : \A l \in T : k <= l
    <3>1. T \in SUBSET Nat OBVIOUS
    <3> QED BY <2>1, <3>1, LeastNatural
  <2>3. PICK i \in 1 .. n : r[i] = k /\ p[i][o] >= p[d][o] BY <2>2
  <2>4. ASSUME r[i] > 0 PROVE FALSE
    <3>1. PICK j \in 1 .. n : paretoCompareLess(p[i], p[j]) /\ r[j] = r[i] - 1
      BY <1>1, <2>4 DEF IsRanking
    <3>2. p[j][o] >= p[i][o]
      <4>1. ~ floatIsLess(p[j][o], p[i][o]) BY <3>1 DEF paretoCompareLess
      <4> QED BY <1>4, <4>1 DEF floatIsLess, Exact
    <3>3. p[j][o] >= p[d][o] BY <1>4, <2>3, <3>2
    <3>4. r[j] \in T BY <1>4, <3>3
    <3>5. k <= r[j] BY <2>2, <3>4
    <3> QED BY <1>4, <2>3, <3>1, <3>5
  <2>5. r[i] = 0 BY <1>4, <2>4
  <2> QED BY <2>3, <2>5
<1>6. CASE Cut(r) > 0
  <2>1. e \in S BY <1>2, <1>5, <1>6
  <2> QED BY <1>5, <2>1
<1>7. CASE Cut(r) = 0 /\ PartialFront(r) = {}
  <2>1. S = {i \in DOMAIN r : r[i] <= 0} BY <1>7 DEF Kept, r
  <2>2. e \in S BY <1>1, <1>5, <2>1
  <2> QED BY <1>5, <2>2
<1>8. CASE Cut(r) = 0 /\ PartialFront(r) # {}
  <2> DEFINE F == PartialFront(r)
             better == {i \in DOMAIN r : r[i] < 0}
  <2>1. F = FrontOf(r, 0) BY <1>8 DEF PartialFront
  <2>2. F \in SUBSET (1 .. n) /\ e \in F BY <1>1, <1>5, <2>1 DEF FrontOf
  <2>3. better = {}
    <3>1. \A i \in 1 .. n : ~ (r[i] < 0) BY <1>4
    <3> QED BY <1>1, <3>1
  <2>4. S \in KeptOfPartial(p, F, PopulationSize)
    <3>1. PICK K \in KeptOfPartial(p, F, PopulationSize - Cardinality(better)) : S = better \cup K
      BY <1>8 DEF Kept, r
    <3>2. Cardinality(better) = 0 BY <2>3, FS_EmptySet
    <3>3. PopulationSize - Cardinality(better) = PopulationSize BY <1>0, <3>2
    <3> QED BY <2>3, <3>1, <3>3
  <2> HIDE DEF F
  <2>5. PICK dist \in Distances(p, F) :
          S \in SUBSET F /\ \A i \in S, j \in F \ S : dist[i] >= dist[j]
    BY <2>4 DEF KeptOfPartial, kSubset
  <2> DEFINE Far == {i \in F : dist[i] = Infinity}
  <2>6. /\ \A i \in F : dist[i] \in 0 .. Infinity
        /\ Cardinality(Far) <= 2 * NumObjectives
        /\ \A q \in Objectives : \E m \in Far : \A i \in F : p[i][q] <= p[m][q]
    <3>1. F # {} BY <2>2
    <3>2. F \in SUBSET (1 .. n) BY <2>2
    <3>3. EndsStay(p, F, dist) BY <3>1, <3>2, EndsAreInfinite
    <3> QED BY <3>3 DEF EndsStay, FarIn
  <2>7. PICK m \in Far : \A i \in F : p[i][o] <= p[m][o] BY <2>6
  <2>8. p[m][o] >= p[d][o]
    <3>1. p[e][o] <= p[m][o] /\ m \in 1 .. n BY <2>2, <2>7
    <3> QED BY <1>4, <1>5, <3>1
  <2>9. m \in S
    <3> SUFFICES ASSUME m \notin S PROVE FALSE OBVIOUS
    <3>1. \A i \in S : dist[i] = Infinity
      <4> TAKE i \in S
      <4>1. dist[i] >= dist[m] /\ dist[m] = Infinity /\ i \in F BY <2>5, <2>7
      <4> QED BY <2>6, <4>1, InfinityAssumption
    <3>2. S \in SUBSET Far /\ S # Far BY <2>5, <2>7, <3>1
    <3>3. IsFiniteSet(Far)
      <4>1. IsFiniteSet(1 .. n) BY FS_Interval
      <4>2. Far \in SUBSET (1 .. n) BY <2>2
      <4> QED BY <4>1, <4>2, FS_Subset
    <3> HIDE DEF Far
    <3>4. Cardinality(S) < Cardinality(Far)
      <4>1. Cardinality(S) <= Cardinality(Far) /\ Cardinality(S) # Cardinality(Far)
        BY <3>2, <3>3, FS_Subset
      <4>2. Cardinality(Far) \in Nat BY <3>3, FS_CardinalityType
      <4> QED BY <1>0, <1>2, <4>1, <4>2
    <3>5. Cardinality(Far) \in Nat BY <3>3, FS_CardinalityType
    <3> QED BY <1>0, <1>2, <2>6, <3>4, <3>5
  <2> QED BY <2>8, <2>9
<1> QED BY <1>3, <1>6, <1>7, <1>8

LEMMA ExtremesInit == Exact /\ Init => ExtremesSurvive
<1> SUFFICES ASSUME Exact, Init, NEW o \in Objectives, NEW d \in DOMAIN pool
             PROVE  \E i \in Places : pop[i][o] >= pool[d][o]
  BY DEF ExtremesSurvive
<1>1. pool \in [Places -> Fitness] /\ pop = pool BY DEF Init, pop
<1>2. pool[d][o] \in Int
  <2>1. pool[d] \in [Objectives -> Int] BY <1>1, FitnessAssumption
  <2> QED BY <2>1
<1> QED BY <1>1, <1>2

LEMMA ExtremesStep ==
    Exact /\ PopulationSize >= 2 * NumObjectives /\ PickedInv /\ ExtremesSurvive /\ [Next]_vars
      => ExtremesSurvive'
<1> SUFFICES ASSUME Exact, PopulationSize >= 2 * NumObjectives, PickedInv, ExtremesSurvive, [Next]_vars
             PROVE  ExtremesSurvive'
  OBVIOUS
<1>1. ASSUME NEW children \in Offspring, NextPopulation(children) PROVE ExtremesSurvive'
  <2> DEFINE p == pop \o children
             r == RanksOf(p)
             n == PopulationSize + PopulationSize
  <2>1. n \in Nat /\ n >= PopulationSize BY PopulationSizeAssumption
  <2>2. p \in [1 .. n -> Fitness] BY <1>1, PoolOfGeneration
  <2> HIDE DEF n, p
  <2>3. PICK S \in Kept(p, r) :
          /\ survivors' \in [Places -> S]
          /\ \A i \in S : \E m \in Places : survivors'[m] = i
    BY <1>1, PlacesOfGeneration DEF p
  <2>4. pool' = p BY <1>1 DEF NextPopulation, p
  <2>5. pop' = [i \in Places |-> p[survivors'[i]]] BY <2>4 DEF pop
  <2>6. ASSUME NEW o \in Objectives, NEW d \in 1 .. n
        PROVE  \E m \in Places : pop'[m][o] >= p[d][o]
    <3>1. PICK i \in S : p[i][o] >= p[d][o] BY <2>1, <2>2, ExtremesAreKept
    <3>2. PICK m \in Places : survivors'[m] = i BY <2>3
    <3> QED BY <2>5, <3>1, <3>2
  <2>7. DOMAIN pool' = 1 .. n BY <2>2, <2>4
  <2> QED BY <2>4, <2>6, <2>7 DEF ExtremesSurvive
<1>2. CASE UNCHANGED vars BY <1>2 DEF ExtremesSurvive, pop, vars
<1> QED BY <1>1, <1>2 DEF Next

(* NSGA-II keeps the best solutions that it found: the ranks it keeps are  *)
(* those of its population, nothing that is kept is dominated by what is   *)
(* discarded, selectImpl prefers no dominated solution, and the best value *)
(* of every objective survives.  The last needs a population in which the  *)
(* ends of a front fit; the others do not, see RanksStayRight.             *)
THEOREM PopulationStaysBest ==
    ASSUME Exact, PopulationSize >= 2 * NumObjectives
    PROVE  Spec => []PopulationIsBest
<1> DEFINE IInv == PickedInv /\ ExtremesSurvive
<1>1. Init => IInv BY PickedInit, ExtremesInit
<1>2. IInv /\ [Next]_vars => IInv' BY PickedStep, ExtremesStep
<1>3. IInv => PopulationIsBest BY RanksGuideSelection DEF PickedInv, PopulationIsBest
<1> HIDE DEF IInv
<1> QED BY <1>1, <1>2, <1>3, PTL DEF Spec

-----------------------------------------------------------------------------
(* NSGA-III: numbers *)

Vectors == [Objectives -> Int]

LEMMA ObjectivesAreFinite ==
    /\ NumObjectives \in Nat /\ NumObjectives > 1
    /\ IsFiniteSet(Objectives) /\ Objectives # {} /\ Objectives \in SUBSET Nat
<1>1. NumObjectives \in Nat /\ NumObjectives > 1 BY NumObjectivesAssumption, ObjectivesAssumption
<1>2. IsFiniteSet(1 .. NumObjectives) BY <1>1, FS_Interval
<1> QED BY <1>1, <1>2 DEF Objectives

LEMMA ExtremesOfTwo ==
    ASSUME NEW a \in Int, NEW b \in Int
    PROVE  Min({a, b}) \in Int /\ Max({a, b}) \in Int /\ Max({a, b}) >= a
<1>1. \E x \in {a, b} : \A y \in {a, b} : x <= y
  <2>1. CASE a <= b BY <2>1
  <2>2. CASE b < a BY <2>2
  <2> QED BY <2>1, <2>2
<1>2. \E x \in {a, b} : \A y \in {a, b} : x >= y
  <2>1. CASE a >= b BY <2>1
  <2>2. CASE b > a BY <2>2
  <2> QED BY <2>1, <2>2
<1>3. Min({a, b}) \in {a, b} BY <1>1 DEF Min
<1>4. Max({a, b}) \in {a, b} /\ Max({a, b}) >= a BY <1>2 DEF Max
<1> QED BY <1>3, <1>4

LEMMA ElementwiseTyped ==
    ASSUME NEW v \in Vectors, NEW w \in Vectors
    PROVE  ElementwiseMax(v, w) \in Vectors /\ ElementwiseMin(v, w) \in Vectors
<1>1. \A o \in Objectives : Max({v[o], w[o]}) \in Int /\ Min({v[o], w[o]}) \in Int
  BY ExtremesOfTwo DEF Vectors
<1> QED BY <1>1 DEF ElementwiseMax, ElementwiseMin, Vectors

\* The order in which the folds of the library take the positions of a sequence.
LastFirst(S) == [s \in SUBSET S |-> Max(s)]

LEMMA LastFirstChooses ==
    ASSUME NEW S \in SUBSET Int, IsFiniteSet(S)
    PROVE  Chooses(LastFirst(S), S)
<1> SUFFICES ASSUME NEW s \in SUBSET S, s # {} PROVE Max(s) \in s BY DEF Chooses, LastFirst
<1>1. IsFiniteSet(s) BY FS_Subset
<1>2. \E m \in s : \A k \in s : k <= m BY <1>1, FiniteExtremes
<1>3. \E m \in s : \A k \in s : m >= k BY <1>2
<1> QED BY <1>3 DEF Max

LEMMA MaxFitnessTyped ==
    ASSUME NEW n \in Nat \ {0}, NEW f \in [1 .. n -> Vectors]
    PROVE  MaxFitness(f) \in Vectors
<1> DEFINE D == 1 .. n
           c == LastFirst(D)
           Defines(it) == it = [s \in SUBSET D |->
                                  IF s = {} THEN f[1]
                                  ELSE ElementwiseMax(it[s \ {Max(s)}], f[Max(s)])]
           step == [q \in D \X Vectors |-> ElementwiseMax(q[2], f[q[1]])]
           iter == CHOOSE it : Defines(it)
<1>1. MaxFitness(f) = iter[D] BY DEF MaxFitness, FoldLeft, MapThenFoldSet
<1>2. IsFiniteSet(D) /\ Chooses(c, D) BY FS_Interval, LastFirstChooses
<1>3. f[1] \in Vectors OBVIOUS
<1>4. step \in [D \X Vectors -> Vectors] BY ElementwiseTyped
<1>5. PICK it \in [SUBSET D -> Vectors] : FoldsOver(it, D, f[1], c, step)
  <2> HIDE DEF D, c, step
  <2> QED BY <1>2, <1>3, <1>4, FoldExists
<1>6. \A s \in SUBSET D : s # {} => Max(s) \in s BY <1>2 DEF Chooses, LastFirst
<1>7. Defines(it)
  <2>1. ASSUME NEW s \in SUBSET D, s # {}
        PROVE  step[<<c[s], it[s \ {c[s]}]>>] = ElementwiseMax(it[s \ {Max(s)}], f[Max(s)])
    <3>1. c[s] = Max(s) /\ Max(s) \in D /\ s \ {Max(s)} \in SUBSET D
      BY <1>6, <2>1 DEF LastFirst
    <3> QED BY <3>1
  <2> HIDE DEF step, c
  <2> QED BY <1>5, <2>1 DEF FoldsOver
<1>8. Defines(iter)
  <2> HIDE DEF Defines
  <2> QED BY <1>7
<1> DEFINE T == {s \in SUBSET D : iter[s] \in Vectors}
<1> HIDE DEF iter
<1>9. {} \in T BY <1>3, <1>8
<1>10. ASSUME NEW s \in SUBSET D, s # {} PROVE \E x \in s : s \ {x} \in T => s \in T
  <2>1. Max(s) \in s /\ f[Max(s)] \in Vectors BY <1>6, <1>10
  <2>2. iter[s] = ElementwiseMax(iter[s \ {Max(s)}], f[Max(s)]) BY <1>8, <1>10
  <2>3. ASSUME s \ {Max(s)} \in T PROVE s \in T
    <3>1. iter[s \ {Max(s)}] \in Vectors BY <2>3
    <3>2. iter[s] \in Vectors BY <2>1, <2>2, <3>1, ElementwiseTyped
    <3> QED BY <3>2
  <2> QED BY <2>1, <2>3
<1>11. SUBSET D \subseteq T
  <2> HIDE DEF T
  <2> QED BY <1>2, <1>9, <1>10, SubsetInduction
<1> QED BY <1>1, <1>11
LEMMA FrontNadirTyped ==
    ASSUME NEW n \in Nat \ {0}, NEW f \in [1 .. n -> Vectors]
    PROVE  FindFrontNadirPoint(f) \in Vectors
<1> DEFINE D == 1 .. n
           c == LastFirst(D)
           Defines(it) == it = [s \in SUBSET D |->
                                  IF s = {} THEN f[1]
                                  ELSE ElementwiseMin(it[s \ {Max(s)}], f[Max(s)])]
           step == [q \in D \X Vectors |-> ElementwiseMin(q[2], f[q[1]])]
           iter == CHOOSE it : Defines(it)
<1>1. FindFrontNadirPoint(f) = iter[D] BY DEF FindFrontNadirPoint, FoldLeft, MapThenFoldSet
<1>2. IsFiniteSet(D) /\ Chooses(c, D) BY FS_Interval, LastFirstChooses
<1>3. f[1] \in Vectors OBVIOUS
<1>4. step \in [D \X Vectors -> Vectors] BY ElementwiseTyped
<1>5. PICK it \in [SUBSET D -> Vectors] : FoldsOver(it, D, f[1], c, step)
  <2> HIDE DEF D, c, step
  <2> QED BY <1>2, <1>3, <1>4, FoldExists
<1>6. \A s \in SUBSET D : s # {} => Max(s) \in s BY <1>2 DEF Chooses, LastFirst
<1>7. Defines(it)
  <2>1. ASSUME NEW s \in SUBSET D, s # {}
        PROVE  step[<<c[s], it[s \ {c[s]}]>>] = ElementwiseMin(it[s \ {Max(s)}], f[Max(s)])
    <3>1. c[s] = Max(s) /\ Max(s) \in D /\ s \ {Max(s)} \in SUBSET D
      BY <1>6, <2>1 DEF LastFirst
    <3> QED BY <3>1
  <2> HIDE DEF step, c
  <2> QED BY <1>5, <2>1 DEF FoldsOver
<1>8. Defines(iter)
  <2> HIDE DEF Defines
  <2> QED BY <1>7
<1> DEFINE T == {s \in SUBSET D : iter[s] \in Vectors}
<1> HIDE DEF iter
<1>9. {} \in T BY <1>3, <1>8
<1>10. ASSUME NEW s \in SUBSET D, s # {} PROVE \E x \in s : s \ {x} \in T => s \in T
  <2>1. Max(s) \in s /\ f[Max(s)] \in Vectors BY <1>6, <1>10
  <2>2. iter[s] = ElementwiseMin(iter[s \ {Max(s)}], f[Max(s)]) BY <1>8, <1>10
  <2>3. ASSUME s \ {Max(s)} \in T PROVE s \in T
    <3>1. iter[s \ {Max(s)}] \in Vectors BY <2>3
    <3>2. iter[s] \in Vectors BY <2>1, <2>2, <3>1, ElementwiseTyped
    <3> QED BY <3>2
  <2> QED BY <2>1, <2>3
<1>11. SUBSET D \subseteq T
  <2> HIDE DEF T
  <2> QED BY <1>2, <1>9, <1>10, SubsetInduction
<1> QED BY <1>1, <1>11
LEMMA InnerProductTyped ==
    ASSUME NEW v \in Vectors, NEW w \in Vectors
    PROVE  InnerProduct(v, w) \in Int
<1> DEFINE D == Objectives
           c == [s \in SUBSET D |-> CHOOSE o \in s : TRUE]
           Defines(it) == it = [s \in SUBSET D |->
                                  IF s = {} THEN 0
                                  ELSE LET o == CHOOSE o \in s : TRUE
                                       IN  v[o] * w[o] + it[s \ {o}]]
           b == 0
           step == [q \in D \X Int |-> v[q[1]] * w[q[1]] + q[2]]
           iter == CHOOSE it : Defines(it)
<1>1. InnerProduct(v, w) = iter[D] BY DEF InnerProduct, MapThenSumSet, MapThenFoldSet
<1>2. IsFiniteSet(D) /\ Chooses(c, D) BY ObjectivesAreFinite DEF Chooses
<1>3. ASSUME NEW o \in D, NEW x \in Int PROVE v[o] * w[o] + x \in Int
  <2>1. v[o] \in Int /\ w[o] \in Int BY DEF Vectors
  <2>2. v[o] * w[o] \in Int BY <2>1
  <2> QED BY <2>2
<1>4. step \in [D \X Int -> Int] BY <1>3
<1>5. PICK it \in [SUBSET D -> Int] : FoldsOver(it, D, b, c, step)
  <2>1. b \in Int OBVIOUS
  <2> HIDE DEF D, c, step, b
  <2> QED BY <1>2, <1>4, <2>1, FoldExists
<1>6. \A s \in SUBSET D : s # {} => (CHOOSE o \in s : TRUE) \in s OBVIOUS
<1>7. Defines(it)
  <2>1. ASSUME NEW s \in SUBSET D, s # {}, NEW o, o = CHOOSE x \in s : TRUE
        PROVE  step[<<c[s], it[s \ {c[s]}]>>] = v[o] * w[o] + it[s \ {o}]
    <3>1. c[s] = o /\ o \in D /\ s \ {o} \in SUBSET D BY <1>6, <2>1
    <3>2. <<o, it[s \ {o}]>> \in D \X Int BY <3>1
    <3>3. step[<<o, it[s \ {o}]>>] = v[o] * w[o] + it[s \ {o}]
      <4> DEFINE q == <<o, it[s \ {o}]>>
      <4>1. step[q] = v[q[1]] * w[q[1]] + q[2] BY <3>2
      <4> QED BY <4>1
    <3> HIDE DEF c, step
    <3> QED BY <3>1, <3>3
  <2>2. it = [s \in SUBSET D |-> IF s = {} THEN 0 ELSE step[<<c[s], it[s \ {c[s]}]>>]]
    BY <1>5 DEF FoldsOver
  <2> HIDE DEF step, c, D
  <2>3. \A s \in SUBSET D : it[s] = IF s = {} THEN 0
                                   ELSE LET o == CHOOSE o \in s : TRUE
                                        IN  v[o] * w[o] + it[s \ {o}]
    BY <2>1, <2>2
  <2> QED BY <1>5, <2>3
<1>8. Defines(iter)
  <2> HIDE DEF Defines
  <2> QED BY <1>7
<1> DEFINE T == {s \in SUBSET D : iter[s] \in Int}
<1> HIDE DEF iter
<1>9. {} \in T BY <1>8
<1>10. ASSUME NEW s \in SUBSET D, s # {} PROVE \E x \in s : s \ {x} \in T => s \in T
  <2> DEFINE o == CHOOSE o \in s : TRUE
  <2>1. o \in s BY <1>6, <1>10
  <2>2. iter[s] = v[o] * w[o] + iter[s \ {o}] BY <1>8, <1>10
  <2>3. ASSUME s \ {o} \in T PROVE s \in T
    <3>1. iter[s \ {o}] \in Int BY <2>3
    <3>2. iter[s] \in Int BY <1>3, <2>1, <2>2, <3>1
    <3> QED BY <3>2
  <2> HIDE DEF o
  <2> QED BY <2>1, <2>3
<1>11. SUBSET D \subseteq T
  <2> HIDE DEF T
  <2> QED BY <1>2, <1>9, <1>10, SubsetInduction
<1> QED BY <1>1, <1>11

LEMMA WidthTyped ==
    ASSUME NEW ideal \in Vectors, NEW nadir \in Vectors, NEW o \in Objectives
    PROVE  Width(ideal, nadir, o) \in Int
<1>1. ideal[o] \in Int /\ nadir[o] \in Int /\ N3Scale \in Int BY Nsga3Assumption DEF Vectors
<1> DEFINE x == N3Scale * (ideal[o] - nadir[o])
<1>2. x \in Int BY <1>1
<1>3. Width(ideal, nadir, o) = Max({x, 1}) BY DEF Width
<1> HIDE DEF x
<1> QED BY <1>2, <1>3, ExtremesOfTwo

LEMMA NormalizeTyped ==
    ASSUME NEW v \in Vectors, NEW ideal \in Vectors, NEW nadir \in Vectors
    PROVE  NormalizeFitnessVec(v, ideal, nadir) \in Vectors
<1> SUFFICES ASSUME NEW o \in Objectives PROVE NormalizeFitnessVec(v, ideal, nadir)[o] \in Int
  BY DEF NormalizeFitnessVec, Vectors
<1> DEFINE D == Objectives
           c == LastFirst(D)
           b == N3Scale * (ideal[o] - v[o])
           W(q) == Width(ideal, nadir, q)
           all == [q \in Objectives |-> q]
           Defines(it) == it = [s \in SUBSET D |->
                                  IF s = {} THEN b
                                  ELSE IF all[Max(s)] = o THEN it[s \ {Max(s)}]
                                       ELSE it[s \ {Max(s)}] * W(all[Max(s)])]
           step == [q \in D \X Int |-> IF q[1] = o THEN q[2] ELSE q[2] * W(q[1])]
           iter == CHOOSE it : Defines(it)
<1>1. NormalizeFitnessVec(v, ideal, nadir)[o] = iter[D]
  BY DEF NormalizeFitnessVec, FoldLeft, MapThenFoldSet
<1>2. IsFiniteSet(D) /\ Chooses(c, D) BY ObjectivesAreFinite, LastFirstChooses
<1>3. b \in Int
  <2>1. ideal[o] \in Int /\ v[o] \in Int /\ N3Scale \in Int BY Nsga3Assumption DEF Vectors
  <2> QED BY <2>1
<1>4. ASSUME NEW q \in D, NEW x \in Int PROVE x * W(q) \in Int
  <2>1. W(q) \in Int BY WidthTyped
  <2> HIDE DEF W
  <2> QED BY <2>1
<1>5. step \in [D \X Int -> Int]
  <2> HIDE DEF W
  <2> QED BY <1>4
<1>6. PICK it \in [SUBSET D -> Int] : FoldsOver(it, D, b, c, step)
  <2> HIDE DEF D, c, step, b
  <2> QED BY <1>2, <1>3, <1>5, FoldExists
<1>7. \A s \in SUBSET D : s # {} => Max(s) \in s BY <1>2 DEF Chooses, LastFirst
<1>8. Defines(it)
  <2>1. ASSUME NEW s \in SUBSET D, s # {}
        PROVE  step[<<c[s], it[s \ {c[s]}]>>] = IF all[Max(s)] = o THEN it[s \ {Max(s)}]
                                                 ELSE it[s \ {Max(s)}] * W(all[Max(s)])
    <3>1. c[s] = Max(s) /\ Max(s) \in D /\ s \ {Max(s)} \in SUBSET D
      BY <1>7, <2>1 DEF LastFirst
    <3>2. all[Max(s)] = Max(s) /\ it[s \ {Max(s)}] \in Int BY <3>1
    <3> HIDE DEF W, all, c
    <3> QED BY <3>1, <3>2
  <2> HIDE DEF step, c, W, all, b
  <2> QED BY <1>6, <2>1 DEF FoldsOver
<1>9. Defines(iter)
  <2> HIDE DEF Defines
  <2> QED BY <1>8
<1> DEFINE T == {s \in SUBSET D : iter[s] \in Int}
<1> HIDE DEF iter, b, W
<1>10. {} \in T BY <1>3, <1>9
<1>11. ASSUME NEW s \in SUBSET D, s # {} PROVE \E x \in s : s \ {x} \in T => s \in T
  <2>1. Max(s) \in s BY <1>7, <1>11
  <2>2. iter[s] = IF Max(s) = o THEN iter[s \ {Max(s)}] ELSE iter[s \ {Max(s)}] * W(Max(s))
    <3>1. all[Max(s)] = Max(s) BY <2>1
    <3> HIDE DEF all
    <3> QED BY <1>9, <1>11, <3>1
  <2>3. ASSUME s \ {Max(s)} \in T PROVE s \in T
    <3>1. iter[s \ {Max(s)}] \in Int BY <2>3
    <3>2. iter[s] \in Int BY <1>4, <2>1, <2>2, <3>1
    <3> QED BY <3>2
  <2> QED BY <2>1, <2>3
<1>12. SUBSET D \subseteq T
  <2> HIDE DEF T
  <2> QED BY <1>2, <1>10, <1>11, SubsetInduction
<1> QED BY <1>1, <1>12


LEMMA AsfTyped ==
    ASSUME NEW ideal \in Vectors, NEW axis \in Objectives, NEW v \in Vectors
    PROVE  ASF(ideal, axis, v) \in Int
<1> DEFINE a == [o \in Objectives |->
                   (IF o = axis THEN 1 ELSE N3Weight) * (ideal[o] - v[o])]
<1>1. a \in [Objectives -> Int]
  <2>1. ASSUME NEW o \in Objectives PROVE a[o] \in Int
    <3>1. ideal[o] \in Int /\ v[o] \in Int /\ N3Weight \in Int BY Nsga3Assumption DEF Vectors
    <3>2. ideal[o] - v[o] \in Int /\ N3Weight * (ideal[o] - v[o]) \in Int BY <3>1
    <3> QED BY <3>2
  <2> QED BY <2>1
<1>2. ASF(ideal, axis, v) = Max({a[o] : o \in Objectives}) BY DEF ASF
<1> HIDE DEF a
<1>3. PICK i \in Objectives : \A j \in Objectives : a[j] <= a[i]
  BY <1>1, ObjectivesAreFinite, FirstOfExtremes
<1>4. \E m \in {a[o] : o \in Objectives} : \A k \in {a[o] : o \in Objectives} : m >= k
  BY <1>1, <1>3
<1>5. Max({a[o] : o \in Objectives}) \in {a[o] : o \in Objectives} BY <1>4 DEF Max
<1> QED BY <1>1, <1>2, <1>5

\* Each axis has a best point, a solution of the pool or an older one.
LEMMA ExtremePointsTyped ==
    ASSUME NEW ideal \in Vectors, NEW p \in Seq(Vectors), p # <<>>, NEW e \in Seq(Vectors)
    PROVE  ExtremePoints(ideal, p, e) \in [Objectives -> Vectors]
<1> DEFINE points == p \o e
<1>1. points \in Seq(Vectors) /\ points # <<>> BY DEF Vectors
<1> HIDE DEF points
<1>2. DOMAIN points = 1 .. Len(points) /\ Len(points) \in Nat \ {0} BY <1>1
<1>3. IsFiniteSet(DOMAIN points) /\ DOMAIN points # {} /\ DOMAIN points \in SUBSET Nat
  <2>1. IsFiniteSet(DOMAIN points) BY <1>2, FS_Interval
  <2>2. 1 \in DOMAIN points /\ DOMAIN points \in SUBSET Nat BY <1>2
  <2> QED BY <2>1, <2>2
<1>4. ASSUME NEW axis \in Objectives
      PROVE  points[MinElement(points, LAMBDA v : ASF(ideal, axis, v))] \in Vectors
  <2> DEFINE a == [i \in DOMAIN points |-> ASF(ideal, axis, points[i])]
             least == MinElement(points, LAMBDA v : ASF(ideal, axis, v))
  <2>1. \A i \in DOMAIN points : points[i] \in Vectors BY <1>1, <1>2
  <2>2. a \in [DOMAIN points -> Int] BY <2>1, AsfTyped
  <2>3. least = CHOOSE i \in DOMAIN points : \A j \in DOMAIN points :
                  a[i] <= a[j] /\ (a[j] = a[i] => i <= j)
    BY DEF MinElement
  <2> HIDE DEF a, least
  <2>4. \E i \in DOMAIN points : \A j \in DOMAIN points : a[i] <= a[j] /\ (a[j] = a[i] => i <= j)
    BY <1>3, <2>2, FirstOfExtremes
  <2>5. least \in DOMAIN points BY <2>3, <2>4
  <2> QED BY <2>1, <2>5 DEF least
<1> QED BY <1>4 DEF ExtremePoints, points

LEMMA PerpendicularTyped ==
    ASSUME NEW line \in Vectors, NEW v \in Vectors
    PROVE  PerpendicularDistanceSq(line, v) \in Int
<1> DEFINE a == InnerProduct(v, v)
           b == InnerProduct(line, line)
           c == InnerProduct(line, v)
<1>1. a \in Int /\ b \in Int /\ c \in Int BY InnerProductTyped
<1>2. PerpendicularDistanceSq(line, v) = a * b - c * c BY DEF PerpendicularDistanceSq
<1> HIDE DEF a, b, c
<1>3. a * b \in Int /\ c * c \in Int BY <1>1
<1> QED BY <1>2, <1>3

\* Every solution is closest to one of the lines.
LEMMA AssociationTyped ==
    ASSUME NEW v \in Vectors, NEW ideal \in Vectors, NEW nadir \in Vectors
    PROVE  Association(v, ideal, nadir) \in [ref : References, dist : Int]
<1> DEFINE fnorm == NormalizeFitnessVec(v, ideal, nadir)
           a == [i \in References |-> InnerProduct(fnorm, N3Lines[i])]
           closest == MaxElement(N3Lines, LAMBDA line : InnerProduct(fnorm, line))
<1>1. /\ IsFiniteSet(References) /\ References # {} /\ References \in SUBSET Nat
      /\ \A i \in References : N3Lines[i] \in Vectors
  <2>1. N3Lines \in Seq(Vectors) /\ N3Lines # <<>> BY Nsga3Assumption DEF Vectors
  <2>2. References = 1 .. Len(N3Lines) /\ Len(N3Lines) \in Nat \ {0}
    BY <2>1 DEF References
  <2>3. IsFiniteSet(1 .. Len(N3Lines)) BY <2>2, FS_Interval
  <2>4. References # {} /\ References \in SUBSET Nat BY <2>2
  <2>5. \A i \in References : N3Lines[i] \in Vectors BY <2>1 DEF References
  <2>6. IsFiniteSet(References) BY <2>2, <2>3
  <2> QED BY <2>4, <2>5, <2>6
<1>2. fnorm \in Vectors BY NormalizeTyped
<1>3. Association(v, ideal, nadir) =
        [ref |-> closest, dist |-> PerpendicularDistanceSq(N3Lines[closest], fnorm)]
  BY DEF Association
<1> HIDE DEF fnorm
<1>4. a \in [References -> Int] BY <1>1, <1>2, InnerProductTyped
<1>5. closest = CHOOSE i \in References : \A j \in References :
                  a[j] <= a[i] /\ (a[j] = a[i] => i <= j)
  BY DEF MaxElement, References
<1> HIDE DEF a, closest
<1>6. \E i \in References : \A j \in References : a[j] <= a[i] /\ (a[j] = a[i] => i <= j)
  BY <1>1, <1>4, FirstOfExtremes
<1>7. closest \in References BY <1>5, <1>6
<1> QED BY <1>1, <1>2, <1>3, <1>7, PerpendicularTyped

-----------------------------------------------------------------------------
(* Sorting *)

LEMMA LexicographicOrder ==
    ASSUME NEW a \in Vectors, NEW b \in Vectors
    PROVE  /\ ~ LexicographicallyGreater(a, a)
           /\ a # b => LexicographicallyGreater(a, b) \/ LexicographicallyGreater(b, a)
           /\ ~ (LexicographicallyGreater(a, b) /\ LexicographicallyGreater(b, a))
           /\ \A c \in Vectors :
                LexicographicallyGreater(a, b) /\ LexicographicallyGreater(b, c)
                    => LexicographicallyGreater(a, c)
<1> USE DEF LexicographicallyGreater
<1>1. /\ Objectives = 1 .. NumObjectives /\ NumObjectives \in Nat
      /\ \A v \in Vectors : \A o \in Objectives : v[o] \in Int
  BY ObjectivesAreFinite DEF Objectives, Vectors
<1>2. ~ LexicographicallyGreater(a, a) BY <1>1
<1>3. ASSUME a # b PROVE LexicographicallyGreater(a, b) \/ LexicographicallyGreater(b, a)
  <2> DEFINE T == {o \in Objectives : a[o] # b[o]}
  <2>1. T # {} /\ T \in SUBSET Nat
    <3>1. a \in [Objectives -> Int] /\ b \in [Objectives -> Int] BY DEF Vectors
    <3>2. \E o \in Objectives : a[o] # b[o] BY <1>3, <3>1
    <3>3. Objectives \subseteq Nat BY <1>1
    <3> QED BY <3>2, <3>3
  <2>2. PICK m \in T : \A k \in T : m <= k
    <3> HIDE DEF T
    <3> QED BY <2>1, LeastNatural
  <2>3. \A q \in 1 .. m - 1 : a[q] = b[q] BY <1>1, <2>2
  <2>4. a[m] > b[m] \/ b[m] > a[m] BY <1>1, <2>2
  <2> QED BY <2>2, <2>3, <2>4
<1>4. ASSUME LexicographicallyGreater(a, b), LexicographicallyGreater(b, a) PROVE FALSE
  <2>1. PICK o \in Objectives : a[o] > b[o] /\ \A q \in 1 .. o - 1 : a[q] = b[q] BY <1>4
  <2>2. PICK l \in Objectives : b[l] > a[l] /\ \A q \in 1 .. l - 1 : b[q] = a[q] BY <1>4
  <2>3. a[o] \in Int /\ b[o] \in Int /\ a[l] \in Int /\ b[l] \in Int BY <1>1
  <2>4. CASE o < l
    <3>1. o \in 1 .. l - 1 BY <1>1, <2>4
    <3> QED BY <2>1, <2>2, <2>3, <3>1
  <2>5. CASE l < o
    <3>1. l \in 1 .. o - 1 BY <1>1, <2>5
    <3> QED BY <2>1, <2>2, <2>3, <3>1
  <2>6. CASE l = o BY <2>1, <2>2, <2>3, <2>6
  <2> QED BY <1>1, <2>4, <2>5, <2>6
<1>5. ASSUME NEW c \in Vectors, LexicographicallyGreater(a, b), LexicographicallyGreater(b, c)
      PROVE  LexicographicallyGreater(a, c)
  <2>1. PICK o \in Objectives : a[o] > b[o] /\ \A q \in 1 .. o - 1 : a[q] = b[q] BY <1>5
  <2>2. PICK l \in Objectives : b[l] > c[l] /\ \A q \in 1 .. l - 1 : b[q] = c[q] BY <1>5
  <2>3. a[o] \in Int /\ b[o] \in Int /\ c[o] \in Int /\ a[l] \in Int /\ b[l] \in Int /\ c[l] \in Int
    BY <1>1
  <2>4. CASE o < l
    <3>1. o \in 1 .. l - 1 /\ \A q \in 1 .. o - 1 : q \in 1 .. l - 1 BY <1>1, <2>4
    <3>2. a[o] > c[o] /\ \A q \in 1 .. o - 1 : a[q] = c[q] BY <2>1, <2>2, <2>3, <3>1
    <3> QED BY <3>2
  <2>5. CASE l < o
    <3>1. l \in 1 .. o - 1 /\ \A q \in 1 .. l - 1 : q \in 1 .. o - 1 BY <1>1, <2>5
    <3>2. a[l] > c[l] /\ \A q \in 1 .. l - 1 : a[q] = c[q] BY <2>1, <2>2, <2>3, <3>1
    <3> QED BY <3>2
  <2>6. CASE l = o
    <3>1. a[l] > c[l] /\ \A q \in 1 .. l - 1 : a[q] = c[q] BY <2>1, <2>2, <2>3, <2>6
    <3> QED BY <3>1
  <2> QED BY <1>1, <2>4, <2>5, <2>6
<1> QED BY <1>2, <1>3, <1>4, <1>5

\* A stable order of positions by a comparison: all pairs of those that are equal go by
\* their positions.
Stable(n, L) ==
    {q \in (1 .. n) \X (1 .. n) : q \in L \/ (<<q[2], q[1]>> \notin L /\ q[1] < q[2])}

WeakOrder(n, L) ==
    /\ \A i, j \in 1 .. n : <<i, j>> \in L => <<j, i>> \notin L
    /\ \A i, j, k \in 1 .. n : <<i, j>> \in L => <<i, k>> \in L \/ <<k, j>> \in L

LEMMA StableIsStrict ==
    ASSUME NEW n \in Nat, NEW L, WeakOrder(n, L)
    PROVE  StrictOrder(1 .. n, Stable(n, L))
<1> DEFINE R == Stable(n, L)
           D == 1 .. n
<1>1. \A i, j \in D : <<i, j>> \in R <=> <<i, j>> \in L \/ (<<j, i>> \notin L /\ i < j)
  BY DEF Stable
<1>2. /\ \A i, j \in D : <<i, j>> \in L => <<j, i>> \notin L
      /\ \A i, j, k \in D : <<i, j>> \in L => <<i, k>> \in L \/ <<k, j>> \in L
  BY DEF WeakOrder
<1>3. D \subseteq Int OBVIOUS
<1> HIDE DEF R, D
<1>4. \A i \in D : <<i, i>> \notin R BY <1>1, <1>2, <1>3
<1>5. ASSUME NEW i \in D, NEW j \in D, i # j PROVE <<i, j>> \in R \/ <<j, i>> \in R
  <2>1. i < j \/ j < i BY <1>3, <1>5
  <2> QED BY <1>1, <2>1
<1>6. ASSUME NEW i \in D, NEW j \in D, NEW k \in D, <<i, j>> \in R, <<j, k>> \in R
      PROVE  <<i, k>> \in R
  <2>1. <<j, i>> \notin L /\ <<k, j>> \notin L BY <1>1, <1>2, <1>6
  <2>2. <<k, i>> \notin L BY <1>2, <2>1
  <2>3. CASE i < j /\ j < k
    <3>1. i < k BY <1>3, <2>3
    <3> QED BY <1>1, <2>2, <3>1
  <2>4. CASE ~ (i < j)
    <3>1. <<i, j>> \in L BY <1>1, <1>6, <2>4
    <3>2. <<i, k>> \in L BY <1>2, <2>1, <3>1
    <3> QED BY <1>1, <3>2
  <2>5. CASE ~ (j < k)
    <3>1. <<j, k>> \in L BY <1>1, <1>6, <2>5
    <3>2. <<i, k>> \in L BY <1>2, <2>1, <3>1
    <3> QED BY <1>1, <3>2
  <2> QED BY <2>3, <2>4, <2>5
<1>7. StrictOrder(D, R) BY <1>4, <1>5, <1>6 DEF StrictOrder
<1> QED BY <1>7 DEF R, D

\* What a stable order makes of the positions of a sequence: every one once, and none
\* behind one that it is before.
Sorts(order, n, L) ==
    /\ order \in [1 .. n -> 1 .. n]
    /\ \A k, l \in 1 .. n : order[k] = order[l] => k = l
    /\ \A i \in 1 .. n : \E k \in 1 .. n : order[k] = i
    /\ \A k, l \in 1 .. n : k < l => <<order[l], order[k]>> \notin L

LEMMA ListedSorts ==
    ASSUME NEW n \in Nat, NEW L, WeakOrder(n, L)
    PROVE  Sorts(Listed(1 .. n, Stable(n, L)), n, L)
<1> DEFINE D == 1 .. n
           pairs == Stable(n, L)
           s == Listed(D, pairs)
<1>1. IsFiniteSet(D) /\ Cardinality(D) = n BY FS_Interval
<1>2. StrictOrder(D, pairs) BY StableIsStrict
<1>3. /\ s \in [1 .. n -> D]
      /\ \A k, l \in 1 .. n : k < l => <<s[k], s[l]>> \in pairs
      /\ \A i \in D : \E k \in 1 .. n : s[k] = i
  <2> HIDE DEF pairs, D
  <2>1. s \in [1 .. Cardinality(D) -> D] BY <1>1, <1>2, ListedInOrder
  <2>2. \A k, l \in 1 .. Cardinality(D) : k < l => <<s[k], s[l]>> \in pairs
    BY <1>1, <1>2, ListedInOrder
  <2>3. \A i \in D : \E k \in 1 .. Cardinality(D) : s[k] = i BY <1>1, <1>2, ListedInOrder
  <2> QED BY <1>1, <2>1, <2>2, <2>3
<1>4. \A i, j \in D : <<i, j>> \in pairs => <<j, i>> \notin L BY DEF Stable, WeakOrder
<1> HIDE DEF s
<1>5. ASSUME NEW k \in 1 .. n, NEW l \in 1 .. n, s[k] = s[l] PROVE k = l
  <2>1. ~ (k < l) /\ ~ (l < k) BY <1>2, <1>3, <1>5 DEF StrictOrder
  <2> QED BY <2>1
<1>6. ASSUME NEW k \in 1 .. n, NEW l \in 1 .. n, k < l PROVE <<s[l], s[k]>> \notin L
  BY <1>3, <1>4, <1>6
<1> QED BY <1>3, <1>5, <1>6 DEF Sorts, s

\* The comparison of integer keys.
LessByKey(n, key) == {q \in (1 .. n) \X (1 .. n) : key[q[1]] < key[q[2]]}

LEMMA KeysAreOrdered ==
    ASSUME NEW n \in Nat, NEW key \in [1 .. n -> Int]
    PROVE  WeakOrder(n, LessByKey(n, key))
<1>1. \A i, j \in 1 .. n : <<i, j>> \in LessByKey(n, key) <=> key[i] < key[j]
  BY DEF LessByKey
<1>2. \A i \in 1 .. n : key[i] \in Int OBVIOUS
<1> DEFINE L == LessByKey(n, key)
<1> HIDE DEF L
<1>3. \A i, j \in 1 .. n : <<i, j>> \in L <=> key[i] < key[j] BY <1>1 DEF L
<1>4. \A i, j \in 1 .. n : <<i, j>> \in L => <<j, i>> \notin L BY <1>2, <1>3
<1>5. \A i, j, k \in 1 .. n : <<i, j>> \in L => <<i, k>> \in L \/ <<k, j>> \in L BY <1>2, <1>3
<1> QED BY <1>4, <1>5 DEF WeakOrder, L

\* The fronts of a pool, one behind the other.
LEMMA FrontsInOrder ==
    ASSUME NEW n \in Nat, NEW p \in [1 .. n -> Fitness], NEW r \in [1 .. n -> Nat]
    PROVE  LET fronts == FrontsOf(p, r)
           IN  /\ fronts \in [1 .. n -> 1 .. n]
               /\ \A k, l \in 1 .. n : fronts[k] = fronts[l] => k = l
               /\ \A i \in 1 .. n : \E k \in 1 .. n : fronts[k] = i
               /\ \A k, l \in 1 .. n : k < l => r[fronts[k]] <= r[fronts[l]]
<1> DEFINE D == 1 .. n
           Less(i, j) == r[i] < r[j] \/ (r[i] = r[j] /\ LexicographicallyGreater(p[j], p[i]))
           L == {q \in D \X D : Less(q[1], q[2])}
           keys == [i \in D |-> [rank |-> r[i], fitness |-> p[i]]]
           before(i) == {j \in D : Less(j, i) \/ (~ Less(i, j) /\ j < i)}
<1>1. \A i, j \in D : <<i, j>> \in L <=> Less(i, j) OBVIOUS
<1>2. \A i \in D : r[i] \in Int /\ p[i] \in Vectors
  BY FitnessAssumption DEF Vectors
<1>3. WeakOrder(n, L)
  <2>1. ASSUME NEW i \in D, NEW j \in D, Less(i, j) PROVE ~ Less(j, i)
    BY <1>2, <2>1, LexicographicOrder
  <2>2. ASSUME NEW i \in D, NEW j \in D, NEW k \in D, Less(i, j), ~ Less(i, k)
        PROVE  Less(k, j)
    <3>1. r[i] \in Int /\ r[j] \in Int /\ r[k] \in Int /\ p[i] \in Vectors /\ p[j] \in Vectors
          /\ p[k] \in Vectors
      BY <1>2
    <3>2. CASE r[k] < r[j] BY <3>2
    <3>3. CASE ~ (r[k] < r[j])
      <4>1. r[i] = r[j] /\ r[i] = r[k] /\ LexicographicallyGreater(p[j], p[i])
        BY <2>2, <3>1, <3>3
      <4>2. ~ LexicographicallyGreater(p[k], p[i]) BY <2>2, <4>1
      <4>3. CASE p[k] = p[i] BY <4>1, <4>3
      <4>4. CASE p[k] # p[i]
        <5>1. LexicographicallyGreater(p[i], p[k]) BY <3>1, <4>2, <4>4, LexicographicOrder
        <5>2. LexicographicallyGreater(p[j], p[k]) BY <3>1, <4>1, <5>1, LexicographicOrder
        <5> QED BY <4>1, <5>2
      <4> QED BY <4>3, <4>4
    <3> QED BY <3>2, <3>3
  <2> HIDE DEF Less, L
  <2> QED BY <1>1, <2>1, <2>2 DEF WeakOrder
<1>4. FrontsOf(p, r) = Listed(D, Stable(n, L))
  <2>1. FrontsOf(p, r) = [k \in D |-> CHOOSE i \in D : Cardinality(before(i)) = k - 1]
    <3>1. DOMAIN p = D /\ DOMAIN keys = D OBVIOUS
    <3>2. FrontsOf(p, r) =
            Argsort(keys, LAMBDA lhs, rhs : \/ lhs.rank < rhs.rank
                              \/ /\ lhs.rank = rhs.rank
                                 /\ LexicographicallyGreater(rhs.fitness, lhs.fitness))
      BY <3>1 DEF FrontsOf
    <3>3. \A i \in D : keys[i].rank = r[i] /\ keys[i].fitness = p[i] OBVIOUS
    <3> DEFINE KeyLess(lhs, rhs) == \/ lhs.rank < rhs.rank
                                    \/ /\ lhs.rank = rhs.rank
                                       /\ LexicographicallyGreater(rhs.fitness, lhs.fitness)
               behind(i) == {j \in DOMAIN keys : \/ KeyLess(keys[j], keys[i])
                                                 \/ ~ KeyLess(keys[i], keys[j]) /\ j < i}
    <3>4. FrontsOf(p, r) =
            [k \in DOMAIN keys |-> CHOOSE i \in DOMAIN keys : Cardinality(behind(i)) = k - 1]
      BY <3>2 DEF Argsort
    <3>5. \A i \in D : behind(i) = before(i)
      <4> HIDE DEF keys
      <4> QED BY <3>1, <3>3
    <3> HIDE DEF keys, behind, before
    <3> QED BY <3>1, <3>4, <3>5
  <2>2. \A i \in D : before(i) = Preceding(D, Stable(n, L), i)
    <3> HIDE DEF Less
    <3> QED BY DEF Preceding, Stable
  <2>3. Cardinality(D) = n BY FS_Interval
  <2> HIDE DEF before, L
  <2>4. [k \in D |-> CHOOSE i \in D : Cardinality(before(i)) = k - 1]
          = [k \in 1 .. Cardinality(D) |->
               CHOOSE i \in D : Cardinality(Preceding(D, Stable(n, L), i)) = k - 1]
    BY <2>2, <2>3
  <2> QED BY <2>1, <2>4 DEF Listed
<1>5. Sorts(FrontsOf(p, r), n, L)
  <2> HIDE DEF L
  <2> QED BY <1>3, <1>4, ListedSorts
<1> DEFINE fronts == FrontsOf(p, r)
<1> HIDE DEF fronts
<1>6. ASSUME NEW k \in 1 .. n, NEW l \in 1 .. n, k < l PROVE r[fronts[k]] <= r[fronts[l]]
  <2>1. fronts[k] \in D /\ fronts[l] \in D /\ <<fronts[l], fronts[k]>> \notin L
    BY <1>5, <1>6 DEF Sorts, fronts
  <2>2. ~ (r[fronts[l]] < r[fronts[k]])
    <3>1. ~ Less(fronts[l], fronts[k]) BY <1>1, <2>1
    <3> QED BY <3>1
  <2> QED BY <1>2, <2>1, <2>2
<1> QED BY <1>5, <1>6 DEF Sorts, fronts

-----------------------------------------------------------------------------
(* The reference directions in the order of their counts *)

\* Directions that are all different, those with the fewest solutions first.
InOrder(refs, counts) ==
    /\ refs \in Seq(References)
    /\ \A k, l \in 1 .. Len(refs) : refs[k] = refs[l] => k = l
    /\ \A k, l \in 1 .. Len(refs) : k < l => counts[refs[k]] <= counts[refs[l]]

\* Whether the loop may serve a direction.
Served(refs, counts, ref) ==
    \E c \in 1 .. Len(refs) : /\ refs[c] = ref
                              /\ \A k \in 1 .. c : counts[refs[k]] = counts[refs[1]]

LEMMA MovedBackInOrder ==
    ASSUME NEW counts \in [References -> Nat], NEW refs, InOrder(refs, counts),
           NEW ref, Served(refs, counts, ref)
    PROVE  LET more == [counts EXCEPT ![ref] = @ + 1]
               moved == MovedBack(refs, more, ref)
           IN  InOrder(moved, more) /\ ToSet(moved) \subseteq ToSet(refs)
<1> DEFINE more == [counts EXCEPT ![ref] = @ + 1]
           moved == MovedBack(refs, more, ref)
           m == Len(refs)
           At(k) == refs[k] = ref
           current == CHOOSE k \in DOMAIN refs : At(k)
           behind == {k \in current + 1 .. Len(refs) : more[refs[k]] >= more[ref]}
           ends == behind \cup {Len(refs) + 1}
           last == Min(ends) - 1
<1>1. /\ refs \in [1 .. m -> References] /\ m \in Nat /\ DOMAIN refs = 1 .. m
      /\ \A k, l \in 1 .. m : refs[k] = refs[l] => k = l
      /\ \A k, l \in 1 .. m : k < l => counts[refs[k]] <= counts[refs[l]]
  BY DEF InOrder
<1>2. PICK c \in 1 .. m : refs[c] = ref /\ \A k \in 1 .. c : counts[refs[k]] = counts[refs[1]]
  BY DEF Served
<1>3. current = c
  <2>1. \A k \in DOMAIN refs : At(k) => k = c BY <1>1, <1>2
  <2>2. At(c) /\ c \in DOMAIN refs BY <1>1, <1>2
  <2> HIDE DEF At
  <2> QED BY <2>1, <2>2
<1>4. ref \in References /\ more \in [References -> Nat] /\ more[ref] = counts[ref] + 1
      /\ \A q \in References : q # ref => more[q] = counts[q]
  BY <1>1, <1>2
<1>5. last \in c .. m /\ (\A k \in c + 1 .. last : k \notin behind)
      /\ (last < m => last + 1 \in behind)
  <2>0. behind \subseteq c + 1 .. m
    <3> HIDE DEF current
    <3> QED BY <1>3
  <2>1. ends \in SUBSET Nat /\ ends # {} /\ ends \subseteq c + 1 .. m + 1
    <3> HIDE DEF behind
    <3> QED BY <1>1, <1>2, <2>0
  <2>2. Min(ends) \in ends /\ \A k \in ends : Min(ends) <= k
    <3> HIDE DEF ends
    <3>1. \E x \in ends : \A k \in ends : x <= k BY <2>1, LeastNatural
    <3> QED BY <3>1 DEF Min
  <2> HIDE DEF ends, behind
  <2>3. Min(ends) \in c + 1 .. m + 1 BY <2>1, <2>2
  <2>4. \A k \in behind : Min(ends) <= k BY <2>2 DEF ends
  <2>5. Min(ends) \in behind \/ Min(ends) = m + 1 BY <2>2 DEF ends
  <2>6. \A k \in behind : k \in Int BY <2>0
  <2> QED BY <1>1, <2>3, <2>4, <2>5, <2>6
<1>6. moved = [refs EXCEPT ![c] = refs[last], ![last] = refs[c]]
  BY <1>3 DEF MovedBack, Exchanged
<1> HIDE DEF moved, more, current, last
<1>7. \A k \in 1 .. m : moved[k] = IF k = last THEN ref ELSE IF k = c THEN refs[last] ELSE refs[k]
  BY <1>1, <1>2, <1>5, <1>6
<1>8. moved \in [1 .. m -> References] BY <1>1, <1>2, <1>5, <1>6
<1> DEFINE from(k) == IF k = last THEN c ELSE IF k = c THEN last ELSE k
<1>9. \A k \in 1 .. m : from(k) \in 1 .. m /\ moved[k] = refs[from(k)] BY <1>1, <1>2, <1>5, <1>7
<1>10. ASSUME NEW k \in 1 .. m, NEW l \in 1 .. m, moved[k] = moved[l] PROVE k = l
  <2>1. from(k) = from(l) BY <1>1, <1>9, <1>10
  <2> QED BY <2>1
<1>11. /\ \A k \in 1 .. m : k <= c => counts[refs[k]] = counts[ref]
       /\ \A k \in 1 .. m : counts[refs[k]] \in Int
  <2>1. \A k \in 1 .. m : k <= c => k \in 1 .. c OBVIOUS
  <2>2. counts[refs[c]] = counts[refs[1]] BY <1>2
  <2> QED BY <1>1, <1>2, <2>1, <2>2
<1>12. \A k \in 1 .. m : c < k /\ k <= last => counts[refs[k]] = counts[ref]
  <2> TAKE k \in 1 .. m
  <2> SUFFICES ASSUME c < k, k <= last PROVE counts[refs[k]] = counts[ref] OBVIOUS
  <2>1. k \in c + 1 .. last /\ k \in c + 1 .. m BY <1>1, <1>5
  <2>2. ~ (more[refs[k]] >= more[ref]) BY <1>3, <1>5, <2>1
  <2>3. refs[k] # ref /\ refs[k] \in References BY <1>1, <1>2
  <2>4. counts[refs[k]] < counts[ref] + 1 BY <1>4, <1>11, <2>2, <2>3
  <2>5. counts[ref] <= counts[refs[k]] BY <1>1, <1>2
  <2>6. counts[ref] \in Int BY <1>4
  <2> QED BY <1>11, <2>4, <2>5, <2>6
<1>13. \A k \in 1 .. m : last < k => more[refs[k]] >= more[ref] /\ more[refs[k]] = counts[refs[k]]
  <2> TAKE k \in 1 .. m
  <2> SUFFICES ASSUME last < k PROVE more[refs[k]] >= more[ref] /\ more[refs[k]] = counts[refs[k]]
    OBVIOUS
  <2>1. last + 1 \in 1 .. m /\ last + 1 <= k /\ last + 1 \in behind BY <1>1, <1>5
  <2>2. more[refs[last + 1]] >= more[ref] BY <2>1
  <2>3. refs[k] # ref /\ refs[last + 1] # ref BY <1>1, <1>2, <1>5, <2>1
  <2>4. more[refs[k]] = counts[refs[k]] /\ more[refs[last + 1]] = counts[refs[last + 1]]
    BY <1>1, <1>4, <2>1, <2>3
  <2>5. counts[refs[last + 1]] <= counts[refs[k]] BY <1>1, <1>11, <2>1
  <2>6. more[ref] \in Int BY <1>4
  <2> QED BY <1>11, <2>1, <2>2, <2>4, <2>5, <2>6
<1>14. /\ \A k \in 1 .. m : k < last => more[moved[k]] = counts[ref]
       /\ moved[last] = ref
       /\ \A k \in 1 .. m : last < k => moved[k] = refs[k]
  <2>1. ASSUME NEW k \in 1 .. m, k < last PROVE more[moved[k]] = counts[ref]
    <3>1. from(k) <= last /\ from(k) # c BY <1>2, <1>5, <2>1
    <3>2. refs[from(k)] # ref /\ refs[from(k)] \in References BY <1>1, <1>2, <1>9, <3>1
    <3>3. counts[refs[from(k)]] = counts[ref] BY <1>2, <1>5, <1>9, <1>11, <1>12, <3>1
    <3> QED BY <1>4, <1>9, <3>2, <3>3
  <2>2. last \in 1 .. m /\ c <= last BY <1>2, <1>5
  <2>3. moved[last] = ref BY <1>7, <2>2
  <2>4. ASSUME NEW k \in 1 .. m, last < k PROVE moved[k] = refs[k]
    <3>1. k # last /\ k # c BY <1>2, <2>2, <2>4
    <3> QED BY <1>7, <3>1
  <2> QED BY <2>1, <2>3, <2>4
<1>15. ASSUME NEW k \in 1 .. m, NEW l \in 1 .. m, k < l PROVE more[moved[k]] <= more[moved[l]]
  <2>1. counts[ref] \in Int /\ more[ref] = counts[ref] + 1 BY <1>4
  <2>2. CASE l < last BY <1>5, <1>14, <1>15, <2>1, <2>2
  <2>3. CASE l = last BY <1>5, <1>14, <1>15, <2>1, <2>3
  <2>4. CASE last < l
    <3>1. more[moved[l]] = counts[refs[l]] /\ counts[refs[l]] >= more[ref] /\ counts[refs[l]] \in Int
      BY <1>11, <1>13, <1>14, <2>4
    <3>2. CASE k < last BY <1>14, <2>1, <3>1, <3>2
    <3>3. CASE k = last BY <1>14, <2>1, <3>1, <3>3
    <3>4. CASE last < k BY <1>1, <1>13, <1>14, <1>15, <2>4, <3>4
    <3> QED BY <1>5, <3>2, <3>3, <3>4
  <2> QED BY <1>5, <2>2, <2>3, <2>4
<1>16. moved \in Seq(References) /\ Len(moved) = m
  <2>1. m \in Nat BY <1>1
  <2> HIDE DEF m
  <2> QED BY <1>8, <2>1
<1>17. InOrder(moved, more) BY <1>10, <1>15, <1>16 DEF InOrder
<1>18. ToSet(moved) \subseteq ToSet(refs)
  <2>1. DOMAIN moved = 1 .. m BY <1>8
  <2> HIDE DEF from
  <2> QED BY <1>1, <1>9, <2>1 DEF ToSet
<1> QED BY <1>17, <1>18 DEF moved, more

LEMMA PartOfSequence ==
    ASSUME NEW X, NEW s \in Seq(X), NEW a \in 1 .. Len(s) + 1, NEW b \in a - 1 .. Len(s)
    PROVE  /\ SubSeq(s, a, b) \in Seq(X) /\ Len(SubSeq(s, a, b)) = b - a + 1
           /\ \A k \in 1 .. b - a + 1 : SubSeq(s, a, b)[k] = s[a + k - 1]
<1>1. Len(SubSeq(s, a, b)) = b - a + 1 OBVIOUS
<1>2. SubSeq(s, a, b) \in Seq(X) OBVIOUS
<1>3. \A k \in 1 .. b - a + 1 : SubSeq(s, a, b)[k] = s[a + k - 1] OBVIOUS
<1> QED BY <1>1, <1>2, <1>3

\* One less of them.
LEMMA ErasedInOrder ==
    ASSUME NEW counts, NEW refs, InOrder(refs, counts), NEW ref
    PROVE  /\ InOrder(EraseFirstStable(refs, ref), counts)
           /\ ToSet(EraseFirstStable(refs, ref)) \subseteq ToSet(refs)
<1>1. CASE ref \notin Range(refs) BY <1>1 DEF EraseFirstStable
<1>2. CASE ref \in Range(refs)
  <2> DEFINE m == Len(refs)
             First(i) == refs[i] = ref /\ \A j \in 1 .. (i - 1) : refs[j] # ref
             found == CHOOSE i \in DOMAIN refs : First(i)
             left == SubSeq(refs, 1, found - 1) \o SubSeq(refs, found + 1, Len(refs))
             from(k) == IF k < found THEN k ELSE k + 1
  <2>1. /\ refs \in Seq(References) /\ m \in Nat /\ DOMAIN refs = 1 .. m
        /\ \A k, l \in 1 .. m : refs[k] = refs[l] => k = l
        /\ \A k, l \in 1 .. m : k < l => counts[refs[k]] <= counts[refs[l]]
    BY DEF InOrder
  <2>2. found \in 1 .. m
    <3>1. PICK i \in 1 .. m : refs[i] = ref BY <1>2, <2>1 DEF Range
    <3>2. First(i) BY <2>1, <3>1
    <3> HIDE DEF First
    <3> QED BY <2>1, <3>2
  <2>3. EraseFirstStable(refs, ref) = left BY <1>2 DEF EraseFirstStable
  <2> HIDE DEF found, left
  <2>4. /\ left \in Seq(References) /\ Len(left) = m - 1
        /\ \A k \in 1 .. m - 1 : left[k] = refs[from(k)]
    <3> DEFINE a == SubSeq(refs, 1, found - 1)
               b == SubSeq(refs, found + 1, m)
    <3>1. a \in Seq(References) /\ Len(a) = found - 1 /\ \A k \in 1 .. found - 1 : a[k] = refs[k]
      BY <2>1, <2>2
    <3>2. b \in Seq(References) /\ Len(b) = m - found
          /\ \A k \in 1 .. m - found : b[k] = refs[found + k]
      <4>1. found + 1 \in 1 .. m + 1 /\ m \in (found + 1) - 1 .. m /\ m - (found + 1) + 1 = m - found
        BY <2>1, <2>2
      <4>2. b \in Seq(References) /\ Len(b) = m - (found + 1) + 1
            /\ \A k \in 1 .. m - (found + 1) + 1 : b[k] = refs[(found + 1) + k - 1]
        BY <2>1, <4>1, PartOfSequence
      <4>3. \A k \in 1 .. m - found : (found + 1) + k - 1 = found + k BY <2>2
      <4> HIDE DEF b
      <4> QED BY <4>1, <4>2, <4>3
    <3>3. left = a \o b BY DEF left
    <3> HIDE DEF a, b
    <3>4. left \in Seq(References) /\ Len(left) = m - 1
      <4>0. a \in Seq(References) /\ b \in Seq(References) BY <3>1, <3>2
      <4>1. left \in Seq(References) /\ Len(left) = Len(a) + Len(b) BY <3>3, <4>0
      <4> QED BY <2>1, <2>2, <3>1, <3>2, <4>1
    <3>5. ASSUME NEW k \in 1 .. m - 1 PROVE left[k] = refs[from(k)]
      <4>1. CASE k < found
        <5>1. k \in 1 .. Len(a) BY <2>2, <3>1, <4>1
        <5>2. left[k] = a[k] BY <3>1, <3>2, <3>3, <5>1
        <5> QED BY <3>1, <4>1, <5>1, <5>2
      <4>2. CASE ~ (k < found)
        <5>1. k \in Len(a) + 1 .. Len(a) + Len(b) /\ k - Len(a) \in 1 .. m - found
              /\ found + (k - Len(a)) = k + 1
          BY <2>1, <2>2, <3>1, <3>2, <4>2
        <5>2. left[k] = b[k - Len(a)] BY <3>1, <3>2, <3>3, <5>1
        <5>3. left[k] = refs[k + 1] BY <3>2, <5>1, <5>2
        <5> QED BY <4>2, <5>3
      <4> QED BY <4>1, <4>2
    <3> QED BY <3>4, <3>5
  <2>5. /\ \A k \in 1 .. m - 1 : from(k) \in 1 .. m
        /\ \A k, l \in 1 .. m - 1 : k < l => from(k) < from(l)
    BY <2>1, <2>2
  <2>6. \A k, l \in 1 .. m - 1 : left[k] = left[l] => k = l
    <3> SUFFICES ASSUME NEW k \in 1 .. m - 1, NEW l \in 1 .. m - 1, left[k] = left[l]
                 PROVE  k = l
      OBVIOUS
    <3>1. from(k) = from(l)
      <4> HIDE DEF from
      <4> QED BY <2>1, <2>4, <2>5
    <3> QED BY <2>2, <3>1
  <2>7. \A k, l \in 1 .. m - 1 : k < l => counts[left[k]] <= counts[left[l]]
    <3> HIDE DEF from
    <3> QED BY <2>1, <2>4, <2>5
  <2>8. ToSet(left) \subseteq ToSet(refs)
    <3>1. DOMAIN left = 1 .. m - 1 BY <2>4
    <3> HIDE DEF from
    <3> QED BY <2>1, <2>4, <2>5, <3>1 DEF ToSet
  <2> QED BY <2>3, <2>4, <2>6, <2>7, <2>8 DEF InOrder
<1> QED BY <1>1, <1>2

LEMMA WithoutDuplicates ==
    ASSUME NEW s, NEW V \in SUBSET Int, IsFiniteSet(V), Range(s) = V
    PROVE  LET m == Cardinality(V)
               refs == EraseDuplicates(s)
           IN  /\ m \in Nat /\ refs \in [1 .. m -> V]
               /\ \A k, l \in 1 .. m : refs[k] = refs[l] => k = l
               /\ \A v \in V : \E k \in 1 .. m : refs[k] = v
<1> DEFINE m == Cardinality(V)
           refs == EraseDuplicates(s)
           less == {q \in V \X V : q[1] < q[2]}
           below(v) == {w \in V : w < v}
<1>1. \A v, w \in V : <<v, w>> \in less <=> v < w OBVIOUS
<1>2. StrictOrder(V, less)
  <2> HIDE DEF less
  <2>1. V \subseteq Int OBVIOUS
  <2>2. \A v \in V : <<v, v>> \notin less BY <1>1, <2>1
  <2>3. \A v, w \in V : v # w => <<v, w>> \in less \/ <<w, v>> \in less
    <3>1. \A v, w \in V : v # w => v < w \/ w < v BY <2>1
    <3> QED BY <1>1, <3>1
  <2>4. \A u, v, w \in V : <<u, v>> \in less /\ <<v, w>> \in less => <<u, w>> \in less
    <3>1. \A u, v, w \in V : u < v /\ v < w => u < w BY <2>1
    <3> QED BY <1>1, <3>1
  <2> QED BY <2>2, <2>3, <2>4 DEF StrictOrder
<1>3. refs = Listed(V, less)
  <2>1. refs = [k \in 1 .. m |-> CHOOSE v \in V : Cardinality(below(v)) = k - 1]
    BY DEF EraseDuplicates
  <2>2. \A v \in V : below(v) = Preceding(V, less, v)
    <3> HIDE DEF less
    <3> QED BY <1>1 DEF Preceding
  <2> HIDE DEF below, refs, less
  <2>3. [k \in 1 .. m |-> CHOOSE v \in V : Cardinality(below(v)) = k - 1]
          = [k \in 1 .. m |-> CHOOSE v \in V : Cardinality(Preceding(V, less, v)) = k - 1]
    <3> DEFINE lhs(k) == CHOOSE v \in V : Cardinality(below(v)) = k - 1
               rhs(k) == CHOOSE v \in V : Cardinality(Preceding(V, less, v)) = k - 1
    <3>1. ASSUME NEW k \in 1 .. m PROVE lhs(k) = rhs(k) BY <2>2
    <3> HIDE DEF lhs, rhs
    <3>2. [k \in 1 .. m |-> lhs(k)] = [k \in 1 .. m |-> rhs(k)] BY <3>1
    <3> QED BY <3>2 DEF lhs, rhs
  <2> QED BY <2>1, <2>3 DEF Listed
<1>4. m \in Nat /\ refs \in [1 .. m -> V] /\ \A k, l \in 1 .. m : k < l => <<refs[k], refs[l]>> \in less
  <2> HIDE DEF less, refs
  <2> QED BY <1>2, <1>3, ListedInOrder
<1>5. \A v \in V : \E k \in 1 .. m : refs[k] = v
  <2> HIDE DEF less, refs
  <2> QED BY <1>2, <1>3, ListedInOrder
<1> HIDE DEF refs, m, less
<1>6. ASSUME NEW k \in 1 .. m, NEW l \in 1 .. m, refs[k] = refs[l] PROVE k = l
  <2>1. refs[k] \in V /\ refs[k] \in Int BY <1>4
  <2>2. <<refs[k], refs[k]>> \notin less BY <1>1, <2>1
  <2>3. ~ (k < l) /\ ~ (l < k) BY <1>4, <1>6, <2>2
  <2> QED BY <1>4, <2>3
<1> QED BY <1>4, <1>5, <1>6 DEF refs, m

\* The directions that the solutions at some positions are associated with.
LEMMA ReferenceSetInOrder ==
    ASSUME NEW a \in Nat, NEW b \in Nat, NEW info, NEW fronts, NEW counts \in [References -> Nat],
           \A k \in a .. b : info[fronts[k]].ref \in References
    PROVE  LET refs == ReferenceSetOf(info, fronts, a .. b, counts)
           IN  /\ InOrder(refs, counts)
               /\ ToSet(refs) = {info[fronts[k]].ref : k \in a .. b}
<1> DEFINE V == {info[fronts[k]].ref : k \in a .. b}
           found == [k \in 1 .. Cardinality(a .. b) |-> info[fronts[Min(a .. b) + k - 1]].ref]
           distinct == EraseDuplicates(found)
           m == Cardinality(V)
           key == [k \in 1 .. m |-> counts[distinct[k]]]
           L == LessByKey(m, key)
           order == Argsort(distinct, LAMBDA lhs, rhs : counts[lhs] < counts[rhs])
           refs == [k \in DOMAIN distinct |-> distinct[order[k]]]
<1>1. ReferenceSetOf(info, fronts, a .. b, counts) = refs BY DEF ReferenceSetOf
<1>2. Range(found) = V
  <2>1. CASE b < a
    <3>1. a .. b = {} /\ Cardinality(a .. b) = 0 BY <2>1, FS_Interval
    <3>2. V = {} /\ DOMAIN found = {} BY <3>1
    <3> HIDE DEF found
    <3> QED BY <3>2 DEF Range
  <2>2. CASE a <= b
    <3>1. Cardinality(a .. b) = b - a + 1
      <4>1. a \in Int /\ b \in Int /\ ~ (a > b) BY <2>2
      <4> QED BY <4>1, FS_Interval
    <3>2. Min(a .. b) = a
      <4>1. \A x \in a .. b : (\A y \in a .. b : x <= y) <=> x = a BY <2>2
      <4>2. a \in a .. b BY <2>2
      <4> QED BY <4>1, <4>2 DEF Min
    <3>3. DOMAIN found = 1 .. b - a + 1
          /\ \A k \in 1 .. b - a + 1 : found[k] = info[fronts[a + k - 1]].ref
      BY <3>1, <3>2
    <3> HIDE DEF found
    <3>4. ASSUME NEW k \in 1 .. b - a + 1 PROVE found[k] \in V
      <4>1. a + k - 1 \in a .. b BY <2>2
      <4> QED BY <3>3, <4>1
    <3>5. ASSUME NEW k \in a .. b PROVE info[fronts[k]].ref \in Range(found)
      <4>1. k - a + 1 \in 1 .. b - a + 1 /\ a + (k - a + 1) - 1 = k BY <2>2
      <4>2. found[k - a + 1] = info[fronts[k]].ref BY <3>3, <4>1
      <4> QED BY <3>3, <4>1, <4>2 DEF Range
    <3> QED BY <3>3, <3>4, <3>5 DEF Range
  <2> QED BY <2>1, <2>2
<1>3. V \in SUBSET References /\ V \in SUBSET Int /\ IsFiniteSet(V)
  <2>1. References \subseteq Nat /\ IsFiniteSet(References)
    <3>1. N3Lines \in Seq(Vectors) BY Nsga3Assumption DEF Vectors
    <3>2. References = 1 .. Len(N3Lines) /\ Len(N3Lines) \in Nat BY <3>1 DEF References
    <3> QED BY <3>2, FS_Interval
  <2>2. V \in SUBSET References OBVIOUS
  <2> HIDE DEF V
  <2>3. IsFiniteSet(V) BY <2>1, <2>2, FS_Subset
  <2>4. References \subseteq Int BY <2>1
  <2>5. V \in SUBSET Int BY <2>2, <2>4
  <2> QED BY <2>2, <2>3, <2>5
<1> HIDE DEF V, found
<1>4. /\ m \in Nat /\ distinct \in [1 .. m -> V]
      /\ \A k, l \in 1 .. m : distinct[k] = distinct[l] => k = l
      /\ \A v \in V : \E k \in 1 .. m : distinct[k] = v
  BY <1>2, <1>3, WithoutDuplicates
<1> HIDE DEF m, distinct
<1>5. key \in [1 .. m -> Int]
  <2>1. \A k \in 1 .. m : distinct[k] \in References BY <1>3, <1>4
  <2>2. \A k \in 1 .. m : counts[distinct[k]] \in Int BY <2>1
  <2> QED BY <2>2
<1>6. order = Listed(1 .. m, Stable(m, L))
  <2> DEFINE Less(i, j) == counts[distinct[i]] < counts[distinct[j]]
             before(i) == {j \in DOMAIN distinct : Less(j, i) \/ (~ Less(i, j) /\ j < i)}
  <2>1. order = [k \in DOMAIN distinct |-> CHOOSE i \in DOMAIN distinct : Cardinality(before(i)) = k - 1]
    BY DEF Argsort
  <2>2. \A i \in 1 .. m : before(i) = Preceding(1 .. m, Stable(m, L), i)
    <3>1. \A i, j \in 1 .. m : <<i, j>> \in L <=> Less(i, j) BY DEF LessByKey
    <3>2. DOMAIN distinct = 1 .. m BY <1>4
    <3> HIDE DEF L, Less
    <3>3. \A i, j \in 1 .. m : <<i, j>> \in Stable(m, L) <=> Less(i, j) \/ (~ Less(j, i) /\ i < j)
      BY <3>1 DEF Stable
    <3> QED BY <3>2, <3>3 DEF Preceding
  <2>3. Cardinality(1 .. m) = m
    <3>1. m \in Nat BY <1>4
    <3> QED BY <3>1, FS_Interval
  <2>4. DOMAIN distinct = 1 .. m BY <1>4
  <2> HIDE DEF before, L, order
  <2> QED BY <2>1, <2>2, <2>3, <2>4 DEF Listed
<1>7. Sorts(order, m, L)
  <2> HIDE DEF L, order, key
  <2>1. WeakOrder(m, L) BY <1>4, <1>5, KeysAreOrdered DEF L
  <2> QED BY <1>4, <1>6, <2>1, ListedSorts
<1> HIDE DEF order
<1>8. /\ refs = [k \in 1 .. m |-> distinct[order[k]]]
      /\ \A k \in 1 .. m : order[k] \in 1 .. m /\ distinct[order[k]] \in V
  BY <1>4, <1>7 DEF Sorts
<1> HIDE DEF refs
<1>9. refs \in [1 .. m -> References] BY <1>3, <1>8
<1>10. refs \in Seq(References) /\ Len(refs) = m BY <1>4, <1>9
<1>11. \A k, l \in 1 .. m : refs[k] = refs[l] => k = l BY <1>4, <1>7, <1>8 DEF Sorts
<1>12. ASSUME NEW k \in 1 .. m, NEW l \in 1 .. m, k < l
       PROVE  counts[refs[k]] <= counts[refs[l]]
  <2>1. <<order[l], order[k]>> \notin L BY <1>7, <1>12 DEF Sorts
  <2>2. ~ (key[order[l]] < key[order[k]])
    <3> HIDE DEF key
    <3> QED BY <1>8, <2>1 DEF LessByKey
  <2>3. key[order[k]] \in Int /\ key[order[l]] \in Int
    <3> HIDE DEF key
    <3> QED BY <1>5, <1>8
  <2>4. key[order[k]] = counts[refs[k]] /\ key[order[l]] = counts[refs[l]] BY <1>8
  <2> HIDE DEF key
  <2> QED BY <2>2, <2>3, <2>4
<1>13. ToSet(refs) = V
  <2>1. DOMAIN refs = 1 .. m BY <1>9
  <2>2. \A k \in 1 .. m : refs[k] \in V BY <1>8
  <2>3. ASSUME NEW v \in V PROVE \E k \in 1 .. m : refs[k] = v
    <3>1. PICK i \in 1 .. m : distinct[i] = v BY <1>4
    <3>2. PICK k \in 1 .. m : order[k] = i BY <1>7 DEF Sorts
    <3> QED BY <1>8, <3>1, <3>2
  <2> QED BY <2>1, <2>2, <2>3 DEF ToSet
<1>14. InOrder(refs, counts) BY <1>10, <1>11, <1>12 DEF InOrder
<1> QED BY <1>1, <1>13, <1>14 DEF V

-----------------------------------------------------------------------------
(* The picking of the survivors *)

PoolSize == PopulationSize + PopulationSize

Traits == [rank : Nat, ref : References, dist : Int]

\* What is remembered of a solution was found for it in this generation.
Associated(i) ==
    /\ n3Info[i].ref = Association(n3Pool[i], n3Ideal, n3Nadir).ref
    /\ n3Info[i].dist = Association(n3Pool[i], n3Ideal, n3Nadir).dist

NumbersTyped ==
    /\ n3Ideal \in Vectors /\ n3Nadir \in Vectors
    /\ n3Extremes \in [Objectives -> Vectors]
    /\ n3Counts \in [References -> Nat]
    /\ InOrder(n3Refs, n3Counts)

PopulationIsRanked ==
    /\ n3Pool \in [Places -> Fitness] /\ n3Info \in [Places -> Traits]
    /\ IsRanking([i \in Places |-> n3Info[i].rank], n3Pool)
    /\ \A i \in Places : Associated(i)

PoolIsRanked ==
    /\ n3Pool \in [1 .. PoolSize -> Fitness] /\ n3Info \in [1 .. PoolSize -> Traits]
    /\ \A i \in 1 .. PoolSize : n3Info[i].rank = RanksOf(n3Pool)[i]
    /\ n3Fronts \in [1 .. PoolSize -> 1 .. PoolSize]
    /\ \A k, l \in 1 .. PoolSize : n3Fronts[k] = n3Fronts[l] => k = l
    /\ \A i \in 1 .. PoolSize : \E k \in 1 .. PoolSize : n3Fronts[k] = i

\* The partial front holds one rank and goes over the size of the population, or it is
\* empty; the better ones are before it, the worse ones behind it.
CutAt(first, last, cut) ==
    /\ n3Partial = <<first, last>>
    /\ \A k \in 1 .. first - 1 : n3Info[n3Fronts[k]].rank <= cut
    /\ \A k \in first .. last : n3Info[n3Fronts[k]].rank = cut
    /\ \A k \in last + 1 .. PoolSize : n3Info[n3Fronts[k]].rank > cut

FrontsAreCut ==
    \E first \in 1 .. PopulationSize + 1, last \in PopulationSize .. PoolSize, cut \in 0 .. PoolSize :
        /\ CutAt(first, last, cut)
        /\ \A k \in 1 .. last : Associated(n3Fronts[k])
        /\ n3Picked \in Seq(1 .. PoolSize) /\ Len(n3Picked) <= PopulationSize - (first - 1)
        /\ \A d \in ToSet(n3Refs) : \E k \in first .. last : n3Info[n3Fronts[k]].ref = d

\* What was picked is at the front of the partial front, and no other is closer.
PickedAreClosest ==
    \A i \in ToSet(n3Picked) :
        /\ \E k \in n3Partial[1] .. n3Partial[1] + Len(n3Picked) - 1 : n3Fronts[k] = i
        /\ \A l \in n3Partial[1] .. n3Partial[2] :
             n3Info[n3Fronts[l]].ref = n3Info[i].ref
                 => n3Info[i].dist <= n3Info[n3Fronts[l]].dist

N3IInv ==
    /\ NumbersTyped
    /\ IF Idle THEN PopulationIsRanked ELSE PoolIsRanked /\ FrontsAreCut /\ PickedAreClosest

LEMMA CountsOfPositions ==
    ASSUME NEW n \in Nat, NEW S \in SUBSET (1 .. n)
    PROVE  IsFiniteSet(S) /\ Cardinality(S) \in 0 .. n
<1>1. IsFiniteSet(1 .. n) /\ Cardinality(1 .. n) = n BY FS_Interval
<1>2. IsFiniteSet(S) /\ Cardinality(S) <= Cardinality(1 .. n) BY <1>1, FS_Subset
<1>3. Cardinality(S) \in Nat BY <1>2, FS_CardinalityType
<1> QED BY <1>1, <1>2, <1>3

LEMMA EmptyInOrder ==
    ASSUME NEW counts PROVE InOrder(<<>>, counts)
<1>1. Len(<<>>) = 0 /\ <<>> \in Seq(References) OBVIOUS
<1>2. 1 .. 0 = {} OBVIOUS
<1> QED BY <1>1, <1>2 DEF InOrder

\* The point the directions are measured from, of any sequence of solutions.
LEMMA PoolIsOfVectors ==
    ASSUME NEW n \in Nat \ {0}, NEW p \in [1 .. n -> Fitness]
    PROVE  p \in [1 .. n -> Vectors] /\ p \in Seq(Vectors) /\ p # <<>>
<1>1. Fitness \subseteq Vectors BY FitnessAssumption DEF Vectors
<1>2. p \in [1 .. n -> Vectors] BY <1>1
<1>3. p \in Seq(Vectors) /\ Len(p) = n BY <1>2
<1> QED BY <1>2, <1>3

LEMMA N3InvInit == Exact /\ N3Init => N3IInv
<1> SUFFICES ASSUME Exact, N3Init PROVE N3IInv
  OBVIOUS
<1> USE PopulationSizeAssumption DEF Places
<1>1. n3Pool \in [Places -> Fitness] BY DEF N3Init
<1>2. n3Pool \in [Places -> Vectors] /\ n3Pool \in Seq(Vectors) /\ n3Pool # <<>>
  BY <1>1, PoolIsOfVectors
<1>3. n3Ideal \in Vectors BY <1>2, MaxFitnessTyped DEF N3Init
<1>4. n3Extremes \in [Objectives -> Vectors]
  <2>1. n3Extremes = ExtremePoints(n3Ideal, n3Pool, <<>>) BY DEF N3Init
  <2>2. <<>> \in Seq(Vectors) OBVIOUS
  <2> QED BY <1>2, <1>3, <2>1, <2>2, ExtremePointsTyped
<1>5. n3Nadir \in Vectors
  <2>1. NumObjectives \in Nat \ {0} BY ObjectivesAreFinite
  <2> QED BY <1>4, <2>1, FrontNadirTyped DEF N3Init, Objectives
<1> DEFINE found(i) == Association(n3Pool[i], n3Ideal, n3Nadir)
<1>6. \A i \in Places : found(i) \in [ref : References, dist : Int]
  BY <1>2, <1>3, <1>5, AssociationTyped
<1>7. n3Info = [i \in Places |-> [rank |-> RanksOf(n3Pool)[i], ref |-> found(i).ref, dist |-> found(i).dist]]
  BY DEF N3Init
<1>8. RanksOf(n3Pool) \in [Places -> 0 .. PopulationSize - 1] /\ IsRanking(RanksOf(n3Pool), n3Pool)
  BY <1>1, RanksOfIsRanking
<1>9. \A i \in Places : Associated(i) BY <1>7 DEF Associated
<1>10. n3Info \in [Places -> Traits]
  <2>1. \A i \in Places : RanksOf(n3Pool)[i] \in Nat BY <1>8
  <2> HIDE DEF found
  <2> QED BY <1>6, <1>7, <2>1 DEF Traits
<1>11. [i \in Places |-> n3Info[i].rank] = RanksOf(n3Pool)
  <2>1. \A i \in Places : n3Info[i].rank = RanksOf(n3Pool)[i] BY <1>7
  <2> QED BY <1>8, <2>1
<1>12. PopulationIsRanked BY <1>1, <1>8, <1>9, <1>10, <1>11 DEF PopulationIsRanked
<1>13. n3Counts \in [References -> Nat]
  <2>1. n3Counts = [ref \in References |-> Cardinality({i \in Places : n3Info[i].ref = ref})]
    BY DEF N3Init
  <2>2. ASSUME NEW ref \in References PROVE Cardinality({i \in Places : n3Info[i].ref = ref}) \in Nat
    <3>1. {i \in Places : n3Info[i].ref = ref} \in SUBSET (1 .. PopulationSize) OBVIOUS
    <3> QED BY <3>1, CountsOfPositions
  <2> QED BY <2>1, <2>2
<1>14. InOrder(n3Refs, n3Counts)
  <2>1. n3Refs = <<>> BY DEF N3Init
  <2> QED BY <2>1, EmptyInOrder
<1>15. Idle BY DEF N3Init, Idle
<1> QED BY <1>3, <1>4, <1>5, <1>12, <1>13, <1>14, <1>15 DEF N3IInv, NumbersTyped

\* All solutions, the better ranks first.
ByRank(F, r, n) ==
    /\ F \in [1 .. n -> 1 .. n]
    /\ \A k, l \in 1 .. n : F[k] = F[l] => k = l
    /\ \A i \in 1 .. n : \E k \in 1 .. n : F[k] = i
    /\ \A k, l \in 1 .. n : k < l => r[F[k]] <= r[F[l]]

\* Fronts of ascending rank: those below any rank are at the first positions.
LEMMA FrontsAreContiguous ==
    ASSUME NEW n \in Nat, NEW r \in [1 .. n -> Nat], NEW F, ByRank(F, r, n), NEW c \in Int
    PROVE  LET m == Cardinality({i \in 1 .. n : r[i] < c})
           IN  m \in 0 .. n /\ \A k \in 1 .. n : r[F[k]] < c <=> k <= m
<1> DEFINE B == {i \in 1 .. n : r[i] < c}
           K == {k \in 1 .. n : r[F[k]] < c}
<1>1. Cardinality(B) \in 0 .. n /\ IsFiniteSet(K) BY CountsOfPositions
<1>2. Cardinality(K) = Cardinality(B)
  <2> DEFINE f == [k \in K |-> F[k]]
  <2>1. f \in [K -> B] BY DEF ByRank
  <2>2. \A k, l \in K : f[k] = f[l] => k = l BY DEF ByRank
  <2>3. \A i \in B : \E k \in K : f[k] = i
    <3> TAKE i \in B
    <3>1. PICK k \in 1 .. n : F[k] = i BY DEF ByRank
    <3>2. k \in K BY <3>1
    <3> QED BY <3>1, <3>2
  <2> HIDE DEF f, K, B
  <2>4. f \in Bijection(K, B) BY <2>1, <2>2, <2>3 DEF Bijection, Injection, Surjection, IsInjective
  <2>5. ExistsBijection(K, B) BY <2>4 DEF ExistsBijection
  <2>6. IsFiniteSet(K) BY <1>1
  <2> QED BY <2>5, <2>6, FS_Bijection
<1>3. \A k \in K, l \in 1 .. n : l < k => l \in K
  <2> TAKE k \in K, l \in 1 .. n
  <2> SUFFICES ASSUME l < k PROVE l \in K
    OBVIOUS
  <2>0. k \in 1 .. n /\ r[F[k]] < c OBVIOUS
  <2>1. r[F[l]] <= r[F[k]] /\ r[F[l]] \in Nat /\ r[F[k]] \in Nat BY <2>0 DEF ByRank
  <2>2. \A x, y \in Nat : x <= y /\ y < c => x < c OBVIOUS
  <2>3. r[F[l]] < c BY <2>0, <2>1, <2>2
  <2> QED BY <2>3
<1>4. \E m \in 0 .. n : K = 1 .. m
  <2>1. CASE K = {} BY <2>1
  <2>2. CASE K # {}
    <3>1. K \in SUBSET Int /\ K \subseteq 1 .. n OBVIOUS
    <3> HIDE DEF K
    <3>2. PICK m \in K : \A k \in K : k <= m BY <1>1, <2>2, <3>1, FiniteExtremes
    <3>3. m \in 1 .. n BY <3>1, <3>2
    <3>4. K \subseteq 1 .. m
      <4>1. \A k \in K : k \in 1 .. n /\ k <= m BY <3>1, <3>2
      <4> QED BY <3>3, <4>1
    <3>5. 1 .. m \subseteq K BY <1>3, <3>2, <3>3
    <3>6. K = 1 .. m BY <3>4, <3>5
    <3>7. m \in 0 .. n BY <3>3
    <3> QED BY <3>6, <3>7
  <2> QED BY <2>1, <2>2
<1>5. PICK m \in 0 .. n : K = 1 .. m BY <1>4
<1>6. Cardinality(K) = m
  <2> HIDE DEF K
  <2>1. m \in Int /\ 1 \in Int /\ (1 > m => m = 0) BY <1>5
  <2>2. Cardinality(1 .. m) = m BY <2>1, FS_Interval
  <2> QED BY <1>5, <2>2
<1>7. \A k \in 1 .. n : r[F[k]] < c <=> k <= m
  <2>1. \A k \in 1 .. n : r[F[k]] < c <=> k \in K OBVIOUS
  <2> HIDE DEF K
  <2> QED BY <1>5, <2>1
<1> HIDE DEF K
<1> QED BY <1>1, <1>2, <1>6, <1>7

\* The positions of the partial front.
PartialIn(r) ==
    LET better == Cardinality({i \in DOMAIN r : r[i] < Cut(r)})
    IN  IF PartialFront(r) = {} THEN <<PopulationSize + 1, PopulationSize>>
        ELSE <<better + 1, better + Cardinality(PartialFront(r))>>

LEMMA PartialFrontIsCut ==
    ASSUME NEW n \in Nat, n >= PopulationSize, NEW r \in [1 .. n -> 0 .. n - 1],
           NEW F, ByRank(F, r, n)
    PROVE  \E first \in 1 .. PopulationSize + 1, last \in PopulationSize .. n, cut \in 0 .. n - 1 :
             /\ PartialIn(r) = <<first, last>>
             /\ \A k \in 1 .. first - 1 : r[F[k]] <= cut
             /\ \A k \in first .. last : r[F[k]] = cut
             /\ \A k \in last + 1 .. n : r[F[k]] > cut
<1> DEFINE cut == Cut(r)
           a == Cardinality(Before(r, cut))
           b == Cardinality(UpTo(r, cut))
           front == FrontOf(r, cut)
<1> USE PopulationSizeAssumption
<1>0. \A k \in 1 .. n : r[F[k]] \in Int BY DEF ByRank
<1>1. cut \in 0 .. n - 1 /\ a < PopulationSize /\ b >= PopulationSize BY CutIsRight
<1> HIDE DEF cut
<1>2. Before(r, cut) = {i \in 1 .. n : r[i] < cut} BY DEF Before
<1>3. UpTo(r, cut) = {i \in 1 .. n : r[i] < cut + 1}
  <2>1. \A i \in 1 .. n : r[i] \in Nat OBVIOUS
  <2>2. \A i \in 1 .. n : r[i] <= cut <=> r[i] < cut + 1 BY <1>1, <2>1
  <2> QED BY <2>2 DEF UpTo
<1>4. r \in [1 .. n -> Nat] OBVIOUS
<1>5. a \in 0 .. n /\ \A k \in 1 .. n : r[F[k]] < cut <=> k <= a
  <2>1. cut \in Int BY <1>1
  <2> QED BY <1>2, <1>4, <2>1, FrontsAreContiguous
<1>6. b \in 0 .. n /\ \A k \in 1 .. n : r[F[k]] < cut + 1 <=> k <= b
  <2>1. cut + 1 \in Int BY <1>1
  <2> QED BY <1>3, <1>4, <2>1, FrontsAreContiguous
<1>7. b = a + Cardinality(front)
  <2>1. UpTo(r, cut) = Before(r, cut) \cup front /\ Before(r, cut) \cap front = {}
    <3>1. \A i \in 1 .. n : r[i] \in Int OBVIOUS
    <3> QED BY <1>1, <3>1 DEF UpTo, Before, FrontOf
  <2>2. IsFiniteSet(Before(r, cut)) BY <1>2, CountsOfPositions
  <2>3. IsFiniteSet(front)
    <3>1. front \in SUBSET (1 .. n) BY DEF FrontOf
    <3> QED BY <3>1, CountsOfPositions
  <2>4. Cardinality(front) \in Nat BY <2>3, FS_CardinalityType
  <2>5. Cardinality({}) = 0 BY FS_EmptySet
  <2>6. /\ Cardinality(Before(r, cut) \cup front)
               = Cardinality(Before(r, cut)) + Cardinality(front) - Cardinality(Before(r, cut) \cap front)
    BY <2>2, <2>3, FS_Union
  <2>7. b = Cardinality(Before(r, cut) \cup front) BY <2>1
  <2>8. Cardinality(Before(r, cut) \cap front) = 0 BY <2>1, <2>5
  <2>9. b = a + Cardinality(front) - 0 BY <2>6, <2>7, <2>8
  <2>10. a \in Int BY <1>5
  <2> HIDE DEF a, b, front
  <2> QED BY <2>4, <2>9, <2>10
<1>8. Cardinality({i \in DOMAIN r : r[i] < Cut(r)}) = a BY DEF Before, cut
<1>9. PartialFront(r) = IF b = PopulationSize THEN {} ELSE front BY DEF PartialFront, UpTo, cut
<1>10. front # {}
  <2>1. ASSUME front = {} PROVE FALSE
    <3>1. Cardinality(front) = 0 BY <2>1, FS_EmptySet
    <3> QED BY <1>1, <1>5, <1>6, <1>7, <3>1
  <2> QED BY <2>1
<1> HIDE DEF a, b, front
<1>11. CASE b = PopulationSize
  <2>1. PartialIn(r) = <<PopulationSize + 1, PopulationSize>> BY <1>9, <1>11 DEF PartialIn
  <2>2. \A k \in 1 .. (PopulationSize + 1) - 1 : r[F[k]] <= cut
    <3> TAKE k \in 1 .. (PopulationSize + 1) - 1
    <3>1. k \in 1 .. n /\ r[F[k]] < cut + 1 BY <1>6, <1>11
    <3> QED BY <1>0, <1>1, <3>1
  <2>3. \A k \in PopulationSize + 1 .. PopulationSize : r[F[k]] = cut OBVIOUS
  <2>4. \A k \in PopulationSize + 1 .. n : r[F[k]] > cut
    <3> TAKE k \in PopulationSize + 1 .. n
    <3>1. k \in 1 .. n /\ ~ (r[F[k]] < cut + 1) BY <1>6, <1>11
    <3> QED BY <1>0, <1>1, <3>1
  <2>5. PopulationSize + 1 \in 1 .. PopulationSize + 1 /\ PopulationSize \in PopulationSize .. n OBVIOUS
  <2> QED BY <1>1, <2>1, <2>2, <2>3, <2>4, <2>5
<1>12. CASE b # PopulationSize
  <2>1. PartialIn(r) = <<a + 1, b>> BY <1>7, <1>8, <1>9, <1>10, <1>12 DEF PartialIn
  <2>2. \A k \in 1 .. (a + 1) - 1 : r[F[k]] <= cut
    <3> TAKE k \in 1 .. (a + 1) - 1
    <3>1. k \in 1 .. n /\ r[F[k]] < cut BY <1>5
    <3> QED BY <1>0, <1>1, <3>1
  <2>3. \A k \in a + 1 .. b : r[F[k]] = cut
    <3> TAKE k \in a + 1 .. b
    <3>1. k \in 1 .. n /\ ~ (r[F[k]] < cut) /\ r[F[k]] < cut + 1 BY <1>5, <1>6
    <3> QED BY <1>0, <1>1, <3>1
  <2>4. \A k \in b + 1 .. n : r[F[k]] > cut
    <3> TAKE k \in b + 1 .. n
    <3>1. k \in 1 .. n /\ ~ (r[F[k]] < cut + 1) BY <1>6
    <3> QED BY <1>0, <1>1, <3>1
  <2>5. a + 1 \in 1 .. PopulationSize + 1 /\ b \in PopulationSize .. n BY <1>1, <1>5, <1>6
  <2> QED BY <1>1, <2>1, <2>2, <2>3, <2>4, <2>5
<1> QED BY <1>11, <1>12

LEMMA PoolSizeIsRight ==
    /\ PopulationSize \in Nat /\ PopulationSize > 0 /\ PoolSize \in Nat /\ PoolSize > 0
    /\ PoolSize >= PopulationSize /\ PoolSize - PopulationSize = PopulationSize
BY PopulationSizeAssumption DEF PoolSize

LEMMA FirstReference == References \in SUBSET Nat /\ 1 \in References
<1>1. N3Lines \in Seq([Objectives -> Int]) /\ N3Lines # <<>> BY Nsga3Assumption
<1>2. DOMAIN N3Lines = 1 .. Len(N3Lines) /\ Len(N3Lines) \in Nat /\ Len(N3Lines) # 0 BY <1>1
<1> QED BY <1>2 DEF References

\* What is remembered of the pool: its ranks, and what was found up to the cut.
FoundUpTo(info, n, p, r, F, last) ==
    /\ info \in [1 .. n -> Traits]
    /\ \A i \in 1 .. n : info[i].rank = r[i]
    /\ \A k \in 1 .. last :
         /\ info[F[k]].ref = Association(p[F[k]], n3Ideal', n3Nadir').ref
         /\ info[F[k]].dist = Association(p[F[k]], n3Ideal', n3Nadir').dist

LEMMA AssociatedUpTo ==
    ASSUME NEW n \in Nat, NEW p \in [1 .. n -> Vectors], NEW r \in [1 .. n -> Nat],
           NEW old, NEW m \in 0 .. n, old \in [1 .. m -> Traits],
           NEW F \in [1 .. n -> 1 .. n], NEW last \in 0 .. n,
           n3Ideal' \in Vectors, n3Nadir' \in Vectors
    PROVE  FoundUpTo(AssociatePopWithRefs(p, Resized(old, r), F, last), n, p, r, F, last)
<1> DEFINE resized == Resized(old, r)
           seen == {F[k] : k \in 1 .. last}
           found(i) == Association(p[i], n3Ideal', n3Nadir')
           updated(i) == [resized[i] EXCEPT !.ref = found(i).ref, !.dist = found(i).dist]
           info == AssociatePopWithRefs(p, resized, F, last)
<1>1. \A i \in 1 .. n : found(i).ref \in References /\ found(i).dist \in Int
  <2>1. \A i \in 1 .. n : found(i) \in [ref : References, dist : Int] BY AssociationTyped
  <2> HIDE DEF found
  <2> QED BY <2>1
<1>2. \A i \in 1 .. n : resized[i] \in Traits /\ resized[i].rank = r[i]
  <2>1. resized = [i \in 1 .. n |-> IF i \in 1 .. m THEN [old[i] EXCEPT !.rank = r[i]]
                                    ELSE [rank |-> r[i], ref |-> 1, dist |-> 0]]
    BY DEF Resized
  <2> HIDE DEF resized
  <2> TAKE i \in 1 .. n
  <2>2. CASE i \in 1 .. m
    <3>1. resized[i] = [old[i] EXCEPT !.rank = r[i]] /\ old[i] \in Traits BY <2>1, <2>2
    <3> QED BY <3>1 DEF Traits
  <2>3. CASE i \notin 1 .. m
    <3>1. resized[i] = [rank |-> r[i], ref |-> 1, dist |-> 0] BY <2>1, <2>3
    <3> QED BY <3>1, FirstReference DEF Traits
  <2> QED BY <2>2, <2>3
<1>3. DOMAIN resized = 1 .. n BY DEF Resized
<1>9. info = [i \in 1 .. n |-> IF i \in seen THEN updated(i) ELSE resized[i]]
  BY <1>3 DEF AssociatePopWithRefs
<1>5. \A k \in 1 .. last : F[k] \in seen /\ F[k] \in 1 .. n
  <2>1. \A k \in 1 .. last : k \in 1 .. n OBVIOUS
  <2> QED BY <2>1
<1> HIDE DEF resized, info, seen, found, updated
<1>10. \A i \in 1 .. n : info[i] = IF i \in seen THEN updated(i) ELSE resized[i] BY <1>9
<1>11. \A i \in 1 .. n : updated(i) \in Traits /\ updated(i).rank = r[i]
                          /\ updated(i).ref = found(i).ref /\ updated(i).dist = found(i).dist
  <2> TAKE i \in 1 .. n
  <2>1. updated(i) = [resized[i] EXCEPT !.ref = found(i).ref, !.dist = found(i).dist] BY DEF updated
  <2>2. resized[i] \in Traits /\ found(i).ref \in References /\ found(i).dist \in Int BY <1>1, <1>2
  <2>3. updated(i) = [rank |-> resized[i].rank, ref |-> found(i).ref, dist |-> found(i).dist]
    BY <2>1, <2>2 DEF Traits
  <2>4. resized[i].rank \in Nat BY <2>2 DEF Traits
  <2>5. updated(i) \in Traits BY <2>2, <2>3, <2>4 DEF Traits
  <2>6. updated(i).rank = r[i]
    <3>1. resized[i].rank = r[i] BY <1>2
    <3>2. updated(i).rank = resized[i].rank BY <2>3
    <3> QED BY <3>1, <3>2
  <2>7. updated(i).ref = found(i).ref /\ updated(i).dist = found(i).dist BY <2>3
  <2> QED BY <2>5, <2>6, <2>7
<1>6. \A i \in 1 .. n : info[i] \in Traits /\ info[i].rank = r[i] BY <1>2, <1>10, <1>11
<1>7. \A k \in 1 .. last : info[F[k]].ref = found(F[k]).ref /\ info[F[k]].dist = found(F[k]).dist
  BY <1>5, <1>10, <1>11
<1>8. info \in [1 .. n -> Traits] BY <1>6, <1>9
<1> QED BY <1>6, <1>7, <1>8 DEF info, resized, found, FoundUpTo

LEMMA N3NextPopulationStep ==
    ASSUME Exact, N3IInv, NEW children \in N3Offspring, N3NextPopulation(children)
    PROVE  N3IInv'
<1> DEFINE n == PoolSize
           p == n3Pool \o children
           r == RanksOf(p)
           F == FrontsOf(p, r)
<1> USE PoolSizeIsRight
<1>1. Idle /\ PopulationIsRanked /\ NumbersTyped BY DEF N3IInv, N3NextPopulation
<1>2. n3Pool \in [Places -> Fitness] /\ n3Info \in [1 .. PopulationSize -> Traits]
  BY <1>1 DEF PopulationIsRanked, Places
<1>3. p \in [1 .. n -> Fitness]
  <2>1. children \in [Places -> Fitness] BY Nsga3Assumption
  <2> QED BY <1>2, <2>1, PoolIsSequence DEF PoolSize
<1>4. /\ n3Pool' = p /\ n3Fronts' = F /\ n3Partial' = PartialIn(r) /\ n3Picked' = <<>>
      /\ n3Ideal' = ElementwiseMax(n3Ideal, MaxFitness(p))
      /\ n3Extremes' = ExtremePoints(n3Ideal', p, n3Extremes)
      /\ n3Nadir' = FindFrontNadirPoint(n3Extremes')
      /\ n3Info' = AssociatePopWithRefs(p, Resized(n3Info, r), F, PartialIn(r)[2])
      /\ n3Counts' = RecalcNicheCounts(n3Info', F, PartialIn(r)[1] - 1)
      /\ n3Refs' = ReferenceSetOf(n3Info', F, PartialIn(r)[1] .. PartialIn(r)[2], n3Counts')
  <2>1. DOMAIN r = DOMAIN p BY DEF RanksOf
  <2>2. n3Pool' = p BY DEF N3NextPopulation
  <2>3. n3Fronts' = F BY DEF N3NextPopulation
  <2>4. n3Partial' = PartialIn(r) BY <2>1 DEF N3NextPopulation, PartialIn
  <2>5. n3Picked' = <<>> BY DEF N3NextPopulation
  <2>6. n3Ideal' = ElementwiseMax(n3Ideal, MaxFitness(p)) BY DEF N3NextPopulation
  <2>7. n3Extremes' = ExtremePoints(n3Ideal', p, n3Extremes) BY DEF N3NextPopulation
  <2>8. n3Nadir' = FindFrontNadirPoint(n3Extremes') BY DEF N3NextPopulation
  <2>9. n3Info' = AssociatePopWithRefs(p, Resized(n3Info, r), F, PartialIn(r)[2])
    BY <2>1 DEF N3NextPopulation, PartialIn
  <2>10. n3Counts' = RecalcNicheCounts(n3Info', F, PartialIn(r)[1] - 1)
    BY <2>1 DEF N3NextPopulation, PartialIn
  <2>11. n3Refs' = ReferenceSetOf(n3Info', F, PartialIn(r)[1] .. PartialIn(r)[2], n3Counts')
    BY <2>1 DEF N3NextPopulation, PartialIn
  <2> QED BY <2>2, <2>3, <2>4, <2>5, <2>6, <2>7, <2>8, <2>9, <2>10, <2>11
<1> HIDE DEF p
<1>5. p \in [1 .. n -> Vectors] /\ p \in Seq(Vectors) /\ p # <<>> BY <1>3, PoolIsOfVectors
<1>6. r \in [1 .. n -> 0 .. n - 1] BY <1>3, RanksOfIsRanking
<1>7. n3Ideal' \in Vectors
  <2>1. MaxFitness(p) \in Vectors BY <1>5, MaxFitnessTyped
  <2>2. n3Ideal \in Vectors BY <1>1 DEF NumbersTyped
  <2> QED BY <1>4, <2>1, <2>2, ElementwiseTyped
<1>8. n3Extremes' \in [Objectives -> Vectors]
  <2>1. n3Extremes \in [1 .. NumObjectives -> Vectors] BY <1>1 DEF NumbersTyped, Objectives
  <2>2. n3Extremes \in Seq(Vectors) BY <2>1, ObjectivesAreFinite
  <2> QED BY <1>4, <1>5, <1>7, <2>2, ExtremePointsTyped
<1>9. n3Nadir' \in Vectors
  <2>1. NumObjectives \in Nat \ {0} BY ObjectivesAreFinite
  <2> QED BY <1>4, <1>8, <2>1, FrontNadirTyped DEF Objectives
<1> HIDE DEF r, n
<1>10. r \in [1 .. n -> Nat] BY <1>6
<1>11. ByRank(F, r, n)
  <2>1. n \in Nat BY DEF n
  <2> QED BY <1>3, <1>10, <2>1, FrontsInOrder DEF ByRank
<1> HIDE DEF F
<1>12. F \in [1 .. n -> 1 .. n] BY <1>11 DEF ByRank
<1>13. n \in Nat /\ n >= PopulationSize /\ PopulationSize \in 0 .. n BY DEF n
<1>14. PICK first \in 1 .. PopulationSize + 1, last \in PopulationSize .. n, cut \in 0 .. n - 1 :
         /\ n3Partial' = <<first, last>>
         /\ \A k \in 1 .. first - 1 : r[F[k]] <= cut
         /\ \A k \in first .. last : r[F[k]] = cut
         /\ \A k \in last + 1 .. n : r[F[k]] > cut
  BY <1>4, <1>6, <1>11, <1>13, PartialFrontIsCut
<1>15. /\ n3Info' \in [1 .. n -> Traits]
       /\ \A i \in 1 .. n : n3Info'[i].rank = r[i]
       /\ \A k \in 1 .. last :
            /\ n3Info'[F[k]].ref = Association(p[F[k]], n3Ideal', n3Nadir').ref
            /\ n3Info'[F[k]].dist = Association(p[F[k]], n3Ideal', n3Nadir').dist
  <2>1. last \in 0 .. n BY <1>13
  <2>2. n3Info' = AssociatePopWithRefs(p, Resized(n3Info, r), F, last) BY <1>4, <1>14
  <2>3. p \in [1 .. n -> Vectors] BY <1>5
  <2>4. FoundUpTo(n3Info', n, p, r, F, last)
    BY <1>2, <1>7, <1>9, <1>10, <1>12, <1>13, <2>1, <2>2, <2>3, AssociatedUpTo
  <2> QED BY <2>4 DEF FoundUpTo
<1>16. n3Counts' \in [References -> Nat]
  <2>1. n3Counts' = [ref \in References |-> Cardinality({k \in 1 .. first - 1 : n3Info'[F[k]].ref = ref})]
    BY <1>4, <1>14 DEF RecalcNicheCounts
  <2>2. ASSUME NEW ref \in References
        PROVE  Cardinality({k \in 1 .. first - 1 : n3Info'[F[k]].ref = ref}) \in Nat
    <3>1. {k \in 1 .. first - 1 : n3Info'[F[k]].ref = ref} \in SUBSET (1 .. first - 1) OBVIOUS
    <3>2. first - 1 \in Nat OBVIOUS
    <3> QED BY <3>1, <3>2, CountsOfPositions
  <2> QED BY <2>1, <2>2
<1>17. \A k \in first .. last : n3Info'[F[k]].ref \in References
  <2> TAKE k \in first .. last
  <2>1. k \in 1 .. n BY <1>13
  <2>2. n3Info'[F[k]] \in Traits BY <1>12, <1>15, <2>1
  <2> QED BY <2>2 DEF Traits
<1>18. /\ InOrder(n3Refs', n3Counts')
       /\ ToSet(n3Refs') = {n3Info'[F[k]].ref : k \in first .. last}
  <2>1. first \in Nat /\ last \in Nat BY <1>13
  <2>2. n3Refs' = ReferenceSetOf(n3Info', F, first .. last, n3Counts') BY <1>4, <1>14
  <2> QED BY <1>16, <1>17, <2>1, <2>2, ReferenceSetInOrder
<1>19. NumbersTyped'
  <2>1. (InOrder(n3Refs, n3Counts))' BY <1>18 DEF InOrder
  <2> QED BY <1>7, <1>8, <1>9, <1>16, <2>1 DEF NumbersTyped
<1>20. PoolIsRanked'
  <2>1. /\ \A k, l \in 1 .. n : F[k] = F[l] => k = l
        /\ \A i \in 1 .. n : \E k \in 1 .. n : F[k] = i
    BY <1>11 DEF ByRank
  <2> QED BY <1>3, <1>4, <1>12, <1>15, <2>1 DEF PoolIsRanked, n, r
<1>21. (CutAt(first, last, cut))'
  <2>1. \A k \in 1 .. n : n3Info'[F[k]].rank = r[F[k]] BY <1>12, <1>15
  <2>2. first - 1 <= n /\ last <= n /\ first >= 1 BY <1>13
  <2>3. /\ \A k \in 1 .. first - 1 : n3Info'[F[k]].rank <= cut
        /\ \A k \in first .. last : n3Info'[F[k]].rank = cut
        /\ \A k \in last + 1 .. n : n3Info'[F[k]].rank > cut
    <3>1. /\ \A k \in 1 .. first - 1 : k \in 1 .. n
          /\ \A k \in first .. last : k \in 1 .. n
          /\ \A k \in last + 1 .. n : k \in 1 .. n
      BY <1>13, <2>2
    <3> QED BY <1>14, <2>1, <3>1
  <2> QED BY <1>4, <1>14, <2>3 DEF CutAt, n
<1>22. FrontsAreCut'
  <2>1. n3Picked' \in Seq(1 .. PoolSize) /\ Len(n3Picked') <= PopulationSize - (first - 1)
    <3>1. Len(<<>>) = 0 /\ <<>> \in Seq(1 .. PoolSize) OBVIOUS
    <3> QED BY <1>4, <3>1
  <2>2. \A d \in ToSet(n3Refs') : \E k \in first .. last : n3Info'[n3Fronts'[k]].ref = d
    BY <1>4, <1>18
  <2>3. \A k \in 1 .. last :
          /\ n3Info'[n3Fronts'[k]].ref = Association(n3Pool'[n3Fronts'[k]], n3Ideal', n3Nadir').ref
          /\ n3Info'[n3Fronts'[k]].dist = Association(n3Pool'[n3Fronts'[k]], n3Ideal', n3Nadir').dist
    BY <1>4, <1>15
  <2>4. cut \in 0 .. PoolSize /\ last \in PopulationSize .. PoolSize BY DEF n
  <2> QED BY <1>4, <1>21, <2>1, <2>2, <2>3, <2>4 DEF FrontsAreCut, Associated
<1>23. PickedAreClosest'
  <2>1. ToSet(n3Picked') = {} BY <1>4 DEF ToSet
  <2> QED BY <2>1 DEF PickedAreClosest
<1>24. ~ Idle'
  <2>1. 1 \in DOMAIN n3Fronts' BY <1>4, <1>12 DEF n
  <2> QED BY <2>1 DEF Idle
<1> QED BY <1>19, <1>20, <1>22, <1>23, <1>24 DEF N3IInv

\* Two places of an order exchanged.
IsExchanged(G, F, n, a, b) ==
    /\ G \in [1 .. n -> 1 .. n]
    /\ G[a] = F[b] /\ G[b] = F[a]
    /\ \A k \in 1 .. n : k # a /\ k # b => G[k] = F[k]

LEMMA ExchangedOrder ==
    ASSUME NEW n \in Nat, NEW F \in [1 .. n -> 1 .. n], NEW a \in 1 .. n, NEW b \in 1 .. n
    PROVE  IsExchanged(Exchanged(F, a, b), F, n, a, b)
<1> DEFINE G == Exchanged(F, a, b)
<1>1. G = [F EXCEPT ![a] = F[b], ![b] = F[a]] BY DEF Exchanged
<1>2. F[a] \in 1 .. n /\ F[b] \in 1 .. n OBVIOUS
<1> HIDE DEF G
<1>3. IsExchanged(G, F, n, a, b) BY <1>1, <1>2 DEF IsExchanged
<1> QED BY <1>3 DEF G

EachOnce(F, n) ==
    /\ \A k, l \in 1 .. n : F[k] = F[l] => k = l
    /\ \A i \in 1 .. n : \E k \in 1 .. n : F[k] = i

LEMMA ExchangedIsOrder ==
    ASSUME NEW n \in Nat, NEW F \in [1 .. n -> 1 .. n], NEW a \in 1 .. n, NEW b \in 1 .. n,
           EachOnce(F, n)
    PROVE  EachOnce(Exchanged(F, a, b), n)
<1> DEFINE G == Exchanged(F, a, b)
           from(k) == IF k = a THEN b ELSE IF k = b THEN a ELSE k
<1>1. \A k \in 1 .. n : G[k] = F[from(k)]
  <2>1. IsExchanged(G, F, n, a, b) BY ExchangedOrder
  <2> HIDE DEF G
  <2> QED BY <2>1 DEF IsExchanged
<1>2. /\ \A k \in 1 .. n : from(k) \in 1 .. n /\ from(from(k)) = k
      /\ \A k, l \in 1 .. n : from(k) = from(l) => k = l
  OBVIOUS
<1> HIDE DEF G, from
<1>3. \A k, l \in 1 .. n : G[k] = G[l] => k = l
  <2> TAKE k, l \in 1 .. n
  <2> HAVE G[k] = G[l]
  <2>1. from(k) \in 1 .. n /\ from(l) \in 1 .. n /\ F[from(k)] = F[from(l)] BY <1>1, <1>2
  <2>2. from(k) = from(l) BY <2>1 DEF EachOnce
  <2> QED BY <1>2, <2>2
<1>4. ASSUME NEW i \in 1 .. n PROVE \E k \in 1 .. n : G[k] = i
  <2>1. PICK k \in 1 .. n : F[k] = i BY DEF EachOnce
  <2>2. G[from(k)] = i BY <1>1, <1>2, <2>1
  <2> QED BY <1>2, <2>2
<1>5. EachOnce(G, n) BY <1>3, <1>4 DEF EachOnce
<1> QED BY <1>5 DEF G

\* findClosestAssociated finds a solution for a direction that is left.
LEMMA ClosestIsFound ==
    ASSUME NEW a \in Nat, NEW b \in Nat, n3Partial = <<a, b>>,
           \A k \in a .. b : n3Info[n3Fronts[k]].dist \in Int,
           NEW ref, \E k \in a .. b : n3Info[n3Fronts[k]].ref = ref
    PROVE  LET c == FindClosestAssociated(ref)
           IN  /\ c \in a .. b
               /\ n3Info[n3Fronts[c]].ref = ref
               /\ \A l \in a .. b : n3Info[n3Fronts[l]].ref = ref
                                      => n3Info[n3Fronts[c]].dist <= n3Info[n3Fronts[l]].dist
<1> DEFINE D == {k \in a .. b : n3Info[n3Fronts[k]].ref = ref}
           v == [k \in D |-> n3Info[n3Fronts[k]].dist]
           First(k) == \A l \in D : /\ v[k] <= v[l]
                                    /\ v[l] = v[k] => k <= l
           c == CHOOSE k \in D : First(k)
<1>1. D \in SUBSET Nat /\ IsFiniteSet(D) /\ D # {} /\ v \in [D -> Int]
  <2>1. D \subseteq a .. b /\ a .. b \subseteq Nat OBVIOUS
  <2>2. IsFiniteSet(a .. b) BY FS_Interval
  <2>3. IsFiniteSet(D) BY <2>1, <2>2, FS_Subset
  <2>4. v \in [D -> Int] /\ D # {} OBVIOUS
  <2> QED BY <2>1, <2>3, <2>4
<1>2. FindClosestAssociated(ref) = c
  <2> DEFINE Nearest(k) == \A l \in D :
            /\ n3Info[n3Fronts[k]].dist <= n3Info[n3Fronts[l]].dist
            /\ n3Info[n3Fronts[k]].dist = n3Info[n3Fronts[l]].dist => k <= l
  <2>1. FindClosestAssociated(ref) = CHOOSE k \in D : Nearest(k)
    <3>1. n3Partial[1] = a /\ n3Partial[2] = b OBVIOUS
    <3> QED BY <3>1, Zenon DEF FindClosestAssociated
  <2>2. \A k \in D : Nearest(k) <=> First(k) OBVIOUS
  <2> HIDE DEF Nearest, First, D
  <2> QED BY <2>1, <2>2
<1>3. \E k \in D : First(k)
  <2> HIDE DEF D, v
  <2> QED BY <1>1, FirstOfExtremes
<1>4. c \in D /\ First(c)
  <2> HIDE DEF D, First
  <2> QED BY <1>3
<1>6. \A l \in D : v[l] = n3Info[n3Fronts[l]].dist OBVIOUS
<1> HIDE DEF c
<1>5. \A l \in D : v[c] <= v[l] BY <1>4
<1> HIDE DEF v, First
<1> QED BY <1>2, <1>4, <1>5, <1>6

\* A pass of the loop: the closest solution of the direction is exchanged with the one at
\* the place behind those that were picked before it.
Picks(first, last, cut, c, ref) ==
    LET F == n3Fronts
        pos == first + Len(n3Picked)
    IN  /\ CutAt(first, last, cut) /\ n3Partial = <<first, last>>
        /\ \A k \in 1 .. last : Associated(F[k])
        /\ n3Picked \in Seq(1 .. PoolSize) /\ Len(n3Picked) < PopulationSize - (first - 1)
        /\ \A d \in ToSet(n3Refs) : \E k \in first .. last : n3Info[F[k]].ref = d
        /\ n3Fronts' = Exchanged(F, c, pos) /\ n3Picked' = Append(n3Picked, F[c])
        /\ n3Pool' = n3Pool /\ n3Partial' = n3Partial /\ n3Info' = n3Info /\ n3Ideal' = n3Ideal
        /\ n3Nadir' = n3Nadir /\ n3Extremes' = n3Extremes
        /\ first \in 1 .. PoolSize /\ last \in 1 .. PoolSize /\ Len(n3Picked) \in Nat
        /\ pos \in first .. last /\ pos \in 1 .. PoolSize
        /\ c \in first .. last /\ c \in 1 .. PoolSize /\ n3Info[F[c]].ref = ref
        /\ \A l \in first .. last : n3Info[F[l]].ref = ref => n3Info[F[c]].dist <= n3Info[F[l]].dist
        /\ IsExchanged(n3Fronts', F, PoolSize, c, pos)

LEMMA PickForPicks ==
    ASSUME N3IInv, NEW ref \in References, PickFor(ref)
    PROVE  \E first \in 1 .. PopulationSize + 1, last \in PopulationSize .. PoolSize,
              cut \in 0 .. PoolSize, c \in 1 .. PoolSize : Picks(first, last, cut, c, ref)
<1> DEFINE n == PoolSize
           F == n3Fronts
           c == FindClosestAssociated(ref)
<1> USE PoolSizeIsRight
<1>1. ~ Idle /\ NumbersTyped /\ PoolIsRanked /\ FrontsAreCut /\ PickedAreClosest
  BY DEF N3IInv, PickFor
<1>2. PICK first \in 1 .. PopulationSize + 1, last \in PopulationSize .. PoolSize, cut \in 0 .. PoolSize :
        /\ CutAt(first, last, cut)
        /\ \A k \in 1 .. last : Associated(n3Fronts[k])
        /\ n3Picked \in Seq(1 .. PoolSize) /\ Len(n3Picked) <= PopulationSize - (first - 1)
        /\ \A d \in ToSet(n3Refs) : \E k \in first .. last : n3Info[n3Fronts[k]].ref = d
  BY <1>1 DEF FrontsAreCut
<1> DEFINE pos == first + Len(n3Picked)
<1>3. n3Partial = <<first, last>> BY <1>2 DEF CutAt
<1>4. /\ n3Fronts' = Exchanged(F, c, pos)
      /\ n3Picked' = Append(n3Picked, F[c])
      /\ n3Pool' = n3Pool /\ n3Partial' = n3Partial /\ n3Info' = n3Info /\ n3Ideal' = n3Ideal
      /\ n3Nadir' = n3Nadir /\ n3Extremes' = n3Extremes
      /\ Len(n3Picked) < PopulationSize - (first - 1)
      /\ ref \in ToSet(n3Refs)
  BY <1>3 DEF PickFor, ToPick
<1>5. /\ n \in Nat /\ first \in 1 .. n /\ last \in 1 .. n /\ Len(n3Picked) \in Nat
      /\ pos \in first .. last /\ pos \in 1 .. n /\ first \in Nat /\ last \in Nat
  <2>1. PopulationSize \in Nat /\ PoolSize \in Nat /\ PopulationSize <= PoolSize
    BY PopulationSizeAssumption DEF PoolSize
  <2>2. Len(n3Picked) \in Nat /\ Len(n3Picked) < PopulationSize - (first - 1) BY <1>2, <1>4
  <2>3. first \in Nat /\ first >= 1 /\ last \in Nat /\ last >= PopulationSize /\ last <= n
    BY <1>2, <2>1
  <2> QED BY <2>1, <2>2, <2>3
<1>6. /\ F \in [1 .. n -> 1 .. n] /\ n3Info \in [1 .. n -> Traits]
      /\ \A k, l \in 1 .. n : F[k] = F[l] => k = l
      /\ \A i \in 1 .. n : \E k \in 1 .. n : F[k] = i
  BY <1>1 DEF PoolIsRanked
<1>7. \A k \in first .. last : n3Info[F[k]].dist \in Int /\ k \in 1 .. n
  <2> TAKE k \in first .. last
  <2>1. k \in 1 .. n BY <1>5
  <2>2. n3Info[F[k]] \in Traits BY <1>6, <2>1
  <2> QED BY <2>1, <2>2 DEF Traits
<1>8. \E k \in first .. last : n3Info[F[k]].ref = ref BY <1>2, <1>4
<1>9. /\ c \in first .. last
      /\ n3Info[F[c]].ref = ref
      /\ \A l \in first .. last : n3Info[F[l]].ref = ref => n3Info[F[c]].dist <= n3Info[F[l]].dist
  BY <1>3, <1>5, <1>7, <1>8, ClosestIsFound
<1> HIDE DEF c, pos, n, F
<1>10. c \in 1 .. n BY <1>7, <1>9
<1>11. IsExchanged(n3Fronts', F, n, c, pos) BY <1>4, <1>5, <1>6, <1>10, ExchangedOrder
<1>12. /\ \A k \in 1 .. last : Associated(F[k])
       /\ n3Picked \in Seq(1 .. PoolSize) /\ CutAt(first, last, cut)
       /\ \A d \in ToSet(n3Refs) : \E k \in first .. last : n3Info[F[k]].ref = d
  BY <1>2 DEF F
<1>13. Picks(first, last, cut, c, ref)
  BY <1>3, <1>4, <1>5, <1>9, <1>10, <1>11, <1>12 DEF Picks, F, n, pos
<1> QED BY <1>10, <1>13 DEF n

LEMMA N3PickStep ==
    ASSUME N3IInv, NEW ref \in References, PickFor(ref)
    PROVE  N3IInv'
<1> DEFINE n == PoolSize
           F == n3Fronts
<1> USE PoolSizeIsRight
<1>1. ~ Idle /\ NumbersTyped /\ PoolIsRanked /\ FrontsAreCut /\ PickedAreClosest
  BY DEF N3IInv, PickFor
<1>2. PICK first \in 1 .. PopulationSize + 1, last \in PopulationSize .. PoolSize,
           cut \in 0 .. PoolSize, c \in 1 .. PoolSize : Picks(first, last, cut, c, ref)
  BY PickForPicks
<1> DEFINE pos == first + Len(n3Picked)
<1>3. /\ n3Partial = <<first, last>> /\ CutAt(first, last, cut)
      /\ \A k \in 1 .. last : Associated(n3Fronts[k])
      /\ n3Picked \in Seq(1 .. PoolSize)
      /\ \A d \in ToSet(n3Refs) : \E k \in first .. last : n3Info[n3Fronts[k]].ref = d
  BY <1>2 DEF Picks
<1>4. /\ n3Fronts' = Exchanged(F, c, pos)
      /\ n3Picked' = Append(n3Picked, F[c])
      /\ n3Pool' = n3Pool /\ n3Partial' = n3Partial /\ n3Info' = n3Info /\ n3Ideal' = n3Ideal
      /\ n3Nadir' = n3Nadir /\ n3Extremes' = n3Extremes
      /\ Len(n3Picked) < PopulationSize - (first - 1)
      /\ ref \in ToSet(n3Refs)
  <2>1. ref \in ToSet(n3Refs) BY DEF PickFor
  <2> QED BY <1>2, <2>1 DEF Picks
<1>5. /\ n \in Nat /\ first \in 1 .. n /\ last \in 1 .. n /\ Len(n3Picked) \in Nat
      /\ pos \in first .. last /\ pos \in 1 .. n /\ first \in Nat /\ last \in Nat
  BY <1>2 DEF Picks
<1>6. /\ F \in [1 .. n -> 1 .. n] /\ n3Info \in [1 .. n -> Traits]
      /\ \A k, l \in 1 .. n : F[k] = F[l] => k = l
      /\ \A i \in 1 .. n : \E k \in 1 .. n : F[k] = i
  BY <1>1 DEF PoolIsRanked
<1>7. \A k \in first .. last : k \in 1 .. n BY <1>5
<1>9. /\ c \in first .. last
      /\ n3Info[F[c]].ref = ref
      /\ \A l \in first .. last : n3Info[F[l]].ref = ref => n3Info[F[c]].dist <= n3Info[F[l]].dist
  BY <1>2 DEF Picks
<1>11. IsExchanged(n3Fronts', F, n, c, pos) BY <1>2 DEF Picks
<1> HIDE DEF pos, n, F
<1>10. c \in 1 .. n BY <1>7, <1>9
<1>12. /\ n3Fronts' \in [1 .. n -> 1 .. n]
       /\ \A k, l \in 1 .. n : n3Fronts'[k] = n3Fronts'[l] => k = l
       /\ \A i \in 1 .. n : \E k \in 1 .. n : n3Fronts'[k] = i
  <2>1. EachOnce(F, n) BY <1>6 DEF EachOnce
  <2>2. EachOnce(n3Fronts', n) BY <1>4, <1>5, <1>6, <1>10, <2>1, ExchangedIsOrder
  <2> QED BY <1>11, <2>2 DEF EachOnce, IsExchanged
\* Only positions of the partial front are exchanged.
<1>13. \A k \in first .. last : \E l \in first .. last : n3Fronts'[k] = F[l]
  BY <1>5, <1>7, <1>9, <1>11 DEF IsExchanged
<1>14. \A k \in first .. last : \E l \in first .. last : n3Fronts'[l] = F[k]
  <2> TAKE k \in first .. last
  <2>1. CASE k = c BY <1>5, <1>11, <2>1 DEF IsExchanged
  <2>2. CASE k = pos BY <1>9, <1>11, <2>2 DEF IsExchanged
  <2>3. CASE k # c /\ k # pos BY <1>7, <1>11, <2>3 DEF IsExchanged
  <2> QED BY <2>1, <2>2, <2>3
<1>15. \A k \in 1 .. n : k < first \/ last < k => n3Fronts'[k] = F[k]
  <2>1. \A k \in 1 .. n : k < first \/ last < k => k # c /\ k # pos BY <1>5, <1>9
  <2> QED BY <1>11, <2>1 DEF IsExchanged
<1>16. PoolIsRanked'
  <2>1. /\ n3Pool \in [1 .. PoolSize -> Fitness]
        /\ \A i \in 1 .. PoolSize : n3Info[i].rank = RanksOf(n3Pool)[i]
    BY <1>1 DEF PoolIsRanked
  <2> QED BY <1>4, <1>6, <1>12, <2>1 DEF PoolIsRanked, n
<1>17. (CutAt(first, last, cut))'
  <2>1. /\ \A k \in 1 .. first - 1 : n3Info[F[k]].rank <= cut
        /\ \A k \in first .. last : n3Info[F[k]].rank = cut
        /\ \A k \in last + 1 .. n : n3Info[F[k]].rank > cut
    BY <1>3 DEF CutAt, F, n
  <2>2. \A k \in 1 .. first - 1 : n3Info'[n3Fronts'[k]].rank <= cut
    <3> TAKE k \in 1 .. first - 1
    <3>1. k \in 1 .. n /\ k < first BY <1>5
    <3> QED BY <1>4, <1>15, <2>1, <3>1
  <2>3. \A k \in first .. last : n3Info'[n3Fronts'[k]].rank = cut BY <1>4, <1>13, <2>1
  <2>4. \A k \in last + 1 .. n : n3Info'[n3Fronts'[k]].rank > cut
    <3> TAKE k \in last + 1 .. n
    <3>1. k \in 1 .. n /\ last < k BY <1>5
    <3> QED BY <1>4, <1>15, <2>1, <3>1
  <2> QED BY <1>3, <1>4, <2>2, <2>3, <2>4 DEF CutAt, n
<1>18. \A k \in 1 .. last : \E l \in 1 .. last : n3Fronts'[k] = F[l]
  <2> TAKE k \in 1 .. last
  <2>1. CASE k < first
    <3>1. k \in 1 .. n BY <1>5
    <3> QED BY <1>15, <2>1, <3>1
  <2>2. CASE ~ (k < first)
    <3>1. k \in first .. last /\ first .. last \subseteq 1 .. last BY <1>5, <2>2
    <3> QED BY <1>13, <3>1
  <2> QED BY <2>1, <2>2
<1>19. \A k \in 1 .. last : (Associated(n3Fronts[k]))'
  <2> TAKE k \in 1 .. last
  <2>1. PICK l \in 1 .. last : n3Fronts'[k] = F[l] BY <1>18
  <2>2. Associated(n3Fronts[l]) BY <1>3
  <2> QED BY <1>4, <2>1, <2>2 DEF Associated, F
<1>20. n3Picked' \in Seq(1 .. PoolSize) /\ Len(n3Picked') <= PopulationSize - (first - 1)
  <2>1. F[c] \in 1 .. PoolSize BY <1>6, <1>10 DEF n
  <2>2. n3Picked \in Seq(1 .. PoolSize) BY <1>3
  <2>3. n3Picked' \in Seq(1 .. PoolSize) /\ Len(n3Picked') = Len(n3Picked) + 1 BY <1>4, <2>1, <2>2
  <2> QED BY <1>4, <1>5, <2>3
<1>21. /\ n3Counts' \in [References -> Nat]
       /\ InOrder(n3Refs', n3Counts')
       /\ ToSet(n3Refs') \subseteq ToSet(n3Refs)
  <2> DEFINE moved == MovedBack(n3Refs, n3Counts', ref)
  <2>1. /\ n3Counts' = [n3Counts EXCEPT ![ref] = @ + 1]
        /\ n3Refs' \in {moved, EraseFirstStable(moved, ref)}
    BY DEF PickFor
  <2>2. n3Counts \in [References -> Nat] /\ InOrder(n3Refs, n3Counts) BY <1>1 DEF NumbersTyped
  <2>3. Served(n3Refs, n3Counts, ref)
    <3> DEFINE at == CHOOSE l \in DOMAIN n3Refs : n3Refs[l] = ref
    <3>1. n3Refs \in Seq(References) BY <2>2 DEF InOrder
    <3>2. DOMAIN n3Refs = 1 .. Len(n3Refs) BY <3>1
    <3>3. at \in DOMAIN n3Refs /\ n3Refs[at] = ref
      <4>1. \E l \in DOMAIN n3Refs : n3Refs[l] = ref BY <1>4 DEF ToSet
      <4> QED BY <4>1
    <3>4. \A k \in 1 .. at : n3Counts[n3Refs[k]] = n3Counts[n3Refs[1]] BY DEF PickFor
    <3> HIDE DEF at
    <3> QED BY <3>2, <3>3, <3>4 DEF Served
  <2>4. InOrder(moved, n3Counts') /\ ToSet(moved) \subseteq ToSet(n3Refs)
    BY <2>1, <2>2, <2>3, MovedBackInOrder
  <2> HIDE DEF moved
  <2>5. /\ InOrder(EraseFirstStable(moved, ref), n3Counts')
        /\ ToSet(EraseFirstStable(moved, ref)) \subseteq ToSet(moved)
    BY <2>4, ErasedInOrder
  <2>6. n3Counts' \in [References -> Nat] BY <2>1, <2>2
  <2>7. CASE n3Refs' = moved BY <2>4, <2>6, <2>7
  <2>8. CASE n3Refs' = EraseFirstStable(moved, ref) BY <2>4, <2>5, <2>6, <2>8
  <2> QED BY <2>1, <2>7, <2>8
<1>22. NumbersTyped'
  <2>1. (InOrder(n3Refs, n3Counts))' BY <1>21 DEF InOrder
  <2>2. n3Ideal \in Vectors /\ n3Nadir \in Vectors /\ n3Extremes \in [Objectives -> Vectors]
    BY <1>1 DEF NumbersTyped
  <2> QED BY <1>4, <1>21, <2>1, <2>2 DEF NumbersTyped
<1>23. FrontsAreCut'
  <2>1. \A d \in ToSet(n3Refs') : \E k \in first .. last : n3Info'[n3Fronts'[k]].ref = d
    <3> TAKE d \in ToSet(n3Refs')
    <3>1. d \in ToSet(n3Refs) BY <1>21
    <3>2. PICK k \in first .. last : n3Info[F[k]].ref = d BY <1>3, <3>1 DEF F
    <3>3. PICK l \in first .. last : n3Fronts'[l] = F[k] BY <1>14
    <3> QED BY <1>4, <3>2, <3>3
  <2> QED BY <1>17, <1>19, <1>20, <2>1 DEF FrontsAreCut
<1>24. ToSet(n3Picked') = ToSet(n3Picked) \cup {F[c]}
  <2>1. n3Picked \in Seq(1 .. PoolSize) /\ n3Picked' = Append(n3Picked, F[c]) BY <1>3, <1>4
  <2>2. /\ DOMAIN n3Picked = 1 .. Len(n3Picked) /\ DOMAIN n3Picked' = 1 .. Len(n3Picked) + 1
        /\ \A k \in 1 .. Len(n3Picked) : n3Picked'[k] = n3Picked[k]
        /\ n3Picked'[Len(n3Picked) + 1] = F[c]
    BY <2>1
  <2>3. 1 .. Len(n3Picked) + 1 = 1 .. Len(n3Picked) \cup {Len(n3Picked) + 1} BY <1>5
  <2> QED BY <2>2, <2>3 DEF ToSet
<1>25. PickedAreClosest'
  <2>1. Len(n3Picked') = Len(n3Picked) + 1
    <3>1. n3Picked \in Seq(1 .. PoolSize) /\ n3Picked' = Append(n3Picked, F[c]) BY <1>3, <1>4
    <3> QED BY <3>1
  <2>2. first + Len(n3Picked') - 1 = pos BY <1>5, <2>1 DEF pos
  <2>3. \A i \in ToSet(n3Picked) :
          /\ \E k \in first .. pos - 1 : F[k] = i
          /\ \A l \in first .. last : n3Info[F[l]].ref = n3Info[i].ref
                                        => n3Info[i].dist <= n3Info[F[l]].dist
    <3>1. n3Partial[1] = first /\ n3Partial[2] = last BY <1>3
    <3>2. PickedAreClosest BY <1>1
    <3> QED BY <3>1, <3>2 DEF PickedAreClosest, F, pos
  <2>4. n3Fronts'[pos] = F[c] BY <1>11 DEF IsExchanged
  <2>5. ASSUME NEW i \in ToSet(n3Picked')
        PROVE  /\ \E k \in first .. pos : n3Fronts'[k] = i
               /\ \A l \in first .. last : n3Info[F[l]].ref = n3Info[i].ref
                                             => n3Info[i].dist <= n3Info[F[l]].dist
    <3>1. pos \in first .. pos BY <1>5
    <3>2. CASE i = F[c] BY <1>9, <2>4, <3>1, <3>2
    <3>3. CASE i \in ToSet(n3Picked)
      <4>1. PICK k \in first .. pos - 1 : F[k] = i BY <2>3, <3>3
      <4>2. CASE k = c BY <2>3, <2>4, <3>1, <3>3, <4>1, <4>2
      <4>3. CASE k # c
        <5>1. k \in 1 .. n /\ k # pos /\ k \in first .. pos BY <1>5
        <5>2. n3Fronts'[k] = i BY <1>11, <4>1, <4>3, <5>1 DEF IsExchanged
        <5> QED BY <2>3, <3>3, <5>1, <5>2
      <4> QED BY <4>2, <4>3
    <3> QED BY <1>24, <3>2, <3>3
  <2>6. ASSUME NEW i \in ToSet(n3Picked'), NEW l \in first .. last,
               n3Info[n3Fronts'[l]].ref = n3Info[i].ref
        PROVE  n3Info[i].dist <= n3Info[n3Fronts'[l]].dist
    BY <1>13, <2>5, <2>6
  <2> QED BY <1>3, <1>4, <2>2, <2>5, <2>6 DEF PickedAreClosest
<1>26. ~ Idle'
  <2>1. 1 \in DOMAIN n3Fronts' BY <1>12 DEF n
  <2> QED BY <2>1 DEF Idle
<1> QED BY <1>16, <1>22, <1>23, <1>25, <1>26 DEF N3IInv

LEMMA N3CreateStep ==
    ASSUME Exact, N3IInv, CreatePopulation
    PROVE  N3IInv'
<1> DEFINE n == PoolSize
           p == n3Pool
           F == n3Fronts
           r == RanksOf(n3Pool)
           S == {F[k] : k \in Places}
           order == [i \in Places |-> F[i]]
<1> USE PoolSizeIsRight
<1>1. ~ Idle /\ NumbersTyped /\ PoolIsRanked /\ FrontsAreCut
  BY DEF N3IInv, CreatePopulation
<1>2. PICK first \in 1 .. PopulationSize + 1, last \in PopulationSize .. PoolSize, cut \in 0 .. PoolSize :
        /\ CutAt(first, last, cut)
        /\ \A k \in 1 .. last : Associated(n3Fronts[k])
  BY <1>1 DEF FrontsAreCut
<1>3. /\ n3Pool' = [i \in Places |-> p[F[i]]]
      /\ n3Info' = [i \in Places |-> n3Info[F[i]]]
      /\ n3Fronts' = <<>> /\ n3Refs' = <<>>
      /\ n3Counts' = n3Counts /\ n3Ideal' = n3Ideal /\ n3Nadir' = n3Nadir /\ n3Extremes' = n3Extremes
  BY DEF CreatePopulation
<1>4. /\ p \in [1 .. n -> Fitness] /\ n3Info \in [1 .. n -> Traits]
      /\ \A i \in 1 .. n : n3Info[i].rank = r[i]
      /\ F \in [1 .. n -> 1 .. n]
      /\ \A i \in 1 .. n : \E k \in 1 .. n : F[k] = i
  BY <1>1 DEF PoolIsRanked
<1>5. r \in [1 .. n -> 0 .. n - 1] BY <1>4, RanksOfIsRanking
<1>6. /\ \A k \in 1 .. first - 1 : n3Info[F[k]].rank <= cut
      /\ \A k \in first .. last : n3Info[F[k]].rank = cut
      /\ \A k \in last + 1 .. n : n3Info[F[k]].rank > cut
  BY <1>2 DEF CutAt
<1>7. Places \subseteq 1 .. last /\ 1 .. last \subseteq 1 .. n BY DEF Places
<1> HIDE DEF F, p, r, n
<1>8. \A k \in 1 .. n : r[F[k]] = n3Info[F[k]].rank /\ r[F[k]] \in Nat
  <2>1. \A k \in 1 .. n : F[k] \in 1 .. n BY <1>4
  <2>2. \A i \in 1 .. n : r[i] = n3Info[i].rank /\ r[i] \in Nat BY <1>4, <1>5
  <2> QED BY <2>1, <2>2
<1>9. \A k \in Places : r[F[k]] <= cut
  <2> TAKE k \in Places
  <2>1. k \in 1 .. last /\ k \in 1 .. n BY <1>7
  <2>2. k \in 1 .. first - 1 \/ k \in first .. last BY <2>1
  <2> QED BY <1>6, <1>8, <2>1, <2>2
<1>10. \A k \in 1 .. n : r[F[k]] < cut => k \in Places
  <2> TAKE k \in 1 .. n
  <2> SUFFICES ASSUME k \notin Places PROVE ~ (r[F[k]] < cut)
    OBVIOUS
  <2>0. n \in Nat BY DEF n
  <2>1. k \in first .. last \/ k \in last + 1 .. n BY <2>0 DEF Places
  <2> QED BY <1>6, <1>8, <2>1
<1>11. S \in SUBSET (1 .. n) BY <1>4, <1>7
<1>12. \A i \in S : r[i] <= cut BY <1>9
<1>13. \A i \in 1 .. n : r[i] < cut => i \in S
  <2> TAKE i \in 1 .. n
  <2> SUFFICES ASSUME r[i] < cut PROVE i \in S
    OBVIOUS
  <2>1. PICK k \in 1 .. n : F[k] = i BY <1>4
  <2> QED BY <1>10, <2>1
<1>14. order \in [Places -> S] /\ \A i \in S : \E m \in Places : order[m] = i OBVIOUS
<1>15. \A i \in Places : order[i] = F[i] OBVIOUS
<1> HIDE DEF S, order
<1>16. IsRanking(RanksOfChosen(r, order), [i \in Places |-> p[order[i]]])
  <2>1. n \in Nat /\ cut \in Nat BY DEF n
  <2>2. p \in [1 .. n -> Fitness] BY <1>4 DEF p
  <2>3. r = RanksOf(p) BY DEF r, p
  <2> HIDE DEF p, r
  <2> QED BY <1>11, <1>12, <1>13, <1>14, <2>1, <2>2, <2>3, ChosenByRank
<1>17. [i \in Places |-> p[order[i]]] = n3Pool' BY <1>3, <1>15
<1>18. RanksOfChosen(r, order) = [i \in Places |-> n3Info'[i].rank]
  <2>1. RanksOfChosen(r, order) = [i \in Places |-> r[F[i]]] BY <1>15 DEF RanksOfChosen
  <2>2. \A i \in Places : n3Info'[i].rank = r[F[i]] BY <1>3, <1>7, <1>8
  <2> QED BY <2>1, <2>2
<1>19. n3Pool' \in [Places -> Fitness] /\ n3Info' \in [Places -> Traits]
  <2>1. \A i \in Places : F[i] \in 1 .. n BY <1>4, <1>7
  <2> QED BY <1>3, <1>4, <2>1
<1>20. \A i \in Places : (Associated(i))'
  <2> TAKE i \in Places
  <2>1. Associated(n3Fronts[i]) BY <1>2, <1>7
  <2> QED BY <1>3, <2>1 DEF Associated, F, p
<1>21. PopulationIsRanked'
  BY <1>16, <1>17, <1>18, <1>19, <1>20 DEF PopulationIsRanked
<1>22. NumbersTyped'
  <2>1. (InOrder(n3Refs, n3Counts))' BY <1>3, EmptyInOrder
  <2> QED BY <1>1, <1>3, <2>1 DEF NumbersTyped
<1>23. Idle' BY <1>3 DEF Idle
<1> QED BY <1>21, <1>22, <1>23 DEF N3IInv

LEMMA N3InvStep == Exact /\ N3IInv /\ [N3Next]_n3Vars => N3IInv'
<1> SUFFICES ASSUME Exact, N3IInv, [N3Next]_n3Vars PROVE N3IInv'
  OBVIOUS
<1>1. CASE \E children \in N3Offspring : N3NextPopulation(children) BY <1>1, N3NextPopulationStep
<1>2. CASE \E ref \in References : PickFor(ref) BY <1>2, N3PickStep
<1>3. CASE CreatePopulation BY <1>3, N3CreateStep
<1>4. CASE UNCHANGED n3Vars
  <2> USE <1>4 DEF n3Vars
  <2>1. NumbersTyped' <=> NumbersTyped BY DEF NumbersTyped, InOrder
  <2>2. PopulationIsRanked' <=> PopulationIsRanked BY DEF PopulationIsRanked, Associated
  <2>3. PoolIsRanked' <=> PoolIsRanked BY DEF PoolIsRanked
  <2>4. FrontsAreCut' <=> FrontsAreCut BY DEF FrontsAreCut, CutAt, Associated
  <2>5. PickedAreClosest' <=> PickedAreClosest BY DEF PickedAreClosest
  <2>6. Idle' <=> Idle BY DEF Idle
  <2> QED BY <2>1, <2>2, <2>3, <2>4, <2>5, <2>6 DEF N3IInv
<1> QED BY <1>1, <1>2, <1>3, <1>4 DEF N3Next

\* What the invariant says of the selections and of the survivors.
LEMMA InvDescribesTraits == N3IInv => TraitsDescribePopulation
<1> SUFFICES ASSUME N3IInv, Idle PROVE
        /\ IsRanking([i \in Places |-> n3Info[i].rank], n3Pool)
        /\ \A i \in Places :
             LET exact == Association(n3Pool[i], n3Ideal, n3Nadir)
             IN  n3Info[i].ref = exact.ref /\ n3Info[i].dist = exact.dist
        /\ \A i, j \in Places :
             paretoCompareLess(n3Pool[i], n3Pool[j]) /\ n3Info[i].ref = n3Info[j].ref
                 => NichedCompare(i, j) = {FALSE}
  BY DEF TraitsDescribePopulation
<1>1. PopulationIsRanked BY DEF N3IInv
<1>2. /\ IsRanking([i \in Places |-> n3Info[i].rank], n3Pool)
      /\ n3Pool \in [Places -> Fitness]
      /\ \A i \in Places : Associated(i)
  BY <1>1 DEF PopulationIsRanked
<1>3. ASSUME NEW i \in Places, NEW j \in Places, paretoCompareLess(n3Pool[i], n3Pool[j]),
             n3Info[i].ref = n3Info[j].ref
      PROVE  NichedCompare(i, j) = {FALSE}
  <2> DEFINE r == [k \in Places |-> n3Info[k].rank]
  <2>1. r[i] = n3Info[i].rank /\ r[j] = n3Info[j].rank OBVIOUS
  <2>2. DOMAIN n3Pool = Places BY <1>2
  <2> HIDE DEF r
  <2>3. r[j] < r[i] /\ r[i] \in Nat /\ r[j] \in Nat BY <1>2, <1>3, <2>2 DEF IsRanking, r
  <2>4. n3Info[i].rank # n3Info[j].rank /\ ~ (n3Info[i].rank < n3Info[j].rank) BY <2>1, <2>3
  <2>5. NichedCompare(i, j) = {n3Info[i].rank < n3Info[j].rank} BY <1>3, <2>4 DEF NichedCompare
  <2>6. (n3Info[i].rank < n3Info[j].rank) = FALSE BY <2>4
  <2> QED BY <2>5, <2>6
<1> QED BY <1>2, <1>3 DEF Associated

LEMMA InvOrdersDirections == N3IInv => LowestCountIsServed
<1> SUFFICES ASSUME N3IInv PROVE LowestCountIsServed
  OBVIOUS
<1>1. InOrder(n3Refs, n3Counts) BY DEF N3IInv, NumbersTyped
<1>2. DOMAIN n3Refs = 1 .. Len(n3Refs) BY <1>1 DEF InOrder
<1> QED BY <1>1, <1>2 DEF InOrder, LowestCountIsServed

LEMMA InvKeepsPicked == Exact /\ N3IInv => PickedSurvive
<1> DEFINE n == PoolSize
           F == n3Fronts
           r == RanksOf(n3Pool)
           kept == {n3Fronts[k] : k \in 1 .. (n3Partial[1] - 1 + Len(n3Picked))}
<1> SUFFICES ASSUME Exact, N3IInv, ~ Idle
             PROVE  /\ IsInjective(n3Fronts)
                    /\ ToSet(n3Picked) \subseteq kept
                    /\ \A k \in DOMAIN n3Picked, l \in n3Partial[1] .. n3Partial[2] :
                         n3Info[n3Fronts[l]].ref = n3Info[n3Picked[k]].ref
                             => n3Info[n3Picked[k]].dist <= n3Info[n3Fronts[l]].dist
                    /\ \A i \in kept, j \in DOMAIN n3Pool \ kept :
                         ~ paretoCompareLess(n3Pool[i], n3Pool[j])
  BY DEF PickedSurvive
<1> USE PoolSizeIsRight
<1>1. NumbersTyped /\ PoolIsRanked /\ FrontsAreCut /\ PickedAreClosest BY DEF N3IInv
<1>2. PICK first \in 1 .. PopulationSize + 1, last \in PopulationSize .. PoolSize, cut \in 0 .. PoolSize :
        /\ CutAt(first, last, cut)
        /\ n3Picked \in Seq(1 .. PoolSize) /\ Len(n3Picked) <= PopulationSize - (first - 1)
  BY <1>1 DEF FrontsAreCut
<1>3. n3Partial = <<first, last>> BY <1>2 DEF CutAt
<1> DEFINE m == first - 1 + Len(n3Picked)
<1>4. m \in 0 .. PopulationSize /\ first - 1 \in 0 .. m /\ first - 1 <= m /\ Len(n3Picked) \in Nat
      /\ first + Len(n3Picked) - 1 = m
  BY <1>2
<1>5. /\ n3Pool \in [1 .. n -> Fitness] /\ n3Info \in [1 .. n -> Traits]
      /\ \A i \in 1 .. n : n3Info[i].rank = r[i]
      /\ F \in [1 .. n -> 1 .. n]
      /\ \A k, l \in 1 .. n : F[k] = F[l] => k = l
      /\ \A i \in 1 .. n : \E k \in 1 .. n : F[k] = i
  BY <1>1 DEF PoolIsRanked
<1>6. IsInjective(n3Fronts) BY <1>5 DEF IsInjective
<1>7. kept = {F[k] : k \in 1 .. m} BY <1>3
<1> HIDE DEF kept, m
<1>8. ToSet(n3Picked) \subseteq kept
  <2> SUFFICES ASSUME NEW i \in ToSet(n3Picked) PROVE i \in kept
    OBVIOUS
  <2>1. PICK k \in first .. first + Len(n3Picked) - 1 : F[k] = i BY <1>1, <1>3 DEF PickedAreClosest
  <2>2. k \in 1 .. m BY <1>4, <2>1
  <2> QED BY <1>7, <2>1, <2>2
<1>9. ASSUME NEW k \in DOMAIN n3Picked, NEW l \in n3Partial[1] .. n3Partial[2],
             n3Info[n3Fronts[l]].ref = n3Info[n3Picked[k]].ref
      PROVE  n3Info[n3Picked[k]].dist <= n3Info[n3Fronts[l]].dist
  <2>1. n3Picked[k] \in ToSet(n3Picked) BY DEF ToSet
  <2> QED BY <1>1, <1>9, <2>1 DEF PickedAreClosest
<1>10. ASSUME NEW i \in kept, NEW j \in DOMAIN n3Pool \ kept
       PROVE  ~ paretoCompareLess(n3Pool[i], n3Pool[j])
  <2>1. r \in [1 .. n -> 0 .. n - 1] /\ IsRanking(r, n3Pool) BY <1>5, RanksOfIsRanking
  <2>2. /\ \A k \in 1 .. first - 1 : n3Info[F[k]].rank <= cut
        /\ \A k \in first .. last : n3Info[F[k]].rank = cut
        /\ \A k \in last + 1 .. n : n3Info[F[k]].rank > cut
    BY <1>2 DEF CutAt
  <2> HIDE DEF F, r, n
  <2>3. PICK k \in 1 .. m : F[k] = i BY <1>7
  <2>4. k \in 1 .. last /\ k \in 1 .. n BY <1>4 DEF n
  <2>5. r[i] <= cut /\ i \in 1 .. n /\ r[i] \in Nat
    <3>1. k \in 1 .. first - 1 \/ k \in first .. last BY <2>4
    <3>2. i \in 1 .. n /\ n3Info[i].rank = r[i] BY <1>5, <2>3, <2>4
    <3>3. r[i] \in Nat BY <2>1, <3>2
    <3> QED BY <2>2, <2>3, <3>1, <3>2, <3>3
  <2>6. PICK l \in 1 .. n : F[l] = j /\ j \in 1 .. n BY <1>5
  <2>7. ~ (l \in 1 .. m) BY <1>7, <2>6
  <2>8. l \in first .. last \/ l \in last + 1 .. n BY <1>4, <2>7 DEF n
  <2>9. r[j] >= cut /\ r[j] \in Nat
    <3>1. n3Info[j].rank = r[j] /\ r[j] \in Nat BY <1>5, <2>1, <2>6
    <3>2. n3Info[F[l]].rank = cut \/ n3Info[F[l]].rank > cut BY <2>2, <2>8
    <3> QED BY <2>6, <3>1, <3>2
  <2>10. ~ (r[j] < r[i]) BY <2>5, <2>9
  <2>11. DOMAIN n3Pool = 1 .. n BY <1>5
  <2> QED BY <2>1, <2>5, <2>6, <2>10, <2>11 DEF IsRanking
<1> QED BY <1>6, <1>8, <1>9, <1>10

\* How often a direction is among the first ones of a sequence.
CountIn(g, upto, ref) == Cardinality({k \in 1 .. upto : g[k] = ref})

LEMMA CountOfOneMore ==
    ASSUME NEW n \in Nat, NEW g, NEW h, NEW ref,
           \A k \in 1 .. n : (h[k] = ref) <=> (g[k] = ref)
    PROVE  /\ CountIn(h, n + 1, ref) = CountIn(g, n, ref) + (IF h[n + 1] = ref THEN 1 ELSE 0)
           /\ CountIn(g, n, ref) \in Nat
<1> DEFINE S == {k \in 1 .. n : g[k] = ref}
           T == {k \in 1 .. n + 1 : h[k] = ref}
<1>1. IsFiniteSet(S) /\ Cardinality(S) \in Nat
  <2>1. S \in SUBSET (1 .. n) OBVIOUS
  <2> HIDE DEF S
  <2> QED BY <2>1, CountsOfPositions
<1>2. \A k : k \in 1 .. n + 1 <=> k \in 1 .. n \/ k = n + 1 OBVIOUS
<1>3. n + 1 \notin S OBVIOUS
<1>4. CASE h[n + 1] = ref
  <2>1. T = S \cup {n + 1} BY <1>2, <1>4
  <2> HIDE DEF S, T
  <2>2. Cardinality(T) = Cardinality(S) + 1 BY <1>1, <1>3, <2>1, FS_AddElement
  <2> QED BY <1>1, <1>4, <2>2 DEF S, T, CountIn
<1>5. CASE h[n + 1] # ref
  <2>1. T = S BY <1>2, <1>5
  <2> HIDE DEF S, T
  <2>2. Cardinality(T) = Cardinality(S) + 0 BY <1>1, <2>1
  <2> QED BY <1>1, <1>5, <2>2 DEF S, T, CountIn
<1> QED BY <1>4, <1>5

\* The directions of the solutions at the positions of the fronts, and of the picks.
RefsAt == [k \in 1 .. PoolSize |-> n3Info[n3Fronts[k]].ref]
RefsPicked == [k \in 1 .. Len(n3Picked) |-> n3Info[n3Picked[k]].ref]

\* As long as no solution was picked again, the picks are at the front of the partial front
\* in the order in which they were made.
CountsFollow ==
    ~ Idle => LET before == n3Partial[1] - 1
                  picks == Len(n3Picked)
              IN  /\ \A ref \in References :
                       n3Counts[ref] = CountIn(RefsAt, before, ref) + CountIn(RefsPicked, picks, ref)
                  /\ IsInjective(n3Picked) =>
                       /\ \A k \in 1 .. picks : n3Fronts[before + k] = n3Picked[k]
                       /\ \A ref \in References : n3Counts[ref] = CountIn(RefsAt, before + picks, ref)

LEMMA CountsStart ==
    ASSUME Exact, N3IInv, NEW children \in N3Offspring, N3NextPopulation(children)
    PROVE  CountsFollow'
<1> SUFFICES ASSUME (~ Idle)' PROVE CountsFollow'
  BY DEF CountsFollow
<1>1. N3IInv' BY N3NextPopulationStep
<1>2. n3Picked' = <<>> /\ Len(n3Picked') = 0 /\ 1 .. 0 = {}
  <2>1. n3Picked' = <<>> BY DEF N3NextPopulation
  <2> QED BY <2>1
<1>3. PICK first \in 1 .. PopulationSize + 1, last \in PopulationSize .. PoolSize : n3Partial' = <<first, last>>
  BY <1>1 DEF N3IInv, FrontsAreCut, CutAt
<1> DEFINE before == first - 1
<1>4. before \in Nat /\ before <= PoolSize /\ before + 0 = before /\ PoolSize \in Nat
      /\ n3Partial'[1] - 1 = before
  BY <1>3, PoolSizeIsRight
<1>5. n3Counts' = [ref \in References |->
                     Cardinality({k \in 1 .. before : n3Info'[n3Fronts'[k]].ref = ref})]
  <2>1. n3Counts' = RecalcNicheCounts(n3Info', n3Fronts', n3Partial'[1] - 1)
    BY DEF N3NextPopulation
  <2> QED BY <1>4, <2>1 DEF RecalcNicheCounts
<1> HIDE DEF before
<1>6. ASSUME NEW ref \in References PROVE n3Counts'[ref] = CountIn(RefsAt', before, ref)
  <2>1. \A k \in 1 .. before : k \in 1 .. PoolSize BY <1>4
  <2>2. \A k \in 1 .. before : RefsAt'[k] = n3Info'[n3Fronts'[k]].ref BY <2>1 DEF RefsAt
  <2>3. {k \in 1 .. before : n3Info'[n3Fronts'[k]].ref = ref} = {k \in 1 .. before : RefsAt'[k] = ref}
    BY <2>2
  <2> QED BY <1>5, <2>3 DEF CountIn
<1>7. ASSUME NEW ref \in References
      PROVE  CountIn(RefsPicked', 0, ref) = 0 /\ CountIn(RefsAt', before, ref) \in Nat
  <2>1. {k \in 1 .. 0 : RefsPicked'[k] = ref} = {} BY <1>2
  <2>2. {k \in 1 .. before : RefsAt'[k] = ref} \in SUBSET (1 .. before) OBVIOUS
  <2> QED BY <1>4, <2>1, <2>2, FS_EmptySet, CountsOfPositions DEF CountIn
<1>8. \A ref \in References :
        /\ n3Counts'[ref] = CountIn(RefsAt', before, ref) + CountIn(RefsPicked', 0, ref)
        /\ n3Counts'[ref] = CountIn(RefsAt', before + 0, ref)
  BY <1>4, <1>6, <1>7
<1> QED BY <1>2, <1>4, <1>8 DEF CountsFollow

LEMMA CountsStay ==
    ASSUME N3IInv, CountsFollow, NEW ref \in References, PickFor(ref)
    PROVE  CountsFollow'
<1> DEFINE n == PoolSize
           F == n3Fronts
           G == n3Fronts'
           picks == Len(n3Picked)
<1>1. PICK first \in 1 .. PopulationSize + 1, last \in PopulationSize .. PoolSize,
           cut \in 0 .. PoolSize, c \in 1 .. PoolSize : Picks(first, last, cut, c, ref)
  BY PickForPicks
<1> DEFINE before == first - 1
           pos == first + picks
<1>2. /\ n3Partial = <<first, last>> /\ n3Partial' = n3Partial /\ n3Info' = n3Info
      /\ n3Picked \in Seq(1 .. n) /\ n3Picked' = Append(n3Picked, F[c])
      /\ pos \in first .. last /\ pos \in 1 .. n /\ c \in first .. last /\ c \in 1 .. n
      /\ n3Info[F[c]].ref = ref /\ IsExchanged(G, F, n, c, pos)
  BY <1>1 DEF Picks
<1>3. /\ first \in 1 .. n /\ last \in 1 .. n /\ picks \in Nat /\ n \in Nat /\ before \in Nat
      /\ n3Partial[1] - 1 = before /\ n3Partial'[1] - 1 = before
      /\ before + picks + 1 = pos /\ before + (picks + 1) = pos
  <2>1. first \in 1 .. PoolSize /\ last \in 1 .. PoolSize /\ Len(n3Picked) \in Nat BY <1>1 DEF Picks
  <2> QED BY <1>2, <2>1, PoolSizeIsRight
<1>4. n3Counts' = [n3Counts EXCEPT ![ref] = @ + 1] /\ n3Counts \in [References -> Nat] /\ ~ Idle
      /\ F \in [1 .. n -> 1 .. n] /\ \A k, l \in 1 .. n : F[k] = F[l] => k = l
  BY DEF PickFor, N3IInv, NumbersTyped, PoolIsRanked
<1>5. /\ \A r \in References :
           n3Counts[r] = CountIn(RefsAt, before, r) + CountIn(RefsPicked, picks, r)
      /\ IsInjective(n3Picked) =>
           /\ \A k \in 1 .. picks : F[before + k] = n3Picked[k]
           /\ \A r \in References : n3Counts[r] = CountIn(RefsAt, before + picks, r)
  BY <1>3, <1>4 DEF CountsFollow
<1>6. /\ Len(n3Picked') = picks + 1 /\ n3Picked'[picks + 1] = F[c]
      /\ \A k \in 1 .. picks : n3Picked'[k] = n3Picked[k] /\ k \in 1 .. picks + 1
      /\ picks + 1 \in 1 .. picks + 1
      /\ DOMAIN n3Picked = 1 .. picks /\ DOMAIN n3Picked' = 1 .. picks + 1
  BY <1>2, <1>3
<1> HIDE DEF n, F, G, picks, before, pos
<1>7. \A k \in 1 .. before : k \in 1 .. n /\ k # c /\ k # pos BY <1>2, <1>3 DEF before
<1>8. /\ \A k \in 1 .. before : RefsAt'[k] = RefsAt[k]
      /\ \A k \in 1 .. picks : RefsPicked'[k] = RefsPicked[k]
      /\ RefsPicked'[picks + 1] = ref
  <2>1. \A k \in 1 .. n : RefsAt[k] = n3Info[F[k]].ref /\ RefsAt'[k] = n3Info[G[k]].ref
    BY <1>2 DEF RefsAt, n, F, G
  <2>2. \A k \in 1 .. before : G[k] = F[k] BY <1>2, <1>7 DEF IsExchanged
  <2>3. \A k \in 1 .. before : RefsAt'[k] = RefsAt[k] BY <1>7, <2>1, <2>2
  <2>4. \A k \in 1 .. picks : RefsPicked[k] = n3Info[n3Picked[k]].ref BY DEF RefsPicked, picks
  <2>5. \A k \in 1 .. picks + 1 : RefsPicked'[k] = n3Info[n3Picked'[k]].ref
    BY <1>2, <1>6 DEF RefsPicked
  <2> QED BY <1>2, <1>6, <2>3, <2>4, <2>5
<1>9. \A r \in References : n3Counts'[r] = n3Counts[r] + (IF r = ref THEN 1 ELSE 0) BY <1>4
<1>10. ASSUME NEW r \in References
       PROVE  n3Counts'[r] = CountIn(RefsAt', before, r) + CountIn(RefsPicked', picks + 1, r)
  <2>1. /\ CountIn(RefsPicked', picks + 1, r) = CountIn(RefsPicked, picks, r) + (IF ref = r THEN 1 ELSE 0)
        /\ CountIn(RefsPicked, picks, r) \in Nat
    <3> DEFINE g == RefsPicked
               h == RefsPicked'
    <3>1. (\A k \in 1 .. picks : h[k] = g[k]) /\ h[picks + 1] = ref BY <1>8
    <3> HIDE DEF g, h
    <3>2. \A k \in 1 .. picks : (h[k] = r) <=> (g[k] = r) BY <3>1
    <3>3. /\ CountIn(h, picks + 1, r) = CountIn(g, picks, r) + (IF h[picks + 1] = r THEN 1 ELSE 0)
          /\ CountIn(g, picks, r) \in Nat
      BY <1>3, <3>2, CountOfOneMore
    <3> QED BY <3>1, <3>3 DEF g, h
  <2>2. CountIn(RefsAt', before, r) = CountIn(RefsAt, before, r) /\ CountIn(RefsAt, before, r) \in Nat
    <3>1. {k \in 1 .. before : RefsAt'[k] = r} = {k \in 1 .. before : RefsAt[k] = r} BY <1>8
    <3>2. {k \in 1 .. before : RefsAt[k] = r} \in SUBSET (1 .. before) OBVIOUS
    <3> QED BY <1>3, <3>1, <3>2, CountsOfPositions DEF CountIn
  <2> QED BY <1>5, <1>9, <2>1, <2>2
<1>11. ASSUME IsInjective(n3Picked')
       PROVE  /\ \A k \in 1 .. picks + 1 : G[before + k] = n3Picked'[k]
              /\ \A r \in References : n3Counts'[r] = CountIn(RefsAt', before + (picks + 1), r)
  <2>1. IsInjective(n3Picked)
    <3> SUFFICES ASSUME NEW k \in 1 .. picks, NEW l \in 1 .. picks, n3Picked[k] = n3Picked[l]
                 PROVE  k = l
      BY <1>6 DEF IsInjective
    <3> QED BY <1>6, <1>11 DEF IsInjective
  <2>2. \A k \in 1 .. picks : F[before + k] = n3Picked[k] BY <1>5, <2>1
  <2>3. \A k \in 1 .. picks : before + k # c
    <3> SUFFICES ASSUME NEW k \in 1 .. picks, before + k = c PROVE FALSE
      OBVIOUS
    <3>1. n3Picked'[k] = n3Picked'[picks + 1] BY <1>6, <2>2
    <3>2. k = picks + 1 BY <1>6, <1>11, <3>1 DEF IsInjective
    <3> QED BY <1>3, <3>2
  <2>4. \A k \in 1 .. picks : before + k \in 1 .. n /\ before + k # pos BY <1>2, <1>3
  <2>5. \A k \in 1 .. picks : G[before + k] = F[before + k] BY <1>2, <2>3, <2>4 DEF IsExchanged
  <2>6. G[pos] = F[c] BY <1>2 DEF IsExchanged
  <2>7. \A k \in 1 .. picks + 1 : G[before + k] = n3Picked'[k]
    <3> TAKE k \in 1 .. picks + 1
    <3>1. CASE k = picks + 1 BY <1>3, <1>6, <2>6, <3>1
    <3>2. CASE k # picks + 1
      <4>1. k \in 1 .. picks BY <1>3, <3>2
      <4> QED BY <1>6, <2>2, <2>5, <4>1
    <3> QED BY <3>1, <3>2
  <2>8. \A k \in 1 .. before + picks : k \in 1 .. n /\ k # c /\ k # pos
    <3> TAKE k \in 1 .. before + picks
    <3>1. CASE k <= before
      <4>1. k \in 1 .. before BY <1>3, <3>1
      <4> QED BY <1>7, <4>1
    <3>2. CASE ~ (k <= before)
      <4>1. k - before \in 1 .. picks /\ before + (k - before) = k BY <1>3, <3>2
      <4> QED BY <2>3, <2>4, <4>1
    <3> QED BY <3>1, <3>2
  <2>9. /\ \A k \in 1 .. before + picks : RefsAt'[k] = RefsAt[k]
        /\ RefsAt'[before + picks + 1] = ref
    <3>1. \A k \in 1 .. n : RefsAt[k] = n3Info[F[k]].ref /\ RefsAt'[k] = n3Info[G[k]].ref
      BY <1>2 DEF RefsAt, n, F, G
    <3>2. \A k \in 1 .. before + picks : G[k] = F[k] BY <1>2, <2>8 DEF IsExchanged
    <3> QED BY <1>2, <1>3, <2>6, <2>8, <3>1, <3>2
  <2>10. ASSUME NEW r \in References PROVE n3Counts'[r] = CountIn(RefsAt', before + (picks + 1), r)
    <3> DEFINE g == RefsAt
               h == RefsAt'
               m == before + picks
    <3>1. (\A k \in 1 .. m : h[k] = g[k]) /\ h[m + 1] = ref /\ m \in Nat BY <1>3, <2>9
    <3>2. m + 1 = before + (picks + 1) BY <1>3
    <3>3. n3Counts[r] = CountIn(g, m, r) BY <1>5, <2>1
    <3> HIDE DEF g, h, m
    <3>4. \A k \in 1 .. m : (h[k] = r) <=> (g[k] = r) BY <3>1
    <3>5. CountIn(h, m + 1, r) = CountIn(g, m, r) + (IF h[m + 1] = r THEN 1 ELSE 0)
      BY <3>1, <3>4, CountOfOneMore
    <3>6. n3Counts'[r] = CountIn(h, m + 1, r) BY <1>9, <3>1, <3>3, <3>5
    <3> QED BY <3>2, <3>6 DEF h
  <2> QED BY <2>7, <2>10
<1> QED BY <1>3, <1>6, <1>10, <1>11 DEF CountsFollow, G

LEMMA CountsStep == Exact /\ N3IInv /\ CountsFollow /\ [N3Next]_n3Vars => CountsFollow'
<1> SUFFICES ASSUME Exact, N3IInv, CountsFollow, [N3Next]_n3Vars PROVE CountsFollow'
  OBVIOUS
<1>1. CASE \E children \in N3Offspring : N3NextPopulation(children) BY <1>1, CountsStart
<1>2. CASE \E ref \in References : PickFor(ref) BY <1>2, CountsStay
<1>3. CASE CreatePopulation
  <2>1. Idle' BY <1>3 DEF CreatePopulation, Idle
  <2> QED BY <2>1 DEF CountsFollow
<1>4. CASE UNCHANGED n3Vars BY <1>4 DEF n3Vars, CountsFollow, RefsAt, RefsPicked, Idle
<1> QED BY <1>1, <1>2, <1>3, <1>4 DEF N3Next

LEMMA CountsDescribe == N3IInv /\ CountsFollow => CountsDescribeKept
<1> SUFFICES ASSUME N3IInv, CountsFollow, ~ Idle, NEW ref \in References
             PROVE  LET before == n3Partial[1] - 1
                    IN  /\ n3Counts[ref] = Cardinality(SolutionsAt(1..before, ref)) + Cardinality(PicksFor(ref))
                        /\ IsInjective(n3Picked) =>
                             n3Counts[ref] = Cardinality(SolutionsAt(1..before + Len(n3Picked), ref))
  BY DEF CountsDescribeKept
<1>1. PICK first \in 1 .. PopulationSize + 1, last \in PopulationSize .. PoolSize :
        /\ n3Partial = <<first, last>>
        /\ n3Picked \in Seq(1 .. PoolSize) /\ Len(n3Picked) <= PopulationSize - (first - 1)
  BY DEF N3IInv, FrontsAreCut, CutAt
<1> DEFINE before == first - 1
           picks == Len(n3Picked)
<1>2. /\ before \in Nat /\ picks \in Nat /\ before + picks <= PoolSize /\ PoolSize \in Nat
      /\ n3Partial[1] - 1 = before /\ DOMAIN n3Picked = 1 .. picks
  BY <1>1, PoolSizeIsRight
<1> HIDE DEF before, picks
<1>3. ASSUME NEW m \in 0 .. PoolSize PROVE CountIn(RefsAt, m, ref) = Cardinality(SolutionsAt(1 .. m, ref))
  <2>1. \A k \in 1 .. m : k \in 1 .. PoolSize BY <1>2
  <2>2. {k \in 1 .. m : RefsAt[k] = ref} = SolutionsAt(1 .. m, ref) BY <2>1 DEF RefsAt, SolutionsAt
  <2> QED BY <2>2 DEF CountIn
<1>4. CountIn(RefsPicked, picks, ref) = Cardinality(PicksFor(ref))
  <2>1. {k \in 1 .. picks : RefsPicked[k] = ref} = PicksFor(ref) BY <1>2 DEF RefsPicked, PicksFor, picks
  <2> QED BY <2>1 DEF CountIn
<1>5. before \in 0 .. PoolSize /\ before + picks \in 0 .. PoolSize BY <1>2
<1>6. /\ n3Counts[ref] = CountIn(RefsAt, before, ref) + CountIn(RefsPicked, picks, ref)
      /\ IsInjective(n3Picked) => n3Counts[ref] = CountIn(RefsAt, before + picks, ref)
  BY <1>2 DEF CountsFollow, picks
<1> QED BY <1>2, <1>3, <1>4, <1>5, <1>6 DEF picks

(* NSGA-III: what sol_info_ says of a population is what associating it    *)
(* anew would; while the loop of nextPopulationImpl picks, the directions  *)
(* stay ordered by their niche counts, which are the numbers of the        *)
(* solutions kept until one is picked again; its swaps lose no solution    *)
(* that was picked and keep none that a discarded one dominates; for any   *)
(* lines, fitness vectors and children, with an exact comparison.          *)
THEOREM NichesStayServed ==
    ASSUME Exact
    PROVE  N3Spec => []NichesAreServed
<1>1. N3IInv /\ CountsFollow => NichesAreServed
  BY InvDescribesTraits, InvOrdersDirections, InvKeepsPicked, CountsDescribe DEF NichesAreServed
<1>2. N3Init => N3IInv /\ CountsFollow
  <2>1. N3Init => CountsFollow BY DEF N3Init, CountsFollow, Idle
  <2> QED BY <2>1, N3InvInit
<1>3. N3IInv /\ CountsFollow /\ [N3Next]_n3Vars => (N3IInv /\ CountsFollow)' BY N3InvStep, CountsStep
<1> QED BY <1>1, <1>2, <1>3, PTL DEF N3Spec

-----------------------------------------------------------------------------
(* The single-objective algorithm: replacements *)

LEMMA GreatestOfRange ==
    ASSUME NEW n \in Nat \ {0}, NEW f \in [1 .. n -> Int]
    PROVE  Max(Range(f)) \in Range(f) /\ \A i \in 1 .. n : f[i] <= Max(Range(f))
<1>1. 1 .. n \in SUBSET Nat /\ IsFiniteSet(1 .. n) /\ 1 .. n # {}
  <2>1. IsFiniteSet(1 .. n) BY FS_Interval
  <2>2. 1 \in 1 .. n /\ 1 .. n \subseteq Nat OBVIOUS
  <2> QED BY <2>1, <2>2
<1>2. PICK i \in 1 .. n : \A j \in 1 .. n : f[j] <= f[i] BY <1>1, FirstOfExtremes
<1>3. f[i] \in Range(f) /\ \A y \in Range(f) : f[i] >= y BY <1>2 DEF Range
<1>4. \E x \in Range(f) : \A y \in Range(f) : x >= y BY <1>3
<1>5. Max(Range(f)) = CHOOSE x \in Range(f) : \A y \in Range(f) : x >= y BY DEF Max
<1>6. Max(Range(f)) \in Range(f) /\ \A y \in Range(f) : Max(Range(f)) >= y BY <1>4, <1>5
<1>7. \A k \in 1 .. n : f[k] \in Range(f) BY DEF Range
<1>8. Range(f) \subseteq Int BY DEF Range
<1> QED BY <1>6, <1>7, <1>8

\* argsort with a descending comparison, of numbers that are compared exactly.
Descends(order, n, s) ==
    /\ order \in [1 .. n -> 1 .. n]
    /\ \A k, l \in 1 .. n : order[k] = order[l] => k = l
    /\ \A k \in 1 .. n, i \in 1 .. n : k = 1 => s[i] <= s[order[k]]

LEMMA ArgsortDescends ==
    ASSUME Exact, NEW n \in Nat, NEW s \in [1 .. n -> Int]
    PROVE  Descends(Argsort(s, Descending), n, s)
<1> DEFINE key == [k \in 1 .. n |-> - s[k]]
           L == LessByKey(n, key)
           order == Argsort(s, Descending)
<1>1. key \in [1 .. n -> Int] OBVIOUS
<1>2. \A i, j \in 1 .. n : key[i] < key[j] <=> Descending(s[i], s[j])
  BY DEF Descending, floatIsLess, Exact
<1>3. order = Listed(1 .. n, Stable(n, L))
  <2> DEFINE Less(i, j) == Descending(s[i], s[j])
             before(i) == {j \in DOMAIN s : Less(j, i) \/ (~ Less(i, j) /\ j < i)}
  <2>1. order = [k \in DOMAIN s |-> CHOOSE i \in DOMAIN s : Cardinality(before(i)) = k - 1]
    BY DEF Argsort
  <2>2. \A i \in 1 .. n : before(i) = Preceding(1 .. n, Stable(n, L), i)
    <3> HIDE DEF key
    <3>1. \A i, j \in 1 .. n : <<i, j>> \in L <=> Less(i, j) BY <1>2 DEF LessByKey
    <3>2. DOMAIN s = 1 .. n OBVIOUS
    <3> HIDE DEF L, Less
    <3>3. \A i, j \in 1 .. n : <<i, j>> \in Stable(n, L) <=> Less(i, j) \/ (~ Less(j, i) /\ i < j)
      BY <3>1 DEF Stable
    <3> QED BY <3>2, <3>3 DEF Preceding
  <2>3. Cardinality(1 .. n) = n BY FS_Interval
  <2>4. DOMAIN s = 1 .. n OBVIOUS
  <2> HIDE DEF before, L, order
  <2> QED BY <2>1, <2>2, <2>3, <2>4 DEF Listed
<1> HIDE DEF order, key
<1>4. Sorts(order, n, L) BY <1>1, <1>3, KeysAreOrdered, ListedSorts
<1>5. ASSUME NEW k \in 1 .. n, NEW i \in 1 .. n, k = 1 PROVE s[i] <= s[order[k]]
  <2>1. PICK l \in 1 .. n : order[l] = i BY <1>4 DEF Sorts
  <2>2. CASE l = 1 BY <1>5, <2>1, <2>2
  <2>3. CASE l # 1
    <3>1. k < l /\ order[k] \in 1 .. n BY <1>4, <1>5, <2>3 DEF Sorts
    <3>2. <<order[l], order[k]>> \notin L BY <1>4, <3>1 DEF Sorts
    <3>3. ~ (key[i] < key[order[k]]) BY <2>1, <3>1, <3>2 DEF LessByKey
    <3>4. ~ Descending(s[i], s[order[k]]) BY <1>2, <3>1, <3>3
    <3>5. s[i] \in Int /\ s[order[k]] \in Int BY <3>1
    <3> QED BY <3>4, <3>5 DEF Descending, floatIsLess, Exact
  <2> QED BY <2>2, <2>3
<1>6. Descends(order, n, s) BY <1>4, <1>5 DEF Sorts, Descends
<1> QED BY <1>6 DEF order

-----------------------------------------------------------------------------
LEMMA SogaSizes ==
    SgSize \in Nat /\ SgSize > 1 /\ SgSize \in Nat \ {0} /\ SgValues \subseteq Int
BY SogaAssumption

SgInv == sgPopulation \in [1 .. SgSize -> SgValues] /\ sgReplacement \in Replacements

LEMMA SogaPool ==
    ASSUME sgPopulation \in [1 .. SgSize -> SgValues], NEW children \in SgOffspring
    PROVE  LET both == sgPopulation \o children
           IN  /\ both \in [1 .. SgSize + SgSize -> SgValues]
               /\ \A i \in 1 .. SgSize : both[i] = sgPopulation[i]
               /\ SubSeq(both, 1, SgSize) = sgPopulation
<1> DEFINE both == sgPopulation \o children
<1> USE SogaSizes
<1>1. children \in [1 .. SgSize -> SgValues] BY SogaAssumption
<1>2. Len(sgPopulation) = SgSize /\ Len(children) = SgSize /\ sgPopulation \in Seq(SgValues)
      /\ children \in Seq(SgValues)
  BY <1>1
<1>3. both \in Seq(SgValues) /\ Len(both) = SgSize + SgSize BY <1>2
<1>4. \A i \in 1 .. SgSize : both[i] = sgPopulation[i] BY <1>2
<1> HIDE DEF both
<1>5. both \in [1 .. SgSize + SgSize -> SgValues] BY <1>3
<1>6. /\ SubSeq(both, 1, SgSize) \in Seq(SgValues) /\ Len(SubSeq(both, 1, SgSize)) = SgSize
      /\ \A i \in 1 .. SgSize : SubSeq(both, 1, SgSize)[i] = both[i]
  BY <1>3
<1>7. SubSeq(both, 1, SgSize) = [i \in 1 .. SgSize |-> sgPopulation[i]] BY <1>4, <1>6
<1>8. sgPopulation = [i \in 1 .. SgSize |-> sgPopulation[i]] OBVIOUS
<1>9. SubSeq(both, 1, SgSize) = sgPopulation BY <1>7, <1>8
<1> QED BY <1>4, <1>5, <1>9 DEF both

\* What is left: different solutions of both generations, the best one first unless only
\* children are kept.
Survives(left, replacement, both) ==
    /\ left \in [1 .. SgSize -> 1 .. SgSize + SgSize]
    /\ \A i, j \in 1 .. SgSize : left[i] = left[j] => i = j
    /\ (replacement.method = "best" \/ (replacement.method = "elitism" /\ replacement.n > 0))
         => \A i \in 1 .. SgSize : both[i] <= both[left[1]]

LEMMA KeepBestSurvives ==
    ASSUME Exact, NEW both \in [1 .. SgSize + SgSize -> SgValues], NEW replacement
    PROVE  Survives(KeepBest(both), replacement, both)
<1> DEFINE n == SgSize + SgSize
           order == Argsort(both, Descending)
           left == SubSeq(order, 1, SgSize)
<1> USE SogaSizes
<1>1. Descends(order, n, both)
  <2>1. both \in [1 .. n -> Int] /\ n \in Nat
    <3>1. \A i \in 1 .. n : both[i] \in Int OBVIOUS
    <3> QED BY <3>1
  <2> HIDE DEF n, order
  <2> QED BY <2>1, ArgsortDescends DEF order
<1> HIDE DEF order
<1>2. /\ order \in [1 .. n -> 1 .. n]
      /\ \A k, l \in 1 .. n : order[k] = order[l] => k = l
      /\ \A i \in 1 .. n : both[i] <= both[order[1]]
  <2>1. 1 \in 1 .. n OBVIOUS
  <2> HIDE DEF n
  <2> QED BY <1>1, <2>1 DEF Descends
<1>3. order \in Seq(1 .. n) /\ Len(order) = n BY <1>2
<1>4. /\ left \in Seq(1 .. n) /\ Len(left) = SgSize
      /\ \A i \in 1 .. SgSize : left[i] = order[i]
  <2>1. \A i \in 1 .. SgSize : order[i] \in 1 .. n
    <3>1. \A i \in 1 .. SgSize : i \in 1 .. n OBVIOUS
    <3> HIDE DEF n
    <3> QED BY <1>2, <3>1
  <2>2. SgSize \in Int /\ 1 \in Int /\ 1 <= SgSize OBVIOUS
  <2>3. /\ left \in Seq(1 .. n) /\ Len(left) = SgSize - 1 + 1
        /\ \A i \in 1 .. SgSize - 1 + 1 : left[i] = order[1 + i - 1]
    <3> HIDE DEF n
    <3> QED BY <2>1, <2>2, SubSeqProperties
  <2>4. SgSize - 1 + 1 = SgSize /\ \A i \in 1 .. SgSize : 1 + i - 1 = i OBVIOUS
  <2> QED BY <2>3, <2>4
<1> HIDE DEF left
<1>5. left \in [1 .. SgSize -> 1 .. n] BY <1>4
<1>6. \A i, j \in 1 .. SgSize : left[i] = left[j] => i = j
  <2>1. \A i \in 1 .. SgSize : i \in 1 .. n OBVIOUS
  <2> QED BY <1>2, <1>4, <2>1
<1>7. \A i \in 1 .. SgSize : both[i] <= both[left[1]]
  <2>1. \A i \in 1 .. SgSize : i \in 1 .. n OBVIOUS
  <2>2. left[1] = order[1] BY <1>4
  <2> QED BY <1>2, <2>1, <2>2
<1> QED BY <1>5, <1>6, <1>7 DEF Survives, KeepBest, left, order

LEMMA SameShift ==
    ASSUME NEW s \in Int, NEW e \in Int, NEW i \in Int, NEW j \in Int, s + i - e = s + j - e
    PROVE  i = j
OBVIOUS

LEMMA ElitismSurvives ==
    ASSUME Exact, NEW both \in [1 .. SgSize + SgSize -> SgValues],
           NEW parents \in [1 .. SgSize -> SgValues], SubSeq(both, 1, SgSize) = parents,
           \A i \in 1 .. SgSize : both[i] = parents[i],
           NEW replacement, replacement.n \in Nat, replacement.method = "elitism"
    PROVE  Survives(Elitism(both, replacement.n), replacement, both)
<1> DEFINE elite == Min({replacement.n, SgSize})
           sorted == Argsort(parents, Descending)
           left == [i \in 1 .. SgSize |-> IF i <= elite THEN sorted[i] ELSE SgSize + i - elite]
<1> USE SogaSizes
<1>1. Elitism(both, replacement.n) = left BY DEF Elitism
<1>2. elite \in 0 .. SgSize /\ (replacement.n > 0 => elite > 0)
  <2>1. replacement.n \in Int /\ SgSize \in Int OBVIOUS
  <2>2. elite = IF replacement.n <= SgSize THEN replacement.n ELSE SgSize BY <2>1, SmallerOfTwo
  <2> HIDE DEF elite
  <2> QED BY <2>2
<1>3. Descends(sorted, SgSize, parents)
  <2>1. parents \in [1 .. SgSize -> Int] OBVIOUS
  <2> HIDE DEF sorted
  <2> QED BY <2>1, ArgsortDescends DEF sorted
<1> HIDE DEF elite, sorted
<1>4. /\ sorted \in [1 .. SgSize -> 1 .. SgSize]
      /\ \A k, l \in 1 .. SgSize : sorted[k] = sorted[l] => k = l
      /\ \A i \in 1 .. SgSize : parents[i] <= parents[sorted[1]]
  <2>1. 1 \in 1 .. SgSize OBVIOUS
  <2> QED BY <1>3, <2>1 DEF Descends
<1>5. \A i \in 1 .. SgSize : /\ i <= elite => left[i] = sorted[i] /\ left[i] \in 1 .. SgSize
                             /\ ~ (i <= elite) => /\ left[i] = SgSize + i - elite
                                                  /\ left[i] \in SgSize + 1 .. SgSize + SgSize
  <2> TAKE i \in 1 .. SgSize
  <2>1. left[i] = IF i <= elite THEN sorted[i] ELSE SgSize + i - elite OBVIOUS
  <2>2. sorted[i] \in 1 .. SgSize BY <1>4
  <2> HIDE DEF left
  <2>3. CASE i <= elite BY <2>1, <2>2, <2>3
  <2>4. CASE ~ (i <= elite) BY <1>2, <2>1, <2>4
  <2> QED BY <2>3, <2>4
<1>6. left = [i \in 1 .. SgSize |-> left[i]] OBVIOUS
<1> HIDE DEF left
<1>7. left \in [1 .. SgSize -> 1 .. SgSize + SgSize]
  <2>1. \A i \in 1 .. SgSize : left[i] \in 1 .. SgSize + SgSize BY <1>5
  <2> QED BY <1>6, <2>1
<1>8. ASSUME NEW i \in 1 .. SgSize, NEW j \in 1 .. SgSize, left[i] = left[j] PROVE i = j
  <2>1. CASE i <= elite /\ j <= elite
    <3>1. left[i] = sorted[i] /\ left[j] = sorted[j] BY <1>5, <2>1
    <3>2. sorted[i] = sorted[j] BY <1>8, <3>1
    <3> QED BY <1>4, <3>2
  <2>2. CASE ~ (i <= elite) /\ ~ (j <= elite)
    <3>1. left[i] = SgSize + i - elite /\ left[j] = SgSize + j - elite BY <1>5, <2>2
    <3>2. SgSize + i - elite = SgSize + j - elite BY <1>8, <3>1
    <3>3. SgSize \in Int /\ elite \in Int /\ i \in Int /\ j \in Int BY <1>2
    <3> QED BY <3>2, <3>3, SameShift
  <2>3. CASE (i <= elite) # (j <= elite) BY <1>2, <1>5, <1>8, <2>3
  <2> QED BY <2>1, <2>2, <2>3
<1>9. ASSUME replacement.n > 0, NEW i \in 1 .. SgSize PROVE both[i] <= both[left[1]]
  <2>1. 1 \in 1 .. SgSize /\ 1 <= elite BY <1>2, <1>9
  <2>2. left[1] = sorted[1] /\ sorted[1] \in 1 .. SgSize BY <1>4, <1>5, <2>1
  <2> QED BY <1>4, <2>2
<1> QED BY <1>1, <1>7, <1>8, <1>9 DEF Survives

LEMMA ReplacementSurvives ==
    ASSUME Exact, SgInv, NEW children \in SgOffspring
    PROVE  Survives(SurvivorsOf(sgReplacement, sgPopulation \o children), sgReplacement,
                    sgPopulation \o children)
<1> DEFINE both == sgPopulation \o children
           left == SurvivorsOf(sgReplacement, both)
<1> USE SogaSizes
<1>1. /\ both \in [1 .. SgSize + SgSize -> SgValues]
      /\ \A i \in 1 .. SgSize : both[i] = sgPopulation[i]
      /\ SubSeq(both, 1, SgSize) = sgPopulation
      /\ sgPopulation \in [1 .. SgSize -> SgValues]
  BY SogaPool DEF SgInv
<1> HIDE DEF both
<1>2. CASE sgReplacement.method = "children"
  <2>1. left = KeepChildren BY <1>2 DEF SurvivorsOf
  <2>2. left = [i \in 1 .. SgSize |-> SgSize + i] BY <2>1 DEF KeepChildren
  <2> HIDE DEF left
  <2>3. left \in [1 .. SgSize -> 1 .. SgSize + SgSize] BY <2>2
  <2> QED BY <1>2, <2>2, <2>3 DEF Survives, left, both
<1>3. CASE sgReplacement.method = "best"
  <2>1. left = KeepBest(both) BY <1>3 DEF SurvivorsOf
  <2> QED BY <1>1, <2>1, KeepBestSurvives DEF both
<1>4. CASE sgReplacement.method = "elitism"
  <2>1. left = Elitism(both, sgReplacement.n) BY <1>4 DEF SurvivorsOf
  <2>2. sgReplacement.n \in Nat BY <1>4, SogaAssumption DEF SgInv, Replacements
  <2>3. Survives(Elitism(both, sgReplacement.n), sgReplacement, both)
    BY <1>1, <1>4, <2>2, ElitismSurvives
  <2> QED BY <2>1, <2>3 DEF both
<1> QED BY <1>2, <1>3, <1>4 DEF SgInv, Replacements

LEMMA SgInvInit == SgInit => SgInv
BY DEF SgInit, SgInv

LEMMA SgInvStep == Exact /\ SgInv /\ [SgNext]_sgVars => SgInv'
<1> SUFFICES ASSUME Exact, SgInv, [SgNext]_sgVars PROVE SgInv'
  OBVIOUS
<1>1. CASE PrepareSelections BY <1>1 DEF PrepareSelections, SgInv
<1>2. ASSUME NEW children \in SgOffspring, SgNextPopulation(children) PROVE SgInv'
  <2> DEFINE both == sgPopulation \o children
             left == SurvivorsOf(sgReplacement, both)
  <2>1. sgPopulation' = [i \in 1 .. SgSize |-> both[left[i]]] /\ sgReplacement' = sgReplacement
    BY <1>2 DEF SgNextPopulation
  <2>2. both \in [1 .. SgSize + SgSize -> SgValues] BY SogaPool DEF SgInv
  <2>3. left \in [1 .. SgSize -> 1 .. SgSize + SgSize] BY ReplacementSurvives DEF Survives
  <2> HIDE DEF both, left
  <2>4. \A i \in 1 .. SgSize : both[left[i]] \in SgValues BY <2>2, <2>3
  <2> QED BY <2>1, <2>4 DEF SgInv
<1>3. CASE SetSelection BY <1>3 DEF SetSelection, SgInv
<1>4. CASE SetReplacement BY <1>4 DEF SetReplacement, SgInv
<1>5. CASE UNCHANGED sgVars BY <1>5 DEF sgVars, SgInv
<1> QED BY <1>1, <1>2, <1>3, <1>4, <1>5 DEF SgNext

\* What a generation does to the population.
LEMMA GenerationKeepsTheBest ==
    ASSUME Exact, SgInv, NEW children \in SgOffspring, SgNextPopulation(children)
    PROVE  /\ IsInjective(sgSurvivors')
           /\ (sgReplacement.method = "best" \/ (sgReplacement.method = "elitism" /\ sgReplacement.n > 0))
                  => Max(Range(sgPopulation)) <= Max(Range(sgPopulation'))
<1> DEFINE both == sgPopulation \o children
           left == SurvivorsOf(sgReplacement, both)
<1> USE SogaSizes
<1>1. sgSurvivors' = left /\ sgPopulation' = [i \in 1 .. SgSize |-> both[left[i]]]
  BY DEF SgNextPopulation
<1>2. /\ both \in [1 .. SgSize + SgSize -> SgValues]
      /\ \A i \in 1 .. SgSize : both[i] = sgPopulation[i]
      /\ sgPopulation \in [1 .. SgSize -> SgValues]
  BY SogaPool DEF SgInv
<1>3. Survives(left, sgReplacement, both) BY ReplacementSurvives
<1> HIDE DEF both, left
<1>4. left \in [1 .. SgSize -> 1 .. SgSize + SgSize] BY <1>3 DEF Survives
<1>5. IsInjective(sgSurvivors') BY <1>1, <1>3 DEF Survives, IsInjective
<1>6. ASSUME sgReplacement.method = "best" \/ (sgReplacement.method = "elitism" /\ sgReplacement.n > 0)
      PROVE  Max(Range(sgPopulation)) <= Max(Range(sgPopulation'))
  <2>1. sgPopulation \in [1 .. SgSize -> Int] /\ sgPopulation' \in [1 .. SgSize -> Int]
    <3>1. \A i \in 1 .. SgSize : both[left[i]] \in Int BY <1>2, <1>4
    <3> QED BY <1>1, <1>2, <3>1
  <2>2. PICK i \in 1 .. SgSize : Max(Range(sgPopulation)) = sgPopulation[i]
    <3>1. Max(Range(sgPopulation)) \in Range(sgPopulation) BY <2>1, GreatestOfRange
    <3> QED BY <2>1, <3>1 DEF Range
  <2>3. sgPopulation[i] <= sgPopulation'[1] /\ sgPopulation'[1] \in Int
    <3>1. both[i] <= both[left[1]] BY <1>3, <1>6 DEF Survives
    <3>2. sgPopulation'[1] = both[left[1]] BY <1>1
    <3> QED BY <1>2, <2>1, <3>1, <3>2
  <2>4. sgPopulation'[1] <= Max(Range(sgPopulation')) BY <2>1, GreatestOfRange
  <2>5. Max(Range(sgPopulation')) \in Int
    <3>1. Max(Range(sgPopulation')) \in Range(sgPopulation') BY <2>1, GreatestOfRange
    <3> QED BY <2>1, <3>1 DEF Range
  <2>6. sgPopulation[i] \in Int BY <2>1
  <2> QED BY <2>2, <2>3, <2>4, <2>5, <2>6
<1> QED BY <1>5, <1>6

(* The single-objective algorithm: nextPopulationImpl keeps no solution    *)
(* twice, and with KeepBest, or Elitism with an elite, the best fitness of *)
(* a population is never below that of the one before; for any fitness     *)
(* values and children, with an exact comparison.                          *)
THEOREM BestIsKept ==
    ASSUME Exact
    PROVE  SgSpec => ReplacementKeepsTheBest
<1> DEFINE Keeps ==
      sgGeneration' # sgGeneration =>
        /\ IsInjective(sgSurvivors')
        /\ (sgReplacement.method = "best" \/ (sgReplacement.method = "elitism" /\ sgReplacement.n > 0))
               => Max(Range(sgPopulation)) <= Max(Range(sgPopulation'))
<1>1. SgInv /\ [SgNext]_sgVars => [Keeps]_sgVars
  <2> SUFFICES ASSUME SgInv, [SgNext]_sgVars, sgGeneration' # sgGeneration PROVE Keeps
    BY DEF sgVars
  <2>1. CASE \E children \in SgOffspring : SgNextPopulation(children)
    BY <2>1, GenerationKeepsTheBest
  <2>2. CASE ~ \E children \in SgOffspring : SgNextPopulation(children)
    BY <2>2 DEF SgNext, PrepareSelections, SetSelection, SetReplacement, sgVars
  <2> QED BY <2>1, <2>2
<1>2. SgInit => SgInv BY SgInvInit
<1>3. SgInv /\ [SgNext]_sgVars => SgInv' BY SgInvStep
<1> QED BY <1>1, <1>2, <1>3, PTL DEF SgSpec, ReplacementKeepsTheBest

-----------------------------------------------------------------------------
(* The cone tree: sums, and how far an inner product can be above that of   *)
(* the center                                                               *)

Chosen(s) == CHOOSE x \in s : TRUE

\* The partial sums that SumUp takes, one element of the domain after the other.
PartialSums(it, D, g) ==
    /\ it \in [SUBSET D -> Int] /\ it[{}] = 0
    /\ \A s \in SUBSET D : s # {} => it[s] = g[Chosen(s)] + it[s \ {Chosen(s)}]

LEMMA SumUpExists ==
    ASSUME NEW D, IsFiniteSet(D), NEW g \in [D -> Int]
    PROVE  \E it : PartialSums(it, D, g) /\ SumUp(g) = it[D]
<1> DEFINE c == [s \in SUBSET D |-> Chosen(s)]
           Defines(it) == it = [s \in SUBSET D |->
                                  IF s = {} THEN 0
                                  ELSE LET x == CHOOSE x \in s : TRUE
                                       IN  g[x] + it[s \ {x}]]
           b == 0
           step == [q \in D \X Int |-> g[q[1]] + q[2]]
           iter == CHOOSE it : Defines(it)
<1>1. SumUp(g) = iter[D]
  <2>1. DOMAIN g = D OBVIOUS
  <2> QED BY <2>1 DEF SumUp, MapThenSumSet, MapThenFoldSet
<1>2. IsFiniteSet(D) /\ Chooses(c, D) BY DEF Chooses, Chosen
<1>3. step \in [D \X Int -> Int] OBVIOUS
<1>4. PICK it \in [SUBSET D -> Int] : FoldsOver(it, D, b, c, step)
  <2>1. b \in Int OBVIOUS
  <2> HIDE DEF c, step, b
  <2> QED BY <1>2, <1>3, <2>1, FoldExists
<1>5. \A s \in SUBSET D : s # {} => Chosen(s) \in s BY DEF Chosen
<1>6. \A s \in SUBSET D : s # {} => it[s] = g[Chosen(s)] + it[s \ {Chosen(s)}]
  <2> TAKE s \in SUBSET D
  <2> HAVE s # {}
  <2>1. it[s] = step[<<c[s], it[s \ {c[s]}]>>]
    <3> HIDE DEF step, c
    <3> QED BY <1>4 DEF FoldsOver
  <2>2. c[s] = Chosen(s) /\ Chosen(s) \in D /\ s \ {Chosen(s)} \in SUBSET D BY <1>5
  <2>3. step[<<Chosen(s), it[s \ {Chosen(s)}]>>] = g[Chosen(s)] + it[s \ {Chosen(s)}]
    <3> DEFINE q == <<Chosen(s), it[s \ {Chosen(s)}]>>
    <3>1. q \in D \X Int BY <2>2
    <3>2. step[q] = g[q[1]] + q[2] BY <3>1
    <3> QED BY <3>2
  <2> HIDE DEF step, c
  <2> QED BY <2>1, <2>2, <2>3
<1>7. it[{}] = 0 BY <1>4 DEF FoldsOver
<1>8. Defines(it)
  <2>1. \A s \in SUBSET D : it[s] = IF s = {} THEN 0
                                   ELSE LET x == CHOOSE x \in s : TRUE
                                        IN  g[x] + it[s \ {x}]
    BY <1>6, <1>7 DEF Chosen
  <2> QED BY <2>1
<1>9. Defines(iter)
  <2> HIDE DEF Defines
  <2> QED BY <1>8
<1>10. iter = [s \in SUBSET D |-> iter[s]]
  <2>1. iter = [s \in SUBSET D |-> IF s = {} THEN 0
                                   ELSE LET x == CHOOSE x \in s : TRUE
                                        IN  g[x] + iter[s \ {x}]]
    BY <1>9
  <2> HIDE DEF iter
  <2> QED BY <2>1
<1> HIDE DEF iter
<1>11. iter[{}] = 0 BY <1>9
<1>12. \A s \in SUBSET D : s # {} => iter[s] = g[Chosen(s)] + iter[s \ {Chosen(s)}] BY <1>9 DEF Chosen
<1> DEFINE T == {s \in SUBSET D : iter[s] \in Int}
<1>13. {} \in T BY <1>11
<1>14. ASSUME NEW s \in SUBSET D, s # {} PROVE \E x \in s : s \ {x} \in T => s \in T
  <2>1. Chosen(s) \in s BY <1>5, <1>14
  <2>2. ASSUME s \ {Chosen(s)} \in T PROVE s \in T
    <3>1. iter[s \ {Chosen(s)}] \in Int /\ g[Chosen(s)] \in Int BY <2>1, <2>2
    <3>2. iter[s] = g[Chosen(s)] + iter[s \ {Chosen(s)}] BY <1>12, <1>14
    <3>3. iter[s] \in Int BY <3>1, <3>2
    <3> QED BY <3>3
  <2> QED BY <2>1, <2>2
<1>15. SUBSET D \subseteq T
  <2> HIDE DEF T
  <2> QED BY <1>2, <1>13, <1>14, SubsetInduction
<1>16. iter \in [SUBSET D -> Int] BY <1>10, <1>15
<1>17. PartialSums(iter, D, g) BY <1>11, <1>12, <1>16 DEF PartialSums
<1> QED BY <1>1, <1>17

\* What holds of no summands, and stays true with one more, holds of the sum.
LEMMA SumUpIsInt ==
    ASSUME NEW D, IsFiniteSet(D), NEW g \in [D -> Int]
    PROVE  SumUp(g) \in Int
<1>1. PICK it : PartialSums(it, D, g) /\ SumUp(g) = it[D] BY SumUpExists
<1>2. D \in SUBSET D OBVIOUS
<1> QED BY <1>1, <1>2 DEF PartialSums

LEMMA SumUpNatural ==
    ASSUME NEW D, IsFiniteSet(D), NEW g \in [D -> Int], \A i \in D : g[i] >= 0
    PROVE  SumUp(g) >= 0
<1>1. PICK it : PartialSums(it, D, g) /\ SumUp(g) = it[D] BY SumUpExists
<1> DEFINE T == {s \in SUBSET D : it[s] >= 0}
<1>2. {} \in T BY <1>1 DEF PartialSums
<1>3. ASSUME NEW s \in SUBSET D, s # {} PROVE \E x \in s : s \ {x} \in T => s \in T
  <2>1. Chosen(s) \in s BY <1>3 DEF Chosen
  <2>2. it[s] = g[Chosen(s)] + it[s \ {Chosen(s)}] /\ it[s \ {Chosen(s)}] \in Int BY <1>1, <1>3 DEF PartialSums
  <2>3. g[Chosen(s)] \in Int /\ g[Chosen(s)] >= 0 BY <2>1
  <2>4. ASSUME s \ {Chosen(s)} \in T PROVE s \in T BY <2>2, <2>3, <2>4
  <2> QED BY <2>1, <2>4
<1>4. SUBSET D \subseteq T
  <2> HIDE DEF T
  <2> QED BY <1>2, <1>3, SubsetInduction
<1> QED BY <1>1, <1>4

LEMMA SumUpZero ==
    ASSUME NEW D, IsFiniteSet(D), NEW g \in [D -> Int], \A i \in D : g[i] = 0
    PROVE  SumUp(g) = 0
<1>1. PICK it : PartialSums(it, D, g) /\ SumUp(g) = it[D] BY SumUpExists
<1> DEFINE T == {s \in SUBSET D : it[s] = 0}
<1>2. {} \in T BY <1>1 DEF PartialSums
<1>3. ASSUME NEW s \in SUBSET D, s # {} PROVE \E x \in s : s \ {x} \in T => s \in T
  <2>1. Chosen(s) \in s BY <1>3 DEF Chosen
  <2>2. it[s] = g[Chosen(s)] + it[s \ {Chosen(s)}] BY <1>1, <1>3 DEF PartialSums
  <2>3. g[Chosen(s)] = 0 BY <2>1
  <2>4. ASSUME s \ {Chosen(s)} \in T PROVE s \in T BY <2>2, <2>3, <2>4
  <2> QED BY <2>1, <2>4
<1>4. SUBSET D \subseteq T
  <2> HIDE DEF T
  <2> QED BY <1>2, <1>3, SubsetInduction
<1> QED BY <1>1, <1>4

LEMMA SumUpLinear ==
    ASSUME NEW D, IsFiniteSet(D), NEW n \in Int,
           NEW g \in [D -> Int], NEW h \in [D -> Int], NEW k \in [D -> Int],
           \A i \in D : k[i] = n * g[i] - h[i]
    PROVE  SumUp(k) = n * SumUp(g) - SumUp(h)
<1>1. PICK G : PartialSums(G, D, g) /\ SumUp(g) = G[D] BY SumUpExists
<1>2. PICK H : PartialSums(H, D, h) /\ SumUp(h) = H[D] BY SumUpExists
<1>3. PICK K : PartialSums(K, D, k) /\ SumUp(k) = K[D] BY SumUpExists
<1> DEFINE T == {s \in SUBSET D : K[s] = n * G[s] - H[s]}
<1>4. {} \in T BY <1>1, <1>2, <1>3 DEF PartialSums
<1>5. ASSUME NEW s \in SUBSET D, s # {} PROVE \E x \in s : s \ {x} \in T => s \in T
  <2> DEFINE x == Chosen(s)
             r == s \ {Chosen(s)}
  <2>1. x \in s BY <1>5 DEF Chosen
  <2>2. G[s] = g[x] + G[r] /\ H[s] = h[x] + H[r] /\ K[s] = k[x] + K[r]
    BY <1>1, <1>2, <1>3, <1>5 DEF PartialSums
  <2>3. G[r] \in Int /\ H[r] \in Int /\ K[r] \in Int BY <1>1, <1>2, <1>3 DEF PartialSums
  <2>4. g[x] \in Int /\ h[x] \in Int /\ k[x] = n * g[x] - h[x] BY <2>1
  <2>5. ASSUME r \in T PROVE s \in T
    <3>1. K[r] = n * G[r] - H[r] BY <2>5
    <3>2. n * (g[x] + G[r]) = n * g[x] + n * G[r] BY <2>3, <2>4
    <3>3. n * g[x] \in Int /\ n * G[r] \in Int BY <2>3, <2>4
    <3>4. K[s] = n * (g[x] + G[r]) - (h[x] + H[r])
      <4> HIDE DEF x, r
      <4> QED BY <2>2, <2>3, <2>4, <3>1, <3>2, <3>3
    <3> QED BY <2>2, <3>4
  <2> QED BY <2>1, <2>5
<1>6. SUBSET D \subseteq T
  <2> HIDE DEF T
  <2> QED BY <1>4, <1>5, SubsetInduction
<1>7. D \in T BY <1>6
<1> QED BY <1>1, <1>2, <1>3, <1>7


\* Cauchy and Schwarz, one summand at a time.
LEMMA SquareOfProduct ==
    ASSUME NEW x \in Int, NEW y \in Int
    PROVE  (x * y) * (x * y) = (x * x) * (y * y)
OBVIOUS

LEMMA SquaresOrder ==
    ASSUME NEW x \in Int, NEW y \in Int, y >= 0, x * x <= y * y
    PROVE  x <= y
<1> SUFFICES ASSUME x > y PROVE FALSE OBVIOUS
<1>1. x * x > y * y
  <2>1. x >= y + 1 /\ x > 0 OBVIOUS
  <2>2. PICK d \in Int : x = y + d /\ d >= 1
    <3>1. x = y + (x - y) /\ x - y >= 1 /\ x - y \in Int BY <2>1
    <3> QED BY <3>1
  <2>3. x * x = y * y + 2 * (y * d) + d * d BY <2>2
  <2>4. y * d >= 0 BY <2>2
  <2>5. d * d >= 1 BY <2>2
  <2>6. y * d \in Int /\ d * d \in Int /\ y * y \in Int BY <2>2
  <2> QED BY <2>3, <2>4, <2>5, <2>6
<1>2. x * x \in Int /\ y * y \in Int OBVIOUS
<1> QED BY <1>1, <1>2

LEMMA MeansOrder ==
    ASSUME NEW u \in Int, NEW v \in Int, NEW w \in Int, u >= 0, v >= 0, w * w <= u * v
    PROVE  2 * w <= u + v
<1>1. (2 * w) * (2 * w) = 4 * (w * w) /\ w * w \in Int /\ u * v \in Int OBVIOUS
<1>2. (u + v) * (u + v) = 4 * (u * v) + (u - v) * (u - v) OBVIOUS
<1>3. (u - v) * (u - v) >= 0 /\ (u - v) * (u - v) \in Int
  <2>1. PICK d \in Int : d = u - v OBVIOUS
  <2>2. d * d >= 0 /\ d * d \in Int OBVIOUS
  <2> QED BY <2>1, <2>2
<1>4. (2 * w) * (2 * w) <= (u + v) * (u + v) BY <1>1, <1>2, <1>3
<1> QED BY <1>4, SquaresOrder

LEMMA ProductsOrder ==
    ASSUME NEW x \in Int, NEW y \in Int, NEW z \in Int, x <= y, z >= 0
    PROVE  x * z <= y * z
OBVIOUS

LEMMA CauchyStep ==
    ASSUME NEW a \in Int, NEW b \in Int, NEW c \in Int, a >= 0, b >= 0, c * c <= a * b,
           NEW x \in Int, NEW y \in Int
    PROVE  (x * y + c) * (x * y + c) <= (x * x + a) * (y * y + b)
<1> DEFINE X == x * x
           Y == y * y
           w == c * (x * y)
           p == x * y
<1>1. X \in Int /\ Y \in Int /\ X >= 0 /\ Y >= 0 /\ p \in Int /\ w \in Int /\ p * p = X * Y
  <2>1. X \in Int /\ Y \in Int /\ p \in Int OBVIOUS
  <2>2. X >= 0 /\ Y >= 0 OBVIOUS
  <2> QED BY <2>1, <2>2, SquareOfProduct
<1>2. w * w = (c * c) * (p * p) /\ w = c * p BY <1>1, SquareOfProduct
<1> HIDE DEF X, Y, p, w
<1>3. w * w <= (a * Y) * (b * X)
  <2>1. (c * c) * (X * Y) <= (a * b) * (X * Y)
    <3>1. X * Y >= 0 /\ X * Y \in Int /\ c * c \in Int /\ a * b \in Int BY <1>1
    <3> QED BY <3>1, ProductsOrder
  <2>2. (a * b) * (X * Y) = (a * Y) * (b * X) BY <1>1
  <2> QED BY <1>1, <1>2, <2>1, <2>2
<1>4. 2 * w <= a * Y + b * X
  <2>1. a * Y \in Int /\ b * X \in Int /\ a * Y >= 0 /\ b * X >= 0 BY <1>1
  <2> QED BY <1>1, <1>3, <2>1, MeansOrder
<1>5. (p + c) * (p + c) = p * p + 2 * w + c * c BY <1>1, <1>2
<1>6. (X + a) * (Y + b) = X * Y + X * b + a * Y + a * b BY <1>1
<1>7. (p + c) * (p + c) <= (X + a) * (Y + b)
  <2>1. b * X = X * b BY <1>1
  <2>2. p * p \in Int /\ X * Y \in Int /\ X * b \in Int /\ a * Y \in Int /\ a * b \in Int /\ c * c \in Int BY <1>1
  <2> QED BY <1>1, <1>4, <1>5, <1>6, <2>1, <2>2
<1> QED BY <1>7 DEF X, Y, p

LEMMA CauchySchwarz ==
    ASSUME NEW D, IsFiniteSet(D), NEW p \in [D -> Int], NEW q \in [D -> Int],
           NEW a, a = SumUp([i \in D |-> p[i] * p[i]]),
           NEW b, b = SumUp([i \in D |-> q[i] * q[i]]),
           NEW c, c = SumUp([i \in D |-> p[i] * q[i]])
    PROVE  c * c <= a * b
<1> DEFINE g == [i \in D |-> p[i] * p[i]]
           h == [i \in D |-> q[i] * q[i]]
           k == [i \in D |-> p[i] * q[i]]
<1>1. \A i \in D : p[i] \in Int /\ q[i] \in Int OBVIOUS
<1>2. g \in [D -> Int] /\ h \in [D -> Int] /\ k \in [D -> Int]
  <2>1. \A i \in D : p[i] * p[i] \in Int /\ q[i] * q[i] \in Int /\ p[i] * q[i] \in Int BY <1>1
  <2> QED BY <2>1
<1>3. \A i \in D : g[i] = p[i] * p[i] /\ h[i] = q[i] * q[i] /\ k[i] = p[i] * q[i] OBVIOUS
<1>4. a = SumUp(g) /\ b = SumUp(h) /\ c = SumUp(k) OBVIOUS
<1> HIDE DEF g, h, k
<1>5. PICK G : PartialSums(G, D, g) /\ SumUp(g) = G[D] BY <1>2, SumUpExists
<1>6. PICK H : PartialSums(H, D, h) /\ SumUp(h) = H[D] BY <1>2, SumUpExists
<1>7. PICK K : PartialSums(K, D, k) /\ SumUp(k) = K[D] BY <1>2, SumUpExists
<1> DEFINE T == {s \in SUBSET D : G[s] >= 0 /\ H[s] >= 0 /\ K[s] * K[s] <= G[s] * H[s]}
<1>8. {} \in T
  <2>1. G[{}] = 0 /\ H[{}] = 0 /\ K[{}] = 0 BY <1>5, <1>6, <1>7 DEF PartialSums
  <2> QED BY <2>1
<1>9. ASSUME NEW s \in SUBSET D, s # {} PROVE \E x \in s : s \ {x} \in T => s \in T
  <2> DEFINE x == Chosen(s)
             r == s \ {Chosen(s)}
  <2>1. x \in s BY <1>9 DEF Chosen
  <2>2. G[s] = g[x] + G[r] /\ H[s] = h[x] + H[r] /\ K[s] = k[x] + K[r]
    BY <1>5, <1>6, <1>7, <1>9 DEF PartialSums
  <2>3. G[r] \in Int /\ H[r] \in Int /\ K[r] \in Int BY <1>5, <1>6, <1>7 DEF PartialSums
  <2>4. p[x] \in Int /\ q[x] \in Int /\ g[x] = p[x] * p[x] /\ h[x] = q[x] * q[x] /\ k[x] = p[x] * q[x]
    BY <1>1, <1>3, <2>1
  <2>5. ASSUME r \in T PROVE s \in T
    <3>1. G[r] >= 0 /\ H[r] >= 0 /\ K[r] * K[r] <= G[r] * H[r] BY <2>5
    <3> HIDE DEF x, r
    <3>2. (p[x] * q[x] + K[r]) * (p[x] * q[x] + K[r]) <= (p[x] * p[x] + G[r]) * (q[x] * q[x] + H[r])
      BY <2>3, <2>4, <3>1, CauchyStep
    <3>3. K[s] * K[s] <= G[s] * H[s] BY <2>2, <2>4, <3>2
    <3>4. p[x] * p[x] >= 0 /\ q[x] * q[x] >= 0 BY <2>4
    <3>5. p[x] * p[x] \in Int /\ q[x] * q[x] \in Int BY <2>4
    <3>6. G[s] >= 0 /\ H[s] >= 0 BY <2>2, <2>3, <2>4, <3>1, <3>4, <3>5
    <3> QED BY <3>3, <3>6
  <2> QED BY <2>1, <2>5
<1>10. SUBSET D \subseteq T
  <2> HIDE DEF T
  <2> QED BY <1>8, <1>9, SubsetInduction
<1>11. D \in T BY <1>10
<1> QED BY <1>4, <1>5, <1>6, <1>7, <1>11

\* The points of a tree and the queries.
Coords == [1 .. CtDim -> Int]

LEMMA DimensionsAreFinite == IsFiniteSet(1 .. CtDim) BY CtAssumption, FS_Interval

LEMMA DotIsInt ==
    ASSUME NEW p \in Coords, NEW q \in Coords
    PROVE  Dot(p, q) = SumUp([i \in 1 .. CtDim |-> p[i] * q[i]]) /\ Dot(p, q) \in Int
<1> DEFINE g == [i \in 1 .. CtDim |-> p[i] * q[i]]
<1>1. \A i \in 1 .. CtDim : p[i] \in Int /\ q[i] \in Int BY DEF Coords
<1>2. g \in [1 .. CtDim -> Int]
  <2>1. \A i \in 1 .. CtDim : p[i] * q[i] \in Int BY <1>1
  <2> QED BY <2>1
<1>3. Dot(p, q) = SumUp(g) BY DEF Dot, Coords
<1> HIDE DEF g
<1>4. SumUp(g) \in Int BY <1>2, DimensionsAreFinite, SumUpIsInt
<1> QED BY <1>3, <1>4 DEF g

LEMMA DistanceIsNatural ==
    ASSUME NEW p \in Coords, NEW q \in Coords
    PROVE  DistanceSq(p, q) \in Int /\ DistanceSq(p, q) >= 0
<1> DEFINE g == [i \in 1 .. CtDim |-> (p[i] - q[i]) * (p[i] - q[i])]
<1>1. \A i \in 1 .. CtDim : p[i] \in Int /\ q[i] \in Int BY DEF Coords
<1>2. \A i \in 1 .. CtDim : g[i] \in Int /\ g[i] >= 0
  <2> TAKE i \in 1 .. CtDim
  <2>1. PICK d \in Int : d = p[i] - q[i] BY <1>1
  <2>2. d * d \in Int /\ d * d >= 0 OBVIOUS
  <2> QED BY <2>1, <2>2
<1>3. DistanceSq(p, q) = SumUp(g) BY DEF DistanceSq, Coords
<1>4. g \in [1 .. CtDim -> Int] BY <1>2
<1> HIDE DEF g
<1> QED BY <1>2, <1>3, <1>4, DimensionsAreFinite, SumUpIsInt, SumUpNatural

LEMMA NoDistance ==
    ASSUME NEW p \in Coords
    PROVE  DistanceSq(p, p) = 0
<1> DEFINE g == [i \in 1 .. CtDim |-> (p[i] - p[i]) * (p[i] - p[i])]
<1>1. \A i \in 1 .. CtDim : p[i] \in Int BY DEF Coords
<1>2. \A i \in 1 .. CtDim : g[i] = 0
  <2> TAKE i \in 1 .. CtDim
  <2>1. p[i] - p[i] = 0 BY <1>1
  <2> QED BY <2>1
<1>3. DistanceSq(p, p) = SumUp(g) BY DEF DistanceSq, Coords
<1>4. g \in [1 .. CtDim -> Int] BY <1>2
<1> HIDE DEF g
<1> QED BY <1>2, <1>3, <1>4, DimensionsAreFinite, SumUpZero

\* n times a point, minus the sum of the n points of a node.
LEMMA ProductIsBounded ==
    ASSUME NEW p \in Coords, NEW q \in Coords, NEW c \in Coords, NEW n \in Int,
           NEW x, x = n * Dot(p, q) - Dot(c, q)
    PROVE  x \in Int /\ x * x <= DistanceSq([i \in 1 .. CtDim |-> n * p[i]], c) * Dot(q, q)
<1> DEFINE D == 1 .. CtDim
           d == [i \in D |-> n * p[i] - c[i]]
           g == [i \in D |-> p[i] * q[i]]
           h == [i \in D |-> c[i] * q[i]]
           k == [i \in D |-> d[i] * q[i]]
           dd == [i \in D |-> d[i] * d[i]]
           m == [i \in D |-> n * p[i]]
<1>1. IsFiniteSet(D) BY DimensionsAreFinite
<1>2. \A i \in D : p[i] \in Int /\ q[i] \in Int /\ c[i] \in Int BY DEF Coords
<1>3. d \in [D -> Int]
  <2>1. \A i \in D : n * p[i] - c[i] \in Int BY <1>2
  <2> QED BY <2>1
<1>4. \A i \in D : d[i] = n * p[i] - c[i] /\ d[i] \in Int BY <1>3
<1>5. g \in [D -> Int] /\ h \in [D -> Int] /\ k \in [D -> Int] /\ m \in [D -> Int]
  <2> HIDE DEF d
  <2>1. \A i \in D : p[i] * q[i] \in Int /\ c[i] * q[i] \in Int /\ d[i] * q[i] \in Int /\ n * p[i] \in Int
    BY <1>2, <1>4
  <2> QED BY <2>1
<1>6. \A i \in D : k[i] = n * g[i] - h[i]
  <2> TAKE i \in D
  <2>1. k[i] = (n * p[i] - c[i]) * q[i] /\ g[i] = p[i] * q[i] /\ h[i] = c[i] * q[i] OBVIOUS
  <2>2. p[i] \in Int /\ q[i] \in Int /\ c[i] \in Int BY <1>2
  <2> HIDE DEF k, g, h
  <2>3. (n * p[i] - c[i]) * q[i] = n * (p[i] * q[i]) - c[i] * q[i] BY <2>2
  <2> QED BY <2>1, <2>3
<1>7. SumUp(k) = n * SumUp(g) - SumUp(h)
  <2> HIDE DEF D, k, g, h
  <2> QED BY <1>1, <1>5, <1>6, SumUpLinear
<1>8. Dot(p, q) = SumUp(g) /\ Dot(c, q) = SumUp(h) /\ Dot(p, q) \in Int /\ Dot(c, q) \in Int
  BY DotIsInt
<1>9. x = SumUp(k) BY <1>7, <1>8
<1>10. DistanceSq(m, c) = SumUp(dd)
  <2>1. DistanceSq(m, c) = SumUp([i \in D |-> (m[i] - c[i]) * (m[i] - c[i])]) BY DEF DistanceSq
  <2>2. [i \in D |-> (m[i] - c[i]) * (m[i] - c[i])] = dd OBVIOUS
  <2> QED BY <2>1, <2>2
<1>11. Dot(q, q) = SumUp([i \in D |-> q[i] * q[i]]) BY DotIsInt
<1>12. x * x <= DistanceSq(m, c) * Dot(q, q)
  <2>1. q \in [D -> Int] BY DEF Coords
  <2> HIDE DEF D, d
  <2> QED BY <1>1, <1>3, <1>9, <1>10, <1>11, <2>1, CauchySchwarz
<1>13. x \in Int
  <2> HIDE DEF g, h
  <2>1. n * Dot(p, q) \in Int BY <1>8
  <2> QED BY <1>8, <2>1
<1> QED BY <1>12, <1>13

\* A node that is skipped has nothing better.
LEMMA SkippedIsWorse ==
    ASSUME NEW p \in Coords, NEW q \in Coords, NEW c \in Coords, NEW best \in Coords,
           NEW n \in Nat \ {0}, NEW radiusSq \in Int,
           DistanceSq([i \in 1 .. CtDim |-> n * p[i]], c) <= radiusSq,
           NEW above, above = n * Dot(best, q) - Dot(c, q),
           above >= 0, above * above >= Dot(q, q) * radiusSq
    PROVE  Dot(p, q) <= Dot(best, q)
<1> DEFINE x == n * Dot(p, q) - Dot(c, q)
           d == DistanceSq([i \in 1 .. CtDim |-> n * p[i]], c)
           P == Dot(p, q)
           B == Dot(best, q)
           C == Dot(c, q)
           Q == Dot(q, q)
<1>1. P \in Int /\ B \in Int /\ C \in Int /\ Q \in Int BY DotIsInt
<1>2. Q >= 0
  <2> DEFINE g == [i \in 1 .. CtDim |-> q[i] * q[i]]
  <2>1. \A i \in 1 .. CtDim : q[i] \in Int BY DEF Coords
  <2>2. \A i \in 1 .. CtDim : g[i] \in Int /\ g[i] >= 0 BY <2>1
  <2>3. g \in [1 .. CtDim -> Int] BY <2>2
  <2>4. Q = SumUp(g) BY DotIsInt
  <2> HIDE DEF g, Q
  <2> QED BY <2>2, <2>3, <2>4, DimensionsAreFinite, SumUpNatural
<1>3. x \in Int /\ x * x <= d * Q
  <2>1. x = n * Dot(p, q) - Dot(c, q) /\ n \in Int OBVIOUS
  <2> HIDE DEF x
  <2> QED BY <2>1, ProductIsBounded
<1>4. d \in Int
  <2>1. [i \in 1 .. CtDim |-> n * p[i]] \in Coords
    <3>1. \A i \in 1 .. CtDim : n * p[i] \in Int BY DEF Coords
    <3> QED BY <3>1 DEF Coords
  <2> QED BY <2>1, DistanceIsNatural
<1> HIDE DEF d
<1>5. d <= radiusSq BY DEF d
<1>6. above = n * B - C OBVIOUS
<1>7. x = n * P - C OBVIOUS
<1>8. above * above >= Q * radiusSq OBVIOUS
<1> HIDE DEF P, B, C, Q, x
<1>9. d * Q <= radiusSq * Q BY <1>1, <1>2, <1>4, <1>5, ProductsOrder
<1>10. above \in Int BY <1>1, <1>6
<1>11. x * x <= above * above
  <2>1. x * x \in Int /\ d * Q \in Int /\ radiusSq * Q \in Int /\ above * above \in Int BY <1>1, <1>3, <1>4, <1>10
  <2>2. radiusSq * Q = Q * radiusSq BY <1>1
  <2> QED BY <1>3, <1>8, <1>9, <2>1, <2>2
<1>12. x <= above BY <1>3, <1>10, <1>11, SquaresOrder
<1>13. n * P <= n * B
  <2>1. PICK u \in Int, v \in Int : u = n * P /\ v = n * B
    <3>1. n * P \in Int /\ n * B \in Int BY <1>1
    <3> QED BY <3>1
  <2>2. x = u - C /\ above = v - C BY <1>6, <1>7, <2>1
  <2>3. u <= v BY <1>1, <1>12, <2>2
  <2> QED BY <2>1, <2>3
<1>14. P <= B
  <2> SUFFICES ASSUME P >= B + 1 PROVE FALSE BY <1>1
  <2>1. n * P >= n * (B + 1) BY <1>1
  <2>2. n * (B + 1) = n * B + n /\ n * B \in Int BY <1>1
  <2>3. n * P \in Int BY <1>1
  <2> QED BY <1>13, <2>1, <2>2, <2>3
<1> QED BY <1>14 DEF P, B

-----------------------------------------------------------------------------
(* The cone tree: ranges of points *)

IsRange(node, n) == node.first \in 1 .. n /\ node.last \in node.first + 1 .. n + 1

LEMMA PointsOfRange ==
    ASSUME NEW n \in Nat, NEW node, IsRange(node, n)
    PROVE  /\ PointsOf(node) \subseteq 1 .. n /\ node.first \in PointsOf(node)
           /\ Count(node) \in Nat \ {0} /\ IsFiniteSet(PointsOf(node))
           /\ \A k \in 1 .. Count(node) : node.first - 1 + k \in PointsOf(node)
           /\ \A i \in PointsOf(node) : \E k \in 1 .. Count(node) : i = node.first - 1 + k
<1>1. node.first \in Int /\ node.last \in Int /\ 1 <= node.first /\ node.first < node.last
      /\ node.last <= n + 1
  BY DEF IsRange
<1>2. PointsOf(node) = node.first .. node.last - 1 /\ Count(node) = node.last - node.first
  BY DEF PointsOf, Count
<1>3. IsFiniteSet(PointsOf(node))
  <2> DEFINE a == node.first
             b == node.last - 1
  <2>1. a \in Int /\ b \in Int BY <1>1
  <2> HIDE DEF a, b
  <2>2. IsFiniteSet(a .. b) BY <2>1, FS_Interval
  <2> QED BY <1>2, <2>2 DEF a, b
<1>4. ASSUME NEW i \in PointsOf(node) PROVE \E k \in 1 .. Count(node) : i = node.first - 1 + k
  <2> DEFINE a == node.first
             b == node.last
             c == Count(node)
  <2>1. a \in Int /\ b \in Int /\ c = b - a /\ i \in a .. b - 1 BY <1>1, <1>2
  <2> HIDE DEF a, b, c
  <2>2. i - a + 1 \in 1 .. c /\ i = a - 1 + (i - a + 1) BY <2>1
  <2>3. \E k \in 1 .. c : i = a - 1 + k BY <2>2
  <2> QED BY <2>3 DEF a, c
<1>5. \A k \in 1 .. Count(node) : node.first - 1 + k \in PointsOf(node) BY <1>1, <1>2
<1>6. PointsOf(node) \subseteq 1 .. n /\ node.first \in PointsOf(node) BY <1>1, <1>2
<1>7. Count(node) \in Nat \ {0} BY <1>1, <1>2
<1> QED BY <1>3, <1>4, <1>5, <1>6, <1>7

IsSliceOf(r, points, node, S) ==
    /\ DOMAIN r = 1 .. Count(node)
    /\ \A k \in 1 .. Count(node) : r[k] = points[node.first - 1 + k] /\ r[k] \in S

LEMMA SubSeqOfRange ==
    ASSUME NEW n \in Nat, NEW S, NEW points \in [1 .. n -> S], NEW node, IsRange(node, n)
    PROVE  IsSliceOf(SubSeq(points, node.first, node.last - 1), points, node, S)
<1> USE DEF IsSliceOf
<1> DEFINE a == node.first
           b == node.last - 1
           r == SubSeq(points, a, b)
<1>1. a \in Int /\ b \in Int /\ a <= b /\ Count(node) = b - a + 1 /\ a >= 1 /\ b <= n
  BY DEF IsRange, Count
<1>2. \A i \in a .. b : points[i] \in S BY <1>1
<1>3. r \in Seq(S) /\ Len(r) = b - a + 1 /\ \A i \in 1 .. b - a + 1 : r[i] = points[a + i - 1]
  <2> HIDE DEF a, b
  <2> QED BY <1>1, <1>2, SubSeqProperties
<1> HIDE DEF r
<1>4. DOMAIN r = 1 .. Count(node) BY <1>1, <1>3
<1>5. ASSUME NEW k \in 1 .. Count(node) PROVE r[k] = points[node.first - 1 + k] /\ r[k] \in S
  <2>1. r[k] = points[a + k - 1] /\ a + k - 1 = node.first - 1 + k BY <1>1, <1>3
  <2>2. k \in 1 .. Len(r) BY <1>1, <1>3
  <2>3. r[k] \in S BY <1>3, <2>2
  <2> QED BY <2>1, <2>3
<1> QED BY <1>4, <1>5 DEF r

LEMMA FirstOfGreatest ==
    ASSUME NEW n \in Nat \ {0}, NEW v \in [1 .. n -> Int]
    PROVE  \E i \in 1 .. n : \A j \in 1 .. n : v[j] <= v[i] /\ (v[j] = v[i] => i <= j)
<1>1. 1 .. n \in SUBSET Nat /\ IsFiniteSet(1 .. n) /\ 1 .. n # {}
  <2>1. IsFiniteSet(1 .. n) BY FS_Interval
  <2>2. 1 \in 1 .. n /\ 1 .. n \subseteq Nat OBVIOUS
  <2> QED BY <2>1, <2>2
<1> QED BY <1>1, FirstOfExtremes

LEMMA FurthestInRange ==
    ASSUME NEW n \in Nat, NEW points \in [1 .. n -> Coords], NEW node, IsRange(node, n),
           NEW from \in 1 .. n
    PROVE  FindFurthestElement(points, node, from) \in PointsOf(node)
<1> DEFINE r == SubSeq(points, node.first, node.last - 1)
           c == Count(node)
           v == [i \in 1 .. c |-> DistanceSq(points[from], r[i])]
           m == CHOOSE i \in DOMAIN r : \A j \in DOMAIN r :
                  /\ DistanceSq(points[from], r[j]) <= DistanceSq(points[from], r[i])
                  /\ DistanceSq(points[from], r[j]) = DistanceSq(points[from], r[i]) => i <= j
<1>1. IsSliceOf(r, points, node, Coords) BY SubSeqOfRange
<1>2. FindFurthestElement(points, node, from) = node.first - 1 + m
  BY DEF FindFurthestElement, MaxElement
<1>3. points[from] \in Coords OBVIOUS
<1> HIDE DEF r
<1>4. v \in [1 .. c -> Int] BY <1>1, <1>3, DistanceIsNatural DEF IsSliceOf
<1>5. c \in Nat \ {0} BY PointsOfRange
<1>6. \E i \in 1 .. c : \A j \in 1 .. c : v[j] <= v[i] /\ (v[j] = v[i] => i <= j)
  <2> HIDE DEF v, c
  <2> QED BY <1>4, <1>5, FirstOfGreatest
<1>7. m \in 1 .. c
  <2>1. \A i \in 1 .. c : v[i] = DistanceSq(points[from], r[i]) OBVIOUS
  <2>2. DOMAIN r = 1 .. c BY <1>1 DEF IsSliceOf
  <2> HIDE DEF v
  <2> QED BY <1>6, <2>1, <2>2
<1> HIDE DEF m
<1> QED BY <1>2, <1>7, PointsOfRange

LEMMA LinearIsBest ==
    ASSUME NEW n \in Nat, ctPoints \in [1 .. n -> Coords], ctQuery \in Coords,
           NEW node, IsRange(node, n)
    PROVE  /\ FindBestMatchLinear(node) \in PointsOf(node)
           /\ \A k \in PointsOf(node) :
                Dot(ctPoints[k], ctQuery) <= Dot(ctPoints[FindBestMatchLinear(node)], ctQuery)
<1> DEFINE r == SubSeq(ctPoints, node.first, node.last - 1)
           c == Count(node)
           v == [i \in 1 .. c |-> Dot(r[i], ctQuery)]
           m == CHOOSE i \in DOMAIN r : \A j \in DOMAIN r :
                  /\ Dot(r[j], ctQuery) <= Dot(r[i], ctQuery)
                  /\ Dot(r[j], ctQuery) = Dot(r[i], ctQuery) => i <= j
<1>1. IsSliceOf(r, ctPoints, node, Coords) BY SubSeqOfRange
<1>2. FindBestMatchLinear(node) = node.first - 1 + m
  BY DEF FindBestMatchLinear, MaxElement
<1> HIDE DEF r
<1>3. v \in [1 .. c -> Int] BY <1>1, DotIsInt DEF IsSliceOf
<1>4. c \in Nat \ {0} BY PointsOfRange
<1>5. \E i \in 1 .. c : \A j \in 1 .. c : v[j] <= v[i] /\ (v[j] = v[i] => i <= j)
  <2> HIDE DEF v, c
  <2> QED BY <1>3, <1>4, FirstOfGreatest
<1>6. m \in 1 .. c /\ \A j \in 1 .. c : v[j] <= v[m]
  <2>1. \A i \in 1 .. c : v[i] = Dot(r[i], ctQuery) OBVIOUS
  <2>2. DOMAIN r = 1 .. c BY <1>1 DEF IsSliceOf
  <2> HIDE DEF v
  <2> QED BY <1>5, <2>1, <2>2
<1> HIDE DEF m
<1>7. \A i \in 1 .. c : v[i] = Dot(ctPoints[node.first - 1 + i], ctQuery) BY <1>1 DEF IsSliceOf
<1> HIDE DEF v
<1>8. ASSUME NEW k \in PointsOf(node)
      PROVE  Dot(ctPoints[k], ctQuery) <= Dot(ctPoints[FindBestMatchLinear(node)], ctQuery)
  <2>1. PICK i \in 1 .. c : k = node.first - 1 + i BY PointsOfRange
  <2>2. v[i] <= v[m] BY <1>6
  <2> QED BY <1>2, <1>6, <1>7, <2>1, <2>2
<1> QED BY <1>2, <1>6, <1>8, PointsOfRange

\* The ball of a node.
InBall(node, points) ==
    /\ node.sum \in Coords /\ node.radiusSq \in Int
    /\ \A k \in PointsOf(node) :
         DistanceSq([c \in 1 .. CtDim |-> Count(node) * points[k][c]], node.sum) <= node.radiusSq

LEMMA ScaledPoint ==
    ASSUME NEW n \in Int, NEW p \in Coords
    PROVE  [c \in 1 .. CtDim |-> n * p[c]] \in Coords
<1>1. \A c \in 1 .. CtDim : n * p[c] \in Int BY DEF Coords
<1> QED BY <1>1 DEF Coords

LEMMA BallHolds ==
    ASSUME NEW n \in Nat, NEW points \in [1 .. n -> Coords], NEW node, IsRange(node, n)
    PROVE  LET sum == FindCenter(points, node)
               radiusSq == FindRadius(points, node, sum)
           IN  /\ sum \in Coords /\ radiusSq \in Int
               /\ \A k \in PointsOf(node) :
                    DistanceSq([c \in 1 .. CtDim |-> Count(node) * points[k][c]], sum) <= radiusSq
<1> DEFINE sum == FindCenter(points, node)
           radiusSq == FindRadius(points, node, sum)
           P == PointsOf(node)
           dist(k) == DistanceSq([c \in 1 .. CtDim |-> Count(node) * points[k][c]], sum)
           S == {dist(k) : k \in P}
<1>1. /\ P \subseteq 1 .. n /\ node.first \in P /\ IsFiniteSet(P) /\ Count(node) \in Int
  BY PointsOfRange
<1>2. \A k \in P : points[k] \in Coords BY <1>1
<1>3. sum \in Coords
  <2>1. DOMAIN points[node.first] = 1 .. CtDim BY <1>1, <1>2 DEF Coords
  <2>2. sum = [i \in 1 .. CtDim |-> SumUp([k \in P |-> points[k][i]])] BY <2>1 DEF FindCenter
  <2>3. ASSUME NEW i \in 1 .. CtDim PROVE SumUp([k \in P |-> points[k][i]]) \in Int
    <3>1. [k \in P |-> points[k][i]] \in [P -> Int] BY <1>2 DEF Coords
    <3> QED BY <1>1, <3>1, SumUpIsInt
  <2> HIDE DEF sum
  <2> QED BY <2>2, <2>3 DEF Coords
<1>4. radiusSq = Max(S)
  <2>1. DOMAIN sum = 1 .. CtDim BY <1>3 DEF Coords
  <2> HIDE DEF sum
  <2> QED BY <2>1 DEF FindRadius
<1> HIDE DEF sum
<1>5. \A k \in P : dist(k) \in Int
  <2> TAKE k \in P
  <2>1. [c \in 1 .. CtDim |-> Count(node) * points[k][c]] \in Coords BY <1>1, <1>2, ScaledPoint
  <2> QED BY <1>3, <2>1, DistanceIsNatural
<1> HIDE DEF dist, P
<1>6. S \in SUBSET Int /\ S # {} BY <1>1, <1>5
<1>7. IsFiniteSet(S)
  <2> DEFINE f == [k \in P |-> dist(k)]
  <2>1. f \in Surjection(P, S) BY DEF Surjection
  <2> HIDE DEF f, S
  <2> QED BY <1>1, <2>1, FS_Surjection
<1>8. \E m \in S : \A k \in S : k <= m
  <2> HIDE DEF S
  <2> QED BY <1>6, <1>7, FiniteExtremes
<1>9. Max(S) \in S /\ \A k \in S : k <= Max(S)
  <2>1. Max(S) = CHOOSE x \in S : \A y \in S : x >= y BY DEF Max
  <2>2. \E x \in S : \A y \in S : x >= y BY <1>6, <1>8
  <2>3. Max(S) \in S /\ \A y \in S : Max(S) >= y
    <3> HIDE DEF S
    <3> QED BY <2>1, <2>2
  <2> HIDE DEF S
  <2> QED BY <1>6, <2>3
<1>10. \A k \in P : dist(k) <= radiusSq BY <1>4, <1>9
<1>11. radiusSq \in Int
  <2> HIDE DEF S
  <2> QED BY <1>4, <1>6, <1>9
<1> QED BY <1>3, <1>10, <1>11 DEF dist, P, sum

-----------------------------------------------------------------------------
(* The cone tree: partitions *)

\* Every place holds a point of another place, those of a node points of the node.
Moves(pi, n, node) ==
    /\ pi \in [1 .. n -> 1 .. n]
    /\ \A k, l \in 1 .. n : pi[k] = pi[l] => k = l
    /\ \A i \in 1 .. n : \E k \in 1 .. n : pi[k] = i
    /\ \A k \in 1 .. n : IF k \in PointsOf(node) THEN pi[k] \in PointsOf(node) ELSE pi[k] = k

Rearranged(new, old, n, node) ==
    \E pi : Moves(pi, n, node) /\ new = [k \in 1 .. n |-> old[pi[k]]]

LEMMA RearrangedSame ==
    ASSUME NEW n \in Nat, NEW points \in [1 .. n -> Coords], NEW node
    PROVE  Rearranged(points, points, n, node)
<1> DEFINE pi == [k \in 1 .. n |-> k]
<1>1. Moves(pi, n, node) BY DEF Moves
<1>2. points = [k \in 1 .. n |-> points[pi[k]]] OBVIOUS
<1> QED BY <1>1, <1>2 DEF Rearranged

LEMMA RearrangedExchange ==
    ASSUME NEW n \in Nat, NEW points \in [1 .. n -> Coords], NEW node,
           NEW s \in [1 .. n -> Coords], Rearranged(s, points, n, node),
           NEW i \in 1 .. n, NEW j \in 1 .. n, i \in PointsOf(node), j \in PointsOf(node)
    PROVE  Exchanged(s, i, j) \in [1 .. n -> Coords] /\ Rearranged(Exchanged(s, i, j), points, n, node)
<1> DEFINE from == [k \in 1 .. n |-> IF k = i THEN j ELSE IF k = j THEN i ELSE k]
<1>1. PICK pi : Moves(pi, n, node) /\ s = [k \in 1 .. n |-> points[pi[k]]] BY DEF Rearranged
<1>2. /\ \A k \in 1 .. n : from[k] \in 1 .. n /\ from[from[k]] = k
      /\ \A k \in 1 .. n : k \in PointsOf(node) => from[k] \in PointsOf(node)
      /\ \A k \in 1 .. n : k \notin PointsOf(node) => from[k] = k
  OBVIOUS
<1>3. Exchanged(s, i, j) = [k \in 1 .. n |-> s[from[k]]] BY DEF Exchanged
<1>4. Exchanged(s, i, j) \in [1 .. n -> Coords] BY <1>2, <1>3
<1> HIDE DEF from
<1> DEFINE new == [k \in 1 .. n |-> pi[from[k]]]
<1>5. pi \in [1 .. n -> 1 .. n] BY <1>1 DEF Moves
<1>6. Moves(new, n, node)
  <2>1. new \in [1 .. n -> 1 .. n] BY <1>2, <1>5
  <2>2. ASSUME NEW k \in 1 .. n, NEW l \in 1 .. n, new[k] = new[l] PROVE k = l
    <3>1. from[k] \in 1 .. n /\ from[l] \in 1 .. n BY <1>2
    <3>2. pi[from[k]] = pi[from[l]]
      <4>1. new[k] = pi[from[k]] /\ new[l] = pi[from[l]] OBVIOUS
      <4> HIDE DEF new
      <4> QED BY <2>2, <4>1
    <3>3. from[k] = from[l]
      <4>1. \A x, y \in 1 .. n : pi[x] = pi[y] => x = y BY <1>1 DEF Moves
      <4> QED BY <3>1, <3>2, <4>1
    <3>4. from[from[k]] = k /\ from[from[l]] = l BY <1>2
    <3> QED BY <3>3, <3>4
  <2>3. ASSUME NEW m \in 1 .. n PROVE \E k \in 1 .. n : new[k] = m
    <3>1. PICK l \in 1 .. n : pi[l] = m BY <1>1 DEF Moves
    <3>2. from[l] \in 1 .. n /\ new[from[l]] = m BY <1>2, <3>1
    <3> QED BY <3>2
  <2>4. ASSUME NEW k \in 1 .. n
        PROVE  IF k \in PointsOf(node) THEN new[k] \in PointsOf(node) ELSE new[k] = k
    <3>1. CASE k \in PointsOf(node)
      <4>1. from[k] \in PointsOf(node) /\ from[k] \in 1 .. n BY <1>2, <3>1
      <4> QED BY <1>1, <3>1, <4>1 DEF Moves
    <3>2. CASE k \notin PointsOf(node)
      <4>1. from[k] = k BY <1>2, <3>2
      <4> QED BY <1>1, <3>2, <4>1 DEF Moves
    <3> QED BY <3>1, <3>2
  <2> HIDE DEF new
  <2> QED BY <2>1, <2>2, <2>3, <2>4 DEF Moves
<1>7. Exchanged(s, i, j) = [k \in 1 .. n |-> points[new[k]]]
  <2>1. \A k \in 1 .. n : s[from[k]] = points[pi[from[k]]] BY <1>1, <1>2
  <2> QED BY <1>3, <2>1
<1> HIDE DEF new
<1> QED BY <1>4, <1>6, <1>7 DEF Rearranged

\* A partition at work: until it has found a point for the right child, it has moved none,
\* and it has not gone past the point that is the furthest from the other.
PartitionStates(points, n, node, two) ==
    {s \in [points : [1 .. n -> Coords], first : 1 .. n + 1, last : 1 .. n + 1, forward : BOOLEAN] :
        /\ Rearranged(s.points, points, n, node)
        /\ node.first <= s.first /\ s.first <= s.last /\ s.last <= node.last
        /\ s.last = node.last => s.points = points /\ s.first <= two /\ s.forward}

LEMMA PartitionStepStays ==
    ASSUME NEW n \in Nat, NEW points \in [1 .. n -> Coords], NEW node, IsRange(node, n),
           NEW one \in PointsOf(node), NEW two \in PointsOf(node),
           NEW s \in PartitionStates(points, n, node, two)
    PROVE  PartitionStep(s, one, two) \in PartitionStates(points, n, node, two)
<1> DEFINE X == PartitionStates(points, n, node, two)
           GoesLeft(k) == DistanceSq(s.points[k], s.points[one]) < DistanceSq(s.points[k], s.points[two])
<1>1. /\ s \in [points : [1 .. n -> Coords], first : 1 .. n + 1, last : 1 .. n + 1, forward : BOOLEAN]
      /\ Rearranged(s.points, points, n, node)
      /\ node.first <= s.first /\ s.first <= s.last /\ s.last <= node.last
      /\ s.last = node.last => s.points = points /\ s.first <= two /\ s.forward
  BY DEF PartitionStates
<1>2. /\ node.first \in 1 .. n /\ node.last \in 2 .. n + 1
      /\ PointsOf(node) = node.first .. node.last - 1 /\ two \in 1 .. n /\ one \in 1 .. n
  BY DEF IsRange, PointsOf
<1>3. s.points = points => ~ GoesLeft(two)
  <2>1. points[two] \in Coords /\ points[one] \in Coords BY <1>2
  <2>2. DistanceSq(points[two], points[two]) = 0 BY <2>1, NoDistance
  <2>3. DistanceSq(points[two], points[one]) \in Int /\ DistanceSq(points[two], points[one]) >= 0
    BY <2>1, DistanceIsNatural
  <2> QED BY <2>2, <2>3
<1>4. CASE s.first = s.last
  <2>1. PartitionStep(s, one, two) = s BY <1>4 DEF PartitionStep
  <2> QED BY <2>1
<1>5. CASE s.first # s.last /\ s.forward /\ GoesLeft(s.first)
  <2> DEFINE t == [s EXCEPT !.first = @ + 1]
  <2>1. PartitionStep(s, one, two) = t BY <1>5 DEF PartitionStep
  <2>2. t.points = s.points /\ t.first = s.first + 1 /\ t.last = s.last /\ t.forward = s.forward BY <1>1
  <2>3. t \in [points : [1 .. n -> Coords], first : 1 .. n + 1, last : 1 .. n + 1, forward : BOOLEAN]
    <3>1. s.first + 1 \in 1 .. n + 1 BY <1>1, <1>5
    <3> QED BY <1>1, <3>1
  <2>4. s.last = node.last => s.first + 1 <= two
    <3> SUFFICES ASSUME s.last = node.last PROVE s.first + 1 <= two OBVIOUS
    <3>1. s.first <= two /\ s.first # two BY <1>1, <1>3, <1>5
    <3> QED BY <1>1, <1>2, <3>1
  <2> HIDE DEF t
  <2>5. s.first \in Int /\ s.last \in Int /\ node.first \in Int BY <1>1, <1>2
  <2>6. node.first <= t.first /\ t.first <= t.last /\ t.last <= node.last BY <1>1, <1>5, <2>2, <2>5
  <2>7. t.last = node.last => t.points = points /\ t.first <= two /\ t.forward BY <1>1, <2>2, <2>4
  <2>8. Rearranged(t.points, points, n, node) BY <1>1, <2>2
  <2>9. t \in X BY <2>3, <2>6, <2>7, <2>8 DEF PartitionStates
  <2> QED BY <2>1, <2>9
<1>6. CASE s.first # s.last /\ s.forward /\ ~ GoesLeft(s.first)
  <2> DEFINE t == [s EXCEPT !.last = @ - 1, !.forward = FALSE]
  <2>1. PartitionStep(s, one, two) = t BY <1>6 DEF PartitionStep
  <2>2. t.points = s.points /\ t.first = s.first /\ t.last = s.last - 1 /\ t.forward = FALSE BY <1>1
  <2>3. t \in [points : [1 .. n -> Coords], first : 1 .. n + 1, last : 1 .. n + 1, forward : BOOLEAN]
    <3>1. s.last - 1 \in 1 .. n + 1 BY <1>1, <1>6
    <3> QED BY <1>1, <3>1
  <2>4. s.first <= s.last - 1 /\ s.last - 1 <= node.last /\ s.last - 1 # node.last BY <1>1, <1>2, <1>6
  <2> HIDE DEF t
  <2>5. t \in X BY <1>1, <2>2, <2>3, <2>4 DEF PartitionStates
  <2> QED BY <2>1, <2>5
<1>7. CASE s.first # s.last /\ ~ s.forward /\ ~ GoesLeft(s.last)
  <2> DEFINE t == [s EXCEPT !.last = @ - 1]
  <2>1. PartitionStep(s, one, two) = t BY <1>7 DEF PartitionStep
  <2>2. t.points = s.points /\ t.first = s.first /\ t.last = s.last - 1 /\ t.forward = s.forward BY <1>1
  <2>3. t \in [points : [1 .. n -> Coords], first : 1 .. n + 1, last : 1 .. n + 1, forward : BOOLEAN]
    <3>1. s.last - 1 \in 1 .. n + 1 BY <1>1, <1>7
    <3> QED BY <1>1, <3>1
  <2>4. s.first <= s.last - 1 /\ s.last - 1 <= node.last /\ s.last - 1 # node.last BY <1>1, <1>2, <1>7
  <2> HIDE DEF t
  <2>5. t \in X BY <1>1, <2>2, <2>3, <2>4 DEF PartitionStates
  <2> QED BY <2>1, <2>5
<1>8. CASE s.first # s.last /\ ~ s.forward /\ GoesLeft(s.last)
  <2> DEFINE p == Exchanged(s.points, s.first, s.last)
             t == [s EXCEPT !.points = Exchanged(@, s.first, s.last), !.first = @ + 1, !.forward = TRUE]
  <2>1. PartitionStep(s, one, two) = t BY <1>8 DEF PartitionStep
  <2>2. t.points = p /\ t.first = s.first + 1 /\ t.last = s.last /\ t.forward = TRUE BY <1>1
  <2>3. s.last # node.last BY <1>1, <1>8
  <2>4. s.first \in 1 .. n /\ s.last \in 1 .. n /\ s.first \in PointsOf(node) /\ s.last \in PointsOf(node)
    BY <1>1, <1>2, <1>8, <2>3
  <2>5. p \in [1 .. n -> Coords] /\ Rearranged(p, points, n, node)
    BY <1>1, <2>4, RearrangedExchange
  <2> HIDE DEF p
  <2>6. t \in [points : [1 .. n -> Coords], first : 1 .. n + 1, last : 1 .. n + 1, forward : BOOLEAN]
    <3>1. s.first + 1 \in 1 .. n + 1 BY <1>1, <1>8
    <3>2. t = [[[s EXCEPT !.points = p] EXCEPT !.first = s.first + 1] EXCEPT !.forward = TRUE]
      BY <1>1 DEF p
    <3> DEFINE A == [points : [1 .. n -> Coords], first : 1 .. n + 1, last : 1 .. n + 1, forward : BOOLEAN]
    <3> HIDE DEF t
    <3>3. [s EXCEPT !.points = p] \in A BY <1>1, <2>5
    <3>4. [[s EXCEPT !.points = p] EXCEPT !.first = s.first + 1] \in A BY <3>1, <3>3
    <3> QED BY <3>2, <3>4
  <2> HIDE DEF t
  <2>7. s.first + 1 <= s.last /\ node.first <= s.first + 1 BY <1>1, <1>2, <1>8
  <2>8. t \in X BY <1>1, <2>2, <2>3, <2>5, <2>6, <2>7 DEF PartitionStates
  <2> QED BY <2>1, <2>8
<1> QED BY <1>1, <1>4, <1>5, <1>6, <1>7, <1>8

LEMMA PartitionStays ==
    ASSUME NEW n \in Nat, NEW points \in [1 .. n -> Coords], NEW node, IsRange(node, n)
    PROVE  LET found == Partition(points, node)
           IN  /\ found.points \in [1 .. n -> Coords] /\ Rearranged(found.points, points, n, node)
               /\ found.first \in node.first .. node.last - 1
<1> DEFINE one == FindFurthestElement(points, node, node.first)
           two == FindFurthestElement(points, node, one)
           start == [points |-> points, first |-> node.first, last |-> node.last, forward |-> TRUE]
           X == PartitionStates(points, n, node, two)
           N == 2 * Count(node)
           D == 1 .. N
           c == LastFirst(D)
           all == [i \in D |-> i]
           Defines(it) == it = [s \in SUBSET D |->
                                  IF s = {} THEN start
                                  ELSE PartitionStep(it[s \ {Max(s)}], one, two)]
           step == [q \in D \X X |-> PartitionStep(q[2], one, two)]
           iter == CHOOSE it : Defines(it)
<1>1. Partition(points, node) = iter[D] BY DEF Partition, FoldLeft, MapThenFoldSet
<1>2. one \in PointsOf(node) /\ two \in PointsOf(node) /\ PointsOf(node) \subseteq 1 .. n
      /\ Count(node) \in Nat
  <2>1. PointsOf(node) \subseteq 1 .. n /\ node.first \in PointsOf(node) /\ Count(node) \in Nat
    BY PointsOfRange
  <2>2. one \in PointsOf(node) BY <2>1, FurthestInRange
  <2> HIDE DEF one
  <2> QED BY <2>1, <2>2, FurthestInRange
<1> HIDE DEF one, two
<1>3. start \in X
  <2>1. start \in [points : [1 .. n -> Coords], first : 1 .. n + 1, last : 1 .. n + 1, forward : BOOLEAN]
    BY DEF IsRange
  <2>2. node.first <= node.last /\ node.last <= node.last /\ node.first <= two /\ node.first <= node.first
    BY <1>2 DEF IsRange, PointsOf
  <2> QED BY <2>1, <2>2, RearrangedSame DEF PartitionStates
<1>4. N \in Nat BY <1>2
<1> HIDE DEF X, start, N
<1>5. \A s \in X : PartitionStep(s, one, two) \in X BY <1>2, PartitionStepStays DEF X
<1>6. step \in [D \X X -> X] BY <1>5
<1>7. IsFiniteSet(D) /\ Chooses(c, D)
  <2>1. IsFiniteSet(D) /\ D \in SUBSET Int BY <1>4, FS_Interval
  <2> HIDE DEF D
  <2> QED BY <2>1, LastFirstChooses
<1>8. PICK it \in [SUBSET D -> X] : FoldsOver(it, D, start, c, step)
  <2> HIDE DEF D, c, step
  <2> QED BY <1>3, <1>6, <1>7, FoldExists
<1>9. \A s \in SUBSET D : s # {} => Max(s) \in s BY <1>7 DEF Chooses, LastFirst
<1>10. Defines(it)
  <2>1. ASSUME NEW s \in SUBSET D, s # {}
        PROVE  step[<<c[s], it[s \ {c[s]}]>>] = PartitionStep(it[s \ {Max(s)}], one, two)
    <3>1. c[s] = Max(s) /\ Max(s) \in D /\ s \ {Max(s)} \in SUBSET D BY <1>9, <2>1 DEF LastFirst
    <3>2. it[s \ {Max(s)}] \in X BY <3>1
    <3> DEFINE q == <<Max(s), it[s \ {Max(s)}]>>
    <3>3. q \in D \X X BY <3>1, <3>2
    <3>4. step[q] = PartitionStep(q[2], one, two) BY <3>3
    <3> HIDE DEF c, step
    <3> QED BY <3>1, <3>4
  <2> HIDE DEF step, c, D
  <2> QED BY <1>8, <2>1 DEF FoldsOver
<1>11. Defines(iter)
  <2> HIDE DEF Defines
  <2> QED BY <1>10
<1> HIDE DEF iter
<1> DEFINE T == {s \in SUBSET D : iter[s] \in X}
<1>12. {} \in T BY <1>3, <1>11
<1>13. ASSUME NEW s \in SUBSET D, s # {} PROVE \E x \in s : s \ {x} \in T => s \in T
  <2>1. Max(s) \in s BY <1>9, <1>13
  <2>2. iter[s] = PartitionStep(iter[s \ {Max(s)}], one, two) BY <1>11, <1>13
  <2> QED BY <1>5, <2>1, <2>2
<1>14. SUBSET D \subseteq T
  <2> HIDE DEF T
  <2> QED BY <1>7, <1>12, <1>13, SubsetInduction
<1>15. iter[D] \in X BY <1>14
<1> DEFINE found == iter[D]
<1>16. /\ found.points \in [1 .. n -> Coords] /\ found.first \in 1 .. n + 1 /\ found.last \in 1 .. n + 1
       /\ Rearranged(found.points, points, n, node)
       /\ node.first <= found.first /\ found.first <= found.last /\ found.last <= node.last
       /\ found.last = node.last => found.first <= two
  BY <1>15 DEF X, PartitionStates
<1> HIDE DEF found
<1>17. found.first \in node.first .. node.last - 1
  <2>1. node.first \in Int /\ node.last \in Int /\ two \in Int /\ two <= node.last - 1
    BY <1>2 DEF PointsOf, IsRange
  <2> QED BY <1>16, <2>1
<1> QED BY <1>1, <1>16, <1>17 DEF found

-----------------------------------------------------------------------------
(* The cone tree: what its nodes are while it is built, and what a search   *)
(* has looked at                                                           *)

CtLen == Len(ctInput)
WholeRange == NewNode(1, CtLen + 1)

TreeNodes == [first : Int, last : Int, sum : Coords \cup {<<>>}, radiusSq : Int, left : Nat, right : Nat]

CtTypes ==
    /\ ctInput \in Seq(Coords) /\ ctNodes \in Seq(TreeNodes)
    /\ ctPoints \in [1 .. CtLen -> Coords] /\ Rearranged(ctPoints, ctInput, CtLen, WholeRange)
    /\ ctAt \in 1 .. Len(ctNodes) + 1
    /\ IF CtLen = 0 THEN ctNodes = <<>>
       ELSE ctNodes # <<>> /\ ctNodes[1].first = 1 /\ ctNodes[1].last = CtLen + 1

\* The children of a node come after it, and share its points between them.
AreLinked(nodes, i, at) ==
    \/ nodes[i].left = 0 /\ nodes[i].right = 0
    \/ /\ i < at
       /\ nodes[i].left \in i + 1 .. Len(nodes) /\ nodes[i].right \in i + 1 .. Len(nodes)
       /\ nodes[nodes[i].left].first = nodes[i].first
       /\ nodes[nodes[i].left].last = nodes[nodes[i].right].first
       /\ nodes[nodes[i].right].last = nodes[i].last

Apart(x, y) == x.last <= y.first \/ y.last <= x.first
Within(x, y) == y.first <= x.first /\ x.last <= y.last

\* Ranges that have points in common are those of a node and of one that it was split into:
\* no later move takes a point out of a range whose ball was computed.
RangesNest(nodes, at) ==
    \A i, j \in 1 .. Len(nodes) :
      i < j => Apart(nodes[i], nodes[j]) \/ (i < at /\ Within(nodes[j], nodes[i]))

TreeIsSound ==
    /\ \A i \in 1 .. Len(ctNodes) :
         /\ IsRange(ctNodes[i], CtLen) /\ AreLinked(ctNodes, i, ctAt)
         /\ i < ctAt => InBall(ctNodes[i], ctPoints)
    /\ RangesNest(ctNodes, ctAt)

OnStack(stack, k) == \E j \in 1 .. Len(stack) : k \in PointsOf(ctNodes[stack[j]])

\* Every point is still to be looked at, or not better than the best.
SearchCovers ==
    \A k \in 1 .. CtLen :
      \/ OnStack(ctStack, k)
      \/ ctBest # 0 /\ Dot(ctPoints[k], ctQuery) <= Dot(ctPoints[ctBest], ctQuery)

SearchIsSound ==
    /\ ctStack \in Seq(1 .. Len(ctNodes)) /\ ctBest \in 0 .. CtLen
    /\ ~ Built => ctQuery = <<>> /\ ctStack = <<>>
    /\ ctQuery # <<>> \/ ctStack # <<>> => ctQuery \in Coords /\ SearchCovers

CtIInv == CtTypes /\ TreeIsSound /\ SearchIsSound

LEMMA RearrangedTwice ==
    ASSUME NEW n \in Nat, NEW a, NEW b, NEW c, NEW node, NEW whole,
           Rearranged(a, b, n, node), Rearranged(b, c, n, whole),
           PointsOf(node) \subseteq 1 .. n, PointsOf(whole) = 1 .. n
    PROVE  Rearranged(a, c, n, whole)
<1>1. PICK f : Moves(f, n, node) /\ a = [k \in 1 .. n |-> b[f[k]]] BY DEF Rearranged
<1>2. PICK g : Moves(g, n, whole) /\ b = [k \in 1 .. n |-> c[g[k]]] BY DEF Rearranged
<1>3. f \in [1 .. n -> 1 .. n] /\ g \in [1 .. n -> 1 .. n] BY <1>1, <1>2 DEF Moves
<1> DEFINE h == [k \in 1 .. n |-> g[f[k]]]
<1>4. Moves(h, n, whole)
  <2>1. h \in [1 .. n -> 1 .. n] BY <1>3
  <2>2. ASSUME NEW k \in 1 .. n, NEW l \in 1 .. n, h[k] = h[l] PROVE k = l
    <3>1. f[k] \in 1 .. n /\ f[l] \in 1 .. n /\ g[f[k]] = g[f[l]] BY <1>3, <2>2
    <3>2. f[k] = f[l] BY <1>2, <3>1 DEF Moves
    <3> QED BY <1>1, <3>2 DEF Moves
  <2>3. ASSUME NEW m \in 1 .. n PROVE \E k \in 1 .. n : h[k] = m
    <3>1. PICK l \in 1 .. n : g[l] = m BY <1>2 DEF Moves
    <3>2. PICK k \in 1 .. n : f[k] = l BY <1>1 DEF Moves
    <3> QED BY <3>1, <3>2
  <2>4. \A k \in 1 .. n : k \in PointsOf(whole) /\ h[k] \in PointsOf(whole) BY <2>1
  <2> HIDE DEF h
  <2> QED BY <2>1, <2>2, <2>3, <2>4 DEF Moves
<1>5. a = [k \in 1 .. n |-> c[h[k]]]
  <2>1. \A k \in 1 .. n : b[f[k]] = c[g[f[k]]] BY <1>2, <1>3
  <2> QED BY <1>1, <2>1
<1> HIDE DEF h
<1> QED BY <1>4, <1>5 DEF Rearranged

\* A ball keeps its points when those of a range within it, or apart from it, are moved.
LEMMA BallStays ==
    ASSUME NEW n \in Nat, NEW points \in [1 .. n -> Coords], NEW new \in [1 .. n -> Coords],
           NEW node, IsRange(node, n), Rearranged(new, points, n, node),
           NEW x, IsRange(x, n), InBall(x, points), Apart(x, node) \/ Within(node, x)
    PROVE  InBall(x, new)
<1>1. PICK pi : Moves(pi, n, node) /\ new = [k \in 1 .. n |-> points[pi[k]]] BY DEF Rearranged
<1>2. ASSUME NEW k \in PointsOf(x) PROVE k \in 1 .. n /\ pi[k] \in PointsOf(x)
  <2>1. k \in 1 .. n BY PointsOfRange
  <2>2. CASE k \in PointsOf(node)
    <3>1. pi[k] \in PointsOf(node) BY <1>1, <2>1, <2>2 DEF Moves
    <3>2. x.first \in Int /\ x.last \in Int /\ node.first \in Int /\ node.last \in Int BY DEF IsRange
    <3>3. Within(node, x)
      <4>1. k \in x.first .. x.last - 1 /\ k \in node.first .. node.last - 1 BY <2>2 DEF PointsOf
      <4>2. k \in Int /\ x.first <= k /\ k < x.last /\ node.first <= k /\ k < node.last BY <3>2, <4>1
      <4>3. ~ (x.last <= node.first) /\ ~ (node.last <= x.first) BY <3>2, <4>2
      <4> QED BY <4>3 DEF Apart
    <3>4. pi[k] \in node.first .. node.last - 1 /\ pi[k] \in Int BY <3>1, <3>2 DEF PointsOf
    <3>5. pi[k] \in x.first .. x.last - 1 BY <3>2, <3>3, <3>4 DEF Within
    <3> QED BY <2>1, <3>5 DEF PointsOf
  <2>3. CASE k \notin PointsOf(node) BY <1>1, <2>1, <2>3 DEF Moves
  <2> QED BY <2>1, <2>2, <2>3
<1>3. ASSUME NEW k \in PointsOf(x)
      PROVE  DistanceSq([c \in 1 .. CtDim |-> Count(x) * new[k][c]], x.sum) <= x.radiusSq
  <2>1. new[k] = points[pi[k]] /\ pi[k] \in PointsOf(x) BY <1>1, <1>2
  <2>2. [c \in 1 .. CtDim |-> Count(x) * new[k][c]] = [c \in 1 .. CtDim |-> Count(x) * points[pi[k]][c]]
    BY <2>1
  <2>3. DistanceSq([c \in 1 .. CtDim |-> Count(x) * points[pi[k]][c]], x.sum) <= x.radiusSq
    BY <2>1 DEF InBall
  <2> QED BY <2>2, <2>3
<1> QED BY <1>3 DEF InBall

LEMMA WithBallIsSound ==
    ASSUME CtTypes, NEW node \in TreeNodes, IsRange(node, CtLen)
    PROVE  /\ WithBall(node) \in TreeNodes /\ InBall(WithBall(node), ctPoints)
           /\ WithBall(node).first = node.first /\ WithBall(node).last = node.last
           /\ WithBall(node).left = node.left /\ WithBall(node).right = node.right
<1> DEFINE sum == FindCenter(ctPoints, node)
           radiusSq == FindRadius(ctPoints, node, sum)
           b == [node EXCEPT !.sum = sum, !.radiusSq = radiusSq]
<1>1. WithBall(node) = b BY DEF WithBall
<1>2. CtLen \in Nat /\ ctPoints \in [1 .. CtLen -> Coords] BY LenProperties DEF CtTypes, CtLen
<1>3. /\ sum \in Coords /\ radiusSq \in Int
      /\ \A k \in PointsOf(node) :
           DistanceSq([c \in 1 .. CtDim |-> Count(node) * ctPoints[k][c]], sum) <= radiusSq
  BY <1>2, BallHolds
<1> HIDE DEF sum, radiusSq
<1>4. b \in TreeNodes BY <1>3 DEF TreeNodes
<1>5. /\ b.sum = sum /\ b.radiusSq = radiusSq /\ b.first = node.first /\ b.last = node.last
      /\ b.left = node.left /\ b.right = node.right
  BY DEF TreeNodes
<1> HIDE DEF b
<1>6. PointsOf(b) = PointsOf(node) /\ Count(b) = Count(node) BY <1>5 DEF PointsOf, Count
<1>7. InBall(b, ctPoints) BY <1>3, <1>5, <1>6 DEF InBall
<1> QED BY <1>1, <1>4, <1>5, <1>7

LEMMA CtLenIsNat == ASSUME CtTypes PROVE CtLen \in Nat /\ Len(ctNodes) \in Nat /\ ctAt \in Nat
BY LenProperties DEF CtTypes, CtLen

LEMMA TreeStarts == CtInit => CtIInv
<1> SUFFICES ASSUME CtInit PROVE CtIInv OBVIOUS
<1>1. ctInput \in Seq(Coords) /\ ctPoints = ctInput BY CtAssumption DEF CtInit, Coords
<1>2. CtLen \in Nat /\ ctInput \in [1 .. CtLen -> Coords] BY <1>1 DEF CtLen
<1> DEFINE whole == NewNode(1, CtLen + 1)
<1>3. Rearranged(ctPoints, ctInput, CtLen, WholeRange) BY <1>1, <1>2, RearrangedSame
<1>4. ctNodes = (IF CtLen = 0 THEN <<>> ELSE <<whole>>) /\ ctAt = 1
  <2>1. ctInput = <<>> <=> CtLen = 0 BY <1>1, EmptySeq DEF CtLen
  <2>2. ctNodes = IF ctInput = <<>> THEN <<>> ELSE <<whole>> BY DEF CtInit, CtLen
  <2> QED BY <2>1, <2>2 DEF CtInit
<1>5. /\ whole.first = 1 /\ whole.last = CtLen + 1 /\ whole.left = 0 /\ whole.right = 0
      /\ whole \in TreeNodes
  <2>1. whole = [first |-> 1, last |-> CtLen + 1, sum |-> <<>>, radiusSq |-> 0, left |-> 0, right |-> 0]
    BY DEF NewNode
  <2> HIDE DEF whole
  <2>2. whole \in TreeNodes BY <1>2, <2>1 DEF TreeNodes
  <2> QED BY <2>1, <2>2
<1> HIDE DEF whole
<1>6. /\ ctNodes \in Seq(TreeNodes) /\ Len(ctNodes) = (IF CtLen = 0 THEN 0 ELSE 1)
      /\ CtLen # 0 => ctNodes # <<>> /\ ctNodes[1] = whole
  <2>1. CASE CtLen = 0 BY <1>4, <2>1
  <2>2. CASE CtLen # 0
    <3>1. ctNodes = <<whole>> BY <1>4, <2>2
    <3> QED BY <1>5, <2>2, <3>1
  <2> QED BY <2>1, <2>2
<1>7. CtTypes BY <1>1, <1>2, <1>3, <1>4, <1>5, <1>6 DEF CtTypes
<1>8. TreeIsSound
  <2>1. ASSUME NEW i \in 1 .. Len(ctNodes) PROVE i = 1 /\ ctNodes[i] = whole /\ CtLen # 0
    BY <1>2, <1>6, <2>1
  <2>2. ASSUME CtLen # 0 PROVE IsRange(whole, CtLen) BY <1>2, <1>5, <2>2 DEF IsRange
  <2>3. \A i \in 1 .. Len(ctNodes) : IsRange(ctNodes[i], CtLen) /\ AreLinked(ctNodes, i, ctAt) /\ ~ (i < ctAt)
    BY <1>4, <1>5, <2>1, <2>2 DEF AreLinked
  <2>4. RangesNest(ctNodes, ctAt) BY <2>1 DEF RangesNest
  <2> QED BY <2>3, <2>4 DEF TreeIsSound
<1>9. SearchIsSound
  <2>1. ctStack = <<>> /\ ctBest = 0 /\ ctQuery = <<>> BY DEF CtInit
  <2>2. ctStack \in Seq(1 .. Len(ctNodes)) BY <2>1
  <2> QED BY <1>2, <2>1, <2>2 DEF SearchIsSound
<1> QED BY <1>7, <1>8, <1>9 DEF CtIInv

\* The node that is built next is a leaf with a range still.
LEMMA NodeAt ==
    ASSUME CtIInv, ~ Built
    PROVE  /\ ctAt \in 1 .. Len(ctNodes) /\ ctAt \in Nat /\ Len(ctNodes) \in Nat /\ CtLen \in Nat
           /\ ctNodes[ctAt] \in TreeNodes /\ IsRange(ctNodes[ctAt], CtLen)
           /\ ctNodes[ctAt].left = 0 /\ ctNodes[ctAt].right = 0
           /\ ctNodes \in [1 .. Len(ctNodes) -> TreeNodes]
<1>1. /\ ctNodes \in Seq(TreeNodes) /\ ctAt \in 1 .. Len(ctNodes) + 1
      /\ CtLen \in Nat /\ Len(ctNodes) \in Nat /\ ctAt \in Nat
  BY CtLenIsNat DEF CtIInv, CtTypes
<1>2. ctAt \in 1 .. Len(ctNodes) BY <1>1 DEF Built
<1>3. ctNodes \in [1 .. Len(ctNodes) -> TreeNodes] BY <1>1
<1>4. IsRange(ctNodes[ctAt], CtLen) /\ AreLinked(ctNodes, ctAt, ctAt) BY <1>2 DEF CtIInv, TreeIsSound
<1>5. ctNodes[ctAt].left = 0 /\ ctNodes[ctAt].right = 0 BY <1>1, <1>4 DEF AreLinked
<1> QED BY <1>1, <1>2, <1>3, <1>4, <1>5

LEMMA LeafKeepsTree ==
    ASSUME CtIInv, BuildLeaf
    PROVE  CtIInv'
<1> DEFINE at == ctAt
           n == CtLen
           len == Len(ctNodes)
           new == WithBall(ctNodes[at])
<1>1. /\ ~ Built /\ ctNodes' = [ctNodes EXCEPT ![at] = new] /\ ctAt' = at + 1
      /\ UNCHANGED <<ctInput, ctPoints, ctCapacity, ctDefined, ctQuery, ctStack, ctBest>>
  BY DEF BuildLeaf
<1>2. /\ at \in 1 .. len /\ at \in Nat /\ len \in Nat /\ n \in Nat
      /\ ctNodes[at] \in TreeNodes /\ IsRange(ctNodes[at], n)
      /\ ctNodes[at].left = 0 /\ ctNodes[at].right = 0
      /\ ctNodes \in [1 .. len -> TreeNodes]
  BY <1>1, NodeAt
<1>3. /\ new \in TreeNodes /\ InBall(new, ctPoints)
      /\ new.first = ctNodes[at].first /\ new.last = ctNodes[at].last
      /\ new.left = ctNodes[at].left /\ new.right = ctNodes[at].right
  BY <1>2, WithBallIsSound DEF CtIInv
<1> HIDE DEF new
<1>4. CtTypes /\ TreeIsSound /\ SearchIsSound BY DEF CtIInv
<1>5. n' = n /\ WholeRange' = WholeRange BY <1>1 DEF CtLen, WholeRange
<1>6. ctNodes' \in Seq(TreeNodes) /\ Len(ctNodes') = len /\ ctNodes' \in [1 .. len -> TreeNodes]
  <2>1. ctNodes' \in [1 .. len -> TreeNodes] BY <1>1, <1>2, <1>3
  <2> QED BY <1>2, <2>1
<1>7. \A i \in 1 .. len : /\ ctNodes'[i].first = ctNodes[i].first /\ ctNodes'[i].last = ctNodes[i].last
                          /\ ctNodes'[i].left = ctNodes[i].left /\ ctNodes'[i].right = ctNodes[i].right
                          /\ i # at => ctNodes'[i] = ctNodes[i]
                          /\ i = at => ctNodes'[i] = new
  BY <1>1, <1>2, <1>3
<1>8. CtTypes'
  <2>1. ctAt' \in 1 .. Len(ctNodes') + 1 BY <1>1, <1>2, <1>6
  <2>2. IF n = 0 THEN ctNodes = <<>>
        ELSE ctNodes # <<>> /\ ctNodes[1].first = 1 /\ ctNodes[1].last = n + 1
    BY <1>4 DEF CtTypes
  <2>3. n # 0 /\ ctNodes' # <<>> /\ 1 \in 1 .. len BY <1>2, <1>6, <2>2
  <2>4. IF n' = 0 THEN ctNodes' = <<>>
        ELSE ctNodes' # <<>> /\ ctNodes'[1].first = 1 /\ ctNodes'[1].last = n' + 1
    BY <1>5, <1>7, <2>2, <2>3
  <2>5. /\ ctInput' \in Seq(Coords) /\ ctPoints' \in [1 .. n' -> Coords]
        /\ Rearranged(ctPoints', ctInput', n', WholeRange')
    BY <1>1, <1>4, <1>5 DEF CtTypes
  <2> QED BY <1>6, <2>1, <2>4, <2>5 DEF CtTypes
<1>9. TreeIsSound'
  <2>1. ASSUME NEW i \in 1 .. len
        PROVE  /\ IsRange(ctNodes'[i], n) /\ AreLinked(ctNodes', i, at + 1)
               /\ i < at + 1 => InBall(ctNodes'[i], ctPoints)
    <3>1. IsRange(ctNodes[i], n) /\ AreLinked(ctNodes, i, at) /\ (i < at => InBall(ctNodes[i], ctPoints))
      BY <1>4 DEF TreeIsSound
    <3>2. IsRange(ctNodes'[i], n) BY <1>7, <3>1 DEF IsRange
    <3>3. AreLinked(ctNodes', i, at + 1)
      <4>1. CASE ctNodes[i].left = 0 /\ ctNodes[i].right = 0 BY <1>7, <4>1 DEF AreLinked
      <4>2. CASE ~ (ctNodes[i].left = 0 /\ ctNodes[i].right = 0)
        <5> DEFINE l == ctNodes[i].left
                   r == ctNodes[i].right
        <5>1. /\ i < at /\ l \in i + 1 .. len /\ r \in i + 1 .. len
              /\ ctNodes[l].first = ctNodes[i].first
              /\ ctNodes[l].last = ctNodes[r].first
              /\ ctNodes[r].last = ctNodes[i].last
          BY <3>1, <4>2 DEF AreLinked
        <5>2. ctNodes'[i].left = l /\ ctNodes'[i].right = r BY <1>7
        <5> HIDE DEF l, r
        <5>3. l \in 1 .. len /\ r \in 1 .. len /\ i < at + 1 BY <1>2, <5>1
        <5> QED BY <1>6, <1>7, <5>1, <5>2, <5>3 DEF AreLinked
      <4> QED BY <4>1, <4>2
    <3>4. i < at + 1 => InBall(ctNodes'[i], ctPoints)
      <4>1. CASE i = at BY <1>3, <1>7, <4>1
      <4>2. CASE i # at
        <5>1. i < at + 1 => i < at BY <1>2, <4>2
        <5> QED BY <1>7, <3>1, <4>2, <5>1
      <4> QED BY <4>1, <4>2
    <3> QED BY <3>2, <3>3, <3>4
  <2>2. RangesNest(ctNodes', at + 1)
    <3> SUFFICES ASSUME NEW i \in 1 .. len, NEW j \in 1 .. len, i < j
                 PROVE  \/ Apart(ctNodes'[i], ctNodes'[j])
                        \/ i < at + 1 /\ Within(ctNodes'[j], ctNodes'[i])
      BY <1>6 DEF RangesNest
    <3>1. Apart(ctNodes[i], ctNodes[j]) \/ (i < at /\ Within(ctNodes[j], ctNodes[i]))
      BY <1>4 DEF TreeIsSound, RangesNest
    <3>2. i < at => i < at + 1 BY <1>2
    <3> QED BY <1>7, <3>1, <3>2 DEF Apart, Within
  <2> QED BY <1>1, <1>5, <1>6, <2>1, <2>2 DEF TreeIsSound
<1>10. SearchIsSound'
  <2>1. ctQuery' = <<>> /\ ctStack' = <<>> /\ ctBest' \in 0 .. n BY <1>1, <1>4 DEF SearchIsSound
  <2>2. ctStack' \in Seq(1 .. Len(ctNodes')) BY <2>1
  <2> QED BY <1>5, <2>1, <2>2 DEF SearchIsSound
<1> QED BY <1>8, <1>9, <1>10 DEF CtIInv

LEMMA NewNodeFields ==
    ASSUME NEW first \in Int, NEW last \in Int
    PROVE  /\ NewNode(first, last) \in TreeNodes
           /\ NewNode(first, last).first = first /\ NewNode(first, last).last = last
           /\ NewNode(first, last).left = 0 /\ NewNode(first, last).right = 0
<1> DEFINE x == NewNode(first, last)
<1>1. x = [first |-> first, last |-> last, sum |-> <<>>, radiusSq |-> 0, left |-> 0, right |-> 0]
  BY DEF NewNode
<1>2. x \in TreeNodes BY <1>1 DEF TreeNodes
<1> HIDE DEF x
<1>3. x.first = first /\ x.last = last /\ x.left = 0 /\ x.right = 0 BY <1>1
<1> HIDE <1>1
<1> QED BY <1>2, <1>3 DEF x

\* What a node is split into: the nodes until now keep their ranges, and two are added.
SplitsInto(new, mid) ==
    LET len == Len(ctNodes)
        at == ctAt
    IN  /\ Len(new) = len + 2 /\ new \in [1 .. len + 2 -> TreeNodes]
        /\ \A i \in 1 .. len : /\ new[i].first = ctNodes[i].first /\ new[i].last = ctNodes[i].last
                               /\ i # at => new[i] = ctNodes[i]
        /\ mid \in ctNodes[at].first + 1 .. ctNodes[at].last - 1
        /\ new[len + 1].first = ctNodes[at].first /\ new[len + 1].last = mid
        /\ new[len + 2].first = mid /\ new[len + 2].last = ctNodes[at].last
        /\ \A i \in {len + 1, len + 2} : new[i].left = 0 /\ new[i].right = 0
        /\ new[at].left = len + 1 /\ new[at].right = len + 2

LEMMA BuildNodeSplits ==
    ASSUME CtIInv, BuildNode
    PROVE  /\ \E mid : SplitsInto(ctNodes', mid)
           /\ InBall(ctNodes'[ctAt], ctPoints)
           /\ ctPoints' \in [1 .. CtLen -> Coords]
           /\ Rearranged(ctPoints', ctPoints, CtLen, ctNodes[ctAt])
<1> DEFINE at == ctAt
           n == CtLen
           len == Len(ctNodes)
           node == WithBall(ctNodes[at])
           found == Partition(ctPoints, node)
           mid == Middle(node, found.first)
           left == NewNode(node.first, mid)
           right == NewNode(mid, node.last)
           linked == [node EXCEPT !.left = len + 1, !.right = len + 1 + 1]
           x == linked
<1>1. /\ ~ Built /\ Count(ctNodes[at]) > CtMaxLeaf /\ ctPoints' = found.points
      /\ ctNodes' = [ctNodes EXCEPT ![at] = x] \o <<left, right>>
  BY DEF BuildNode
<1>2. /\ at \in 1 .. len /\ at \in Nat /\ len \in Nat /\ n \in Nat
      /\ ctNodes[at] \in TreeNodes /\ IsRange(ctNodes[at], n)
      /\ ctNodes[at].left = 0 /\ ctNodes[at].right = 0
      /\ ctNodes \in [1 .. len -> TreeNodes]
  BY <1>1, NodeAt
<1>3. /\ node \in TreeNodes /\ InBall(node, ctPoints)
      /\ node.first = ctNodes[at].first /\ node.last = ctNodes[at].last
      /\ node.left = ctNodes[at].left /\ node.right = ctNodes[at].right
  BY <1>2, WithBallIsSound DEF CtIInv
<1> HIDE DEF node
<1>4. IsRange(node, n) /\ ctPoints \in [1 .. n -> Coords] BY <1>2, <1>3 DEF IsRange, CtIInv, CtTypes
<1>5. /\ found.points \in [1 .. n -> Coords] /\ Rearranged(found.points, ctPoints, n, node)
      /\ found.first \in node.first .. node.last - 1
  BY <1>2, <1>4, PartitionStays
<1> HIDE DEF found
<1>6. Rearranged(found.points, ctPoints, n, ctNodes[at])
  <2>1. PointsOf(node) = PointsOf(ctNodes[at]) BY <1>3 DEF PointsOf
  <2>2. PICK pi : Moves(pi, n, node) /\ found.points = [k \in 1 .. n |-> ctPoints[pi[k]]]
    BY <1>5 DEF Rearranged
  <2>3. Moves(pi, n, ctNodes[at]) BY <2>1, <2>2 DEF Moves
  <2> QED BY <2>2, <2>3 DEF Rearranged
<1>7. node.first \in Int /\ node.last \in Int /\ node.last - node.first >= 2
  <2>1. node.first \in Int /\ node.last \in Int BY <1>3 DEF TreeNodes
  <2>2. CtMaxLeaf >= 1 /\ CtMaxLeaf \in Int BY CtAssumption
  <2>3. node.last - node.first > CtMaxLeaf BY <1>1, <1>3 DEF Count
  <2> QED BY <2>1, <2>2, <2>3
<1>8. mid \in node.first + 1 .. node.last - 1 /\ mid \in Int
  <2>1. mid = IF found.first = node.first THEN found.first + 1 ELSE found.first BY DEF Middle
  <2> DEFINE a == node.first
             b == node.last
             f == found.first
  <2>2. a \in Int /\ b \in Int /\ b - a >= 2 /\ f \in a .. b - 1 BY <1>5, <1>7
  <2>3. mid = IF f = a THEN f + 1 ELSE f BY <2>1
  <2> HIDE DEF mid, a, b, f
  <2>4. mid \in a + 1 .. b - 1 /\ mid \in Int BY <2>2, <2>3
  <2> QED BY <2>4 DEF a, b
<1> HIDE DEF mid
<1>9. left \in TreeNodes /\ left.first = node.first /\ left.last = mid /\ left.left = 0 /\ left.right = 0
  BY <1>7, <1>8, NewNodeFields
<1>10. right \in TreeNodes /\ right.first = mid /\ right.last = node.last /\ right.left = 0 /\ right.right = 0
  BY <1>7, <1>8, NewNodeFields
<1>11. /\ linked \in TreeNodes /\ linked.first = node.first /\ linked.last = node.last
       /\ linked.sum = node.sum /\ linked.radiusSq = node.radiusSq
       /\ linked.left = len + 1 /\ linked.right = len + 2
  <2>1. len + 1 \in Nat /\ len + 1 + 1 = len + 2 /\ len + 2 \in Nat BY <1>2
  <2> HIDE DEF len
  <2> QED BY <1>3, <2>1 DEF TreeNodes
<1> HIDE DEF left, right, linked
<1>12. /\ x \in TreeNodes /\ x.first = node.first /\ x.last = node.last
       /\ x.sum = node.sum /\ x.radiusSq = node.radiusSq
       /\ x.left = len + 1 /\ x.right = len + 2
  BY <1>11
<1> HIDE DEF x
<1>13. InBall(x, ctPoints)
  <2>1. PointsOf(x) = PointsOf(node) /\ Count(x) = Count(node) BY <1>12 DEF PointsOf, Count
  <2> QED BY <1>3, <1>12, <2>1 DEF InBall
<1> DEFINE s == [ctNodes EXCEPT ![at] = x]
<1>14. s \in [1 .. len -> TreeNodes] /\ s[at] = x /\ \A i \in 1 .. len : i # at => s[i] = ctNodes[i]
  BY <1>2, <1>12
<1>15. s \in Seq(TreeNodes) /\ Len(s) = len
  <2> HIDE DEF s
  <2> QED BY <1>2, <1>14
<1> HIDE DEF s
<1>16. /\ Len(ctNodes') = len + 2 /\ ctNodes' \in Seq(TreeNodes)
       /\ \A i \in 1 .. len : ctNodes'[i] = s[i]
       /\ ctNodes'[len + 1] = left /\ ctNodes'[len + 2] = right
  <2>1. ctNodes' = s \o <<left, right>> BY <1>1 DEF s
  <2>2. <<left, right>> \in Seq(TreeNodes) /\ Len(<<left, right>>) = 2
        /\ <<left, right>>[1] = left /\ <<left, right>>[2] = right
    BY <1>9, <1>10
  <2> DEFINE t == <<left, right>>
  <2> HIDE DEF t
  <2>3. /\ s \o t \in Seq(TreeNodes) /\ Len(s \o t) = Len(s) + Len(t)
        /\ \A i \in 1 .. Len(s) + Len(t) : (s \o t)[i] = IF i <= Len(s) THEN s[i] ELSE t[i - Len(s)]
    BY <1>15, <2>2, ConcatProperties DEF t
  <2>4. len + 1 - len = 1 /\ len + 2 - len = 2 /\ ~ (len + 1 <= len) /\ ~ (len + 2 <= len)
        /\ len + 1 \in 1 .. len + 2 /\ len + 2 \in 1 .. len + 2
        /\ \A i \in 1 .. len : i \in 1 .. len + 2 /\ i <= len
    BY <1>2
  <2>5. Len(t) = 2 /\ t[1] = left /\ t[2] = right BY <2>2 DEF t
  <2>6. ctNodes' = s \o t BY <2>1 DEF t
  <2> HIDE DEF len
  <2> QED BY <1>15, <2>3, <2>4, <2>5, <2>6
<1>17. ctNodes' \in [1 .. len + 2 -> TreeNodes]
  <2>1. ctNodes' \in [1 .. Len(ctNodes') -> TreeNodes] BY <1>16
  <2> QED BY <1>16, <2>1
<1>18. ctNodes'[at] = x BY <1>2, <1>14, <1>16
<1>19. \A i \in 1 .. len : /\ ctNodes'[i].first = ctNodes[i].first /\ ctNodes'[i].last = ctNodes[i].last
                           /\ i # at => ctNodes'[i] = ctNodes[i]
  BY <1>3, <1>12, <1>14, <1>16
<1>20. SplitsInto(ctNodes', mid)
  <2>1. mid \in ctNodes[at].first + 1 .. ctNodes[at].last - 1 BY <1>3, <1>8
  <2>2. ctNodes'[at].left = len + 1 /\ ctNodes'[at].right = len + 2
    BY <1>12, <1>18
  <2>3. \A i \in {len + 1, len + 2} : ctNodes'[i].left = 0 /\ ctNodes'[i].right = 0
    BY <1>9, <1>10, <1>16
  <2>4. /\ ctNodes'[len + 1].first = ctNodes[at].first /\ ctNodes'[len + 1].last = mid
        /\ ctNodes'[len + 2].first = mid /\ ctNodes'[len + 2].last = ctNodes[at].last
    BY <1>3, <1>9, <1>10, <1>16
  <2> QED BY <1>16, <1>17, <1>19, <2>1, <2>2, <2>3, <2>4 DEF SplitsInto
<1> QED BY <1>1, <1>5, <1>6, <1>13, <1>18, <1>20

LEMMA ApartWithin ==
    ASSUME NEW x, NEW y, NEW z, NEW n \in Nat, IsRange(x, n), IsRange(y, n), IsRange(z, n), Within(z, y)
    PROVE  /\ Apart(x, y) => Apart(x, z)
           /\ Apart(y, x) => Apart(x, z)
           /\ Within(y, x) => Within(z, x)
<1>1. /\ x.first \in Int /\ x.last \in Int /\ y.first \in Int /\ y.last \in Int
      /\ z.first \in Int /\ z.last \in Int
  BY DEF IsRange
<1>2. y.first <= z.first /\ z.last <= y.last BY DEF Within
<1>3. Apart(x, y) => Apart(x, z) BY <1>1, <1>2 DEF Apart
<1>4. Apart(y, x) => Apart(x, z) BY <1>1, <1>2 DEF Apart
<1>5. Within(y, x) => Within(z, x) BY <1>1, <1>2 DEF Within
<1> QED BY <1>3, <1>4, <1>5

LEMMA SplitNests ==
    ASSUME CtIInv, ~ Built, NEW new, NEW mid, SplitsInto(new, mid)
    PROVE  /\ \A i \in 1 .. Len(ctNodes) + 2 : IsRange(new[i], CtLen)
           /\ RangesNest(new, ctAt + 1)
<1> DEFINE at == ctAt
           n == CtLen
           len == Len(ctNodes)
<1>1. at \in 1 .. len /\ at \in Nat /\ len \in Nat /\ n \in Nat /\ IsRange(ctNodes[at], n)
  BY NodeAt
<1>2. /\ \A i \in 1 .. len : IsRange(ctNodes[i], n)
      /\ \A i, j \in 1 .. len : i < j => Apart(ctNodes[i], ctNodes[j])
                                         \/ (i < at /\ Within(ctNodes[j], ctNodes[i]))
  BY DEF CtIInv, TreeIsSound, RangesNest
<1>3. /\ Len(new) = len + 2
      /\ \A i \in 1 .. len : new[i].first = ctNodes[i].first /\ new[i].last = ctNodes[i].last
      /\ mid \in ctNodes[at].first + 1 .. ctNodes[at].last - 1
      /\ new[len + 1].first = ctNodes[at].first /\ new[len + 1].last = mid
      /\ new[len + 2].first = mid /\ new[len + 2].last = ctNodes[at].last
  BY DEF SplitsInto
<1>4. \A i \in 1 .. len + 2 : i \in 1 .. len \/ i = len + 1 \/ i = len + 2 BY <1>1
<1> HIDE DEF at, len, n
<1>5. /\ ctNodes[at].first \in 1 .. n /\ ctNodes[at].last \in ctNodes[at].first + 1 .. n + 1
  BY <1>1 DEF IsRange
<1>6. /\ ctNodes[at].first <= ctNodes[at].first /\ ctNodes[at].last <= ctNodes[at].last
      /\ ctNodes[at].first <= mid /\ mid <= ctNodes[at].last
  <2> DEFINE a == ctNodes[at].first
             b == ctNodes[at].last
  <2>1. n \in Nat /\ a \in 1 .. n /\ b \in a + 1 .. n + 1 /\ mid \in a + 1 .. b - 1 BY <1>1, <1>3, <1>5
  <2> HIDE DEF a, b
  <2>2. a <= a /\ b <= b /\ a <= mid /\ mid <= b BY <2>1
  <2> QED BY <2>2 DEF a, b
<1>7. IsRange(new[len + 1], n) /\ Within(new[len + 1], ctNodes[at])
  <2>1. IsRange(new[len + 1], n) BY <1>1, <1>3, <1>5 DEF IsRange
  <2>2. /\ ctNodes[at].first <= new[len + 1].first /\ new[len + 1].last <= ctNodes[at].last
    BY <1>3, <1>6
  <2>3. Within(new[len + 1], ctNodes[at]) BY <2>2 DEF Within
  <2> QED BY <2>1, <2>3
<1>8. IsRange(new[len + 2], n) /\ Within(new[len + 2], ctNodes[at])
  <2>1. IsRange(new[len + 2], n) BY <1>1, <1>3, <1>5 DEF IsRange
  <2>2. /\ ctNodes[at].first <= new[len + 2].first /\ new[len + 2].last <= ctNodes[at].last
    BY <1>3, <1>6
  <2>3. Within(new[len + 2], ctNodes[at]) BY <2>2 DEF Within
  <2> QED BY <2>1, <2>3
<1>9. \A i \in 1 .. len : IsRange(new[i], n) BY <1>2, <1>3 DEF IsRange
<1>10. \A i \in 1 .. len + 2 : IsRange(new[i], n) BY <1>4, <1>7, <1>8, <1>9
<1>11. ASSUME NEW i \in 1 .. len, NEW j \in {len + 1, len + 2}
       PROVE  Apart(new[i], new[j]) \/ (i < at + 1 /\ Within(new[j], new[i]))
  <2>1. IsRange(new[j], n) /\ Within(new[j], ctNodes[at]) BY <1>7, <1>8
  <2>2. /\ Apart(ctNodes[i], ctNodes[at]) => Apart(ctNodes[i], new[j])
        /\ Apart(ctNodes[at], ctNodes[i]) => Apart(ctNodes[i], new[j])
        /\ Within(ctNodes[at], ctNodes[i]) => Within(new[j], ctNodes[i])
    BY <1>1, <1>2, <2>1, ApartWithin
  <2>3. /\ Apart(ctNodes[i], new[j]) => Apart(new[i], new[j])
        /\ Within(new[j], ctNodes[i]) => Within(new[j], new[i])
    BY <1>3 DEF Apart, Within
  <2>4. CASE i < at
    <3>1. i < at + 1 BY <1>1, <2>4
    <3> QED BY <1>1, <1>2, <2>2, <2>3, <2>4, <3>1
  <2>5. CASE i = at
    <3>1. i < at + 1 BY <1>1, <2>5
    <3> QED BY <2>1, <2>3, <2>5, <3>1
  <2>6. CASE at < i
    <3>1. ~ (at < at) BY <1>1
    <3> QED BY <1>1, <1>2, <2>2, <2>3, <2>6, <3>1
  <2>7. i < at \/ i = at \/ at < i BY <1>1
  <2> QED BY <2>4, <2>5, <2>6, <2>7
<1>12. ASSUME NEW i \in 1 .. len, NEW j \in 1 .. len, i < j
       PROVE  Apart(new[i], new[j]) \/ (i < at + 1 /\ Within(new[j], new[i]))
  <2>1. Apart(ctNodes[i], ctNodes[j]) \/ (i < at /\ Within(ctNodes[j], ctNodes[i])) BY <1>2, <1>12
  <2>2. i < at => i < at + 1 BY <1>1
  <2> QED BY <1>3, <2>1, <2>2 DEF Apart, Within
<1>13. Apart(new[len + 1], new[len + 2])
  <2>1. mid <= mid BY <1>3, <1>5
  <2> QED BY <1>3, <2>1 DEF Apart
<1>14. ASSUME NEW i \in 1 .. len + 2, NEW j \in 1 .. len + 2, i < j
       PROVE  Apart(new[i], new[j]) \/ (i < at + 1 /\ Within(new[j], new[i]))
  <2>1. \/ i \in 1 .. len /\ j \in 1 .. len
        \/ i \in 1 .. len /\ j \in {len + 1, len + 2}
        \/ i = len + 1 /\ j = len + 2
    BY <1>1, <1>14
  <2> QED BY <1>11, <1>12, <1>13, <1>14, <2>1
<1>15. RangesNest(new, at + 1) BY <1>3, <1>14 DEF RangesNest
<1> QED BY <1>10, <1>15 DEF at, n, len

LEMMA SplitKeepsTree ==
    ASSUME CtIInv, BuildNode
    PROVE  CtIInv'
<1> DEFINE at == ctAt
           n == CtLen
           len == Len(ctNodes)
<1>1. ~ Built /\ ctAt' = at + 1 /\ UNCHANGED <<ctInput, ctQuery, ctStack, ctBest>> BY DEF BuildNode
<1>2. /\ at \in 1 .. len /\ at \in Nat /\ len \in Nat /\ n \in Nat
      /\ ctNodes[at] \in TreeNodes /\ IsRange(ctNodes[at], n)
  BY <1>1, NodeAt
<1>3. PICK mid : SplitsInto(ctNodes', mid) BY BuildNodeSplits
<1>4. /\ InBall(ctNodes'[at], ctPoints) /\ ctPoints' \in [1 .. n -> Coords]
      /\ Rearranged(ctPoints', ctPoints, n, ctNodes[at])
  BY BuildNodeSplits
<1>5. /\ Len(ctNodes') = len + 2 /\ ctNodes' \in [1 .. len + 2 -> TreeNodes]
      /\ \A i \in 1 .. len : /\ ctNodes'[i].first = ctNodes[i].first /\ ctNodes'[i].last = ctNodes[i].last
                             /\ i # at => ctNodes'[i] = ctNodes[i]
      /\ ctNodes'[len + 1].first = ctNodes[at].first /\ ctNodes'[len + 1].last = mid
      /\ ctNodes'[len + 2].first = mid /\ ctNodes'[len + 2].last = ctNodes[at].last
      /\ \A i \in {len + 1, len + 2} : ctNodes'[i].left = 0 /\ ctNodes'[i].right = 0
      /\ ctNodes'[at].left = len + 1 /\ ctNodes'[at].right = len + 2
  BY <1>3 DEF SplitsInto
<1>6. /\ \A i \in 1 .. len + 2 : IsRange(ctNodes'[i], n)
      /\ RangesNest(ctNodes', at + 1)
  BY <1>1, <1>3, SplitNests
<1>7. CtTypes /\ TreeIsSound /\ SearchIsSound BY DEF CtIInv
<1>8. n' = n /\ WholeRange' = WholeRange BY <1>1 DEF CtLen, WholeRange
<1>9. CtTypes'
  <2>1. len + 2 \in Nat /\ at + 1 \in 1 .. len + 2 + 1 BY <1>2
  <2>2. ctNodes' \in Seq(TreeNodes)
    <3> DEFINE m == len + 2
    <3>1. m \in Nat /\ ctNodes' \in [1 .. m -> TreeNodes] BY <1>5, <2>1
    <3> HIDE DEF m
    <3> QED BY <3>1
  <2>3. IF n = 0 THEN ctNodes = <<>>
        ELSE ctNodes # <<>> /\ ctNodes[1].first = 1 /\ ctNodes[1].last = n + 1
    BY <1>7 DEF CtTypes
  <2>4. n # 0 /\ 1 \in 1 .. len
    <3>1. ctNodes # <<>> BY <1>2
    <3> QED BY <1>2, <2>3, <3>1
  <2>5. ctNodes' # <<>> BY <1>2, <1>5
  <2>6. IF n' = 0 THEN ctNodes' = <<>>
        ELSE ctNodes' # <<>> /\ ctNodes'[1].first = 1 /\ ctNodes'[1].last = n' + 1
    BY <1>5, <1>8, <2>3, <2>4, <2>5
  <2>7. Rearranged(ctPoints', ctInput, n, WholeRange)
    <3>1. PointsOf(ctNodes[at]) \subseteq 1 .. n BY <1>2, PointsOfRange
    <3>2. PointsOf(WholeRange) = 1 .. n
      <4>1. WholeRange.first = 1 /\ WholeRange.last = n + 1 BY <1>2, NewNodeFields DEF WholeRange
      <4>2. WholeRange.last - 1 = n BY <1>2, <4>1
      <4> QED BY <4>1, <4>2 DEF PointsOf
    <3>3. Rearranged(ctPoints, ctInput, n, WholeRange) BY <1>7 DEF CtTypes
    <3> QED BY <1>2, <1>4, <3>1, <3>2, <3>3, RearrangedTwice
  <2>8. ctInput' \in Seq(Coords) /\ ctInput' = ctInput BY <1>1, <1>7 DEF CtTypes
  <2>9. ctAt' \in 1 .. Len(ctNodes') + 1 BY <1>1, <1>5, <2>1
  <2> QED BY <1>4, <1>8, <2>2, <2>6, <2>7, <2>8, <2>9 DEF CtTypes
<1>10. ASSUME NEW i \in 1 .. len + 2 PROVE AreLinked(ctNodes', i, at + 1)
  <2>1. i \in 1 .. len \/ i \in {len + 1, len + 2} BY <1>2
  <2>2. CASE i \in {len + 1, len + 2} BY <1>5, <2>2 DEF AreLinked
  <2>3. CASE i \in 1 .. len /\ i # at
    <3>1. AreLinked(ctNodes, i, at) /\ ctNodes'[i] = ctNodes[i] BY <1>5, <1>7, <2>3 DEF TreeIsSound
    <3>2. CASE ctNodes[i].left = 0 /\ ctNodes[i].right = 0 BY <3>1, <3>2 DEF AreLinked
    <3>3. CASE ~ (ctNodes[i].left = 0 /\ ctNodes[i].right = 0)
      <4> DEFINE l == ctNodes[i].left
                 r == ctNodes[i].right
      <4>1. /\ i < at /\ l \in i + 1 .. len /\ r \in i + 1 .. len
            /\ ctNodes[l].first = ctNodes[i].first
            /\ ctNodes[l].last = ctNodes[r].first
            /\ ctNodes[r].last = ctNodes[i].last
        BY <3>1, <3>3 DEF AreLinked
      <4>2. ctNodes'[i].left = l /\ ctNodes'[i].right = r BY <3>1
      <4> HIDE DEF l, r
      <4>3. l \in 1 .. len /\ r \in 1 .. len /\ i < at + 1
            /\ l \in i + 1 .. len + 2 /\ r \in i + 1 .. len + 2
        <5>1. i \in Int /\ i >= 1 BY <2>3
        <5> HIDE DEF len, at
        <5> QED BY <1>2, <4>1, <5>1
      <4> HIDE DEF at, len
      <4>4. /\ ctNodes'[l].first = ctNodes'[i].first /\ ctNodes'[l].last = ctNodes'[r].first
            /\ ctNodes'[r].last = ctNodes'[i].last
        BY <1>5, <2>3, <4>1, <4>3
      <4> QED BY <1>5, <4>2, <4>3, <4>4 DEF AreLinked
    <3> QED BY <3>2, <3>3
  <2>4. CASE i = at
    <3>1. at < at + 1 /\ len + 1 \in at + 1 .. len + 2 /\ len + 2 \in at + 1 .. len + 2 BY <1>2
    <3>2. ctNodes'[at].first = ctNodes[at].first /\ ctNodes'[at].last = ctNodes[at].last BY <1>2, <1>5
    <3> HIDE DEF at, len
    <3> QED BY <1>5, <2>4, <3>1, <3>2 DEF AreLinked
  <2> QED BY <2>1, <2>2, <2>3, <2>4
<1>11. ASSUME NEW i \in 1 .. len + 2, i < at + 1 PROVE InBall(ctNodes'[i], ctPoints')
  <2>1. i \in 1 .. len /\ (i < at \/ i = at) BY <1>2, <1>11
  <2>2. IsRange(ctNodes'[i], n) BY <1>6
  <2>3. InBall(ctNodes'[i], ctPoints)
    <3>1. CASE i = at BY <1>4, <3>1
    <3>2. CASE i < at
      <4>1. i # at BY <1>2, <3>2
      <4> QED BY <1>5, <1>7, <2>1, <3>2, <4>1 DEF TreeIsSound
    <3> QED BY <2>1, <3>1, <3>2
  <2>4. Apart(ctNodes'[i], ctNodes[at]) \/ Within(ctNodes[at], ctNodes'[i])
    <3>1. CASE i = at
      <4>1. ctNodes[at].first <= ctNodes[at].first /\ ctNodes[at].last <= ctNodes[at].last
        BY <1>2 DEF TreeNodes
      <4> QED BY <1>2, <1>5, <3>1, <4>1 DEF Within
    <3>2. CASE i < at
      <4>1. Apart(ctNodes[i], ctNodes[at]) \/ Within(ctNodes[at], ctNodes[i])
        BY <1>2, <1>7, <2>1, <3>2 DEF TreeIsSound, RangesNest
      <4> QED BY <1>5, <2>1, <4>1 DEF Apart, Within
    <3> QED BY <2>1, <3>1, <3>2
  <2>5. ctPoints \in [1 .. n -> Coords] BY <1>7 DEF CtTypes
  <2> QED BY <1>2, <1>4, <2>2, <2>3, <2>4, <2>5, BallStays
<1>12. TreeIsSound' BY <1>1, <1>5, <1>6, <1>8, <1>10, <1>11 DEF TreeIsSound
<1>13. SearchIsSound'
  <2>1. ctQuery' = <<>> /\ ctStack' = <<>> /\ ctBest' \in 0 .. n BY <1>1, <1>7 DEF SearchIsSound
  <2>2. ctStack' \in Seq(1 .. Len(ctNodes')) BY <2>1
  <2> QED BY <1>8, <2>1, <2>2 DEF SearchIsSound
<1> QED BY <1>9, <1>12, <1>13 DEF CtIInv

LEMMA SearchStarts ==
    ASSUME CtIInv, NEW query \in CtQueries, FindBestMatch(query)
    PROVE  CtIInv'
<1>1. /\ Built /\ ctQuery' = query /\ ctBest' = 0
      /\ ctStack' = (IF ctNodes = <<>> THEN <<>> ELSE <<1>>)
      /\ UNCHANGED <<ctInput, ctPoints, ctNodes, ctCapacity, ctDefined, ctAt>>
  BY DEF FindBestMatch
<1>2. CtTypes /\ TreeIsSound /\ SearchIsSound /\ CtLen \in Nat /\ Len(ctNodes) \in Nat BY CtLenIsNat DEF CtIInv
<1>3. CtLen' = CtLen /\ WholeRange' = WholeRange /\ Built' BY <1>1 DEF CtLen, WholeRange, Built
<1>4. CtTypes' BY <1>1, <1>2, <1>3 DEF CtTypes
<1>5. TreeIsSound' BY <1>1, <1>2, <1>3 DEF TreeIsSound
<1>6. query \in Coords BY CtAssumption DEF Coords
<1>7. CASE ctNodes = <<>>
  <2>1. CtLen = 0 BY <1>2, <1>7 DEF CtTypes
  <2>2. ctStack' = <<>> BY <1>1, <1>7
  <2>3. ctStack' \in Seq(1 .. Len(ctNodes')) BY <2>2
  <2>4. SearchCovers' BY <1>3, <2>1 DEF SearchCovers
  <2>5. SearchIsSound' BY <1>1, <1>2, <1>3, <1>6, <2>3, <2>4 DEF SearchIsSound
  <2> QED BY <1>4, <1>5, <2>5 DEF CtIInv
<1>8. CASE ctNodes # <<>>
  <2>1. CtLen # 0 /\ ctNodes[1].first = 1 /\ ctNodes[1].last = CtLen + 1 /\ Len(ctNodes) >= 1
    BY <1>2, <1>8 DEF CtTypes
  <2>2. ctStack' = <<1>> BY <1>1, <1>8
  <2>3. 1 \in 1 .. Len(ctNodes') BY <1>1, <1>2, <2>1
  <2>4. ctStack' \in Seq(1 .. Len(ctNodes')) BY <2>2, <2>3
  <2>5. ASSUME NEW k \in 1 .. CtLen' PROVE OnStack(ctStack, k)'
    <3>1. ctStack'[1] = 1 /\ 1 \in 1 .. Len(ctStack') BY <2>2
    <3>2. PointsOf(ctNodes[1]) = 1 .. CtLen
      <4>1. ctNodes[1].last - 1 = CtLen BY <1>2, <2>1
      <4> QED BY <2>1, <4>1 DEF PointsOf
    <3>3. k \in PointsOf(ctNodes'[1]) BY <1>1, <1>3, <3>2
    <3> QED BY <3>1, <3>3 DEF OnStack
  <2>6. SearchCovers' BY <2>5 DEF SearchCovers
  <2>7. SearchIsSound' BY <1>1, <1>2, <1>3, <1>6, <2>4, <2>6 DEF SearchIsSound
  <2> QED BY <1>4, <1>5, <2>7 DEF CtIInv
<1> QED BY <1>7, <1>8

\* What is known of the node that is visited.
LEMMA NodeVisited ==
    ASSUME CtIInv, ctStack # <<>>
    PROVE  /\ Built /\ ctQuery \in Coords /\ SearchCovers /\ CtLen \in Nat
           /\ ctPoints \in [1 .. CtLen -> Coords] /\ ctBest \in 0 .. CtLen
           /\ Head(ctStack) \in 1 .. Len(ctNodes) /\ Tail(ctStack) \in Seq(1 .. Len(ctNodes))
           /\ IsRange(ctNodes[Head(ctStack)], CtLen) /\ InBall(ctNodes[Head(ctStack)], ctPoints)
           /\ AreLinked(ctNodes, Head(ctStack), ctAt)
           /\ \A k : OnStack(ctStack, k) =>
                       k \in PointsOf(ctNodes[Head(ctStack)]) \/ OnStack(Tail(ctStack), k)
<1> DEFINE len == Len(ctNodes)
           h == Head(ctStack)
<1>1. CtTypes /\ TreeIsSound /\ SearchIsSound BY DEF CtIInv
<1>2. CtLen \in Nat /\ len \in Nat /\ ctAt \in Nat BY <1>1, CtLenIsNat
<1>3. ctStack \in Seq(1 .. len) BY <1>1 DEF SearchIsSound
<1>4. Built /\ ctQuery \in Coords /\ SearchCovers /\ ctBest \in 0 .. CtLen BY <1>1 DEF SearchIsSound
<1>5. h \in 1 .. len /\ Tail(ctStack) \in Seq(1 .. len)
  <2> HIDE DEF len
  <2> QED BY <1>3, HeadTailProperties
<1>6. IsRange(ctNodes[h], CtLen) /\ AreLinked(ctNodes, h, ctAt) BY <1>1, <1>5 DEF TreeIsSound
<1>7. h < ctAt BY <1>2, <1>4, <1>5 DEF Built
<1>8. InBall(ctNodes[h], ctPoints) BY <1>1, <1>5, <1>7 DEF TreeIsSound
<1>9. ASSUME NEW k, OnStack(ctStack, k) PROVE k \in PointsOf(ctNodes[h]) \/ OnStack(Tail(ctStack), k)
  <2>1. PICK j \in 1 .. Len(ctStack) : k \in PointsOf(ctNodes[ctStack[j]]) BY <1>9 DEF OnStack
  <2>2. /\ h = ctStack[1] /\ Len(Tail(ctStack)) = Len(ctStack) - 1 /\ Len(ctStack) \in Nat
        /\ \A i \in 1 .. Len(Tail(ctStack)) : Tail(ctStack)[i] = ctStack[i + 1]
    <3> HIDE DEF len
    <3> QED BY <1>3, HeadTailProperties
  <2>3. CASE j = 1 BY <2>1, <2>2, <2>3
  <2>4. CASE j # 1
    <3>1. j - 1 \in 1 .. Len(Tail(ctStack)) /\ j - 1 + 1 = j BY <2>1, <2>2, <2>4
    <3>2. Tail(ctStack)[j - 1] = ctStack[j] BY <2>2, <3>1
    <3> QED BY <2>1, <3>1, <3>2 DEF OnStack
  <2> QED BY <2>3, <2>4
<1>10. ctPoints \in [1 .. CtLen -> Coords] BY <1>1 DEF CtTypes
<1> QED BY <1>2, <1>4, <1>5, <1>6, <1>8, <1>9, <1>10

NotBetter(k) == ctBest # 0 /\ Dot(ctPoints[k], ctQuery) <= Dot(ctPoints[ctBest], ctQuery)

LEMMA SkippedNode ==
    ASSUME CtIInv, ctStack # <<>>, CannotBeBetter(ctNodes[Head(ctStack)]),
           NEW k \in PointsOf(ctNodes[Head(ctStack)])
    PROVE  NotBetter(k)
<1> DEFINE node == ctNodes[Head(ctStack)]
           n == Count(node)
           p == ctPoints[k]
           best == ctPoints[ctBest]
           above == n * Dot(best, ctQuery) - Dot(node.sum, ctQuery)
<1>1. /\ ctQuery \in Coords /\ CtLen \in Nat /\ ctPoints \in [1 .. CtLen -> Coords] /\ ctBest \in 0 .. CtLen
      /\ IsRange(node, CtLen) /\ InBall(node, ctPoints)
  BY NodeVisited
<1>2. ctBest # 0 /\ above >= 0 /\ above * above >= Dot(ctQuery, ctQuery) * node.radiusSq
  BY DEF CannotBeBetter
<1>3. k \in 1 .. CtLen /\ n \in Nat \ {0} BY <1>1, PointsOfRange
<1>4. ctBest \in 1 .. CtLen BY <1>1, <1>2
<1>5. p \in Coords /\ best \in Coords BY <1>1, <1>3, <1>4
<1>6. /\ node.sum \in Coords /\ node.radiusSq \in Int
      /\ DistanceSq([c \in 1 .. CtDim |-> n * p[c]], node.sum) <= node.radiusSq
  BY <1>1 DEF InBall
<1>7. Dot(p, ctQuery) <= Dot(best, ctQuery)
  <2> DEFINE sum == node.sum
             radiusSq == node.radiusSq
  <2> HIDE DEF n, p, best, node
  <2>1. /\ above = n * Dot(best, ctQuery) - Dot(sum, ctQuery) /\ above >= 0
        /\ above * above >= Dot(ctQuery, ctQuery) * radiusSq
        /\ sum \in Coords /\ radiusSq \in Int
        /\ DistanceSq([c \in 1 .. CtDim |-> n * p[c]], sum) <= radiusSq
    BY <1>2, <1>6
  <2> HIDE DEF sum, radiusSq, above
  <2> QED BY <1>1, <1>3, <1>5, <2>1, SkippedIsWorse
<1> QED BY <1>2, <1>7 DEF NotBetter

LEMMA SplitCovers ==
    ASSUME CtIInv, ctStack # <<>>, ~ IsLeafNode(ctNodes[Head(ctStack)])
    PROVE  LET node == ctNodes[Head(ctStack)]
           IN  /\ node.left \in 1 .. Len(ctNodes) /\ node.right \in 1 .. Len(ctNodes)
               /\ PointsOf(node) \subseteq PointsOf(ctNodes[node.left]) \cup PointsOf(ctNodes[node.right])
<1> DEFINE i == Head(ctStack)
           node == ctNodes[i]
           l == node.left
           r == node.right
<1>1. i \in 1 .. Len(ctNodes) /\ AreLinked(ctNodes, i, ctAt) BY NodeVisited
<1>2. TreeIsSound /\ Len(ctNodes) \in Nat BY CtLenIsNat DEF CtIInv
<1>3. /\ l \in i + 1 .. Len(ctNodes) /\ r \in i + 1 .. Len(ctNodes)
      /\ ctNodes[l].first = node.first /\ ctNodes[l].last = ctNodes[r].first
      /\ ctNodes[r].last = node.last
  BY <1>1 DEF AreLinked, IsLeafNode
<1> HIDE DEF l, r, node
<1>4. l \in 1 .. Len(ctNodes) /\ r \in 1 .. Len(ctNodes)
  <2> HIDE DEF i
  <2> QED BY <1>1, <1>2, <1>3
<1>5. IsRange(ctNodes[l], CtLen) /\ IsRange(ctNodes[r], CtLen) BY <1>2, <1>4 DEF TreeIsSound
<1>6. PointsOf(node) \subseteq PointsOf(ctNodes[l]) \cup PointsOf(ctNodes[r])
  <2> DEFINE a == node.first
             m == ctNodes[r].first
             b == node.last
  <2>1. a \in Int /\ m \in Int /\ b \in Int BY <1>3, <1>5 DEF IsRange
  <2>2. PointsOf(node) = a .. b - 1 /\ PointsOf(ctNodes[l]) = a .. m - 1 /\ PointsOf(ctNodes[r]) = m .. b - 1
    BY <1>3 DEF PointsOf
  <2> HIDE DEF a, m, b
  <2>3. a .. b - 1 \subseteq (a .. m - 1) \cup (m .. b - 1) BY <2>1
  <2> QED BY <2>2, <2>3
<1> QED BY <1>4, <1>6 DEF l, r, node

LEMMA BothOnStack ==
    ASSUME NEW S, NEW rest \in Seq(S), NEW a \in S, NEW b \in S
    PROVE  /\ <<a, b>> \o rest \in Seq(S)
           /\ \A k : \/ k \in PointsOf(ctNodes[a]) \/ k \in PointsOf(ctNodes[b]) \/ OnStack(rest, k)
                     => OnStack(<<a, b>> \o rest, k)
<1> DEFINE t == <<a, b>>
           s == t \o rest
<1>1. t \in Seq(S) /\ Len(t) = 2 /\ t[1] = a /\ t[2] = b OBVIOUS
<1>2. Len(rest) \in Nat OBVIOUS
<1> HIDE DEF t
<1>3. /\ s \in Seq(S) /\ Len(s) = 2 + Len(rest)
      /\ \A i \in 1 .. 2 + Len(rest) : s[i] = IF i <= 2 THEN t[i] ELSE rest[i - 2]
  <2>1. /\ s \in Seq(S) /\ Len(s) = Len(t) + Len(rest)
        /\ \A i \in 1 .. Len(t) + Len(rest) : s[i] = IF i <= Len(t) THEN t[i] ELSE rest[i - Len(t)]
    BY <1>1, ConcatProperties
  <2> HIDE DEF s
  <2> QED BY <1>1, <2>1
<1> HIDE DEF s
<1>4. s[1] = a /\ s[2] = b /\ 1 \in 1 .. Len(s) /\ 2 \in 1 .. Len(s) BY <1>1, <1>2, <1>3
<1>5. ASSUME NEW k, k \in PointsOf(ctNodes[a]) PROVE OnStack(s, k) BY <1>4, <1>5 DEF OnStack
<1>6. ASSUME NEW k, k \in PointsOf(ctNodes[b]) PROVE OnStack(s, k) BY <1>4, <1>6 DEF OnStack
<1>7. ASSUME NEW k, OnStack(rest, k) PROVE OnStack(s, k)
  <2>1. PICK j \in 1 .. Len(rest) : k \in PointsOf(ctNodes[rest[j]]) BY <1>7 DEF OnStack
  <2>2. j + 2 \in 1 .. 2 + Len(rest) /\ ~ (j + 2 <= 2) /\ j + 2 - 2 = j BY <1>2
  <2>3. s[j + 2] = rest[j] /\ j + 2 \in 1 .. Len(s) BY <1>3, <2>2
  <2> QED BY <2>1, <2>3 DEF OnStack
<1> QED BY <1>3, <1>5, <1>6, <1>7 DEF s, t

LEMMA VisitKeepsSearch ==
    ASSUME CtIInv, VisitNode
    PROVE  CtIInv'
<1> DEFINE node == ctNodes[Head(ctStack)]
           rest == Tail(ctStack)
           found == FindBestMatchLinear(node)
           len == Len(ctNodes)
<1>1. /\ ctStack # <<>> /\ UNCHANGED <<ctInput, ctPoints, ctNodes, ctCapacity, ctDefined, ctAt, ctQuery>>
      /\ \/ CannotBeBetter(node) /\ ctStack' = rest /\ ctBest' = ctBest
         \/ /\ IsLeafNode(node) /\ ctStack' = rest
            /\ ctBest' = IF Better(found) THEN found ELSE ctBest
         \/ /\ ~ IsLeafNode(node) /\ ctBest' = ctBest
            /\ ctStack' \in {<<node.left, node.right>> \o rest, <<node.right, node.left>> \o rest}
  BY DEF VisitNode
<1>2. /\ Built /\ ctQuery \in Coords /\ SearchCovers /\ CtLen \in Nat
      /\ ctPoints \in [1 .. CtLen -> Coords] /\ ctBest \in 0 .. CtLen
      /\ rest \in Seq(1 .. len) /\ IsRange(node, CtLen)
      /\ \A k : OnStack(ctStack, k) => k \in PointsOf(node) \/ OnStack(rest, k)
  BY <1>1, NodeVisited
<1>3. CtTypes /\ TreeIsSound BY DEF CtIInv
<1>4. CtLen' = CtLen /\ WholeRange' = WholeRange /\ Built' BY <1>1, <1>2 DEF CtLen, WholeRange, Built
<1>5. CtTypes' BY <1>1, <1>3, <1>4 DEF CtTypes
<1>6. TreeIsSound' BY <1>1, <1>3, <1>4 DEF TreeIsSound
<1>7. \A k \in 1 .. CtLen : k \in PointsOf(node) \/ OnStack(rest, k) \/ NotBetter(k)
  BY <1>2 DEF SearchCovers, NotBetter
<1> HIDE DEF node, rest, found, len
<1>8. /\ ctStack' \in Seq(1 .. len) /\ ctBest' \in 0 .. CtLen
      /\ \A k \in 1 .. CtLen : OnStack(ctStack', k) \/ NotBetter(k)'
  <2>1. CASE CannotBeBetter(node) /\ ctStack' = rest /\ ctBest' = ctBest
    <3>1. \A k \in PointsOf(node) : NotBetter(k) BY <1>1, <2>1, SkippedNode DEF node
    <3>2. \A k : NotBetter(k) => NotBetter(k)' BY <1>1, <2>1 DEF NotBetter
    <3> QED BY <1>2, <1>7, <2>1, <3>1, <3>2
  <2>2. CASE IsLeafNode(node) /\ ctStack' = rest /\ ctBest' = IF Better(found) THEN found ELSE ctBest
    <3> DEFINE prod(k) == Dot(ctPoints[k], ctQuery)
    <3>1. /\ found \in PointsOf(node) /\ \A k \in PointsOf(node) : prod(k) <= prod(found)
      BY <1>2, LinearIsBest DEF found
    <3>2. PointsOf(node) \subseteq 1 .. CtLen BY <1>2, PointsOfRange
    <3>3. \A k \in 1 .. CtLen : prod(k) \in Int BY <1>2, DotIsInt
    <3>4. found \in 1 .. CtLen BY <3>1, <3>2
    <3>5. Better(found) <=> ctBest = 0 \/ prod(found) > prod(ctBest) BY DEF Better
    <3>6. \A k : NotBetter(k) <=> ctBest # 0 /\ prod(k) <= prod(ctBest) BY DEF NotBetter
    <3>7. \A k : NotBetter(k)' <=> ctBest' # 0 /\ prod(k) <= prod(ctBest') BY <1>1 DEF NotBetter
    <3> HIDE DEF prod
    <3>8. ctBest' \in 1 .. CtLen /\ prod(found) <= prod(ctBest')
          /\ (ctBest # 0 => prod(ctBest) <= prod(ctBest'))
      <4>1. CASE Better(found)
        <5>1. ctBest' = found BY <2>2, <4>1
        <5>2. ASSUME ctBest # 0 PROVE prod(ctBest) <= prod(found)
          <6>1. ctBest \in 1 .. CtLen BY <1>2, <5>2
          <6> QED BY <3>3, <3>4, <3>5, <4>1, <5>2, <6>1
        <5>3. prod(found) <= prod(found) BY <3>3, <3>4
        <5> QED BY <3>4, <5>1, <5>2, <5>3
      <4>2. CASE ~ Better(found)
        <5>1. ctBest' = ctBest BY <2>2, <4>2
        <5>2. ctBest \in 1 .. CtLen BY <1>2, <3>5, <4>2
        <5>3. prod(found) <= prod(ctBest) /\ prod(ctBest) <= prod(ctBest)
          BY <3>3, <3>4, <3>5, <4>2, <5>2
        <5> QED BY <5>1, <5>2, <5>3
      <4> QED BY <4>1, <4>2
    <3>9. ctBest' # 0 /\ ctBest' \in 0 .. CtLen BY <1>2, <3>8
    <3>10. ASSUME NEW k \in 1 .. CtLen PROVE OnStack(rest, k) \/ NotBetter(k)'
      <4>1. CASE k \in PointsOf(node)
        <5>1. prod(k) <= prod(found) BY <3>1, <4>1 DEF prod
        <5>2. prod(k) <= prod(ctBest') BY <3>3, <3>4, <3>8, <5>1
        <5> QED BY <3>7, <3>9, <5>2
      <4>2. CASE NotBetter(k)
        <5>1. ctBest # 0 /\ prod(k) <= prod(ctBest) BY <3>6, <4>2
        <5>2. ctBest \in 1 .. CtLen BY <1>2, <5>1
        <5>3. prod(k) <= prod(ctBest') BY <3>3, <3>8, <5>1, <5>2
        <5> QED BY <3>7, <3>9, <5>3
      <4> QED BY <1>7, <4>1, <4>2
    <3> QED BY <1>2, <2>2, <3>9, <3>10
  <2>3. CASE /\ ~ IsLeafNode(node) /\ ctBest' = ctBest
             /\ ctStack' \in {<<node.left, node.right>> \o rest, <<node.right, node.left>> \o rest}
    <3>1. /\ node.left \in 1 .. len /\ node.right \in 1 .. len
          /\ PointsOf(node) \subseteq PointsOf(ctNodes[node.left]) \cup PointsOf(ctNodes[node.right])
      BY <1>1, <2>3, SplitCovers DEF node, len
    <3>2. \A k \in PointsOf(node) : k \in PointsOf(ctNodes[node.left]) \/ k \in PointsOf(ctNodes[node.right])
      BY <3>1
    <3>3. \A k : NotBetter(k) => NotBetter(k)' BY <1>1, <2>3 DEF NotBetter
    <3> DEFINE a == node.left
               b == node.right
    <3>4. a \in 1 .. len /\ b \in 1 .. len BY <3>1
    <3>5. ctStack' = <<a, b>> \o rest \/ ctStack' = <<b, a>> \o rest BY <2>3
    <3> HIDE DEF a, b
    <3>6. /\ <<a, b>> \o rest \in Seq(1 .. len)
          /\ \A k : k \in PointsOf(ctNodes[a]) \/ k \in PointsOf(ctNodes[b]) \/ OnStack(rest, k)
                    => OnStack(<<a, b>> \o rest, k)
      BY <1>2, <3>4, BothOnStack
    <3>7. /\ <<b, a>> \o rest \in Seq(1 .. len)
          /\ \A k : k \in PointsOf(ctNodes[b]) \/ k \in PointsOf(ctNodes[a]) \/ OnStack(rest, k)
                    => OnStack(<<b, a>> \o rest, k)
      BY <1>2, <3>4, BothOnStack
    <3>8. /\ ctStack' \in Seq(1 .. len)
          /\ \A k : k \in PointsOf(ctNodes[a]) \/ k \in PointsOf(ctNodes[b]) \/ OnStack(rest, k)
                    => OnStack(ctStack', k)
      BY <3>5, <3>6, <3>7
    <3>9. ASSUME NEW k \in 1 .. CtLen PROVE OnStack(ctStack', k) \/ NotBetter(k)'
      BY <1>7, <3>2, <3>3, <3>8 DEF a, b
    <3> QED BY <1>2, <2>3, <3>8, <3>9
  <2> QED BY <1>1, <2>1, <2>2, <2>3
<1>9. SearchCovers'
  <2> SUFFICES ASSUME NEW k \in 1 .. CtLen
               PROVE  \/ \E j \in 1 .. Len(ctStack') : k \in PointsOf(ctNodes'[ctStack'[j]])
                      \/ NotBetter(k)'
    BY <1>4 DEF SearchCovers, OnStack, NotBetter
  <2>1. OnStack(ctStack', k) \/ NotBetter(k)' BY <1>8
  <2> QED BY <1>1, <2>1 DEF OnStack
<1>10. SearchIsSound' BY <1>1, <1>2, <1>4, <1>8, <1>9 DEF SearchIsSound, len
<1> QED BY <1>5, <1>6, <1>10 DEF CtIInv

LEMMA TreeStays == CtIInv /\ [CtNext]_ctVars => CtIInv'
<1> SUFFICES ASSUME CtIInv, [CtNext]_ctVars PROVE CtIInv' OBVIOUS
<1>1. CASE BuildLeaf BY <1>1, LeafKeepsTree
<1>2. CASE BuildNode BY <1>2, SplitKeepsTree
<1>3. CASE \E q \in CtQueries : FindBestMatch(q) BY <1>3, SearchStarts
<1>4. CASE VisitNode BY <1>4, VisitKeepsSearch
<1>5. CASE UNCHANGED ctVars
  <2>1. UNCHANGED <<ctInput, ctPoints, ctNodes, ctCapacity, ctAt, ctQuery, ctStack, ctBest>>
    BY <1>5 DEF ctVars
  <2>2. CtTypes'
    BY <2>1 DEF CtIInv, CtTypes, CtLen, WholeRange
  <2>3. TreeIsSound' BY <2>1 DEF CtIInv, TreeIsSound, CtLen
  <2>4. SearchIsSound'
    BY <2>1 DEF CtIInv, SearchIsSound, SearchCovers, OnStack, CtLen, Built
  <2> QED BY <2>2, <2>3, <2>4 DEF CtIInv
<1> QED BY <1>1, <1>2, <1>3, <1>4, <1>5 DEF CtNext

\* Every point of the input is at as many positions as before.
LEMMA NothingIsLost ==
    ASSUME CtTypes, NEW p
    PROVE  Cardinality({k \in DOMAIN ctInput : ctInput[k] = p})
             = Cardinality({k \in DOMAIN ctPoints : ctPoints[k] = p})
<1> DEFINE n == CtLen
           S == {k \in 1 .. n : ctPoints[k] = p}
           T == {k \in 1 .. n : ctInput[k] = p}
<1>1. n \in Nat /\ DOMAIN ctPoints = 1 .. n /\ DOMAIN ctInput = 1 .. n
  BY CtLenIsNat DEF CtTypes, CtLen
<1>2. PICK pi : Moves(pi, n, WholeRange) /\ ctPoints = [k \in 1 .. n |-> ctInput[pi[k]]]
  BY DEF CtTypes, Rearranged
<1>3. pi \in [1 .. n -> 1 .. n] BY <1>2 DEF Moves
<1> DEFINE f == [k \in S |-> pi[k]]
<1>4. f \in Bijection(S, T)
  <2>1. ASSUME NEW k \in S PROVE pi[k] \in T
    <3>1. k \in 1 .. n /\ ctPoints[k] = ctInput[pi[k]] BY <1>2
    <3> QED BY <1>3, <3>1
  <2>2. f \in [S -> T] BY <2>1
  <2>3. \A k, l \in S : f[k] = f[l] => k = l BY <1>2 DEF Moves
  <2>4. ASSUME NEW t \in T PROVE \E k \in S : f[k] = t
    <3>1. PICK k \in 1 .. n : pi[k] = t BY <1>2 DEF Moves
    <3>2. k \in S BY <1>2, <3>1
    <3> QED BY <3>1, <3>2
  <2> HIDE DEF f, S, T
  <2> QED BY <2>2, <2>3, <2>4 DEF Bijection, Injection, Surjection, IsInjective
<1>5. IsFiniteSet(S)
  <2>1. IsFiniteSet(1 .. n) BY <1>1, FS_Interval
  <2>2. S \subseteq 1 .. n OBVIOUS
  <2> HIDE DEF S
  <2> QED BY <2>1, <2>2, FS_Subset
<1>6. Cardinality(S) = Cardinality(T)
  <2>1. ExistsBijection(S, T)
    <3> HIDE DEF S, T, f
    <3> QED BY <1>4 DEF ExistsBijection
  <2> HIDE DEF S, T, f
  <2> QED BY <1>5, <2>1, FS_Bijection
<1> QED BY <1>1, <1>6

LEMMA SoundTreeIsExact == CtIInv => TreeHoldsPoints /\ BestMatchIsBest
<1> SUFFICES ASSUME CtIInv PROVE TreeHoldsPoints /\ BestMatchIsBest OBVIOUS
<1> DEFINE n == CtLen
           len == Len(ctNodes)
<1>1. CtTypes /\ TreeIsSound /\ SearchIsSound /\ n \in Nat /\ len \in Nat BY CtLenIsNat DEF CtIInv
<1>2. DOMAIN ctNodes = 1 .. len BY <1>1 DEF CtTypes
<1>3. ASSUME NEW i \in 1 .. len
      PROVE  /\ Count(ctNodes[i]) > 0
             /\ i < ctAt => \A k \in PointsOf(ctNodes[i]) :
                   DistanceSq([c \in DOMAIN ctNodes[i].sum |-> Count(ctNodes[i]) * ctPoints[k][c]],
                              ctNodes[i].sum) <= ctNodes[i].radiusSq
             /\ ~ IsLeafNode(ctNodes[i]) =>
                  /\ ctNodes[ctNodes[i].left].first = ctNodes[i].first
                  /\ ctNodes[ctNodes[i].left].last = ctNodes[ctNodes[i].right].first
                  /\ ctNodes[ctNodes[i].right].last = ctNodes[i].last
  <2>1. /\ IsRange(ctNodes[i], n) /\ AreLinked(ctNodes, i, ctAt)
        /\ i < ctAt => InBall(ctNodes[i], ctPoints)
    BY <1>1 DEF TreeIsSound
  <2>2. Count(ctNodes[i]) > 0
    <3>1. Count(ctNodes[i]) \in Nat \ {0} BY <1>1, <2>1, PointsOfRange
    <3> QED BY <3>1
  <2>3. ASSUME i < ctAt, NEW k \in PointsOf(ctNodes[i])
        PROVE  DistanceSq([c \in DOMAIN ctNodes[i].sum |-> Count(ctNodes[i]) * ctPoints[k][c]],
                          ctNodes[i].sum) <= ctNodes[i].radiusSq
    <3>1. DOMAIN ctNodes[i].sum = 1 .. CtDim BY <2>1, <2>3 DEF InBall, Coords
    <3> QED BY <2>1, <2>3, <3>1 DEF InBall
  <2> QED BY <2>1, <2>2, <2>3 DEF AreLinked, IsLeafNode
<1>4. TreeHoldsPoints
  <2>1. \A p \in Range(ctInput) : Cardinality({k \in DOMAIN ctInput : ctInput[k] = p})
                                    = Cardinality({k \in DOMAIN ctPoints : ctPoints[k] = p})
    BY <1>1, NothingIsLost
  <2> QED BY <1>2, <1>3, <2>1 DEF TreeHoldsPoints
<1>5. BestMatchIsBest
  <2> SUFFICES ASSUME ctStack = <<>>, ctQuery # <<>>, NEW p \in Range(ctInput)
               PROVE  Dot(p, ctQuery) <= Dot(ctPoints[ctBest], ctQuery)
    BY DEF BestMatchIsBest
  <2>1. PICK i \in 1 .. n : p = ctInput[i] BY <1>1 DEF Range, CtTypes, CtLen
  <2>2. PICK pi : Moves(pi, n, WholeRange) /\ ctPoints = [k \in 1 .. n |-> ctInput[pi[k]]]
    BY <1>1 DEF CtTypes, Rearranged
  <2>3. PICK k \in 1 .. n : pi[k] = i BY <2>2 DEF Moves
  <2>4. ctPoints[k] = p BY <2>1, <2>2, <2>3
  <2>5. SearchCovers /\ ~ OnStack(ctStack, k) BY <1>1 DEF SearchIsSound, OnStack
  <2> QED BY <2>4, <2>5 DEF SearchCovers
<1> QED BY <1>4, <1>5

-----------------------------------------------------------------------------
(* How many nodes a tree has: each of those that are still to be built owes  *)
(* two for every point that it has above the size of a leaf.               *)

Excess(node) == IF Count(node) > CtMaxLeaf THEN Count(node) - CtMaxLeaf ELSE 0
MostNodes == 1 + 2 * (IF CtLen > CtMaxLeaf THEN CtLen - CtMaxLeaf ELSE 0)

\* f[i] is what the nodes from the i-th on have too much, together.
Owed(f) ==
    LET len == Len(ctNodes)
    IN  /\ f \in [ctAt .. len + 1 -> Nat] /\ f[len + 1] = 0
        /\ \A i \in ctAt .. len : f[i] = f[i + 1] + Excess(ctNodes[i])
        /\ len + 2 * f[ctAt] <= MostNodes

CapacityIsReserved == ctDefined => ctCapacity \in Int /\ ctCapacity >= Reserved

RvIInv == (\E f : Owed(f)) /\ CapacityIsReserved /\ ReserveSuffices

LEMMA ExcessIsNat ==
    ASSUME NEW node, node.first \in Int, node.last \in Int
    PROVE  Excess(node) \in Nat
BY CtAssumption DEF Excess, Count

LEMMA ReserveStarts == CtInit => RvIInv
<1> SUFFICES ASSUME CtInit PROVE RvIInv OBVIOUS
<1>1. CtIInv /\ ctAt = 1 /\ ctDefined BY TreeStarts DEF CtInit
<1>2. CtLen \in Nat /\ Len(ctNodes) \in Nat BY <1>1, CtLenIsNat DEF CtIInv
<1>3. CtMaxLeaf \in Nat /\ CtMaxLeaf >= 1 BY CtAssumption
<1>4. \E f : Owed(f)
  <2>1. CASE ctInput = <<>>
    <3>1. ctNodes = <<>> /\ Len(ctNodes) = 0 BY <2>1 DEF CtInit
    <3>2. MostNodes >= 1
      <4> DEFINE x == IF CtLen > CtMaxLeaf THEN CtLen - CtMaxLeaf ELSE 0
      <4>1. x \in Nat BY <1>2, <1>3
      <4>2. MostNodes = 1 + 2 * x BY DEF MostNodes
      <4> HIDE DEF x
      <4> QED BY <4>1, <4>2
    <3> DEFINE f == [i \in 1 .. 1 |-> 0]
    <3>3. Len(ctNodes) + 1 = 1 /\ MostNodes \in Int BY <1>2, <1>3, <3>1 DEF MostNodes
    <3>4. f \in [1 .. 1 -> Nat] /\ f[1] = 0 OBVIOUS
    <3> HIDE DEF f
    <3>5. Owed(f) BY <1>1, <3>1, <3>2, <3>3, <3>4 DEF Owed
    <3> QED BY <3>5
  <2>2. CASE ctInput # <<>>
    <3> DEFINE whole == NewNode(1, CtLen + 1)
    <3>1. ctNodes = <<whole>> BY <2>2 DEF CtInit, CtLen
    <3>2. whole.first = 1 /\ whole.last = CtLen + 1 BY <1>2, NewNodeFields
    <3> HIDE DEF whole
    <3>3. Len(ctNodes) = 1 /\ ctNodes[1] = whole BY <3>1
    <3>4. Count(whole) = CtLen BY <1>2, <3>2 DEF Count
    <3> DEFINE e == Excess(whole)
    <3>5. e = (IF CtLen > CtMaxLeaf THEN CtLen - CtMaxLeaf ELSE 0) BY <3>4 DEF Excess
    <3>6. e \in Nat /\ MostNodes = 1 + 2 * e BY <1>2, <1>3, <3>5 DEF MostNodes
    <3> HIDE DEF e
    <3> DEFINE f == [i \in 1 .. 2 |-> IF i = 1 THEN e ELSE 0]
    <3>7. f \in [1 .. 2 -> Nat] /\ f[1] = e /\ f[2] = 0 BY <3>6
    <3> HIDE DEF f
    <3>8. /\ Len(ctNodes) + 1 = 2 /\ f[1] = f[1 + 1] + Excess(ctNodes[1])
          /\ Len(ctNodes) + 2 * f[1] <= MostNodes
      BY <3>3, <3>6, <3>7 DEF e
    <3>9. \A i \in 1 .. Len(ctNodes) : i = 1 BY <3>3
    <3>10. Owed(f) BY <1>1, <3>7, <3>8, <3>9 DEF Owed
    <3> QED BY <3>10
  <2> QED BY <2>1, <2>2
<1>5. CapacityIsReserved
  <2> DEFINE len == Len(ctNodes)
             c == Reserved
  <2>1. c \in Int
    <3>1. Len(ctInput) \in Nat BY <1>2 DEF CtLen
    <3> QED BY <1>3, <3>1 DEF Reserved
  <2>2. ctCapacity = Max({c, len}) BY DEF CtInit
  <2> HIDE DEF c, len
  <2>3. len \in Int BY <1>2 DEF len
  <2>4. Max({c, len}) \in Int /\ Max({c, len}) >= c BY <2>1, <2>3, ExtremesOfTwo
  <2> QED BY <2>2, <2>4 DEF CapacityIsReserved, c
<1>6. ReserveSuffices BY <1>1 DEF ReserveSuffices
<1> QED BY <1>4, <1>5, <1>6 DEF RvIInv

LEMMA LeafKeepsReserve ==
    ASSUME CtIInv, RvIInv, BuildLeaf
    PROVE  RvIInv'
<1> DEFINE at == ctAt
           len == Len(ctNodes)
           new == WithBall(ctNodes[at])
<1>1. /\ ~ Built /\ ctNodes' = [ctNodes EXCEPT ![at] = new] /\ ctAt' = at + 1
      /\ UNCHANGED <<ctInput, ctPoints, ctCapacity, ctDefined, ctQuery, ctStack, ctBest>>
  BY DEF BuildLeaf
<1>2. at \in 1 .. len /\ at \in Nat /\ len \in Nat /\ ctNodes \in [1 .. len -> TreeNodes] /\ CtLen \in Nat
  BY <1>1, NodeAt
<1>3. Len(ctNodes') = len /\ \A i \in 1 .. len : i # at => ctNodes'[i] = ctNodes[i]
  <2>1. ctNodes \in Seq(TreeNodes) BY DEF CtIInv, CtTypes
  <2> HIDE DEF new
  <2> QED BY <1>1, <1>2, <2>1
<1>4. CtLen' = CtLen /\ MostNodes' = MostNodes BY <1>1 DEF CtLen, MostNodes
<1>5. PICK f : Owed(f) BY DEF RvIInv
<1>6. /\ f \in [at .. len + 1 -> Nat] /\ f[len + 1] = 0
      /\ \A i \in at .. len : f[i] = f[i + 1] + Excess(ctNodes[i])
      /\ len + 2 * f[at] <= MostNodes
  BY <1>5 DEF Owed
<1> HIDE DEF at, len
<1> DEFINE g == [i \in at + 1 .. len + 1 |-> f[i]]
<1>7. g \in [at + 1 .. len + 1 -> Nat] /\ g[len + 1] = 0
  <2>1. \A i \in at + 1 .. len + 1 : i \in at .. len + 1 BY <1>2
  <2>2. len + 1 \in at + 1 .. len + 1 BY <1>2
  <2> QED BY <1>6, <2>1, <2>2
<1>8. ASSUME NEW i \in at + 1 .. len PROVE g[i] = g[i + 1] + Excess(ctNodes'[i])
  <2>1. i \in at .. len /\ i \in at + 1 .. len + 1 /\ i + 1 \in at + 1 .. len + 1 /\ i \in 1 .. len /\ i # at
    BY <1>2
  <2> QED BY <1>3, <1>6, <2>1
<1>9. len + 2 * g[at + 1] <= MostNodes
  <2>1. at \in at .. len /\ at + 1 \in at + 1 .. len + 1 /\ at + 1 \in at .. len + 1 BY <1>2
  <2>2. f[at] = f[at + 1] + Excess(ctNodes[at]) /\ f[at + 1] \in Nat /\ g[at + 1] = f[at + 1] BY <1>6, <2>1
  <2>3. Excess(ctNodes[at]) \in Nat BY <1>2, ExcessIsNat DEF TreeNodes
  <2>4. MostNodes \in Int BY <1>2, CtAssumption DEF MostNodes
  <2> QED BY <1>2, <1>6, <2>2, <2>3, <2>4
<1> HIDE DEF g
<1>10. (\E h : Owed(h))'
  <2>1. PICK h : h = g OBVIOUS
  <2> QED BY <1>1, <1>3, <1>4, <1>7, <1>8, <1>9, <2>1 DEF Owed, at, len
<1>11. CapacityIsReserved' BY <1>1 DEF CapacityIsReserved, RvIInv, Reserved
<1>12. ReserveSuffices' BY <1>1 DEF ReserveSuffices, RvIInv
<1> QED BY <1>10, <1>11, <1>12 DEF RvIInv

\* A node that is split has at least one point more than its children have together, above
\* the size of a leaf.
LEMMA SplitOwesLess ==
    ASSUME NEW c \in Int, c > CtMaxLeaf, NEW a \in Nat \ {0}, NEW b \in Nat \ {0}, c = a + b,
           NEW x, x.first \in Int, x.last \in Int, x.last - x.first = c,
           NEW y, y.first \in Int, y.last \in Int, y.last - y.first = a,
           NEW z, z.first \in Int, z.last \in Int, z.last - z.first = b
    PROVE  Excess(y) + Excess(z) + 1 <= Excess(x)
<1>1. CtMaxLeaf \in Nat /\ CtMaxLeaf >= 1 BY CtAssumption
<1>2. Excess(x) = c - CtMaxLeaf BY DEF Excess, Count
<1>3. Excess(y) = IF a > CtMaxLeaf THEN a - CtMaxLeaf ELSE 0 BY DEF Excess, Count
<1>4. Excess(z) = IF b > CtMaxLeaf THEN b - CtMaxLeaf ELSE 0 BY DEF Excess, Count
<1> QED BY <1>1, <1>2, <1>3, <1>4

LEMMA SplitKeepsReserve ==
    ASSUME CtIInv, RvIInv, BuildNode
    PROVE  RvIInv'
<1> DEFINE at == ctAt
           len == Len(ctNodes)
<1>1. /\ ctDefined /\ ~ Built /\ Count(ctNodes[at]) > CtMaxLeaf /\ ctAt' = at + 1
      /\ UNCHANGED <<ctInput, ctQuery, ctStack, ctBest>>
      /\ ctCapacity' = Grown(len + 1 + 1) /\ ctDefined' = (ctCapacity' = ctCapacity)
  BY DEF BuildNode
<1>2. /\ at \in 1 .. len /\ at \in Nat /\ len \in Nat /\ ctNodes \in [1 .. len -> TreeNodes]
      /\ CtLen \in Nat
  BY <1>1, NodeAt
<1>3. PICK mid : SplitsInto(ctNodes', mid) BY BuildNodeSplits
<1>4. /\ Len(ctNodes') = len + 2 /\ ctNodes' \in [1 .. len + 2 -> TreeNodes]
      /\ \A i \in 1 .. len : i # at => ctNodes'[i] = ctNodes[i]
      /\ mid \in ctNodes[at].first + 1 .. ctNodes[at].last - 1
      /\ ctNodes'[len + 1].first = ctNodes[at].first /\ ctNodes'[len + 1].last = mid
      /\ ctNodes'[len + 2].first = mid /\ ctNodes'[len + 2].last = ctNodes[at].last
  BY <1>3 DEF SplitsInto
<1>5. CtLen' = CtLen /\ MostNodes' = MostNodes BY <1>1 DEF CtLen, MostNodes
<1>6. MostNodes \in Int /\ CtMaxLeaf \in Int BY <1>2, CtAssumption DEF MostNodes
<1>7. PICK f : Owed(f) BY DEF RvIInv
<1>8. /\ f \in [at .. len + 1 -> Nat] /\ f[len + 1] = 0
      /\ \A i \in at .. len : f[i] = f[i + 1] + Excess(ctNodes[i])
      /\ len + 2 * f[at] <= MostNodes
  BY <1>7 DEF Owed
<1> HIDE DEF at, len
<1> DEFINE e1 == Excess(ctNodes'[len + 1])
           e2 == Excess(ctNodes'[len + 2])
<1>9. e1 \in Nat /\ e2 \in Nat /\ Excess(ctNodes[at]) \in Nat /\ e1 + e2 + 1 <= Excess(ctNodes[at])
  <2> DEFINE x == ctNodes[at]
             y == ctNodes'[len + 1]
             z == ctNodes'[len + 2]
  <2>1. x.first \in Int /\ x.last \in Int BY <1>2 DEF TreeNodes
  <2>2. len + 1 \in 1 .. len + 2 /\ len + 2 \in 1 .. len + 2 BY <1>2
  <2>3. y.first \in Int /\ y.last \in Int /\ z.first \in Int /\ z.last \in Int
    BY <1>4, <2>2 DEF TreeNodes
  <2>4. mid \in x.first + 1 .. x.last - 1 /\ y.first = x.first /\ y.last = mid /\ z.first = mid /\ z.last = x.last
    BY <1>4
  <2>5. x.last - x.first > CtMaxLeaf BY <1>1 DEF Count
  <2> HIDE DEF x, y, z
  <2>6. y.last - y.first \in Nat \ {0} /\ z.last - z.first \in Nat \ {0}
        /\ x.last - x.first = (y.last - y.first) + (z.last - z.first)
        /\ x.last - x.first \in Int
    BY <2>1, <2>3, <2>4
  <2>7. Excess(y) + Excess(z) + 1 <= Excess(x) BY <2>1, <2>3, <2>5, <2>6, SplitOwesLess
  <2>8. Excess(x) \in Nat /\ Excess(y) \in Nat /\ Excess(z) \in Nat BY <2>1, <2>3, ExcessIsNat
  <2> QED BY <2>7, <2>8 DEF x, y, z
<1> HIDE DEF e1, e2
<1> DEFINE g == [i \in at + 1 .. len + 3 |-> IF i <= len + 1 THEN f[i] + (e1 + e2)
                                             ELSE IF i = len + 2 THEN e2 ELSE 0]
<1>10. \A i \in at + 1 .. len + 1 : i \in at .. len + 1 /\ f[i] \in Nat BY <1>2, <1>8
<1>11. g \in [at + 1 .. len + 3 -> Nat]
  <2>1. ASSUME NEW i \in at + 1 .. len + 3 PROVE g[i] \in Nat
    <3>1. CASE i <= len + 1
      <4>1. i \in at + 1 .. len + 1 BY <1>2, <3>1
      <4> QED BY <1>9, <1>10, <3>1, <4>1
    <3>2. CASE ~ (i <= len + 1) BY <1>9, <3>2
    <3> QED BY <3>1, <3>2
  <2> QED BY <2>1
<1>12. /\ \A i \in at + 1 .. len + 1 : g[i] = f[i] + (e1 + e2)
       /\ g[len + 2] = e2 /\ g[len + 3] = 0
  <2>1. \A i \in at + 1 .. len + 1 : i \in at + 1 .. len + 3 /\ i <= len + 1 BY <1>2
  <2>2. /\ len + 2 \in at + 1 .. len + 3 /\ ~ (len + 2 <= len + 1)
        /\ len + 3 \in at + 1 .. len + 3 /\ ~ (len + 3 <= len + 1) /\ len + 3 # len + 2
    BY <1>2
  <2> QED BY <2>1, <2>2
<1> HIDE DEF g
<1>13. ASSUME NEW i \in at + 1 .. len + 2 PROVE g[i] = g[i + 1] + Excess(ctNodes'[i])
  <2>1. CASE i <= len
    <3>1. /\ i \in at + 1 .. len + 1 /\ i + 1 \in at + 1 .. len + 1 /\ i \in at .. len
          /\ i \in 1 .. len /\ i # at
      BY <1>2, <2>1
    <3>2. f[i] = f[i + 1] + Excess(ctNodes'[i]) BY <1>4, <1>8, <3>1
    <3>3. g[i] = f[i] + (e1 + e2) /\ g[i + 1] = f[i + 1] + (e1 + e2) BY <1>12, <3>1
    <3>4. f[i] \in Nat /\ f[i + 1] \in Nat BY <1>10, <3>1
    <3>5. Excess(ctNodes'[i]) = f[i] - f[i + 1]
      <4>1. i \in 1 .. len + 2 BY <1>2, <3>1
      <4>2. Excess(ctNodes'[i]) \in Nat BY <1>4, <4>1, ExcessIsNat DEF TreeNodes
      <4> QED BY <3>2, <3>4, <4>2
    <3> QED BY <1>9, <3>3, <3>4, <3>5
  <2>2. CASE i = len + 1
    <3>1. len + 1 \in at + 1 .. len + 1 /\ len + 1 + 1 = len + 2 BY <1>2
    <3>2. g[len + 1] = e1 + e2 /\ g[len + 1 + 1] = e2 BY <1>8, <1>9, <1>12, <3>1
    <3> QED BY <1>9, <2>2, <3>2 DEF e1
  <2>3. CASE i = len + 2
    <3>1. len + 2 + 1 = len + 3 BY <1>2
    <3> QED BY <1>9, <1>12, <2>3, <3>1 DEF e2
  <2>4. i <= len \/ i = len + 1 \/ i = len + 2 BY <1>2
  <2> QED BY <2>1, <2>2, <2>3, <2>4
<1>14. len + 2 + 2 * g[at + 1] <= MostNodes
  <2>1. at \in at .. len /\ at + 1 \in at + 1 .. len + 1 BY <1>2
  <2>2. f[at] = f[at + 1] + Excess(ctNodes[at]) /\ g[at + 1] = f[at + 1] + (e1 + e2)
    BY <1>8, <1>12, <2>1
  <2>3. f[at + 1] \in Nat BY <1>10, <2>1
  <2> DEFINE x == f[at + 1]
             e == Excess(ctNodes[at])
             y == g[at + 1]
             most == MostNodes
  <2>4. /\ x \in Nat /\ e \in Nat /\ most \in Int /\ e1 + e2 + 1 <= e /\ y = x + (e1 + e2)
        /\ len + 2 * (x + e) <= most
    BY <1>6, <1>8, <1>9, <2>2, <2>3
  <2> HIDE DEF x, e, y, most
  <2>5. len + 2 + 2 * y <= most BY <1>2, <1>9, <2>4
  <2> QED BY <2>5 DEF y, most
<1>15. (\E h : Owed(h))'
  <2>1. len + 2 + 1 = len + 3 BY <1>2
  <2>2. PICK h : h = g OBVIOUS
  <2>3. ctAt' = at + 1 /\ Len(ctNodes') = len + 2 BY <1>1, <1>4
  <2>4. /\ h \in [at + 1 .. len + 2 + 1 -> Nat] /\ h[len + 2 + 1] = 0
        /\ \A i \in at + 1 .. len + 2 : h[i] = h[i + 1] + Excess(ctNodes'[i])
        /\ len + 2 + 2 * h[at + 1] <= MostNodes
    <3>1. h \in [at + 1 .. len + 2 + 1 -> Nat] /\ h[len + 2 + 1] = 0 BY <1>11, <1>12, <2>1, <2>2
    <3> QED BY <1>13, <1>14, <2>2, <3>1
  <2>5. Owed(h)' BY <1>5, <2>3, <2>4 DEF Owed
  <2> QED BY <2>5
<1>16. len + 2 <= MostNodes
  <2>1. at + 1 \in at + 1 .. len + 3 BY <1>2
  <2>2. g[at + 1] \in Nat BY <1>11, <2>1
  <2> QED BY <1>2, <1>6, <1>14, <2>2
<1>17. CapacityIsReserved'
  <2>1. ctInput' = ctInput /\ Reserved' = Reserved BY <1>1 DEF Reserved
  <2>2. ctDefined' => ctCapacity' = ctCapacity BY <1>1
  <2> QED BY <1>1, <2>1, <2>2 DEF RvIInv, CapacityIsReserved
<1>18. ReserveSuffices'
  <2>1. ctCapacity \in Int /\ ctCapacity >= Reserved BY <1>1 DEF RvIInv, CapacityIsReserved
  <2> SUFFICES ASSUME 2 * (CtLen - CtMaxLeaf) + 1 <= Reserved PROVE ctDefined'
    BY <1>1 DEF ReserveSuffices, Reserved, CtLen
  <2>2. CtLen > CtMaxLeaf
    <3>1. CASE ~ (CtLen > CtMaxLeaf)
      <4>1. MostNodes = 1 BY <3>1 DEF MostNodes
      <4> QED BY <1>2, <1>16, <4>1
    <3> QED BY <3>1
  <2>3. MostNodes = 2 * (CtLen - CtMaxLeaf) + 1 BY <1>2, <1>6, <2>2 DEF MostNodes
  <2>4. Reserved \in Int
    <3>1. Len(ctInput) \in Nat /\ CtMaxLeaf \in Nat \ {0} BY <1>2, CtAssumption DEF CtLen
    <3> QED BY <3>1 DEF Reserved
  <2>5. len + 1 + 1 <= ctCapacity BY <1>2, <1>6, <1>16, <2>1, <2>3, <2>4
  <2>6. Grown(len + 1 + 1) = ctCapacity BY <2>5 DEF Grown
  <2> QED BY <1>1, <2>6
<1> QED BY <1>15, <1>17, <1>18 DEF RvIInv

LEMMA ReserveStays == CtIInv /\ RvIInv /\ [CtNext]_ctVars => RvIInv'
<1> SUFFICES ASSUME CtIInv, RvIInv, [CtNext]_ctVars PROVE RvIInv' OBVIOUS
<1>1. CASE BuildLeaf BY <1>1, LeafKeepsReserve
<1>2. CASE BuildNode BY <1>2, SplitKeepsReserve
<1>3. ASSUME UNCHANGED <<ctInput, ctNodes, ctCapacity, ctDefined, ctAt>> PROVE RvIInv'
  <2>1. MostNodes' = MostNodes /\ CtLen' = CtLen BY <1>3 DEF MostNodes, CtLen
  <2>2. ASSUME NEW f, Owed(f) PROVE Owed(f)' BY <1>3, <2>1, <2>2 DEF Owed
  <2>3. CapacityIsReserved' /\ ReserveSuffices'
    BY <1>3 DEF RvIInv, CapacityIsReserved, ReserveSuffices, Reserved
  <2> QED BY <2>2, <2>3 DEF RvIInv
<1>4. CASE \E q \in CtQueries : FindBestMatch(q) BY <1>3, <1>4 DEF FindBestMatch
<1>5. CASE VisitNode BY <1>3, <1>5 DEF VisitNode
<1>6. CASE UNCHANGED ctVars BY <1>3, <1>6 DEF ctVars
<1> QED BY <1>1, <1>2, <1>4, <1>5, <1>6 DEF CtNext

\* TreeIsExact: whatever the points and the queries are, and in whatever order the two
\* children of a node are visited, buildTree() leaves every point in the tree and in the
\* balls of its nodes, and findBestMatch() returns a point with the greatest inner product
\* with its query, unless nodes_ was moved while it was filled, which is not defined.  That
\* cannot be when twice the points above the size of a leaf, and one, are reserved for.
THEOREM TreeStaysExact == CtSpec => []TreeIsExact
<1>1. CtInit => CtIInv /\ RvIInv BY TreeStarts, ReserveStarts
<1>2. CtIInv /\ RvIInv /\ [CtNext]_ctVars => (CtIInv /\ RvIInv)' BY TreeStays, ReserveStays
<1>3. CtIInv /\ RvIInv => TreeIsExact BY SoundTreeIsExact DEF RvIInv, TreeIsExact
<1> QED BY <1>1, <1>2, <1>3, PTL DEF CtSpec

=============================================================================
