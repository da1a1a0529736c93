------------------------------ MODULE Induction ------------------------------
(***************************************************************************)
(* Induction over the natural numbers in a form without operators as       *)
(* parameters: the cases that hold are given as a set.  It comes from the  *)
(* well-foundedness of the inclusion of finite sets.  From it: iterations  *)
(* and folds are defined, finite sets have extremes, and the elements of a *)
(* finite set can be listed in any strict order.                           *)
(***************************************************************************)
EXTENDS Integers, FiniteSets, FiniteSetTheorems, WellFoundedInduction, TLAPS

\* Every set of natural numbers that is not empty has a least element.
LEMMA LeastNatural ==
    ASSUME NEW T \in SUBSET Nat, T # {}
    PROVE  \E m \in T : \A k \in T : m <= k
<1> DEFINE Below == {0 .. k : k \in T}
<1>1. Below \subseteq FiniteSubsetsOf(Nat)
  <2>1. ASSUME NEW k \in T PROVE 0 .. k \in SUBSET Nat /\ IsFiniteSet(0 .. k)
    BY FS_Interval
  <2> QED BY <2>1 DEF FiniteSubsetsOf
<1>2. Below # {} OBVIOUS
<1>3. PICK B \in Below : \A C \in Below : <<C, B>> \notin StrictSubsetOrdering(Nat)
  BY <1>1, <1>2, WFMin, FS_StrictSubsetOrderingWellFounded
<1>4. PICK m \in T : B = 0 .. m OBVIOUS
<1>5. ASSUME NEW k \in T, k < m PROVE FALSE
  <2>1. 0 .. k \in Below OBVIOUS
  <2>2. 0 .. k \subseteq 0 .. m /\ 0 .. k # 0 .. m BY <1>5
  <2>3. 0 .. k \in SUBSET Nat /\ 0 .. m \in SUBSET Nat OBVIOUS
  <2>4. <<0 .. k, 0 .. m>> \in StrictSubsetOrdering(Nat)
    BY <2>2, <2>3 DEF StrictSubsetOrdering
  <2> QED BY <1>3, <1>4, <2>1, <2>4
<1> QED BY <1>5

\* Induction over an interval, with the cases that hold given as a set.
LEMMA IntervalInduction ==
    ASSUME NEW n \in Nat, NEW S, 0 \in S, \A i \in 0 .. n - 1 : i \in S => i + 1 \in S
    PROVE  0 .. n \subseteq S
<1> DEFINE T == {i \in 0 .. n : i \notin S}
<1> SUFFICES ASSUME T # {} PROVE FALSE OBVIOUS
<1>1. T \in SUBSET Nat OBVIOUS
<1>2. PICK m \in T : \A k \in T : m <= k BY <1>1, LeastNatural
<1>3. m # 0 /\ m - 1 \in 0 .. n - 1 BY <1>2
<1>4. m - 1 \in S BY <1>2, <1>3
<1>5. (m - 1) + 1 \in S BY <1>3, <1>4
<1> QED BY <1>3, <1>5

\* What a recursive function over an interval rests on: the values of any step can be
\* followed from 0 to n.
Iterates(f, n, X, b, step) ==
    f \in [0 .. n -> X] /\ f[0] = b /\ \A k \in 1 .. n : f[k] = step[<<k, f[k - 1]>>]

LEMMA IterationExists ==
    ASSUME NEW n \in Nat, NEW X, NEW b \in X, NEW step \in [(1 .. n) \X X -> X]
    PROVE  \E f : Iterates(f, n, X, b, step)
<1> DEFINE Follows(f, m) == f[0] = b /\ \A k \in 1 .. m : f[k] = step[<<k, f[k - 1]>>]
           S == {m \in 0 .. n : \E f \in [0 .. m -> X] : Follows(f, m)}
<1>1. 0 \in S
  <2> DEFINE g == [i \in 0 .. 0 |-> b]
  <2>1. g \in [0 .. 0 -> X] /\ Follows(g, 0) OBVIOUS
  <2> HIDE DEF g, Follows
  <2> QED BY <2>1
<1>2. ASSUME NEW m \in 0 .. n - 1, m \in S PROVE m + 1 \in S
  <2>1. PICK f \in [0 .. m -> X] : Follows(f, m) BY <1>2
  <2> DEFINE g == [i \in 0 .. m + 1 |-> IF i <= m THEN f[i] ELSE step[<<m + 1, f[m]>>]]
  <2>2. m \in Nat /\ f[m] \in X /\ <<m + 1, f[m]>> \in (1 .. n) \X X OBVIOUS
  <2>3. g \in [0 .. m + 1 -> X]
    <3>1. step[<<m + 1, f[m]>>] \in X BY <2>2
    <3> QED BY <2>2, <3>1
  <2>4. g[0] = b BY <2>1, <2>2
  <2>5. ASSUME NEW k \in 1 .. m + 1 PROVE g[k] = step[<<k, g[k - 1]>>]
    <3>1. CASE k = m + 1
      <4>1. k - 1 = m /\ m \in 0 .. m + 1 /\ m <= m BY <2>2, <3>1
      <4>2. g[k - 1] = f[m] BY <4>1
      <4>3. k \in 0 .. m + 1 /\ ~ (k <= m) BY <2>2, <3>1
      <4>4. g[k] = step[<<m + 1, f[m]>>] BY <4>3
      <4> QED BY <3>1, <4>2, <4>4
    <3>2. CASE k # m + 1
      <4>1. k \in 1 .. m /\ k - 1 \in 0 .. m BY <2>2, <3>2
      <4>2. g[k] = f[k] /\ g[k - 1] = f[k - 1] BY <4>1
      <4>3. f[k] = step[<<k, f[k - 1]>>] BY <2>1, <4>1
      <4> QED BY <4>2, <4>3
    <3> QED BY <3>1, <3>2
  <2> HIDE DEF g
  <2> QED BY <2>2, <2>3, <2>4, <2>5
<1>3. n \in S
  <2> HIDE DEF S
  <2>1. 0 .. n \subseteq S BY <1>1, <1>2, IntervalInduction
  <2> QED BY <2>1
<1> QED BY <1>3 DEF Iterates

\* A step that only looks at the values before it, and what its recursion gives.
LooksBack(n, X, step) ==
    /\ step \in [(1 .. n) \X [1 .. n -> X] -> X]
    /\ \A k \in 1 .. n : \A g, h \in [1 .. n -> X] :
         (\A j \in 1 .. k - 1 : g[j] = h[j]) => step[<<k, g>>] = step[<<k, h>>]

Recurs(f, n, X, step) == f \in [1 .. n -> X] /\ \A k \in 1 .. n : f[k] = step[<<k, f>>]

\* Course-of-values recursion: such a step has a solution.
LEMMA RecursionExists ==
    ASSUME NEW n \in Nat, NEW X, NEW x \in X, NEW step, LooksBack(n, X, step)
    PROVE  \E f : Recurs(f, n, X, step)
<1> USE DEF LooksBack, Recurs
<1> DEFINE G == [1 .. n -> X]
           b == [k \in 1 .. n |-> x]
           next == [q \in (1 .. n) \X G |-> [q[2] EXCEPT ![q[1]] = step[q]]]
           Solves(g, m) == \A k \in 1 .. m : g[k] = step[<<k, g>>]
<1>1. b \in G OBVIOUS
<1>2. next \in [(1 .. n) \X G -> G]
  <2>1. \A q \in (1 .. n) \X G : step[q] \in X OBVIOUS
  <2> QED BY <2>1
<1>3. \E f : Iterates(f, n, G, b, next)
  <2> HIDE DEF G, b, next
  <2> QED BY <1>1, <1>2, IterationExists
<1>4. PICK f \in [0 .. n -> G] : \A k \in 1 .. n : f[k] = next[<<k, f[k - 1]>>]
  BY <1>3 DEF Iterates
<1> DEFINE S == {m \in 0 .. n : Solves(f[m], m)}
<1>5. 0 \in S OBVIOUS
<1>6. ASSUME NEW m \in 0 .. n - 1, m \in S PROVE m + 1 \in S
  <2>1. m + 1 \in 1 .. n /\ (m + 1) - 1 = m /\ f[m] \in G /\ f[m + 1] \in G BY <1>4
  <2>2. f[m + 1] = [f[m] EXCEPT ![m + 1] = step[<<m + 1, f[m]>>]]
    <3>1. <<m + 1, f[m]>> \in (1 .. n) \X G BY <2>1
    <3>2. f[m + 1] = next[<<m + 1, f[m]>>] BY <1>4, <2>1
    <3> QED BY <3>1, <3>2
  <2>3. \A k \in 1 .. m : f[m + 1][k] = f[m][k] BY <2>1, <2>2
  <2>4. f[m + 1][m + 1] = step[<<m + 1, f[m]>>] BY <2>1, <2>2
  <2>5. \A k \in 1 .. m + 1 : step[<<k, f[m + 1]>>] = step[<<k, f[m]>>]
    <3> TAKE k \in 1 .. m + 1
    <3>1. k \in 1 .. n /\ \A j \in 1 .. k - 1 : j \in 1 .. m BY <2>1
    <3>2. \A j \in 1 .. k - 1 : f[m + 1][j] = f[m][j] BY <2>3, <3>1
    <3> QED BY <2>1, <3>1, <3>2
  <2>6. ASSUME NEW k \in 1 .. m + 1 PROVE f[m + 1][k] = step[<<k, f[m + 1]>>]
    <3>1. CASE k = m + 1 BY <2>4, <2>5, <3>1
    <3>2. CASE k # m + 1
      <4>1. k \in 1 .. m BY <2>1, <3>2
      <4>2. f[m][k] = step[<<k, f[m]>>] BY <1>6, <4>1
      <4> QED BY <2>3, <2>5, <4>1, <4>2
    <3> QED BY <3>1, <3>2
  <2>7. Solves(f[m + 1], m + 1) BY <2>6
  <2> HIDE DEF Solves
  <2> QED BY <2>1, <2>7
<1>7. Solves(f[n], n)
  <2>1. 0 .. n \subseteq S
    <3> HIDE DEF S
    <3> QED BY <1>5, <1>6, IntervalInduction
  <2>2. n \in 0 .. n OBVIOUS
  <2>3. n \in S BY <2>1, <2>2
  <2> HIDE DEF Solves
  <2> QED BY <2>3
<1>8. f[n] \in G BY <1>4
<1> QED BY <1>7, <1>8

-----------------------------------------------------------------------------
(* Finite sets in an order that is given as a set of pairs. *)

StrictOrder(S, R) ==
    /\ \A i \in S : <<i, i>> \notin R
    /\ \A i, j \in S : i # j => <<i, j>> \in R \/ <<j, i>> \in R
    /\ \A i, j, k \in S : <<i, j>> \in R /\ <<j, k>> \in R => <<i, k>> \in R

Preceding(S, R, i) == {j \in S : <<j, i>> \in R}

\* The elements in their order, each behind as many as precede it.
Listed(S, R) ==
    [k \in 1 .. Cardinality(S) |-> CHOOSE i \in S : Cardinality(Preceding(S, R, i)) = k - 1]

LEMMA ListedInOrder ==
    ASSUME NEW S, IsFiniteSet(S), NEW R, StrictOrder(S, R)
    PROVE  /\ Cardinality(S) \in Nat
           /\ Listed(S, R) \in [1 .. Cardinality(S) -> S]
           /\ \A k, l \in 1 .. Cardinality(S) :
                k < l => <<Listed(S, R)[k], Listed(S, R)[l]>> \in R
           /\ \A i \in S : \E k \in 1 .. Cardinality(S) :
                Listed(S, R)[k] = i /\ k = Cardinality(Preceding(S, R, i)) + 1
           /\ \A k \in 1 .. Cardinality(S) :
                Cardinality(Preceding(S, R, Listed(S, R)[k])) = k - 1
<1> DEFINE n == Cardinality(S)
           P(i) == Preceding(S, R, i)
           f == [i \in S |-> Cardinality(P(i)) + 1]
           s == Listed(S, R)
<1>1. n \in Nat BY FS_CardinalityType
<1>2. ASSUME NEW i \in S PROVE IsFiniteSet(P(i)) /\ Cardinality(P(i)) \in 0 .. n - 1
  <2>1. P(i) \in SUBSET S /\ i \notin P(i) BY DEF StrictOrder, Preceding
  <2>2. IsFiniteSet(P(i)) /\ Cardinality(P(i)) <= n /\ Cardinality(P(i)) # n
    BY <2>1, FS_Subset
  <2> QED BY <1>1, <2>2, FS_CardinalityType
<1>3. ASSUME NEW i \in S, NEW j \in S, <<i, j>> \in R PROVE f[i] < f[j]
  <2>1. P(i) \in SUBSET P(j) /\ i \in P(j) /\ i \notin P(i)
    BY <1>3 DEF StrictOrder, Preceding
  <2>2. Cardinality(P(i)) <= Cardinality(P(j)) /\ Cardinality(P(i)) # Cardinality(P(j))
    BY <1>2, <2>1, FS_Subset
  <2> QED BY <1>1, <1>2, <2>2
<1>4. f \in [S -> 1 .. n] BY <1>1, <1>2
<1>5. \A i, j \in S : f[i] = f[j] => i = j
  <2> SUFFICES ASSUME NEW i \in S, NEW j \in S, i # j PROVE f[i] # f[j] OBVIOUS
  <2>1. f[i] \in Int /\ f[j] \in Int BY <1>1, <1>4
  <2>2. <<i, j>> \in R \/ <<j, i>> \in R BY DEF StrictOrder
  <2>3. f[i] < f[j] \/ f[j] < f[i] BY <1>3, <2>2
  <2> HIDE DEF f
  <2> QED BY <2>1, <2>3
<1>6. f \in Injection(S, 1 .. n) BY <1>4, <1>5 DEF Injection, IsInjective
<1>7. f \in Surjection(S, 1 .. n)
  <2>1. IsFiniteSet(1 .. n) /\ Cardinality(1 .. n) = n BY <1>1, FS_Interval
  <2> HIDE DEF f
  <2> QED BY <1>6, <2>1, FS_Injection
<1>8. \A k \in 1 .. n : \E i \in S : f[i] = k BY <1>7 DEF Surjection
<1>9. ASSUME NEW k \in 1 .. n PROVE s[k] \in S /\ Cardinality(P(s[k])) = k - 1
  <2>1. \E i \in S : Cardinality(P(i)) = k - 1
    <3>1. PICK i \in S : Cardinality(P(i)) + 1 = k BY <1>8
    <3> QED BY <1>1, <1>2, <3>1
  <2>2. s[k] = CHOOSE i \in S : Cardinality(P(i)) = k - 1 BY DEF Listed
  <2> HIDE DEF s, P
  <2> QED BY <2>1, <2>2
<1>10. s \in [1 .. n -> S]
  <2>1. s = [k \in 1 .. n |-> s[k]] BY DEF Listed
  <2> HIDE DEF s
  <2> QED BY <1>9, <2>1
<1>11. ASSUME NEW k \in 1 .. n, NEW l \in 1 .. n, k < l PROVE <<s[k], s[l]>> \in R
  <2>1. f[s[k]] = k /\ f[s[l]] = l
    <3> HIDE DEF s
    <3> QED BY <1>1, <1>9
  <2>2. s[k] \in S /\ s[l] \in S /\ s[k] # s[l] BY <1>9, <1>11, <2>1
  <2>3. ~ (f[s[l]] < f[s[k]]) BY <1>11, <2>1
  <2> HIDE DEF s, f
  <2> QED BY <1>3, <2>2, <2>3 DEF StrictOrder
<1>12. ASSUME NEW i \in S PROVE \E k \in 1 .. n : s[k] = i /\ k = Cardinality(P(i)) + 1
  <2>1. f[i] \in 1 .. n /\ f[i] = Cardinality(P(i)) + 1 BY <1>4
  <2>2. s[f[i]] \in S /\ Cardinality(P(s[f[i]])) = f[i] - 1
    <3> HIDE DEF s, f
    <3> QED BY <1>9, <2>1
  <2>3. f[s[f[i]]] = f[i]
    <3>1. f[s[f[i]]] = (f[i] - 1) + 1
      <4>1. \A j \in S : f[j] = Cardinality(P(j)) + 1 OBVIOUS
      <4> HIDE DEF s, f, P
      <4> QED BY <2>2, <4>1
    <3>2. f[i] \in Int BY <1>1, <2>1
    <3> HIDE DEF s, f
    <3> QED BY <3>1, <3>2
  <2>4. s[f[i]] = i
    <3> HIDE DEF s, f
    <3> QED BY <1>5, <2>2, <2>3
  <2> HIDE DEF s, f
  <2> QED BY <2>1, <2>4
<1> HIDE DEF s
<1> QED BY <1>1, <1>9, <1>10, <1>11, <1>12 DEF s

-----------------------------------------------------------------------------
(* Folds over finite sets *)

\* Induction over the subsets of a finite set, one element at a time.
LEMMA SubsetInduction ==
    \A S, T :
        /\ IsFiniteSet(S) /\ {} \in T
        /\ \A s \in SUBSET S : s # {} => \E x \in s : s \ {x} \in T => s \in T
        => SUBSET S \subseteq T
<1> SUFFICES ASSUME NEW S, IsFiniteSet(S), NEW T, {} \in T,
                    \A s \in SUBSET S : s # {} => \E x \in s : s \ {x} \in T => s \in T
             PROVE  SUBSET S \subseteq T
  OBVIOUS
<1> DEFINE Bad == {s \in SUBSET S : s \notin T}
<1> SUFFICES ASSUME Bad # {} PROVE FALSE OBVIOUS
<1>1. Bad \subseteq FiniteSubsetsOf(S) BY FS_Subset DEF FiniteSubsetsOf
<1>2. PICK s \in Bad : \A r \in Bad : <<r, s>> \notin StrictSubsetOrdering(S)
  BY <1>1, WFMin, FS_StrictSubsetOrderingWellFounded
<1>3. s # {} OBVIOUS
<1>4. PICK x \in s : s \ {x} \in T => s \in T BY <1>3
<1>5. s \ {x} \in Bad BY <1>4
<1>6. <<s \ {x}, s>> \in StrictSubsetOrdering(S) BY <1>4 DEF StrictSubsetOrdering
<1> QED BY <1>2, <1>5, <1>6

\* A fold that takes the element c[s] out of a set s first.
FoldsOver(it, S, b, c, step) ==
    it = [s \in SUBSET S |-> IF s = {} THEN b ELSE step[<<c[s], it[s \ {c[s]}]>>]]

Chooses(c, S) == \A s \in SUBSET S : s # {} => c[s] \in s

LEMMA FoldExists ==
    ASSUME NEW S, IsFiniteSet(S), NEW X, NEW b \in X, NEW c, Chooses(c, S),
           NEW step \in [S \X X -> X]
    PROVE  \E it \in [SUBSET S -> X] : FoldsOver(it, S, b, c, step)
<1> DEFINE n == Cardinality(S)
           G == [SUBSET S -> X]
           g0 == [s \in SUBSET S |-> b]
           next == [q \in (1 .. n) \X G |->
                      [s \in SUBSET S |-> IF Cardinality(s) = q[1]
                                          THEN step[<<c[s], q[2][s \ {c[s]}]>>] ELSE q[2][s]]]
<1>1. n \in Nat BY FS_CardinalityType
<1>2. \A s \in SUBSET S : Cardinality(s) \in 0 .. n /\ (Cardinality(s) = 0 <=> s = {})
  BY <1>1, FS_Subset, FS_CardinalityType, FS_EmptySet
<1>3. g0 \in G OBVIOUS
<1>4. next \in [(1 .. n) \X G -> G]
  <2>1. ASSUME NEW q \in (1 .. n) \X G, NEW s \in SUBSET S, Cardinality(s) = q[1]
        PROVE  step[<<c[s], q[2][s \ {c[s]}]>>] \in X
    <3>1. s # {} BY <1>2, <2>1
    <3>2. c[s] \in S /\ s \ {c[s]} \in SUBSET S BY <3>1 DEF Chooses
    <3>3. q[2] \in G BY <2>1
    <3> QED BY <3>2, <3>3
  <2>2. \A q \in (1 .. n) \X G : \A s \in SUBSET S : q[2][s] \in X OBVIOUS
  <2> QED BY <2>1, <2>2
<1>5. \E f : Iterates(f, n, G, g0, next)
  <2> HIDE DEF n, G, g0, next
  <2> QED BY <1>1, <1>3, <1>4, IterationExists
<1>6. PICK f \in [0 .. n -> G] : f[0] = g0 /\ \A k \in 1 .. n : f[k] = next[<<k, f[k - 1]>>]
  BY <1>5 DEF Iterates
<1> DEFINE Right(g, s) == g[s] = IF s = {} THEN b ELSE step[<<c[s], g[s \ {c[s]}]>>]
           M == {m \in 0 .. n : \A s \in SUBSET S : Cardinality(s) <= m => Right(f[m], s)}
<1>7. 0 \in M
  <2>1. ASSUME NEW s \in SUBSET S, Cardinality(s) <= 0 PROVE Right(f[0], s)
    <3>1. s = {} BY <1>2, <2>1
    <3> QED BY <1>6, <3>1
  <2> QED BY <1>1, <2>1
<1>8. ASSUME NEW m \in 0 .. n - 1, m \in M PROVE m + 1 \in M
  <2>1. m + 1 \in 1 .. n /\ (m + 1) - 1 = m /\ f[m] \in G BY <1>1, <1>6
  <2>2. f[m + 1] = [s \in SUBSET S |-> IF Cardinality(s) = m + 1
                                       THEN step[<<c[s], f[m][s \ {c[s]}]>>] ELSE f[m][s]]
    <3>1. <<m + 1, f[m]>> \in (1 .. n) \X G BY <2>1
    <3>2. f[m + 1] = next[<<m + 1, f[m]>>] BY <1>6, <2>1
    <3> QED BY <3>1, <3>2
  <2>3. \A s \in SUBSET S : Cardinality(s) # m + 1 => f[m + 1][s] = f[m][s] BY <2>2
  <2>4. ASSUME NEW s \in SUBSET S, Cardinality(s) <= m + 1 PROVE Right(f[m + 1], s)
    <3>1. CASE s = {}
      <4>1. Cardinality(s) = 0 BY <1>2, <3>1
      <4>2. Right(f[m], s)
        <5>1. \A r \in SUBSET S : Cardinality(r) <= m => Right(f[m], r) BY <1>8
        <5>2. 0 <= m BY <1>1
        <5> HIDE DEF Right
        <5> QED BY <4>1, <5>1, <5>2
      <4>3. f[m + 1][s] = f[m][s] BY <2>3, <4>1
      <4> QED BY <3>1, <4>2, <4>3
    <3>2. CASE s # {}
      <4> DEFINE r == s \ {c[s]}
      <4>1. c[s] \in s /\ r \in SUBSET S BY <3>2 DEF Chooses
      <4>2. Cardinality(r) = Cardinality(s) - 1
        <5>1. IsFiniteSet(s) BY FS_Subset
        <5> QED BY <4>1, <5>1, FS_RemoveElement
      <4>3. f[m + 1][r] = f[m][r]
        <5>1. Cardinality(s) \in Int BY <1>2
        <5>2. Cardinality(r) # m + 1 BY <2>1, <2>4, <4>2, <5>1
        <5> QED BY <2>3, <4>1, <5>2
      <4>4. CASE Cardinality(s) = m + 1
        <5>1. f[m + 1][s] = step[<<c[s], f[m][r]>>] BY <2>2, <4>4
        <5> QED BY <3>2, <4>3, <5>1
      <4>5. CASE Cardinality(s) # m + 1
        <5>1. Cardinality(s) \in Int BY <1>2
        <5>2. Cardinality(s) <= m BY <2>1, <2>4, <4>5, <5>1
        <5>3. Right(f[m], s) BY <1>8, <5>2
        <5>4. f[m + 1][s] = f[m][s] BY <2>3, <4>5
        <5> QED BY <3>2, <4>3, <5>3, <5>4
      <4> QED BY <4>4, <4>5
    <3> QED BY <3>1, <3>2
  <2> HIDE DEF Right
  <2> QED BY <2>1, <2>4
<1>9. \A s \in SUBSET S : Right(f[n], s)
  <2>1. 0 .. n \subseteq M
    <3> HIDE DEF M
    <3> QED BY <1>1, <1>7, <1>8, IntervalInduction
  <2>2. n \in M BY <1>1, <2>1
  <2> HIDE DEF Right
  <2> QED BY <1>2, <2>2
<1>10. f[n] \in G BY <1>1, <1>6
<1>11. f[n] = [s \in SUBSET S |-> IF s = {} THEN b ELSE step[<<c[s], f[n][s \ {c[s]}]>>]]
  BY <1>9, <1>10
<1> QED BY <1>10, <1>11 DEF FoldsOver

\* A finite set of integers that is not empty has a greatest and a least element.
LEMMA FiniteExtremes ==
    ASSUME NEW S \in SUBSET Int, IsFiniteSet(S), S # {}
    PROVE  /\ \E m \in S : \A k \in S : k <= m
           /\ \E m \in S : \A k \in S : m <= k
<1> DEFINE HasMax(s) == \E m \in s : \A k \in s : k <= m
           HasMin(s) == \E m \in s : \A k \in s : m <= k
           T == {s \in SUBSET S : s = {} \/ (HasMax(s) /\ HasMin(s))}
<1>1. {} \in T OBVIOUS
<1>2. ASSUME NEW s \in SUBSET S, s # {} PROVE \E x \in s : s \ {x} \in T => s \in T
  <2>1. PICK x \in s : TRUE BY <1>2
  <2>2. CASE s \ {x} = {}
    <3>1. HasMax(s) /\ HasMin(s) BY <2>1, <2>2
    <3> QED BY <2>1, <3>1
  <2>3. CASE s \ {x} # {}
    <3>1. ASSUME s \ {x} \in T PROVE HasMax(s) /\ HasMin(s)
      <4>1. PICK m \in s \ {x} : \A k \in s \ {x} : k <= m BY <2>3, <3>1
      <4>2. PICK l \in s \ {x} : \A k \in s \ {x} : l <= k BY <2>3, <3>1
      <4>3. HasMax(s)
        <5>1. CASE x <= m BY <4>1, <5>1
        <5>2. CASE m < x
          <6>1. \A k \in s : k <= x BY <4>1, <5>2
          <6> QED BY <6>1
        <5> QED BY <5>1, <5>2
      <4>4. HasMin(s)
        <5>1. CASE l <= x BY <4>2, <5>1
        <5>2. CASE x < l
          <6>1. \A k \in s : x <= k BY <4>2, <5>2
          <6> QED BY <6>1
        <5> QED BY <5>1, <5>2
      <4> QED BY <4>3, <4>4
    <3> QED BY <2>1, <3>1
  <2> QED BY <2>2, <2>3
<1>3. SUBSET S \subseteq T
  <2> HIDE DEF T
  <2> QED BY <1>1, <1>2, SubsetInduction
<1>4. S \in T BY <1>3
<1> QED BY <1>4

\* A function on a finite set of positions has a first place of its greatest value, and
\* of its least.
LEMMA FirstOfExtremes ==
    ASSUME NEW D \in SUBSET Nat, IsFiniteSet(D), D # {}, NEW v \in [D -> Int]
    PROVE  /\ \E i \in D : \A j \in D : v[j] <= v[i] /\ (v[j] = v[i] => i <= j)
           /\ \E i \in D : \A j \in D : v[i] <= v[j] /\ (v[j] = v[i] => i <= j)
<1> DEFINE V == {v[i] : i \in D}
           At(m) == {i \in D : v[i] = m}
<1>1. V \in SUBSET Int /\ V # {} OBVIOUS
<1>2. IsFiniteSet(V)
  <2>1. v \in Surjection(D, V) BY DEF Surjection
  <2> QED BY <2>1, FS_Surjection
<1>3. ASSUME NEW m \in V PROVE \E i \in At(m) : \A j \in At(m) : i <= j
  <2>1. At(m) # {} /\ At(m) \in SUBSET Nat OBVIOUS
  <2> HIDE DEF At
  <2> QED BY <2>1, LeastNatural
<1>4. (\E m \in V : \A k \in V : k <= m) /\ (\E m \in V : \A k \in V : m <= k)
  <2> HIDE DEF V
  <2> QED BY <1>1, <1>2, FiniteExtremes
<1>5. \E i \in D : \A j \in D : v[j] <= v[i] /\ (v[j] = v[i] => i <= j)
  <2>1. PICK m \in V : \A k \in V : k <= m BY <1>4
  <2>2. PICK i \in At(m) : \A j \in At(m) : i <= j BY <1>3
  <2> QED BY <2>1, <2>2
<1>6. \E i \in D : \A j \in D : v[i] <= v[j] /\ (v[j] = v[i] => i <= j)
  <2>1. PICK m \in V : \A k \in V : m <= k BY <1>4
  <2>2. PICK i \in At(m) : \A j \in At(m) : i <= j BY <1>3
  <2> QED BY <2>1, <2>2
<1> QED BY <1>5, <1>6
=============================================================================
