------------------------- MODULE ParetoFrontsProofs -------------------------
(***************************************************************************)
(* The fronts of a fitness matrix, for any number of solutions and         *)
(* objectives.  findParetoFrontBest finds the first one, and each of the   *)
(* three sorts finds all of them.  The comparisons are exact here          *)
(* (Tolerance = 0) where dominance has to be transitive: in the search,    *)
(* whose every removal relies on it, and in the sort in lexicographic      *)
(* order.  The other two sorts are right with any tolerance.  The last     *)
(* part is about the stop condition of a run, for any trees of conditions. *)
(***************************************************************************)
EXTENDS ParetoFronts, StopCondition, Induction

-----------------------------------------------------------------------------
(* The search *)

Worse(i, j) == paretoCompareLess(fmat[i], fmat[j])
Active == {indices[p] : p \in first .. last - 1}
Left == Active \cup optimal_indices

(* What was removed without being optimal is dominated by something left.  *)
RemovedAreDominated ==
    \A i \in DOMAIN fmat : i \in Left \/ \E j \in Left : Worse(i, j)

OptimalAreOptimal == optimal_indices \subseteq ParetoFront(fmat)

(* Nothing in the range is dominated by a solution that was found, but for *)
(* what the sweep still has to compare with the last one.                  *)
NoneBehindOptimal ==
    \A p \in first .. last - 1 : \A o \in optimal_indices :
      Worse(indices[p], o) => pc = "sweep" /\ o = indices[best] /\ p \in it .. best - 1

(* The best solution is not dominated by any that the scan has passed, nor *)
(* does it dominate one of those after it.                                 *)
BestOfScanned ==
    pc = "scan" => /\ \A p \in first .. it - 1 : ~Worse(indices[best], indices[p])
                   /\ \A p \in best + 1 .. it - 1 : ~Worse(indices[p], indices[best])

BestIsFound == pc = "sweep" => indices[best] \in optimal_indices

EndIsEmpty == pc = "done" => first = last

IInv == /\ SearchTypeOK
        /\ RemovedAreDominated
        /\ OptimalAreOptimal
        /\ NoneBehindOptimal
        /\ BestOfScanned
        /\ BestIsFound
        /\ EndIsEmpty

-----------------------------------------------------------------------------
N == Cardinality(DOMAIN fmat)
Permutation == /\ indices \in [1 .. N -> 1 .. N]
               /\ \A p, q \in 1 .. N : indices[p] = indices[q] => p = q

Exact == Tolerance = 0 /\ MaxLen \in Nat

(* Dominance is transitive and irreflexive when comparisons are exact.     *)
LEMMA LessTransitive ==
    ASSUME Exact, NEW a \in Fitness, NEW b \in Fitness, NEW c \in Fitness,
           paretoCompareLess(a, b), paretoCompareLess(b, c)
    PROVE  paretoCompareLess(a, c)
<1>1. /\ a \in [Objectives -> Int] /\ b \in [Objectives -> Int]
      /\ c \in [Objectives -> Int]
  BY FitnessAssumption
<1>2. \A o \in Objectives : a[o] <= b[o] /\ b[o] <= c[o]
  BY <1>1 DEF Exact, paretoCompareLess, floatIsLess
<1>3. PICK o \in Objectives : a[o] < b[o]
  BY <1>1 DEF Exact, paretoCompareLess, floatIsLess
<1>4. a[o] < c[o] /\ \A p \in Objectives : a[p] <= c[p]
  BY <1>1, <1>2, <1>3
<1> QED BY <1>1, <1>4 DEF Exact, paretoCompareLess, floatIsLess

(* No fitness vector dominates itself.                                     *)
LEMMA LessIrreflexive ==
    ASSUME Exact, NEW a \in Fitness, paretoCompareLess(a, a)
    PROVE  FALSE
<1>1. a \in [Objectives -> Int]
  BY FitnessAssumption
<1> QED BY <1>1 DEF Exact, paretoCompareLess, floatIsLess

(* What the result of the three-way comparison tells.                      *)
LEMMA CompareSign ==
    ASSUME NEW p, NEW q
    PROVE  /\ Compare(p, q) > 0 => Worse(indices[q], indices[p])
           /\ Compare(p, q) < 0 => Worse(indices[p], indices[q])
           /\ Compare(p, q) = 0 => /\ ~Worse(indices[p], indices[q])
                                   /\ ~Worse(indices[q], indices[p])
<1>1. CASE Worse(indices[p], indices[q])
  <2>1. Compare(p, q) = -1
    BY <1>1 DEF Compare, paretoCompare, Worse
  <2> QED BY <1>1, <2>1
<1>2. CASE ~Worse(indices[p], indices[q]) /\ Worse(indices[q], indices[p])
  <2>1. Compare(p, q) = 1
    BY <1>2 DEF Compare, paretoCompare, Worse
  <2> QED BY <1>2, <2>1
<1>3. CASE ~Worse(indices[p], indices[q]) /\ ~Worse(indices[q], indices[p])
  <2>1. Compare(p, q) = 0
    BY <1>3 DEF Compare, paretoCompare, Worse
  <2> QED BY <1>3, <2>1
<1> QED BY <1>1, <1>2, <1>3

(* The matrix has the solutions 1 .. N, and the iterators are integers in  *)
(* the order the loops rely on.                                            *)
LEMMA Matrix ==
    ASSUME Exact, SearchTypeOK
    PROVE  /\ N \in Nat /\ DOMAIN fmat = 1 .. N
           /\ Permutation
           /\ indices \in [1 .. N -> 1 .. N]
           /\ first \in Int /\ last \in Int
           /\ 1 <= first /\ first <= last /\ last <= N + 1
           /\ \A i \in 1 .. N : fmat[i] \in Fitness
           /\ optimal_indices \subseteq 1 .. N
           /\ Active \subseteq 1 .. N
<1>1. PICK n \in 1 .. MaxLen : fmat \in [1 .. n -> Fitness]
  BY DEF SearchTypeOK, SomeMatrix
<1>2. n \in Nat /\ DOMAIN fmat = 1 .. n /\ \A i \in 1 .. n : fmat[i] \in Fitness
  BY <1>1 DEF Exact
<1>3. N = n
  BY <1>2, FS_Interval DEF N
<1>4. /\ first \in Int /\ last \in Int
      /\ 1 <= first /\ first <= last /\ last <= N + 1
  BY <1>2, <1>3 DEF SearchTypeOK, N
<1>5. indices \in [1 .. N -> 1 .. N] /\ Permutation
  BY <1>2, <1>3 DEF SearchTypeOK, Permutation
<1>6. Active \subseteq 1 .. N
  BY <1>2, <1>3, <1>4, <1>5 DEF Active
<1> QED BY <1>2, <1>3, <1>4, <1>5, <1>6 DEF SearchTypeOK

(* While it scans, the best element is behind the one it is compared with. *)
LEMMA ScanRange ==
    ASSUME Exact, SearchTypeOK, pc = "scan"
    PROVE  best \in Int /\ it \in Int /\ first <= best /\ best < it /\ it <= last
<1>1. first \in Int /\ last \in Int
  BY Matrix
<1> QED BY <1>1 DEF SearchTypeOK

(* While it sweeps, the element is not past the best one.                  *)
LEMMA SweepRange ==
    ASSUME Exact, SearchTypeOK, pc = "sweep"
    PROVE  best \in Int /\ it \in Int /\ first <= it /\ it <= best /\ best < last
<1>1. first \in Int /\ last \in Int
  BY Matrix
<1> QED BY <1>1 DEF SearchTypeOK

(* Swapping two entries of a permutation.                                  *)
LEMMA SwapEntries ==
    ASSUME Exact, SearchTypeOK, fmat' = fmat,
           NEW a \in 1 .. N, NEW b \in 1 .. N, indices' = Swapped(a, b)
    PROVE  /\ Permutation'
           /\ indices'[a] = indices[b] /\ indices'[b] = indices[a]
           /\ \A p \in 1 .. N : p # a /\ p # b => indices'[p] = indices[p]
<1>1. /\ indices \in [1 .. N -> 1 .. N]
      /\ \A p, q \in 1 .. N : indices[p] = indices[q] => p = q
  BY Matrix DEF Permutation
<1>2. /\ indices' \in [1 .. N -> 1 .. N]
      /\ indices'[a] = indices[b] /\ indices'[b] = indices[a]
      /\ \A p \in 1 .. N : p # a /\ p # b => indices'[p] = indices[p]
  BY <1>1 DEF Swapped
<1>3. ASSUME NEW p \in 1 .. N, NEW q \in 1 .. N, indices'[p] = indices'[q]
      PROVE  p = q
  <2>1. CASE p = a
    BY <1>1, <1>2, <1>3, <2>1
  <2>2. CASE p = b
    BY <1>1, <1>2, <1>3, <2>2
  <2>3. CASE p # a /\ p # b
    BY <1>1, <1>2, <1>3, <2>3
  <2> QED BY <2>1, <2>2, <2>3
<1>4. N' = N
  BY DEF N
<1> QED BY <1>2, <1>3, <1>4 DEF Permutation

(* The ranges of the type invariant, from the order of their bounds.       *)
LEMMA ScanOrder ==
    ASSUME NEW f \in Int, NEW l \in Int, NEW b \in Int, NEW i \in Int,
           f <= b, b < i, i <= l
    PROVE  b \in f .. l - 1 /\ i \in b + 1 .. l
  OBVIOUS

(* The same for the sweep.                                                 *)
LEMMA SweepOrder ==
    ASSUME NEW f \in Int, NEW l \in Int, NEW b \in Int, NEW i \in Int,
           f <= i, i <= b, b < l
    PROVE  b \in f .. l - 1 /\ i \in f .. b
  OBVIOUS

(* Type correctness of a step that leaves the matrix alone.                *)
LEMMA TypeStep ==
    ASSUME Exact, SearchTypeOK, fmat' = fmat, Permutation',
           first' \in Int, last' \in Int,
           1 <= first', first' <= last', last' <= N + 1,
           optimal_indices' \subseteq 1 .. N,
           \/ pc' \in {"outer", "done"}
           \/ /\ pc' = "scan" /\ best' \in Int /\ it' \in Int
              /\ first' <= best' /\ best' < it' /\ it' <= last'
           \/ /\ pc' = "sweep" /\ best' \in Int /\ it' \in Int
              /\ first' <= it' /\ it' <= best' /\ best' < last'
    PROVE  SearchTypeOK'
<1> N \in Nat /\ DOMAIN fmat = 1 .. N /\ N' = N
  BY Matrix DEF N
<1>1. first' \in 1 .. last' /\ last' \in 1 .. N + 1
  OBVIOUS
<1>2. /\ pc' \in {"outer", "scan", "sweep", "done"}
      /\ pc' = "scan" => best' \in first' .. last' - 1 /\ it' \in best' + 1 .. last'
      /\ pc' = "sweep" => best' \in first' .. last' - 1 /\ it' \in first' .. best'
  <2>1. CASE pc' \in {"outer", "done"}
    BY <2>1
  <2>2. CASE /\ pc' = "scan" /\ best' \in Int /\ it' \in Int
             /\ first' <= best' /\ best' < it' /\ it' <= last'
    <3>1. best' \in first' .. last' - 1 /\ it' \in best' + 1 .. last'
      BY <2>2, ScanOrder
    <3> QED BY <2>2, <3>1
  <2>3. CASE /\ pc' = "sweep" /\ best' \in Int /\ it' \in Int
             /\ first' <= it' /\ it' <= best' /\ best' < last'
    <3>1. best' \in first' .. last' - 1 /\ it' \in first' .. best'
      BY <2>3, SweepOrder
    <3> QED BY <2>3, <3>1
  <2> QED BY <2>1, <2>2, <2>3
<1>3. SomeMatrix'
  BY DEF SearchTypeOK, SomeMatrix
<1> QED BY <1>1, <1>2, <1>3 DEF SearchTypeOK, Permutation, N

(* The same for the solutions of the matrix.                               *)
LEMMA Transitive ==
    ASSUME Exact, SearchTypeOK,
           NEW i \in DOMAIN fmat, NEW j \in DOMAIN fmat, NEW k \in DOMAIN fmat,
           Worse(i, j), Worse(j, k)
    PROVE  Worse(i, k)
<1>1. \A l \in DOMAIN fmat : fmat[l] \in Fitness
  BY Matrix
<1> QED BY <1>1, LessTransitive DEF Worse

(* No solution of the matrix dominates itself.                             *)
LEMMA Irreflexive ==
    ASSUME Exact, SearchTypeOK, NEW i \in DOMAIN fmat
    PROVE  ~Worse(i, i)
<1>1. \A l \in DOMAIN fmat : fmat[l] \in Fitness
  BY Matrix
<1> QED BY <1>1, LessIrreflexive DEF Worse

(* When one solution leaves the range, dominated by one that stays, what   *)
(* was removed before is still dominated by something that is left.        *)
LEMMA RemoveOne ==
    ASSUME Exact, SearchTypeOK, RemovedAreDominated,
           NEW r \in DOMAIN fmat, NEW d \in Left, Worse(r, d),
           Left \subseteq DOMAIN fmat,
           UNCHANGED fmat, Left \ {r} \subseteq Left'
    PROVE  RemovedAreDominated'
<1> SUFFICES ASSUME NEW i \in DOMAIN fmat
             PROVE  i \in Left' \/ \E j \in Left' : Worse(i, j)
  BY DEF RemovedAreDominated, Worse
<1>1. d \in Left' /\ d \in DOMAIN fmat
  BY Irreflexive
<1>2. CASE i \in Left
  <2>1. CASE i = r
    BY <1>1, <2>1
  <2> QED BY <1>2, <2>1
<1>3. CASE i \notin Left
  <2>1. PICK j \in Left : Worse(i, j)
    BY <1>3 DEF RemovedAreDominated
  <2>2. CASE j = r
    <3>1. Worse(i, d)
      BY <1>1, <2>1, <2>2, Transitive
    <3> QED BY <1>1, <3>1
  <2> QED BY <2>1, <2>2
<1> QED BY <1>2, <1>3

-----------------------------------------------------------------------------
(* The inductive invariant: it holds initially, and every step keeps it.   *)
LEMMA InitInv == Exact /\ SearchInit => IInv
<1> SUFFICES ASSUME Exact, SearchInit PROVE IInv
  OBVIOUS
<1>1. PICK n \in 1 .. MaxLen : fmat \in [1 .. n -> Fitness]
  BY DEF SearchInit, SomeMatrix
<1>2. n \in Nat /\ n > 0 /\ DOMAIN fmat = 1 .. n /\ Cardinality(1 .. n) = n
  BY <1>1, FS_Interval DEF Exact
<1>3. SearchTypeOK
  BY <1>1, <1>2 DEF SearchInit, SearchTypeOK
<1>4. Left = DOMAIN fmat
  <2>1. \A i \in 1 .. n : indices[i] = i
    BY <1>2 DEF SearchInit
  <2>2. Active = 1 .. n
    BY <1>2, <2>1 DEF SearchInit, Active
  <2> QED BY <1>2, <2>2 DEF SearchInit, Left
<1> QED BY <1>3, <1>4 DEF SearchInit, IInv, RemovedAreDominated, OptimalAreOptimal,
           NoneBehindOptimal, BestOfScanned, BestIsFound, EndIsEmpty

(* A scan starts at the first element that is left.                        *)
LEMMA OuterInv == ASSUME Exact, IInv, Outer PROVE IInv'
<1> USE DEF IInv, Outer
<1>1. /\ N \in Nat /\ DOMAIN fmat = 1 .. N /\ Permutation
      /\ indices \in [1 .. N -> 1 .. N]
      /\ first \in Int /\ last \in Int
      /\ 1 <= first /\ first <= last /\ last <= N + 1
  BY Matrix
<1>2. SearchTypeOK'
  <2>1. CASE first # last
    BY <1>1, <2>1 DEF SearchTypeOK, SomeMatrix
  <2>2. CASE first = last
    BY <1>1, <2>2 DEF SearchTypeOK, SomeMatrix
  <2> QED BY <2>1, <2>2
<1>3. Left' = Left /\ Active' = Active
  BY DEF Left, Active
<1>4. RemovedAreDominated' /\ OptimalAreOptimal'
  BY <1>3 DEF RemovedAreDominated, OptimalAreOptimal, Worse, ParetoFront
<1>5. NoneBehindOptimal'
  BY DEF NoneBehindOptimal, Worse
<1>6. BestOfScanned'
  <2>1. CASE first # last
    <3>1. indices[first] \in DOMAIN fmat
      BY <1>1, <2>1
    <3>2. ~Worse(indices[first], indices[first])
      BY <3>1, Irreflexive
    <3>3. first' .. it' - 1 = {first} /\ best' + 1 .. it' - 1 = {}
      BY <1>1, <2>1
    <3> QED BY <2>1, <3>2, <3>3 DEF BestOfScanned, Worse
  <2>2. CASE first = last
    BY <2>2 DEF BestOfScanned
  <2> QED BY <2>1, <2>2
<1>7. BestIsFound' /\ EndIsEmpty'
  BY DEF BestIsFound, EndIsEmpty
<1> QED BY <1>2, <1>4, <1>5, <1>6, <1>7

(* A dominated element leaves at the back: the best one still dominates it. *)
LEMMA ScanWorseInv == ASSUME Exact, IInv, ScanWorse PROVE IInv'
<1> USE DEF IInv
<1>1. /\ N \in Nat /\ DOMAIN fmat = 1 .. N /\ Permutation
      /\ indices \in [1 .. N -> 1 .. N]
      /\ first \in Int /\ last \in Int
      /\ 1 <= first /\ first <= last /\ last <= N + 1
      /\ optimal_indices \subseteq 1 .. N /\ Active \subseteq 1 .. N
  BY Matrix
<1>2. /\ best \in Int /\ it \in Int /\ first <= best /\ best < it /\ it < last
      /\ pc = "scan" /\ pc' = "scan"
      /\ first' = first /\ last' = last - 1 /\ best' = best /\ it' = it
      /\ fmat' = fmat /\ optimal_indices' = optimal_indices
  BY <1>1, ScanRange DEF ScanWorse
<1>3. /\ it \in 1 .. N /\ best \in 1 .. N /\ last - 1 \in 1 .. N
      /\ it \in first .. last - 1 /\ best \in first .. last - 1
      /\ last - 1 \in first .. last - 1
  BY <1>1, <1>2
<1>4. /\ Permutation'
      /\ indices'[it] = indices[last - 1] /\ indices'[last - 1] = indices[it]
      /\ \A p \in 1 .. N : p # it /\ p # last - 1 => indices'[p] = indices[p]
  <2>1. indices' = Swapped(it, last - 1)
    BY DEF ScanWorse
  <2> QED BY <1>2, <1>3, <2>1, SwapEntries
<1>5. Worse(indices[it], indices[best])
  BY CompareSign DEF ScanWorse
<1>6. SearchTypeOK'
  BY <1>1, <1>2, <1>4, TypeStep
<1>7. ASSUME NEW p \in first .. last - 1, p # it PROVE indices[p] \in Active'
  <2>1. p \in Int /\ p \in 1 .. N
    BY <1>1
  <2>2. CASE p = last - 1
    <3>1. it \in first' .. last' - 1 /\ indices'[it] = indices[p]
      BY <1>1, <1>2, <1>4, <1>7, <2>1, <2>2
    <3> QED BY <3>1 DEF Active
  <2>3. CASE p # last - 1
    <3>1. p \in first' .. last' - 1 /\ indices'[p] = indices[p]
      BY <1>1, <1>2, <1>4, <1>7, <2>1, <2>3
    <3> QED BY <3>1 DEF Active
  <2> QED BY <2>2, <2>3
<1>8. RemovedAreDominated'
  <2>1. Left \subseteq DOMAIN fmat
    BY <1>1 DEF Left
  <2>2. Left \ {indices[it]} \subseteq Left'
    BY <1>2, <1>7 DEF Left, Active
  <2>3. indices[it] \in DOMAIN fmat /\ indices[best] \in Left
    BY <1>1, <1>3 DEF Left, Active
  <2> QED BY <1>2, <1>5, <2>1, <2>2, <2>3, RemoveOne
<1>9. OptimalAreOptimal'
  BY <1>2 DEF OptimalAreOptimal, ParetoFront
<1>10. NoneBehindOptimal'
  <2> SUFFICES ASSUME NEW p \in first' .. last' - 1, NEW o \in optimal_indices,
                      Worse(indices'[p], o)
               PROVE  FALSE
    BY <1>2 DEF NoneBehindOptimal, Worse
  <2>1. p \in Int /\ p \in first .. last - 1 /\ p # last - 1 /\ p \in 1 .. N
    BY <1>1, <1>2
  <2>2. PICK q \in first .. last - 1 : indices'[p] = indices[q]
    BY <1>3, <1>4, <2>1
  <2> QED BY <1>2, <2>2 DEF NoneBehindOptimal
<1>11. BestOfScanned'
  <2>1. \A p \in first .. it - 1 : p \in 1 .. N /\ p # it /\ p # last - 1
    BY <1>1, <1>2
  <2>2. \A p \in first .. it - 1 : indices'[p] = indices[p]
    BY <1>4, <2>1
  <2>3. best \in first .. it - 1 /\ \A p \in best + 1 .. it - 1 : p \in first .. it - 1
    BY <1>1, <1>2
  <2> QED BY <1>2, <2>2, <2>3 DEF BestOfScanned, Worse
<1>12. BestIsFound' /\ EndIsEmpty'
  BY <1>2 DEF BestIsFound, EndIsEmpty
<1> QED BY <1>6, <1>8, <1>9, <1>10, <1>11, <1>12

(* A dominated best element leaves at the front, and the one that dominates *)
(* it is not dominated by anything the scan has passed, by transitivity.   *)
LEMMA ScanBetterInv == ASSUME Exact, IInv, ScanBetter PROVE IInv'
<1> USE DEF IInv
<1>1. /\ N \in Nat /\ DOMAIN fmat = 1 .. N /\ Permutation
      /\ indices \in [1 .. N -> 1 .. N]
      /\ first \in Int /\ last \in Int
      /\ 1 <= first /\ first <= last /\ last <= N + 1
      /\ optimal_indices \subseteq 1 .. N /\ Active \subseteq 1 .. N
  BY Matrix
<1>2. /\ best \in Int /\ it \in Int /\ first <= best /\ best < it /\ it < last
      /\ pc = "scan" /\ pc' = "scan"
      /\ first' = first + 1 /\ last' = last /\ best' = it /\ it' = it + 1
      /\ fmat' = fmat /\ optimal_indices' = optimal_indices
  BY <1>1, ScanRange DEF ScanBetter
<1>3. /\ it \in 1 .. N /\ best \in 1 .. N /\ first \in 1 .. N
      /\ it \in first .. last - 1 /\ best \in first .. last - 1
      /\ first \in first .. last - 1
  BY <1>1, <1>2
<1>4. /\ Permutation'
      /\ indices'[best] = indices[first] /\ indices'[first] = indices[best]
      /\ \A p \in 1 .. N : p # best /\ p # first => indices'[p] = indices[p]
  BY <1>2, <1>3, SwapEntries DEF ScanBetter
<1>5. Worse(indices[best], indices[it])
  BY CompareSign DEF ScanBetter
<1>6. SearchTypeOK'
  BY <1>1, <1>2, <1>4, TypeStep
<1>7. ASSUME NEW p \in first .. last - 1, p # best PROVE indices[p] \in Active'
  <2>1. p \in Int /\ p \in 1 .. N
    BY <1>1
  <2>2. CASE p = first
    <3>1. best \in first' .. last' - 1 /\ indices'[best] = indices[p]
      BY <1>1, <1>2, <1>4, <1>7, <2>1, <2>2
    <3> QED BY <3>1 DEF Active
  <2>3. CASE p # first
    <3>1. p \in first' .. last' - 1 /\ indices'[p] = indices[p]
      BY <1>1, <1>2, <1>4, <1>7, <2>1, <2>3
    <3> QED BY <3>1 DEF Active
  <2> QED BY <2>2, <2>3
<1>8. RemovedAreDominated'
  <2>1. Left \subseteq DOMAIN fmat
    BY <1>1 DEF Left
  <2>2. Left \ {indices[best]} \subseteq Left'
    BY <1>2, <1>7 DEF Left, Active
  <2>3. indices[best] \in DOMAIN fmat /\ indices[it] \in Left
    BY <1>1, <1>3 DEF Left, Active
  <2> QED BY <1>2, <1>5, <2>1, <2>2, <2>3, RemoveOne
<1>9. OptimalAreOptimal'
  BY <1>2 DEF OptimalAreOptimal, ParetoFront
<1>10. NoneBehindOptimal'
  <2> SUFFICES ASSUME NEW p \in first' .. last' - 1, NEW o \in optimal_indices,
                      Worse(indices'[p], o)
               PROVE  FALSE
    BY <1>2 DEF NoneBehindOptimal, Worse
  <2>1. p \in Int /\ p \in first .. last - 1 /\ p # first /\ p \in 1 .. N
    BY <1>1, <1>2
  <2>2. PICK q \in first .. last - 1 : indices'[p] = indices[q]
    BY <1>3, <1>4, <2>1
  <2> QED BY <1>2, <2>2 DEF NoneBehindOptimal
<1>11. BestOfScanned'
  <2>1. indices'[best'] = indices[it] /\ best' + 1 .. it' - 1 = {}
    <3>1. it # best /\ it # first /\ it + 1 > it + 1 - 1
      BY <1>1, <1>2
    <3> QED BY <1>2, <1>3, <1>4, <3>1
  <2>2. ASSUME NEW p \in first' .. it' - 1, Worse(indices[it], indices'[p])
        PROVE  FALSE
    <3>1. p \in Int /\ first < p /\ p <= it /\ p \in 1 .. N
      BY <1>1, <1>2
    <3>2. PICK q \in first .. it : indices'[p] = indices[q]
      <4>1. CASE p = best
        BY <1>2, <1>3, <1>4, <4>1
      <4>2. CASE p # best
        <5>1. indices'[p] = indices[p]
          BY <1>1, <1>4, <3>1, <4>2
        <5>2. p \in first .. it
          BY <1>1, <1>2, <3>1
        <5> QED BY <5>1, <5>2
      <4> QED BY <4>1, <4>2
    <3>3. /\ q \in Int /\ q \in 1 .. N /\ indices[q] \in DOMAIN fmat
          /\ indices[it] \in DOMAIN fmat /\ indices[best] \in DOMAIN fmat
      BY <1>1, <1>2, <1>3
    <3>4. CASE q = it
      BY <2>2, <3>2, <3>3, <3>4, Irreflexive
    <3>5. CASE q # it
      <4>1. q \in first .. it - 1
        BY <1>1, <1>2, <3>3, <3>5
      <4>2. ~Worse(indices[best], indices[q])
        BY <1>2, <4>1 DEF BestOfScanned
      <4>3. Worse(indices[best], indices[q])
        BY <1>5, <2>2, <3>2, <3>3, Transitive
      <4> QED BY <4>2, <4>3
    <3> QED BY <3>4, <3>5
  <2> QED BY <1>2, <2>1, <2>2 DEF BestOfScanned, Worse
<1>12. BestIsFound' /\ EndIsEmpty'
  BY <1>2 DEF BestIsFound, EndIsEmpty
<1> QED BY <1>6, <1>8, <1>9, <1>10, <1>11, <1>12

(* An incomparable element is passed.                                      *)
LEMMA ScanEqualInv == ASSUME Exact, IInv, ScanEqual PROVE IInv'
<1> USE DEF IInv
<1>1. /\ N \in Nat /\ DOMAIN fmat = 1 .. N /\ Permutation
      /\ indices \in [1 .. N -> 1 .. N]
      /\ first \in Int /\ last \in Int
      /\ 1 <= first /\ first <= last /\ last <= N + 1
      /\ optimal_indices \subseteq 1 .. N /\ Active \subseteq 1 .. N
  BY Matrix
<1>2. /\ best \in Int /\ it \in Int /\ first <= best /\ best < it /\ it < last
      /\ pc = "scan" /\ pc' = "scan"
      /\ first' = first /\ last' = last /\ best' = best /\ it' = it + 1
      /\ fmat' = fmat /\ optimal_indices' = optimal_indices /\ indices' = indices
  BY <1>1, ScanRange DEF ScanEqual
<1>3. ~Worse(indices[best], indices[it]) /\ ~Worse(indices[it], indices[best])
  BY CompareSign DEF ScanEqual
<1>4. Permutation' /\ Left' = Left
  BY <1>1, <1>2 DEF Permutation, N, Left, Active
<1>5. SearchTypeOK'
  BY <1>1, <1>2, <1>4, TypeStep
<1>6. RemovedAreDominated' /\ OptimalAreOptimal'
  BY <1>2, <1>4 DEF RemovedAreDominated, OptimalAreOptimal, Worse, ParetoFront
<1>7. NoneBehindOptimal'
  BY <1>2 DEF NoneBehindOptimal, Worse
<1>8. BestOfScanned'
  <2>1. /\ \A p \in first .. it' - 1 : p = it \/ p \in first .. it - 1
        /\ \A p \in best + 1 .. it' - 1 : p = it \/ p \in best + 1 .. it - 1
    BY <1>1, <1>2
  <2> QED BY <1>2, <1>3, <2>1 DEF BestOfScanned, Worse
<1>9. BestIsFound' /\ EndIsEmpty'
  BY <1>2 DEF BestIsFound, EndIsEmpty
<1> QED BY <1>5, <1>6, <1>7, <1>8, <1>9

(* The best solution of a whole scan is optimal, and only a solution that  *)
(* the scan left in front of it can be dominated by it.                    *)
LEMMA ScanEndInv == ASSUME Exact, IInv, ScanEnd PROVE IInv'
<1> USE DEF IInv
<1>1. /\ N \in Nat /\ DOMAIN fmat = 1 .. N /\ Permutation
      /\ indices \in [1 .. N -> 1 .. N]
      /\ first \in Int /\ last \in Int
      /\ 1 <= first /\ first <= last /\ last <= N + 1
      /\ optimal_indices \subseteq 1 .. N /\ Active \subseteq 1 .. N
  BY Matrix
<1>2. /\ best \in Int /\ it \in Int /\ first <= best /\ best < last /\ it = last
      /\ pc = "scan" /\ pc' = "sweep"
      /\ first' = first /\ last' = last /\ best' = best /\ it' = first
      /\ fmat' = fmat /\ indices' = indices
      /\ optimal_indices' = optimal_indices \cup {indices[best]}
  BY <1>1, ScanRange DEF ScanEnd
<1>3. best \in first .. last - 1 /\ best \in 1 .. N /\ indices[best] \in DOMAIN fmat
  BY <1>1, <1>2
<1>4. indices[best] \in Active
  BY <1>3 DEF Active
<1>5. SearchTypeOK'
  <2>1. Permutation' /\ optimal_indices' \subseteq 1 .. N
    BY <1>1, <1>2, <1>3 DEF Permutation, N
  <2> QED BY <1>1, <1>2, <2>1, TypeStep
<1>6. RemovedAreDominated'
  <2>1. Left' = Left
    BY <1>2, <1>4 DEF Left, Active
  <2> QED BY <1>2, <2>1 DEF RemovedAreDominated, Worse
<1>7. \A j \in Left : ~Worse(indices[best], j)
  <2>1. ASSUME NEW p \in first .. last - 1 PROVE ~Worse(indices[best], indices[p])
    BY <1>2 DEF BestOfScanned
  <2>2. ASSUME NEW o \in optimal_indices PROVE ~Worse(indices[best], o)
    BY <1>2, <1>3 DEF NoneBehindOptimal
  <2> QED BY <2>1, <2>2 DEF Left, Active
<1>8. OptimalAreOptimal'
  <2>1. ASSUME NEW j \in DOMAIN fmat, Worse(indices[best], j) PROVE FALSE
    <3>1. j \notin Left
      BY <1>7, <2>1
    <3>2. PICK k \in Left : Worse(j, k)
      BY <3>1 DEF RemovedAreDominated
    <3>3. k \in DOMAIN fmat
      BY <1>1 DEF Left
    <3>4. Worse(indices[best], k)
      BY <1>3, <2>1, <3>2, <3>3, Transitive
    <3> QED BY <1>7, <3>4
  <2>2. indices[best] \in ParetoFront(fmat)
    BY <1>3, <2>1 DEF ParetoFront, Worse
  <2> QED BY <1>2, <2>2 DEF OptimalAreOptimal
<1>9. NoneBehindOptimal'
  <2> SUFFICES ASSUME NEW p \in first .. last - 1, NEW o \in optimal_indices',
                      Worse(indices[p], o)
               PROVE  o = indices[best] /\ p \in first .. best - 1
    BY <1>2 DEF NoneBehindOptimal, Worse
  <2>1. o = indices[best]
    BY <1>2 DEF NoneBehindOptimal
  <2>2. p # best
    BY <1>3, <2>1, Irreflexive
  <2>3. p \notin best + 1 .. it - 1
    BY <1>2, <2>1 DEF BestOfScanned
  <2>4. p \in first .. best - 1
    BY <1>1, <1>2, <2>2, <2>3
  <2> QED BY <2>1, <2>4
<1>10. BestOfScanned' /\ BestIsFound' /\ EndIsEmpty'
  BY <1>2 DEF BestOfScanned, BestIsFound, EndIsEmpty
<1> QED BY <1>5, <1>6, <1>8, <1>9, <1>10

(* The sweep removes what only the last best solution dominates.           *)
LEMMA SweepInv == ASSUME Exact, IInv, Sweep PROVE IInv'
<1> USE DEF IInv
<1>1. /\ N \in Nat /\ DOMAIN fmat = 1 .. N /\ Permutation
      /\ indices \in [1 .. N -> 1 .. N]
      /\ first \in Int /\ last \in Int
      /\ 1 <= first /\ first <= last /\ last <= N + 1
      /\ optimal_indices \subseteq 1 .. N /\ Active \subseteq 1 .. N
  BY Matrix
<1>2. /\ best \in Int /\ it \in Int /\ first <= it /\ it < best /\ best < last
      /\ pc = "sweep" /\ pc' = "sweep"
      /\ last' = last /\ best' = best /\ it' = it + 1
      /\ fmat' = fmat /\ optimal_indices' = optimal_indices
  BY <1>1, SweepRange DEF Sweep
<1>3. /\ it \in 1 .. N /\ best \in 1 .. N /\ first \in 1 .. N
      /\ it \in first .. last - 1 /\ best \in first .. last - 1
      /\ first \in first .. last - 1
  BY <1>1, <1>2
<1>4. OptimalAreOptimal' /\ EndIsEmpty' /\ BestOfScanned'
  BY <1>2 DEF OptimalAreOptimal, ParetoFront, EndIsEmpty, BestOfScanned
<1>5. indices[best] \in optimal_indices
  BY <1>2 DEF BestIsFound
<1>6. CASE Worse(indices[it], indices[best])
  <2>1. indices' = Swapped(it, first) /\ first' = first + 1
    BY <1>6 DEF Sweep, Worse
  <2>2. /\ Permutation'
        /\ indices'[it] = indices[first] /\ indices'[first] = indices[it]
        /\ \A p \in 1 .. N : p # it /\ p # first => indices'[p] = indices[p]
    BY <1>2, <1>3, <2>1, SwapEntries
  <2>3. SearchTypeOK'
    BY <1>1, <1>2, <2>1, <2>2, TypeStep
  <2>4. ASSUME NEW p \in first .. last - 1, p # it PROVE indices[p] \in Active'
    <3>1. p \in Int /\ p \in 1 .. N
      BY <1>1
    <3>2. CASE p = first
      <4>1. it \in first' .. last' - 1 /\ indices'[it] = indices[p]
        BY <1>1, <1>2, <2>1, <2>2, <2>4, <3>1, <3>2
      <4> QED BY <4>1 DEF Active
    <3>3. CASE p # first
      <4>1. p \in first' .. last' - 1 /\ indices'[p] = indices[p]
        <5>1. p \in first' .. last' - 1
          BY <1>1, <1>2, <2>1, <3>1, <3>3
        <5> QED BY <2>2, <2>4, <3>1, <3>3, <5>1
      <4> QED BY <4>1 DEF Active
    <3> QED BY <3>2, <3>3
  <2>5. RemovedAreDominated'
    <3>1. Left \subseteq DOMAIN fmat
      BY <1>1 DEF Left
    <3>2. Left \ {indices[it]} \subseteq Left'
      BY <1>2, <2>4 DEF Left, Active
    <3>3. indices[it] \in DOMAIN fmat /\ indices[best] \in Left
      BY <1>1, <1>3, <1>5 DEF Left
    <3> QED BY <1>2, <1>6, <3>1, <3>2, <3>3, RemoveOne
  <2>6. indices'[best] = indices[best]
    BY <1>1, <1>2, <1>3, <2>2
  <2>7. NoneBehindOptimal'
    <3> SUFFICES ASSUME NEW p \in first' .. last - 1, NEW o \in optimal_indices,
                        Worse(indices'[p], o)
                 PROVE  o = indices[best] /\ p \in it + 1 .. best - 1
      BY <1>2, <2>6 DEF NoneBehindOptimal, Worse
    <3>1. p \in Int /\ p \in first .. last - 1 /\ p # first /\ p \in 1 .. N
      BY <1>1, <1>2, <2>1
    <3>2. CASE p = it
      <4>1. Worse(indices[first], o)
        BY <2>2, <3>2
      <4>2. o = indices[best] /\ first \in it .. best - 1
        BY <1>3, <4>1 DEF NoneBehindOptimal
      <4> QED BY <1>1, <1>2, <3>1, <3>2, <4>2
    <3>3. CASE p # it
      <4>1. Worse(indices[p], o)
        BY <2>2, <3>1, <3>3
      <4>2. o = indices[best] /\ p \in it .. best - 1
        BY <3>1, <4>1 DEF NoneBehindOptimal
      <4> QED BY <1>1, <1>2, <3>1, <3>3, <4>2
    <3> QED BY <3>2, <3>3
  <2>8. BestIsFound'
    BY <1>2, <1>5, <2>6 DEF BestIsFound
  <2> QED BY <1>4, <2>3, <2>5, <2>7, <2>8
<1>7. CASE ~Worse(indices[it], indices[best])
  <2>1. indices' = indices /\ first' = first
    BY <1>7 DEF Sweep, Worse
  <2>2. Permutation' /\ Left' = Left
    BY <1>1, <1>2, <2>1 DEF Permutation, N, Left, Active
  <2>3. SearchTypeOK'
    BY <1>1, <1>2, <2>1, <2>2, TypeStep
  <2>4. RemovedAreDominated'
    BY <1>2, <2>2 DEF RemovedAreDominated, Worse
  <2>5. NoneBehindOptimal'
    <3> SUFFICES ASSUME NEW p \in first .. last - 1, NEW o \in optimal_indices,
                        Worse(indices[p], o)
                 PROVE  o = indices[best] /\ p \in it + 1 .. best - 1
      BY <1>2, <2>1 DEF NoneBehindOptimal, Worse
    <3>1. o = indices[best] /\ p \in it .. best - 1
      BY DEF NoneBehindOptimal
    <3>2. p # it
      BY <1>7, <3>1
    <3> QED BY <1>2, <3>1, <3>2
  <2>6. BestIsFound'
    BY <1>2, <1>5, <2>1 DEF BestIsFound
  <2> QED BY <1>4, <2>3, <2>4, <2>5, <2>6
<1> QED BY <1>6, <1>7

(* The best solution leaves the range: it is among the optimal ones.       *)
LEMMA SweepEndInv == ASSUME Exact, IInv, SweepEnd PROVE IInv'
<1> USE DEF IInv
<1>1. /\ N \in Nat /\ DOMAIN fmat = 1 .. N /\ Permutation
      /\ indices \in [1 .. N -> 1 .. N]
      /\ first \in Int /\ last \in Int
      /\ 1 <= first /\ first <= last /\ last <= N + 1
      /\ optimal_indices \subseteq 1 .. N /\ Active \subseteq 1 .. N
  BY Matrix
<1>2. /\ best \in Int /\ it \in Int /\ first <= best /\ it = best /\ best < last
      /\ pc = "sweep" /\ pc' = "outer"
      /\ first' = first /\ last' = last - 1 /\ best' = best
      /\ fmat' = fmat /\ optimal_indices' = optimal_indices
  BY <1>1, SweepRange DEF SweepEnd
<1>3. /\ best \in 1 .. N /\ last - 1 \in 1 .. N
      /\ best \in first .. last - 1 /\ last - 1 \in first .. last - 1
  BY <1>1, <1>2
<1>4. /\ Permutation'
      /\ indices'[best] = indices[last - 1] /\ indices'[last - 1] = indices[best]
      /\ \A p \in 1 .. N : p # best /\ p # last - 1 => indices'[p] = indices[p]
  <2>1. indices' = Swapped(best, last - 1)
    BY DEF SweepEnd
  <2> QED BY <1>2, <1>3, <2>1, SwapEntries
<1>5. SearchTypeOK'
  BY <1>1, <1>2, <1>4, TypeStep
<1>6. ASSUME NEW p \in first .. last - 1, p # best PROVE indices[p] \in Active'
  <2>1. p \in Int /\ p \in 1 .. N
    BY <1>1
  <2>2. CASE p = last - 1
    <3>1. best \in first' .. last' - 1 /\ indices'[best] = indices[p]
      BY <1>1, <1>2, <1>4, <1>6, <2>1, <2>2
    <3> QED BY <3>1 DEF Active
  <2>3. CASE p # last - 1
    <3>1. p \in first' .. last' - 1 /\ indices'[p] = indices[p]
      BY <1>1, <1>2, <1>4, <1>6, <2>1, <2>3
    <3> QED BY <3>1 DEF Active
  <2> QED BY <2>2, <2>3
<1>7. RemovedAreDominated'
  <2>1. indices[best] \in optimal_indices
    BY <1>2 DEF BestIsFound
  <2>2. Left \subseteq Left'
    BY <1>2, <1>6, <2>1 DEF Left, Active
  <2> QED BY <1>2, <2>2 DEF RemovedAreDominated, Worse
<1>8. OptimalAreOptimal'
  BY <1>2 DEF OptimalAreOptimal, ParetoFront
<1>9. NoneBehindOptimal'
  <2> SUFFICES ASSUME NEW p \in first .. last - 2, NEW o \in optimal_indices,
                      Worse(indices'[p], o)
               PROVE  FALSE
    BY <1>1, <1>2 DEF NoneBehindOptimal, Worse
  <2>1. p \in Int /\ p \in first .. last - 1 /\ p # last - 1 /\ p \in 1 .. N
    BY <1>1, <1>2
  <2>2. PICK q \in first .. last - 1 : indices'[p] = indices[q]
    BY <1>3, <1>4, <2>1
  <2>3. q \in it .. best - 1
    BY <2>2 DEF NoneBehindOptimal
  <2> QED BY <1>2, <2>3
<1>10. BestOfScanned' /\ BestIsFound' /\ EndIsEmpty'
  BY <1>2 DEF BestOfScanned, BestIsFound, EndIsEmpty
<1> QED BY <1>5, <1>7, <1>8, <1>9, <1>10

(* Nothing changes in a stuttering step.                                   *)
LEMMA StutterInv == ASSUME IInv, UNCHANGED searchVars PROVE IInv'
<1> USE DEF searchVars
<1>1. SearchTypeOK'
  BY DEF IInv, SearchTypeOK, SomeMatrix
<1>2. RemovedAreDominated' /\ OptimalAreOptimal'
  BY DEF IInv, RemovedAreDominated, OptimalAreOptimal, Left, Active, Worse, ParetoFront
<1>3. NoneBehindOptimal' /\ BestOfScanned' /\ BestIsFound' /\ EndIsEmpty'
  BY DEF IInv, NoneBehindOptimal, BestOfScanned, BestIsFound, EndIsEmpty, Worse
<1> QED BY <1>1, <1>2, <1>3 DEF IInv

(* What is left when the range is empty is the front.                      *)
LEMMA InvIsExact == ASSUME Exact, IInv PROVE SearchTypeOK /\ FrontIsExact
<1> USE DEF IInv
<1>1. ASSUME pc = "done", NEW i \in ParetoFront(fmat) PROVE i \in optimal_indices
  <2>1. first = last /\ first \in Int
    BY <1>1, Matrix DEF EndIsEmpty
  <2>2. Left = optimal_indices
    BY <2>1 DEF Left, Active
  <2>3. i \in DOMAIN fmat /\ ~\E j \in Left : Worse(i, j)
    BY <2>2, Matrix DEF ParetoFront, Worse
  <2> QED BY <2>2, <2>3 DEF RemovedAreDominated
<1> QED BY <1>1 DEF FrontIsExact, OptimalAreOptimal

-----------------------------------------------------------------------------
(* findParetoFrontBest only ever records optimal solutions, and ends with  *)
(* the whole Pareto front; its vector of indices stays a permutation and   *)
(* its iterators stay in range.                                            *)
THEOREM SearchCorrect ==
    ASSUME Exact PROVE SearchSpec => [](SearchTypeOK /\ FrontIsExact)
<1>1. SearchInit => IInv
  BY InitInv
<1>2. IInv /\ [SearchNext]_searchVars => IInv'
  BY OuterInv, ScanWorseInv, ScanBetterInv, ScanEqualInv, ScanEndInv, SweepInv,
     SweepEndInv, StutterInv DEF SearchNext
<1>3. IInv => SearchTypeOK /\ FrontIsExact
  BY InvIsExact
<1> QED BY <1>1, <1>2, <1>3, PTL DEF SearchSpec

-----------------------------------------------------------------------------
(* The sorts *)

Ranked == DOMAIN ranks

SortType ==
    /\ MaxLen \in Nat /\ SomeMatrix
    /\ algorithm \in {"fast", "degree", "efficient"}
    /\ ranks \in [Ranked -> Nat] /\ Ranked \subseteq Solutions
    /\ todo \subseteq Solutions /\ dmat \subseteq Pairs /\ pending \subseteq Objectives
    /\ current_rank \in Nat

\* The solutions that have a front are ranked as IsRanking demands, and what
\* dominates them has one.
RankedRight(i) ==
    /\ Dominators(i) \subseteq Ranked
    /\ \A j \in Dominators(i) : ranks[j] < ranks[i]
    /\ ranks[i] > 0 => \E j \in Dominators(i) : ranks[j] = ranks[i] - 1

RankedAreRight == \A i \in Ranked : RankedRight(i)

\* The fast sort counts the dominators that have not been peeled off.  Peeling goes
\* by ranks, so those that have been are at most as far back as the next one.
FastInv == algorithm = "fast" =>
    /\ todo \subseteq Ranked
    /\ \A i \in Solutions : /\ count[i] = Cardinality(Dominators(i) \ (Ranked \ todo))
                            /\ i \in Ranked <=> Dominators(i) \subseteq Ranked \ todo
    /\ count \in [Solutions -> Nat]
    /\ \A i \in Ranked \ todo, j \in todo : ranks[i] <= ranks[j]

\* The dominance matrix: first the pairs that no objective has cleared so far, then,
\* with the sums of the columns, the dominators that have no front.
DegreeInv == algorithm = "degree" =>
    /\ count = Nothing =>
         /\ Ranked = {} /\ current_rank = 0
         /\ dmat = {p \in Pairs : \A o \in Objectives \ pending : p \notin ClearedBy(o)}
    /\ count # Nothing =>
         /\ dmat = {p \in Pairs : p[1] \in Dominators(p[2]) \ Ranked}
         /\ count = [col \in Solutions |-> Cardinality(Dominators(col) \ Ranked)]
         /\ pending = {}
    /\ todo = Solutions \ Ranked
    /\ \A i \in Ranked : ranks[i] < current_rank
    /\ current_rank > 0 => \A i \in todo : \E j \in Dominators(i) :
                             j \in todo \/ ranks[j] = current_rank - 1

\* The efficient sort knows of every earlier front one that keeps a solution out.
EfficientInv == algorithm = "efficient" =>
    /\ todo = Solutions \ Ranked
    /\ \A i \in Ranked, q \in Nat : q < ranks[i] => \E j \in Dominators(i) \cap Ranked : ranks[j] = q

SortInv == SortType /\ RankedAreRight /\ FastInv /\ DegreeInv /\ EfficientInv

-----------------------------------------------------------------------------
LEMMA SolutionsAreFinite ==
    ASSUME MaxLen \in Nat, SomeMatrix
    PROVE  /\ IsFiniteSet(Solutions) /\ Solutions # {}
           /\ \A i \in Solutions : fmat[i] \in Fitness /\ fmat[i] \in [Objectives -> Int]
           /\ \A i \in Solutions : Dominators(i) \in SUBSET Solutions
           /\ \A S \in SUBSET Solutions : IsFiniteSet(S) /\ Cardinality(S) \in Nat
                                          /\ (Cardinality(S) = 0 <=> S = {})
<1>1. PICK n \in 1 .. MaxLen : fmat \in [1 .. n -> Fitness] BY DEF SomeMatrix
<1>2. n \in Nat /\ n >= 1 /\ Solutions = 1 .. n BY <1>1 DEF Solutions
<1>3. IsFiniteSet(Solutions) /\ Solutions # {}
  <2>1. 1 \in 1 .. n /\ IsFiniteSet(1 .. n) BY <1>2, FS_Interval
  <2> QED BY <1>2, <2>1
<1>4. \A S \in SUBSET Solutions : IsFiniteSet(S) /\ Cardinality(S) \in Nat
                                  /\ (Cardinality(S) = 0 <=> S = {})
  BY <1>3, FS_Subset, FS_CardinalityType, FS_EmptySet
<1>5. \A i \in Solutions : fmat[i] \in Fitness BY <1>1, <1>2
<1> QED BY <1>3, <1>4, <1>5, FitnessAssumption DEF Dominators

\* A front added to the ranks.
LEMMA AssignRanks ==
    ASSUME NEW S, NEW r, Assign(S, r)
    PROVE  /\ Ranked' = Ranked \cup S
           /\ \A i \in S : ranks'[i] = r
           /\ \A i \in Ranked \ S : ranks'[i] = ranks[i]
           /\ ranks \in [Ranked -> Nat] /\ r \in Nat => ranks' \in [Ranked' -> Nat]
BY DEF Assign, Ranked

\* A new front is right if everything that dominates its solutions was ranked before.
LEMMA NewFrontIsRight ==
    ASSUME SortType, RankedAreRight, NEW S \in SUBSET (Solutions \ Ranked), NEW r \in Nat, Assign(S, r),
           fmat' = fmat,
           \A i \in S : /\ Dominators(i) \subseteq Ranked
                        /\ \A j \in Dominators(i) : ranks[j] < r
                        /\ r > 0 => \E j \in Dominators(i) : ranks[j] = r - 1
    PROVE  RankedAreRight'
<1>1. /\ Ranked' = Ranked \cup S /\ \A i \in S : ranks'[i] = r
      /\ \A i \in Ranked : ranks'[i] = ranks[i]
  BY AssignRanks
<1>2. Solutions' = Solutions /\ \A i : Dominators(i)' = Dominators(i) BY DEF Solutions, Dominators
<1>3. ASSUME NEW i \in S PROVE RankedRight(i)'
  BY <1>1, <1>2 DEF RankedRight
<1>4. ASSUME NEW i \in Ranked PROVE RankedRight(i)'
  <2>1. RankedRight(i) BY DEF RankedAreRight
  <2>2. \A j \in Dominators(i) : j \in Ranked /\ ranks'[j] = ranks[j] BY <1>1, <2>1 DEF RankedRight
  <2> QED BY <1>1, <1>2, <2>1, <2>2 DEF RankedRight
<1> QED BY <1>1, <1>3, <1>4 DEF RankedAreRight

-----------------------------------------------------------------------------
LEMMA InitSort == ASSUME MaxLen \in Nat, SortInit PROVE SortInv
<1> USE DEF SortInit
<1>1. SortType
  <2>1. CASE InitFast BY <2>1 DEF InitFast, SortType, Ranked
  <2>2. CASE InitDegree BY <2>2 DEF InitDegree, SortType, Ranked, Nothing
  <2>3. CASE InitEfficient BY <2>3 DEF InitEfficient, SortType, Ranked, Nothing
  <2> QED BY <2>1, <2>2, <2>3
<1>2. RankedAreRight
  <2>1. CASE InitFast BY <2>1 DEF InitFast, RankedAreRight, RankedRight, Ranked
  <2>2. CASE InitDegree \/ InitEfficient
    BY <2>2 DEF InitDegree, InitEfficient, RankedAreRight, Ranked, Nothing
  <2> QED BY <2>1, <2>2
<1>3. FastInv
  <2> SUFFICES ASSUME InitFast PROVE FastInv BY DEF FastInv, InitDegree, InitEfficient
  <2>1. Ranked = todo /\ Ranked \ todo = {} BY DEF InitFast, Ranked
  <2>2. \A i \in Solutions : Dominators(i) \ (Ranked \ todo) = Dominators(i) BY <2>1
  <2>3. count \in [Solutions -> Nat] BY SolutionsAreFinite DEF InitFast
  <2> QED BY <2>1, <2>2, <2>3 DEF FastInv, InitFast
<1>4. DegreeInv
  <2> SUFFICES ASSUME InitDegree PROVE DegreeInv BY DEF DegreeInv, InitFast, InitEfficient
  <2> QED BY DEF DegreeInv, InitDegree, Nothing, Ranked
<1>5. EfficientInv
  <2> SUFFICES ASSUME InitEfficient PROVE EfficientInv BY DEF EfficientInv, InitFast, InitDegree
  <2> QED BY DEF EfficientInv, InitEfficient, Nothing, Ranked
<1> QED BY <1>1, <1>2, <1>3, <1>4, <1>5 DEF SortInv

-----------------------------------------------------------------------------
(* The fast sort *)

LEMMA FastStep ==
    ASSUME SortInv, NEW i \in Solutions, FastPeel(i) PROVE SortInv'
<1> DEFINE peeled == Ranked \ todo
           worse == {j \in Solutions : i \in Dominators(j)}
           freed == {j \in worse : count[j] = 1}
<1>1. /\ algorithm = "fast" /\ i \in todo /\ \A j \in todo : ranks[i] <= ranks[j]
      /\ count' = [j \in Solutions |-> IF j \in worse THEN count[j] - 1 ELSE count[j]]
      /\ Assign(freed, ranks[i] + 1)
      /\ todo' = (todo \ {i}) \cup freed
      /\ UNCHANGED <<algorithm, fmat, dmat, pending, current_rank>>
  BY DEF FastPeel
<1>2. MaxLen \in Nat /\ SomeMatrix /\ ranks \in [Ranked -> Nat] /\ Ranked \subseteq Solutions
  BY DEF SortInv, SortType
<1>3. /\ todo \subseteq Ranked /\ count \in [Solutions -> Nat]
      /\ \A j \in Solutions : /\ count[j] = Cardinality(Dominators(j) \ peeled)
                              /\ j \in Ranked <=> Dominators(j) \subseteq peeled
      /\ \A j \in peeled, k \in todo : ranks[j] <= ranks[k]
  BY <1>1 DEF SortInv, FastInv
<1>4. Solutions' = Solutions /\ (\A j : Dominators(j)' = Dominators(j)) /\ SomeMatrix'
  BY <1>1, <1>2 DEF Solutions, Dominators, SomeMatrix
<1>5. i \in Ranked /\ i \notin peeled /\ ranks[i] \in Nat BY <1>1, <1>2, <1>3
\* Of a solution that is dominated by the peeled one, one fewer is left to wait for.
<1>6. ASSUME NEW j \in Solutions
      PROVE  /\ IsFiniteSet(Dominators(j) \ peeled)
             /\ Cardinality(Dominators(j) \ peeled) \in Nat
             /\ j \in worse => /\ i \in Dominators(j) \ peeled
                               /\ Cardinality(Dominators(j) \ (peeled \cup {i})) = count[j] - 1
                               /\ count[j] >= 1
             /\ j \notin worse => Dominators(j) \ (peeled \cup {i}) = Dominators(j) \ peeled
  <2>1. Dominators(j) \ peeled \in SUBSET Solutions BY <1>2, SolutionsAreFinite
  <2>2. IsFiniteSet(Dominators(j) \ peeled) /\ Cardinality(Dominators(j) \ peeled) \in Nat
    BY <1>2, <2>1, SolutionsAreFinite
  <2>3. Dominators(j) \ (peeled \cup {i}) = (Dominators(j) \ peeled) \ {i} OBVIOUS
  <2>4. ASSUME j \in worse
        PROVE  /\ i \in Dominators(j) \ peeled
               /\ Cardinality(Dominators(j) \ (peeled \cup {i})) = count[j] - 1
               /\ count[j] >= 1
    <3>1. i \in Dominators(j) \ peeled BY <1>5, <2>4
    <3>2. Cardinality((Dominators(j) \ peeled) \ {i}) = count[j] - 1
      <4> HIDE DEF peeled
      <4>1. Cardinality((Dominators(j) \ peeled) \ {i}) = Cardinality(Dominators(j) \ peeled) - 1
        BY <2>2, <3>1, FS_RemoveElement
      <4> QED BY <1>3, <4>1
    <3>3. (Dominators(j) \ peeled) \ {i} \in SUBSET Solutions BY <2>1
    <3>4. Cardinality((Dominators(j) \ peeled) \ {i}) \in Nat BY <1>2, <3>3, SolutionsAreFinite
    <3>5. count[j] \in Nat BY <1>3
    <3> QED BY <2>3, <3>1, <3>2, <3>4, <3>5
  <2>5. j \notin worse => Dominators(j) \ (peeled \cup {i}) = Dominators(j) \ peeled OBVIOUS
  <2> QED BY <2>2, <2>4, <2>5
<1>7. \A j \in freed : Dominators(j) \ peeled = {i}
  <2> SUFFICES ASSUME NEW j \in freed PROVE Dominators(j) \ peeled = {i} OBVIOUS
  <2>1. j \in Solutions /\ j \in worse /\ count[j] = 1 OBVIOUS
  <2>2. Cardinality(Dominators(j) \ (peeled \cup {i})) = 0
    <3> HIDE DEF peeled, worse, freed
    <3>1. Cardinality(Dominators(j) \ (peeled \cup {i})) = 1 - 1 BY <1>6, <2>1
    <3> QED BY <3>1
  <2>3. Dominators(j) \ (peeled \cup {i}) \in SUBSET Solutions BY <1>2, SolutionsAreFinite
  <2>4. Dominators(j) \ (peeled \cup {i}) = {} BY <1>2, <2>2, <2>3, SolutionsAreFinite
  <2> QED BY <1>6, <2>1, <2>4
<1>8. freed \in SUBSET (Solutions \ Ranked)
  <2> SUFFICES ASSUME NEW j \in freed PROVE j \notin Ranked OBVIOUS
  <2> QED BY <1>3, <1>7
<1> HIDE DEF freed
<1>9. /\ Ranked' = Ranked \cup freed /\ \A j \in freed : ranks'[j] = ranks[i] + 1
      /\ \A j \in Ranked : ranks'[j] = ranks[j]
      /\ ranks' \in [Ranked' -> Nat]
  BY <1>1, <1>2, <1>5, <1>8, AssignRanks
<1>10. Ranked' \ todo' = peeled \cup {i} BY <1>1, <1>3, <1>5, <1>8, <1>9
<1>11. SortType'
  <2>1. todo' \subseteq Solutions' /\ Ranked' \subseteq Solutions' BY <1>1, <1>2, <1>3, <1>4, <1>8, <1>9
  <2>2. dmat' \subseteq Pairs' BY <1>1, <1>4 DEF SortInv, SortType, Pairs
  <2> QED BY <1>1, <1>2, <1>4, <1>9, <2>1, <2>2 DEF SortInv, SortType
<1>12. RankedAreRight'
  <2>1. ASSUME NEW j \in freed
        PROVE  /\ Dominators(j) \subseteq Ranked /\ \A k \in Dominators(j) : ranks[k] < ranks[i] + 1
               /\ i \in Dominators(j)
    <3>1. Dominators(j) \subseteq peeled \cup {i} /\ i \in Dominators(j) BY <1>7
    <3>2. \A k \in peeled : ranks[k] <= ranks[i] /\ ranks[k] \in Nat BY <1>1, <1>2, <1>3
    <3> QED BY <1>5, <3>1, <3>2
  <2>2. ranks[i] + 1 \in Nat /\ (ranks[i] + 1) - 1 = ranks[i] BY <1>5
  <2>3. SortType /\ RankedAreRight BY DEF SortInv
  <2>4. \A j \in freed : \E k \in Dominators(j) : ranks[k] = (ranks[i] + 1) - 1 BY <2>1, <2>2
  <2> QED BY <1>1, <1>8, <2>1, <2>2, <2>3, <2>4, NewFrontIsRight
<1>13. FastInv'
  <2>1. todo' \subseteq Ranked' BY <1>1, <1>3, <1>9
  <2>2. ASSUME NEW j \in Solutions
        PROVE  count'[j] = Cardinality(Dominators(j) \ (peeled \cup {i})) /\ count'[j] \in Nat
    <3> HIDE DEF peeled, worse
    <3>1. CASE j \in worse
      <4>1. count'[j] = count[j] - 1 /\ count[j] \in Nat BY <1>1, <1>3, <3>1
      <4>2. count[j] >= 1 /\ Cardinality(Dominators(j) \ (peeled \cup {i})) = count[j] - 1
        BY <1>6, <3>1
      <4> QED BY <4>1, <4>2
    <3>2. CASE j \notin worse
      <4>1. count'[j] = count[j] /\ count[j] \in Nat BY <1>1, <1>3, <3>2
      <4> QED BY <1>3, <1>6, <3>2, <4>1
    <3> QED BY <3>1, <3>2
  <2>3. count' \in [Solutions -> Nat] BY <1>1, <2>2
  <2>4. ASSUME NEW j \in Solutions PROVE j \in Ranked' <=> Dominators(j) \subseteq peeled \cup {i}
    <3>1. CASE j \in Ranked BY <1>3, <1>9, <3>1
    <3>2. CASE j \in freed BY <1>7, <1>9, <3>2
    <3>3. CASE j \notin Ranked /\ j \notin freed
      <4>1. ASSUME Dominators(j) \subseteq peeled \cup {i} PROVE FALSE
        <5>1. i \in Dominators(j) BY <1>3, <3>3, <4>1
        <5>2. Dominators(j) \ peeled = {i} BY <1>5, <4>1, <5>1
        <5>3. Cardinality({i}) = 1 BY FS_Singleton
        <5>4. count[j] = 1 /\ j \in worse BY <1>3, <5>1, <5>2, <5>3
        <5> QED BY <3>3, <5>4 DEF freed
      <4> QED BY <1>9, <3>3, <4>1
    <3> QED BY <3>1, <3>2, <3>3
  <2>5. ASSUME NEW j \in peeled \cup {i}, NEW k \in todo' PROVE ranks'[j] <= ranks'[k]
    <3>1. j \in Ranked /\ ranks'[j] = ranks[j] /\ ranks[j] \in Nat BY <1>2, <1>5, <1>9
    <3>2. ranks[j] <= ranks[i] BY <1>1, <1>3, <1>5
    <3>3. CASE k \in todo /\ k \in Ranked
      <4>1. ranks'[k] = ranks[k] /\ ranks[k] \in Nat /\ ranks[i] <= ranks[k] BY <1>1, <1>2, <1>9, <3>3
      <4> QED BY <1>5, <3>1, <3>2, <4>1
    <3>4. CASE k \in freed BY <1>5, <1>9, <3>1, <3>2, <3>4
    <3> QED BY <1>1, <1>3, <3>3, <3>4
  <2> QED BY <1>4, <1>10, <2>1, <2>2, <2>3, <2>4, <2>5 DEF FastInv
<1>14. DegreeInv' /\ EfficientInv' BY <1>1 DEF DegreeInv, EfficientInv
<1> QED BY <1>11, <1>12, <1>13, <1>14 DEF SortInv

-----------------------------------------------------------------------------
(* The sort by dominance degrees *)

\* No objective tells the row worse than the column, and one tells it better: that
\* is what the entries of the matrix are left with.
LEMMA UnclearedDominate ==
    ASSUME NEW row \in Solutions, NEW col \in Solutions
    PROVE  row \in Dominators(col) <=>
             /\ \A o \in Objectives : <<row, col>> \notin ClearedBy(o)
             /\ ~ \A o \in Objectives : <<col, row>> \notin ClearedBy(o)
<1>1. <<row, col>> \in Pairs /\ <<col, row>> \in Pairs BY DEF Pairs
<1>2. \A o : /\ <<row, col>> \in ClearedBy(o) <=> floatIsLess(fmat[row][o], fmat[col][o])
             /\ <<col, row>> \in ClearedBy(o) <=> floatIsLess(fmat[col][o], fmat[row][o])
  BY <1>1 DEF ClearedBy
<1> QED BY <1>2 DEF Dominators, paretoCompareLess

LEMMA PairsAreTuples ==
    \A p \in Pairs : p = <<p[1], p[2]>> /\ p[1] \in Solutions /\ p[2] \in Solutions
BY DEF Pairs

\* Steps of the sort by degrees that assign no front.
LEMMA DegreeFrame ==
    ASSUME SortInv, algorithm = "degree", UNCHANGED <<algorithm, fmat, ranks, todo, current_rank>>,
           dmat' \subseteq dmat, pending' \subseteq pending
    PROVE  /\ Solutions' = Solutions /\ Ranked' = Ranked /\ \A i : Dominators(i)' = Dominators(i)
           /\ SortType' /\ RankedAreRight' /\ FastInv' /\ EfficientInv'
<1>1. Solutions' = Solutions /\ Ranked' = Ranked /\ (\A i : Dominators(i)' = Dominators(i)) /\ Pairs' = Pairs
  BY DEF Solutions, Ranked, Dominators, Pairs
<1>2. SortType' BY <1>1 DEF SortInv, SortType, SomeMatrix
<1>3. RankedAreRight' BY <1>1 DEF SortInv, RankedAreRight, RankedRight
<1> QED BY <1>1, <1>2, <1>3 DEF FastInv, EfficientInv

LEMMA DegreeObjectiveStep ==
    ASSUME SortInv, NEW o \in Objectives, DegreeObjective(o) PROVE SortInv'
<1>1. /\ o \in pending /\ dmat' = dmat \ ClearedBy(o) /\ pending' = pending \ {o}
      /\ UNCHANGED <<algorithm, fmat, ranks, todo, count, current_rank>>
  BY DEF DegreeObjective
<1>2. CASE algorithm = "degree"
  <2>1. /\ Solutions' = Solutions /\ Ranked' = Ranked /\ \A i : Dominators(i)' = Dominators(i)
        /\ SortType' /\ RankedAreRight' /\ FastInv' /\ EfficientInv'
    BY <1>1, <1>2, DegreeFrame
  <2>2. count = Nothing BY <1>1, <1>2 DEF SortInv, DegreeInv
  <2>3. /\ Ranked = {} /\ current_rank = 0 /\ todo = Solutions \ Ranked
        /\ dmat = {p \in Pairs : \A q \in Objectives \ pending : p \notin ClearedBy(q)}
    BY <1>2, <2>2 DEF SortInv, DegreeInv
  <2>4. Objectives \ pending' = (Objectives \ pending) \cup {o} BY <1>1
  <2>5. dmat' = {p \in Pairs : \A q \in Objectives \ pending' : p \notin ClearedBy(q)}
    BY <1>1, <2>3, <2>4
  <2>6. Pairs' = Pairs /\ \A q : ClearedBy(q)' = ClearedBy(q) BY <1>1 DEF Pairs, ClearedBy, Solutions
  <2>7. dmat' = {p \in Pairs' : \A q \in Objectives \ pending' : p \notin ClearedBy(q)'}
    BY <2>5, <2>6
  <2>8. DegreeInv' BY <1>1, <2>1, <2>2, <2>3, <2>7 DEF DegreeInv, Nothing
  <2> QED BY <2>1, <2>8 DEF SortInv
<1>3. CASE algorithm # "degree"
  <2>1. Solutions' = Solutions /\ Ranked' = Ranked /\ (\A i : Dominators(i)' = Dominators(i)) /\ Pairs' = Pairs
    BY <1>1 DEF Solutions, Ranked, Dominators, Pairs
  <2>2. SortType' BY <1>1, <2>1 DEF SortInv, SortType, SomeMatrix
  <2>3. RankedAreRight' BY <1>1, <2>1 DEF SortInv, RankedAreRight, RankedRight
  <2>4. FastInv' /\ DegreeInv' /\ EfficientInv'
    BY <1>1, <1>3, <2>1 DEF SortInv, FastInv, DegreeInv, EfficientInv
  <2> QED BY <2>2, <2>3, <2>4 DEF SortInv
<1> QED BY <1>2, <1>3

LEMMA DegreeSumsStep == ASSUME SortInv, DegreeSums PROVE SortInv'
<1>1. /\ algorithm = "degree" /\ pending = {} /\ count = Nothing
      /\ dmat' = {p \in dmat : <<p[2], p[1]>> \notin dmat}
      /\ count' = [col \in Solutions |-> Cardinality({row \in Solutions : <<row, col>> \in dmat'})]
      /\ UNCHANGED <<algorithm, fmat, ranks, todo, pending, current_rank>>
  BY DEF DegreeSums
<1>2. /\ Solutions' = Solutions /\ Ranked' = Ranked /\ \A i : Dominators(i)' = Dominators(i)
      /\ SortType' /\ RankedAreRight' /\ FastInv' /\ EfficientInv'
  <2>1. dmat' \subseteq dmat /\ pending' \subseteq pending BY <1>1
  <2> QED BY <1>1, <2>1, DegreeFrame
<1>3. /\ Ranked = {} /\ current_rank = 0 /\ todo = Solutions \ Ranked
      /\ dmat = {p \in Pairs : \A o \in Objectives : p \notin ClearedBy(o)}
  BY <1>1 DEF SortInv, DegreeInv
<1>4. ASSUME NEW row \in Solutions, NEW col \in Solutions
      PROVE  <<row, col>> \in dmat' <=> row \in Dominators(col)
  <2>1. <<row, col>> \in Pairs /\ <<col, row>> \in Pairs BY DEF Pairs
  <2>2. <<row, col>> \in dmat' <=> <<row, col>> \in dmat /\ <<col, row>> \notin dmat BY <1>1
  <2>3. /\ <<row, col>> \in dmat <=> \A o \in Objectives : <<row, col>> \notin ClearedBy(o)
        /\ <<col, row>> \in dmat <=> \A o \in Objectives : <<col, row>> \notin ClearedBy(o)
    BY <1>3, <2>1
  <2> QED BY <2>2, <2>3, UnclearedDominate
<1>5. dmat' = {p \in Pairs : p[1] \in Dominators(p[2]) \ Ranked}
  <2>1. dmat' \subseteq Pairs BY <1>1, <1>3
  <2>2. \A p \in Pairs : p \in dmat' <=> p[1] \in Dominators(p[2]) BY <1>4, PairsAreTuples
  <2> QED BY <1>3, <2>1, <2>2
<1>6. count' = [col \in Solutions |-> Cardinality(Dominators(col) \ Ranked)]
  <2>1. ASSUME NEW col \in Solutions
        PROVE  {row \in Solutions : <<row, col>> \in dmat'} = Dominators(col) \ Ranked
    BY <1>3, <1>4 DEF Dominators
  <2> QED BY <1>1, <2>1
<1>7. count' # Nothing
  <2>1. DOMAIN count' # {} BY <1>6, SolutionsAreFinite DEF SortInv, SortType
  <2> QED BY <2>1 DEF Nothing
<1>8. Pairs' = Pairs BY <1>2 DEF Pairs
<1>9. DegreeInv' BY <1>1, <1>2, <1>3, <1>5, <1>6, <1>7, <1>8 DEF DegreeInv, Nothing
<1> QED BY <1>2, <1>9 DEF SortInv

LEMMA DegreeRoundStep == ASSUME SortInv, DegreeRound PROVE SortInv'
<1> DEFINE zero == {col \in todo : count[col] = 0}
<1>1. /\ algorithm = "degree" /\ count # Nothing
      /\ Assign(zero, current_rank)
      /\ todo' = todo \ zero
      /\ count' = [col \in Solutions |->
                     count[col] - Cardinality({row \in zero : <<row, col>> \in dmat})]
      /\ dmat' = dmat \ (zero \X Solutions)
      /\ current_rank' = current_rank + 1
      /\ UNCHANGED <<algorithm, fmat, pending>>
  BY DEF DegreeRound
<1>2. MaxLen \in Nat /\ SomeMatrix /\ ranks \in [Ranked -> Nat] /\ Ranked \subseteq Solutions
      /\ current_rank \in Nat
  BY DEF SortInv, SortType
<1>3. /\ dmat = {p \in Pairs : p[1] \in Dominators(p[2]) \ Ranked}
      /\ count = [col \in Solutions |-> Cardinality(Dominators(col) \ Ranked)]
      /\ todo = Solutions \ Ranked /\ pending = {}
      /\ \A i \in Ranked : ranks[i] < current_rank
      /\ current_rank > 0 => \A i \in todo : \E j \in Dominators(i) :
                               j \in todo \/ ranks[j] = current_rank - 1
  BY <1>1 DEF SortInv, DegreeInv
<1>4. Solutions' = Solutions /\ (\A j : Dominators(j)' = Dominators(j)) /\ SomeMatrix' /\ Pairs' = Pairs
  BY <1>1, <1>2 DEF Solutions, Dominators, SomeMatrix, Pairs
\* The columns of zeros are the solutions whose dominators all have a front.
<1>5. \A i \in todo : i \in zero <=> Dominators(i) \subseteq Ranked
  <2> SUFFICES ASSUME NEW i \in todo PROVE i \in zero <=> Dominators(i) \subseteq Ranked OBVIOUS
  <2>1. i \in Solutions /\ count[i] = Cardinality(Dominators(i) \ Ranked) BY <1>3
  <2>2. Dominators(i) \ Ranked \in SUBSET Solutions BY <1>2, <2>1, SolutionsAreFinite
  <2>3. Cardinality(Dominators(i) \ Ranked) = 0 <=> Dominators(i) \ Ranked = {}
    BY <1>2, <2>2, SolutionsAreFinite
  <2> QED BY <2>1, <2>3
<1>6. zero \in SUBSET (Solutions \ Ranked) BY <1>3
<1> HIDE DEF zero
<1>7. /\ Ranked' = Ranked \cup zero /\ \A i \in zero : ranks'[i] = current_rank
      /\ \A i \in Ranked : ranks'[i] = ranks[i]
      /\ ranks' \in [Ranked' -> Nat]
  BY <1>1, <1>2, <1>6, AssignRanks
<1>8. SortType'
  <2>1. todo' \subseteq Solutions' /\ Ranked' \subseteq Solutions' BY <1>1, <1>2, <1>3, <1>4, <1>6, <1>7
  <2>2. dmat' \subseteq Pairs' BY <1>1, <1>4 DEF SortInv, SortType
  <2> QED BY <1>1, <1>2, <1>4, <1>7, <2>1, <2>2 DEF SortInv, SortType
<1>9. RankedAreRight'
  <2>1. SortType /\ RankedAreRight BY DEF SortInv
  <2>2. ASSUME NEW i \in zero
        PROVE  /\ Dominators(i) \subseteq Ranked /\ \A j \in Dominators(i) : ranks[j] < current_rank
               /\ current_rank > 0 => \E j \in Dominators(i) : ranks[j] = current_rank - 1
    <3>1. i \in todo /\ Dominators(i) \subseteq Ranked BY <1>5, <2>2 DEF zero
    <3> QED BY <1>3, <3>1
  <2> QED BY <1>1, <1>2, <1>6, <2>1, <2>2, NewFrontIsRight
<1>10. \A i \in Ranked' : ranks'[i] < current_rank' BY <1>1, <1>2, <1>3, <1>7
<1>11. ASSUME NEW i \in todo'
       PROVE  \E j \in Dominators(i) : j \in todo' \/ ranks'[j] = current_rank' - 1
  <2>1. i \in todo /\ i \notin zero BY <1>1
  <2>2. PICK j \in Dominators(i) : j \notin Ranked BY <1>5, <2>1
  <2>3. j \in todo BY <1>3, <2>2 DEF Dominators
  <2>4. CASE j \in zero BY <1>1, <1>2, <1>7, <2>4
  <2>5. CASE j \notin zero BY <1>1, <2>3, <2>5
  <2> QED BY <2>4, <2>5
<1>12. dmat' = {p \in Pairs : p[1] \in Dominators(p[2]) \ Ranked'}
  <2>1. \A p \in Pairs : p \in zero \X Solutions <=> p[1] \in zero
    BY PairsAreTuples, <1>6
  <2> QED BY <1>1, <1>3, <1>7, <2>1
<1>13. count' = [col \in Solutions |-> Cardinality(Dominators(col) \ Ranked')]
  <2>1. ASSUME NEW col \in Solutions
        PROVE  count[col] - Cardinality({row \in zero : <<row, col>> \in dmat})
                 = Cardinality(Dominators(col) \ Ranked')
    <3> DEFINE A == Dominators(col) \ Ranked
               B == {row \in zero : <<row, col>> \in dmat}
    <3>1. \A row \in Solutions : <<row, col>> \in dmat <=> row \in A BY <1>3 DEF Pairs
    <3>2. B \subseteq A /\ A \ B = Dominators(col) \ Ranked'
      <4>1. \A row \in zero : row \in Solutions BY <1>6
      <4>2. Dominators(col) \subseteq Solutions BY DEF Dominators
      <4> QED BY <1>7, <3>1, <4>1, <4>2
    <3>3. A \in SUBSET Solutions BY <1>2, SolutionsAreFinite
    <3>4. IsFiniteSet(A) BY <1>2, <3>3, SolutionsAreFinite
    <3>5. Cardinality(A \ B) = Cardinality(A) - Cardinality(A \cap B)
      BY <3>4, FS_Difference
    <3>6. A \cap B = B BY <3>2
    <3>7. count[col] = Cardinality(A) BY <1>3
    <3> QED BY <3>2, <3>5, <3>6, <3>7
  <2> QED BY <1>1, <2>1
<1>14. count' # Nothing
  <2>1. DOMAIN count' # {} BY <1>2, <1>13, SolutionsAreFinite
  <2> QED BY <2>1 DEF Nothing
<1>15. todo' = Solutions \ Ranked' BY <1>1, <1>3, <1>7
<1>16. count' # Nothing' BY <1>14 DEF Nothing
<1>17. DegreeInv' BY <1>1, <1>3, <1>4, <1>10, <1>11, <1>12, <1>13, <1>15, <1>16 DEF DegreeInv
<1>18. FastInv' /\ EfficientInv' BY <1>1 DEF FastInv, EfficientInv
<1> QED BY <1>8, <1>9, <1>17, <1>18 DEF SortInv

-----------------------------------------------------------------------------
(* The sort in lexicographic order *)

\* What dominates a solution comes before it: it is better in the first objective
\* that tells the two apart.
LEMMA DominatorsComeFirst ==
    ASSUME Exact, NEW a \in Fitness, NEW b \in Fitness, paretoCompareLess(a, b)
    PROVE  LexicographicallyGreater(b, a)
<1> DEFINE Different == {o \in Objectives : a[o] # b[o]}
<1>1. a \in [Objectives -> Int] /\ b \in [Objectives -> Int] BY FitnessAssumption
<1>2. \A o \in Objectives : a[o] <= b[o]
  BY <1>1 DEF Exact, paretoCompareLess, floatIsLess
<1>3. PICK o \in Objectives : a[o] < b[o]
  BY <1>1 DEF Exact, paretoCompareLess, floatIsLess
<1>4. o \in Different BY <1>1, <1>3
<1>5. Different \in SUBSET Nat /\ Objectives \subseteq Nat BY NumObjectivesAssumption DEF Objectives
<1>6. PICK m \in Different : \A k \in Different : m <= k BY <1>4, <1>5, LeastNatural
<1>7. m \in Objectives /\ b[m] > a[m] BY <1>1, <1>2, <1>6
<1>8. ASSUME NEW p \in 1 .. m - 1 PROVE b[p] = a[p]
  <2>1. p \in Objectives BY <1>7, NumObjectivesAssumption DEF Objectives
  <2>2. ~(m <= p) BY <1>5, <1>7
  <2> QED BY <1>6, <2>1, <2>2
<1> QED BY <1>7, <1>8 DEF LexicographicallyGreater

\* There are not enough ranked solutions to keep a solution out of one front more
\* than there are solutions.
LEMMA FreeFrontExists ==
    ASSUME SortType, NEW i \in Solutions
    PROVE  /\ FirstFreeFront(i) \in Nat
           /\ \A j \in Ranked : ranks[j] = FirstFreeFront(i) => j \notin Dominators(i)
           /\ \A q \in 0 .. FirstFreeFront(i) - 1 : \E j \in Ranked : ranks[j] = q /\ j \in Dominators(i)
<1> DEFINE c == Cardinality(Ranked)
           IsFree(r) == \A j \in Ranked : ranks[j] = r => j \notin Dominators(i)
           Free == {r \in 0 .. c : IsFree(r)}
<1>1. /\ MaxLen \in Nat /\ SomeMatrix /\ Ranked \subseteq Solutions /\ ranks \in [Ranked -> Nat]
  BY DEF SortType
<1>2. IsFiniteSet(Ranked) /\ c \in Nat BY <1>1, SolutionsAreFinite
<1> HIDE DEF c
<1>3. Free # {}
  <2> SUFFICES ASSUME \A r \in 0 .. c : ~IsFree(r) PROVE FALSE OBVIOUS
  <2> DEFINE keeper == [r \in 0 .. c |-> CHOOSE j \in Ranked : ranks[j] = r]
  <2>1. \A r \in 0 .. c : keeper[r] \in Ranked /\ ranks[keeper[r]] = r OBVIOUS
  <2>2. keeper \in [0 .. c -> Ranked] BY <2>1
  <2>3. IsFiniteSet(0 .. c) /\ Cardinality(0 .. c) = c + 1 BY <1>2, FS_Interval
  <2>4. Cardinality(Ranked) < Cardinality(0 .. c) BY <1>2, <2>3 DEF c
  <2> HIDE DEF keeper
  <2>5. \E q, r \in 0 .. c : q # r /\ keeper[q] = keeper[r]
    BY <1>2, <2>2, <2>3, <2>4, FS_PigeonHole
  <2> QED BY <2>1, <2>5
<1>4. Free \in SUBSET Nat BY <1>2
<1>5. PICK m \in Free : \A k \in Free : m <= k BY <1>3, <1>4, LeastNatural
<1>6. ASSUME NEW q \in 0 .. m - 1 PROVE \E j \in Ranked : ranks[j] = q /\ j \in Dominators(i)
  <2>1. q \in 0 .. c /\ ~(m <= q) BY <1>2, <1>5
  <2>2. q \notin Free BY <1>5, <2>1
  <2> QED BY <2>1, <2>2
<1>7. /\ m \in 0 .. Cardinality(DOMAIN ranks)
      /\ \A j \in DOMAIN ranks : ranks[j] = m => j \notin Dominators(i)
      /\ \A q \in 0 .. m - 1 : \E j \in DOMAIN ranks : ranks[j] = q /\ j \in Dominators(i)
  BY <1>5, <1>6 DEF c, Ranked
<1>8. /\ FirstFreeFront(i) \in 0 .. Cardinality(DOMAIN ranks)
      /\ \A j \in DOMAIN ranks : ranks[j] = FirstFreeFront(i) => j \notin Dominators(i)
      /\ \A q \in 0 .. FirstFreeFront(i) - 1 : \E j \in DOMAIN ranks : ranks[j] = q /\ j \in Dominators(i)
  BY <1>7 DEF FirstFreeFront
<1> QED BY <1>2, <1>8 DEF c, Ranked

LEMMA EfficientStep ==
    ASSUME Exact, SortInv, NEW i \in Solutions, EfficientInsert(i) PROVE SortInv'
<1> DEFINE r == FirstFreeFront(i)
<1>1. /\ algorithm = "efficient" /\ i \in todo
      /\ \A j \in todo : ~LexicographicallyGreater(fmat[j], fmat[i])
      /\ Assign({i}, r) /\ todo' = todo \ {i}
      /\ UNCHANGED <<algorithm, fmat, count, dmat, pending, current_rank>>
  BY DEF EfficientInsert
<1>2. MaxLen \in Nat /\ SomeMatrix /\ ranks \in [Ranked -> Nat] /\ Ranked \subseteq Solutions
  BY DEF SortInv, SortType
<1>3. /\ todo = Solutions \ Ranked
      /\ \A j \in Ranked, q \in Nat : q < ranks[j] => \E k \in Dominators(j) \cap Ranked : ranks[k] = q
  BY <1>1 DEF SortInv, EfficientInv
<1>4. Solutions' = Solutions /\ (\A j : Dominators(j)' = Dominators(j)) /\ SomeMatrix' /\ Pairs' = Pairs
  BY <1>1, <1>2 DEF Solutions, Dominators, SomeMatrix, Pairs
<1>5. /\ r \in Nat
      /\ \A j \in Ranked : ranks[j] = r => j \notin Dominators(i)
      /\ \A q \in 0 .. r - 1 : \E j \in Ranked : ranks[j] = q /\ j \in Dominators(i)
  BY FreeFrontExists DEF SortInv
<1> HIDE DEF r
<1>6. Dominators(i) \subseteq Ranked
  <2> SUFFICES ASSUME NEW j \in Dominators(i) PROVE j \in Ranked OBVIOUS
  <2>1. j \in Solutions /\ paretoCompareLess(fmat[i], fmat[j]) BY DEF Dominators
  <2>2. fmat[i] \in Fitness /\ fmat[j] \in Fitness BY <1>2, <2>1, SolutionsAreFinite
  <2>3. LexicographicallyGreater(fmat[j], fmat[i]) BY <2>1, <2>2, DominatorsComeFirst
  <2> QED BY <1>1, <1>3, <2>1, <2>3
\* A dominator in a later front has one of its own in this front, which then is not free.
<1>7. ASSUME NEW j \in Dominators(i) PROVE ranks[j] < r
  <2>1. j \in Ranked /\ ranks[j] \in Nat /\ ranks[j] # r BY <1>2, <1>5, <1>6
  <2>2. ASSUME r < ranks[j] PROVE FALSE
    <3>1. PICK k \in Dominators(j) \cap Ranked : ranks[k] = r BY <1>3, <1>5, <2>1, <2>2
    <3>2. /\ j \in Solutions /\ paretoCompareLess(fmat[i], fmat[j])
          /\ k \in Solutions /\ paretoCompareLess(fmat[j], fmat[k])
      BY DEF Dominators
    <3>3. fmat[i] \in Fitness /\ fmat[j] \in Fitness /\ fmat[k] \in Fitness
      BY <1>2, <3>2, SolutionsAreFinite
    <3>4. paretoCompareLess(fmat[i], fmat[k]) BY <3>2, <3>3, LessTransitive
    <3>5. k \in Dominators(i) BY <3>2, <3>4 DEF Dominators
    <3> QED BY <1>5, <3>1, <3>5
  <2> QED BY <1>5, <2>1, <2>2
<1>8. {i} \in SUBSET (Solutions \ Ranked) BY <1>1, <1>3
<1>9. /\ Ranked' = Ranked \cup {i} /\ ranks'[i] = r
      /\ \A j \in Ranked : ranks'[j] = ranks[j]
      /\ ranks' \in [Ranked' -> Nat]
  BY <1>1, <1>2, <1>5, <1>8, AssignRanks
<1>10. SortType'
  <2>1. todo' \subseteq Solutions' /\ Ranked' \subseteq Solutions' BY <1>1, <1>2, <1>3, <1>4, <1>9
  <2>2. dmat' \subseteq Pairs' BY <1>1, <1>4 DEF SortInv, SortType
  <2> QED BY <1>1, <1>2, <1>4, <1>9, <2>1, <2>2 DEF SortInv, SortType
<1>11. RankedAreRight'
  <2>1. SortType /\ RankedAreRight BY DEF SortInv
  <2>2. r > 0 => \E j \in Dominators(i) : ranks[j] = r - 1
    <3>1. r > 0 => r - 1 \in 0 .. r - 1 BY <1>5
    <3> QED BY <1>5, <3>1
  <2> QED BY <1>1, <1>5, <1>6, <1>7, <1>8, <2>1, <2>2, NewFrontIsRight
<1>12. EfficientInv'
  <2>1. todo' = Solutions \ Ranked' BY <1>1, <1>3, <1>9
  <2>2. ASSUME NEW j \in Ranked', NEW q \in Nat, q < ranks'[j]
        PROVE  \E k \in Dominators(j) \cap Ranked' : ranks'[k] = q
    <3>1. CASE j \in Ranked
      <4>1. PICK k \in Dominators(j) \cap Ranked : ranks[k] = q BY <1>3, <1>9, <2>2, <3>1
      <4> QED BY <1>9, <4>1
    <3>2. CASE j = i
      <4>1. q \in 0 .. r - 1 BY <1>5, <1>9, <2>2, <3>2
      <4>2. PICK k \in Ranked : ranks[k] = q /\ k \in Dominators(i) BY <1>5, <4>1
      <4> QED BY <1>9, <3>2, <4>2
    <3> QED BY <1>9, <3>1, <3>2
  <2> QED BY <1>4, <2>1, <2>2 DEF EfficientInv
<1>13. FastInv' /\ DegreeInv' BY <1>1 DEF FastInv, DegreeInv
<1> QED BY <1>10, <1>11, <1>12, <1>13 DEF SortInv

-----------------------------------------------------------------------------
(* The theorems *)

LEMMA SortStutter == ASSUME SortInv, UNCHANGED sortVars PROVE SortInv'
<1> USE DEF sortVars
<1>1. /\ Solutions' = Solutions /\ Ranked' = Ranked /\ \A i : Dominators(i)' = Dominators(i)
      /\ Pairs' = Pairs /\ \A o : ClearedBy(o)' = ClearedBy(o) /\ Nothing' = Nothing
  BY DEF Solutions, Ranked, Dominators, Pairs, ClearedBy, Nothing
<1>2. SortType' BY <1>1 DEF SortInv, SortType, SomeMatrix
<1>3. RankedAreRight' BY <1>1 DEF SortInv, RankedAreRight, RankedRight
<1>4. FastInv' BY <1>1 DEF SortInv, FastInv
<1>5. DegreeInv' BY <1>1 DEF SortInv, DegreeInv
<1>6. EfficientInv' BY <1>1 DEF SortInv, EfficientInv
<1> QED BY <1>2, <1>3, <1>4, <1>5, <1>6 DEF SortInv

\* When every solution has a front, the ranks are what they should be.
LEMMA SortedIsRanking == ASSUME SortInv PROVE RanksAreExact
<1> SUFFICES ASSUME Sorted PROVE IsRanking(ranks, fmat) BY DEF RanksAreExact
<1>1. Ranked = DOMAIN fmat /\ ranks \in [Ranked -> Nat] BY DEF SortInv, SortType, Sorted, Ranked, Solutions
<1>2. ASSUME NEW i \in DOMAIN fmat
      PROVE  /\ ranks[i] \in Nat
             /\ \A j \in DOMAIN fmat : paretoCompareLess(fmat[i], fmat[j]) => ranks[j] < ranks[i]
             /\ ranks[i] > 0 => \E j \in DOMAIN fmat : /\ paretoCompareLess(fmat[i], fmat[j])
                                                       /\ ranks[j] = ranks[i] - 1
  <2>1. RankedRight(i) BY <1>1 DEF SortInv, RankedAreRight
  <2> QED BY <1>1, <2>1 DEF RankedRight, Dominators, Solutions
<1> QED BY <1>1, <1>2 DEF IsRanking, Ranked

(* Each of the three sorts (fastNonDominatedSort, dominanceDegreeSort and  *)
(* efficientNonDominatedSort) puts every solution into the Pareto front it *)
(* belongs to, in whatever order the tasks run and equal solutions come.   *)
THEOREM SortsCorrect == ASSUME Exact PROVE SortSpec => []RanksAreExact
<1>1. SortInit => SortInv BY InitSort DEF Exact
<1>2. SortInv /\ [SortNext]_sortVars => SortInv'
  <2> SUFFICES ASSUME SortInv, [SortNext]_sortVars PROVE SortInv' OBVIOUS
  <2>1. ASSUME NEW i \in Solutions, FastPeel(i) PROVE SortInv' BY <2>1, FastStep
  <2>2. ASSUME NEW i \in Solutions, EfficientInsert(i) PROVE SortInv' BY <2>2, EfficientStep
  <2>3. ASSUME NEW o \in Objectives, DegreeObjective(o) PROVE SortInv' BY <2>3, DegreeObjectiveStep
  <2>4. CASE DegreeSums BY <2>4, DegreeSumsStep
  <2>5. CASE DegreeRound BY <2>5, DegreeRoundStep
  <2>6. CASE UNCHANGED sortVars BY <2>6, SortStutter
  <2> QED BY <2>1, <2>2, <2>3, <2>4, <2>5, <2>6 DEF SortNext
<1>3. SortInv => RanksAreExact BY SortedIsRanking
<1> QED BY <1>1, <1>2, <1>3, PTL DEF SortSpec

(* The fast sort and the sort by dominance degrees do so with any          *)
(* tolerance, although dominance is not transitive then.                   *)
THEOREM SortsTolerate ==
    ASSUME MaxLen \in Nat
    PROVE  SortSpec => [](algorithm # "efficient" => RanksAreExact)
<1> DEFINE Inv == algorithm # "efficient" => SortInv
<1>1. SortInit => Inv BY InitSort
<1>2. Inv /\ [SortNext]_sortVars => Inv'
  <2> SUFFICES ASSUME Inv, [SortNext]_sortVars, algorithm' # "efficient" PROVE SortInv' OBVIOUS
  <2>1. algorithm' = algorithm
    BY DEF SortNext, FastPeel, EfficientInsert, DegreeObjective, DegreeSums, DegreeRound, sortVars
  <2>2. SortInv BY <2>1
  <2>3. ASSUME NEW i \in Solutions, FastPeel(i) PROVE SortInv' BY <2>2, <2>3, FastStep
  <2>4. ASSUME NEW i \in Solutions, EfficientInsert(i) PROVE FALSE BY <2>1, <2>4 DEF EfficientInsert
  <2>5. ASSUME NEW o \in Objectives, DegreeObjective(o) PROVE SortInv' BY <2>2, <2>5, DegreeObjectiveStep
  <2>6. CASE DegreeSums BY <2>2, <2>6, DegreeSumsStep
  <2>7. CASE DegreeRound BY <2>2, <2>7, DegreeRoundStep
  <2>8. CASE UNCHANGED sortVars BY <2>2, <2>8, SortStutter
  <2> QED BY <2>3, <2>4, <2>5, <2>6, <2>7, <2>8 DEF SortNext
<1>3. Inv => (algorithm # "efficient" => RanksAreExact) BY SortedIsRanking
<1> QED BY <1>1, <1>2, <1>3, PTL DEF SortSpec

\* The search leaves the matrix that was sorted alone, and so does the sort.
LEMMA StepsOfTheParts ==
    /\ [Next]_vars => [SortNext]_sortVars
    /\ [Next]_vars => [SearchNext]_searchVars
<1> USE DEF Next, vars, sortVars, searchVars, searchState
<1>1. SortNext => UNCHANGED fmat
  BY DEF SortNext, FastPeel, EfficientInsert, DegreeObjective, DegreeSums, DegreeRound
<1>2. SearchNext => UNCHANGED fmat
  BY DEF SearchNext, Outer, ScanWorse, ScanBetter, ScanEqual, ScanEnd, Sweep, SweepEnd
<1>3. [Next]_vars => [SortNext]_sortVars BY <1>2
<1>4. [Next]_vars => [SearchNext]_searchVars BY <1>1
<1> QED BY <1>3, <1>4

(* Of one matrix the sort finds every front and the search after it the    *)
(* first one: what NSGA-II and NSGA-III report and what the default        *)
(* Algorithm::optimalSolutionsImpl reports is the same front.              *)
THEOREM FrontsCorrect ==
    ASSUME Exact PROVE Spec => [](RanksAreExact /\ FrontIsExact)
<1>1. Init => SortInit /\ SearchInit BY DEF Init
<1>2. Spec => SortSpec /\ SearchSpec
  BY <1>1, StepsOfTheParts, PTL DEF Spec, SortSpec, SearchSpec
<1>3. SortSpec => []RanksAreExact BY SortsCorrect
<1>4. SearchSpec => [](SearchTypeOK /\ FrontIsExact) BY SearchCorrect
<1> QED BY <1>2, <1>3, <1>4, PTL

-----------------------------------------------------------------------------
(* The stop condition *)

(* The value of a tree of conditions *)

\* The value of node n, given those of the nodes before it and of the leaves.
Formula(always, leaf, t, v, n) ==
    \/ always
    \/ t[n].kind = "or" /\ (v[t[n].left] \/ v[t[n].right])
    \/ t[n].kind = "and" /\ v[t[n].left] /\ v[t[n].right]
    \/ t[n].kind = "not" /\ ~ v[t[n].base]
    \/ t[n].kind \notin {"or", "and", "not"} /\ leaf[n]

Solves(always, leaf, t, v) ==
    v \in [Nodes(t) -> BOOLEAN] /\ \A n \in Nodes(t) : v[n] <=> Formula(always, leaf, t, v, n)

LEMMA OperandsBefore ==
    ASSUME NEW t, IsTree(t), NEW n \in Nodes(t)
    PROVE  /\ t[n].kind \in {"or", "and"} => t[n].left \in 1 .. n - 1 /\ t[n].right \in 1 .. n - 1
           /\ t[n].kind = "not" => t[n].base \in 1 .. n - 1
           /\ Nodes(t) = 1 .. Len(t) /\ Len(t) \in Nat
  BY DEF IsTree, Operands

LEMMA FormulaSolved ==
    ASSUME NEW t, IsTree(t), NEW always \in BOOLEAN, NEW leaf
    PROVE  \E v : Solves(always, leaf, t, v)
<1> DEFINE size == Len(t)
           step == [q \in (1 .. size) \X [1 .. size -> BOOLEAN] |-> Formula(always, leaf, t, q[2], q[1])]
<1>1. size \in Nat /\ Nodes(t) = 1 .. size BY DEF IsTree
<1> HIDE DEF size
<1>2. step \in [(1 .. size) \X [1 .. size -> BOOLEAN] -> BOOLEAN]
  <2>1. \A q \in (1 .. size) \X [1 .. size -> BOOLEAN] : Formula(always, leaf, t, q[2], q[1]) \in BOOLEAN
    BY DEF Formula
  <2> QED BY <2>1
<1>3. ASSUME NEW k \in 1 .. size, NEW g \in [1 .. size -> BOOLEAN], NEW h \in [1 .. size -> BOOLEAN],
             \A j \in 1 .. k - 1 : g[j] = h[j]
      PROVE  step[<<k, g>>] = step[<<k, h>>]
  <2>1. step[<<k, g>>] = Formula(always, leaf, t, g, k) /\ step[<<k, h>>] = Formula(always, leaf, t, h, k)
    OBVIOUS
  <2>2. Formula(always, leaf, t, g, k) <=> Formula(always, leaf, t, h, k)
    BY <1>1, <1>3, OperandsBefore DEF Formula
  <2>3. Formula(always, leaf, t, g, k) \in BOOLEAN /\ Formula(always, leaf, t, h, k) \in BOOLEAN
    BY DEF Formula
  <2> QED BY <2>1, <2>2, <2>3
<1>4. \E v \in [1 .. size -> BOOLEAN] : \A k \in 1 .. size : v[k] = step[<<k, v>>]
  <2> HIDE DEF step
  <2>1. LooksBack(size, BOOLEAN, step) BY <1>2, <1>3 DEF LooksBack
  <2>2. \E v : Recurs(v, size, BOOLEAN, step) BY <1>1, <2>1, RecursionExists
  <2> QED BY <2>2 DEF Recurs
<1>5. PICK v \in [1 .. size -> BOOLEAN] : \A k \in 1 .. size : v[k] = step[<<k, v>>] BY <1>4
<1>6. \A n \in 1 .. size : v[n] <=> Formula(always, leaf, t, v, n)
  <2> TAKE n \in 1 .. size
  <2>1. step[<<n, v>>] = Formula(always, leaf, t, v, n) OBVIOUS
  <2> QED BY <1>5, <2>1
<1> QED BY <1>1, <1>6 DEF Solves

LEMMA FormulaUnique ==
    ASSUME NEW t, IsTree(t), NEW always, NEW leaf, NEW v, NEW w,
           Solves(always, leaf, t, v), Solves(always, leaf, t, w)
    PROVE  v = w
<1> DEFINE size == Len(t)
           S == {k \in 0 .. size : \A j \in 1 .. k : v[j] = w[j]}
<1>1. size \in Nat /\ Nodes(t) = 1 .. size BY DEF IsTree
<1> HIDE DEF size
<1>2. 0 \in S BY <1>1
<1>3. ASSUME NEW k \in 0 .. size - 1, k \in S PROVE k + 1 \in S
  <2>1. k + 1 \in 1 .. size /\ (k + 1) - 1 = k BY <1>1
  <2>2. Formula(always, leaf, t, v, k + 1) <=> Formula(always, leaf, t, w, k + 1)
    <3>1. \A j \in 1 .. k : v[j] = w[j] BY <1>3
    <3> QED BY <1>1, <2>1, <3>1, OperandsBefore DEF Formula
  <2>3. v[k + 1] = w[k + 1] BY <1>1, <2>1, <2>2 DEF Solves
  <2>4. \A j \in 1 .. k + 1 : j = k + 1 \/ j \in 1 .. k BY <1>1
  <2> QED BY <1>1, <1>3, <2>1, <2>3, <2>4
<1>4. \A j \in 1 .. size : v[j] = w[j]
  <2>1. 0 .. size \subseteq S
    <3> HIDE DEF S
    <3> QED BY <1>1, <1>2, <1>3, IntervalInduction
  <2>2. size \in 0 .. size BY <1>1
  <2> QED BY <2>1, <2>2
<1> QED BY <1>1, <1>4 DEF Solves

LEMMA VerdictsSolve ==
    ASSUME NEW t, IsTree(t), NEW M, NEW e, NEW g
    PROVE  Solves(LimitReached(g), [n \in Nodes(t) |-> LeafVerdict(t, n, M, e)], t, Verdicts(t, M, e, g))
<1> DEFINE leaf == [n \in Nodes(t) |-> LeafVerdict(t, n, M, e)]
           body(v, n) ==
             \/ LimitReached(g)
             \/ t[n].kind = "or" /\ (v[t[n].left] \/ v[t[n].right])
             \/ t[n].kind = "and" /\ v[t[n].left] /\ v[t[n].right]
             \/ t[n].kind = "not" /\ ~ v[t[n].base]
             \/ LeafVerdict(t, n, M, e)
           Defines(v) == v = [n \in Nodes(t) |-> body(v, n)]
           V == CHOOSE v : Defines(v)
<1>1. Verdicts(t, M, e, g) = V BY DEF Verdicts
<1>2. \A v : \A n \in Nodes(t) : body(v, n) <=> Formula(LimitReached(g), leaf, t, v, n)
  <2> TAKE v
  <2> TAKE n \in Nodes(t)
  <2>1. LeafVerdict(t, n, M, e) => t[n].kind \notin {"or", "and", "not"} BY DEF LeafVerdict, IsStall
  <2>2. leaf[n] <=> LeafVerdict(t, n, M, e) OBVIOUS
  <2> QED BY <2>1, <2>2 DEF Formula
<1> HIDE DEF leaf
<1>3. \A v : \A n \in Nodes(t) : body(v, n) \in BOOLEAN BY DEF LimitReached, LeafVerdict
<1> HIDE DEF body
<1>4. LimitReached(g) \in BOOLEAN BY DEF LimitReached
<1>5. PICK w : Solves(LimitReached(g), leaf, t, w) BY <1>4, FormulaSolved
<1>6. Defines(w)
  <2>1. w \in [Nodes(t) -> BOOLEAN] BY <1>5 DEF Solves
  <2>2. \A n \in Nodes(t) : w[n] = body(w, n) BY <1>2, <1>3, <1>5, <2>1 DEF Solves
  <2> QED BY <2>1, <2>2
<1>7. Defines(V)
  <2> HIDE DEF Defines
  <2> QED BY <1>6
<1> HIDE DEF V
<1>8. V \in [Nodes(t) -> BOOLEAN] /\ \A n \in Nodes(t) : V[n] = body(V, n) BY <1>3, <1>7
<1>9. Solves(LimitReached(g), leaf, t, V) BY <1>2, <1>8 DEF Solves
<1> QED BY <1>1, <1>9 DEF leaf

LEMMA ShouldHoldSolves ==
    ASSUME NEW t, IsTree(t), NEW h, NEW k
    PROVE  Solves(k = MaxGen, [n \in Nodes(t) |-> LeafShouldHold(h, t[n], k)], t, ShouldHold(t, h, k))
<1> DEFINE leaf == [n \in Nodes(t) |-> LeafShouldHold(h, t[n], k)]
           always == k = MaxGen
           body(v, n) ==
             \/ k = MaxGen
             \/ t[n].kind = "or" /\ (v[t[n].left] \/ v[t[n].right])
             \/ t[n].kind = "and" /\ v[t[n].left] /\ v[t[n].right]
             \/ t[n].kind = "not" /\ ~ v[t[n].base]
             \/ LeafShouldHold(h, t[n], k)
           Defines(v) == v = [n \in Nodes(t) |-> body(v, n)]
           V == CHOOSE v : Defines(v)
<1>1. ShouldHold(t, h, k) = V BY DEF ShouldHold
<1>2. \A v : \A n \in Nodes(t) : body(v, n) <=> Formula(always, leaf, t, v, n)
  <2> TAKE v
  <2> TAKE n \in Nodes(t)
  <2>1. LeafShouldHold(h, t[n], k) => t[n].kind \notin {"or", "and", "not"} BY DEF LeafShouldHold, IsStall
  <2>2. leaf[n] <=> LeafShouldHold(h, t[n], k) OBVIOUS
  <2> QED BY <2>1, <2>2 DEF Formula
<1>3. \A v : \A n \in Nodes(t) : body(v, n) \in BOOLEAN BY DEF LeafShouldHold
<1>4. always \in BOOLEAN OBVIOUS
<1> HIDE DEF leaf, body, always
<1>5. PICK w : Solves(always, leaf, t, w) BY <1>4, FormulaSolved
<1>6. Defines(w)
  <2>1. w \in [Nodes(t) -> BOOLEAN] BY <1>5 DEF Solves
  <2>2. \A n \in Nodes(t) : w[n] = body(w, n) BY <1>2, <1>3, <1>5, <2>1 DEF Solves
  <2> QED BY <2>1, <2>2
<1>7. Defines(V)
  <2> HIDE DEF Defines
  <2> QED BY <1>6
<1> HIDE DEF V
<1>8. V \in [Nodes(t) -> BOOLEAN] /\ \A n \in Nodes(t) : V[n] = body(V, n) BY <1>3, <1>7
<1>9. Solves(always, leaf, t, V) BY <1>2, <1>8 DEF Solves
<1> QED BY <1>1, <1>9 DEF leaf, always

(* What OR leaves out *)

\* An OR is the root of its tree or an operand of another OR.
OrsAtTop(t) ==
    \A n, p \in Nodes(t) : n \in Operands(t[p]) /\ t[n].kind = "or" => t[p].kind = "or"

\* Unless the root is true, so is no OR, and none of them leaves an operand out.
LEMMA NothingSkipped ==
    ASSUME NEW t, IsTree(t), OrsAtTop(t), NEW always, NEW leaf, NEW v, Solves(always, leaf, t, v),
           ~ v[Root(t)]
    PROVE  Skipped(t, v) = {}
<1> DEFINE size == Len(t)
           S == {k \in 0 .. size - 1 : \A j \in 0 .. k : t[size - j].kind = "or" => ~ v[size - j]}
           parent(k) == CHOOSE p \in Nodes(t) : size - k \in Operands(t[p])
<1>1. size \in Nat \ {0} /\ Nodes(t) = 1 .. size /\ Root(t) = size BY DEF IsTree, Root
<1>2. \A k \in 1 .. size - 1 : size - k \in Nodes(t) \ {Root(t)} BY <1>1
<1>3. \A k \in 1 .. size - 1 : parent(k) \in Nodes(t) /\ size - k \in Operands(t[parent(k)])
  <2> TAKE k \in 1 .. size - 1
  <2>1. \E p \in Nodes(t) : size - k \in Operands(t[p]) BY <1>2 DEF IsTree
  <2> QED BY <2>1
<1> HIDE DEF parent
<1>4. \A p \in Nodes(t) : t[p].kind = "or" /\ ~ v[p] => ~ v[t[p].left] /\ ~ v[t[p].right]
  BY DEF Solves, Formula
<1>5. \A n, p \in Nodes(t) : n \in Operands(t[p]) => n < p
  <2> TAKE n, p \in Nodes(t)
  <2>1. Operands(t[p]) \subseteq 1 .. p - 1 BY DEF IsTree
  <2> QED BY <1>1, <2>1
<1>6. 0 \in S BY <1>1
<1>7. ASSUME NEW k \in 0 .. size - 1 - 1, k \in S PROVE k + 1 \in S
  <2>1. k + 1 \in 1 .. size - 1 /\ k + 1 \in 0 .. size - 1 BY <1>1
  <2> DEFINE p == parent(k + 1)
  <2>2. p \in Nodes(t) /\ size - (k + 1) \in Nodes(t) /\ size - (k + 1) \in Operands(t[p]) BY <1>2, <1>3, <2>1
  <2> HIDE DEF p
  <2>3. size - (k + 1) < p BY <1>5, <2>2
  <2>4. size - p \in 0 .. k /\ size - (size - p) = p BY <1>1, <2>2, <2>3
  <2>5. t[p].kind = "or" => ~ v[p] BY <1>7, <2>4
  <2>6. ASSUME t[size - (k + 1)].kind = "or" PROVE ~ v[size - (k + 1)]
    <3>1. t[p].kind = "or" BY <2>2, <2>6 DEF OrsAtTop
    <3>2. ~ v[t[p].left] /\ ~ v[t[p].right] BY <1>4, <2>2, <2>5, <3>1
    <3>3. size - (k + 1) \in {t[p].left, t[p].right} BY <2>2, <3>1 DEF Operands
    <3> QED BY <3>2, <3>3
  <2>7. \A j \in 0 .. k + 1 : j = k + 1 \/ j \in 0 .. k BY <2>1
  <2> QED BY <1>7, <2>1, <2>6, <2>7
<1>8. \A p \in Nodes(t) : ~ ShortCircuits(t[p], v)
  <2>1. 0 .. size - 1 \subseteq S
    <3>1. size - 1 \in Nat BY <1>1
    <3> HIDE DEF S
    <3> QED BY <1>6, <1>7, <3>1, IntervalInduction
  <2> TAKE p \in Nodes(t)
  <2>2. size - p \in 0 .. size - 1 /\ size - p \in 0 .. size - p /\ size - (size - p) = p BY <1>1
  <2>3. size - p \in S BY <2>1, <2>2
  <2>4. t[p].kind = "or" => ~ v[p] BY <2>2, <2>3
  <2> QED BY <1>4, <2>4 DEF ShortCircuits
<1> DEFINE body(out, k) ==
             IF k = 0 THEN {}
             ELSE LET n == size - k
                      par == CHOOSE p \in Nodes(t) : n \in Operands(t[p])
                  IN IF par \in out[k - 1] \/ (ShortCircuits(t[par], v) /\ n = t[par].right)
                     THEN out[k - 1] \cup {n} ELSE out[k - 1]
           Defines(out) == out = [k \in 0 .. size - 1 |-> body(out, k)]
           V == CHOOSE out : Defines(out)
<1>9. Skipped(t, v) = V[size - 1] BY DEF Skipped
<1>10. \A out : \A k \in 1 .. size - 1 : out[k - 1] = {} => body(out, k) = {}
  <2> TAKE out
  <2> TAKE k \in 1 .. size - 1
  <2> HAVE out[k - 1] = {}
  <2>1. ~ ShortCircuits(t[parent(k)], v) BY <1>3, <1>8
  <2> QED BY <2>1 DEF parent
<1>11. \A out : body(out, 0) = {} OBVIOUS
<1> HIDE DEF body
<1> DEFINE E == [k \in 0 .. size - 1 |-> {}]
<1>12. Defines(E)
  <2>1. ASSUME NEW k \in 0 .. size - 1 PROVE body(E, k) = {}
    <3>1. CASE k = 0 BY <1>11, <3>1
    <3>2. CASE k # 0
      <4>1. k \in 1 .. size - 1 /\ k - 1 \in 0 .. size - 1 BY <1>1, <3>2
      <4>2. E[k - 1] = {} BY <4>1
      <4> HIDE DEF E
      <4> QED BY <1>10, <4>1, <4>2
    <3> QED BY <3>1, <3>2
  <2> QED BY <2>1
<1>13. Defines(V)
  <2> HIDE DEF Defines, E
  <2> QED BY <1>12
<1> HIDE DEF V
<1> DEFINE Z == {k \in 0 .. size - 1 : V[k] = {}}
<1>14. 0 \in Z BY <1>1, <1>11, <1>13
<1>15. ASSUME NEW k \in 0 .. size - 1 - 1, k \in Z PROVE k + 1 \in Z
  <2>1. k + 1 \in 1 .. size - 1 /\ k + 1 \in 0 .. size - 1 /\ (k + 1) - 1 = k BY <1>1
  <2>2. V[k + 1] = body(V, k + 1) BY <1>13, <2>1
  <2>3. V[k] = {} BY <1>15
  <2>4. body(V, k + 1) = {} BY <1>10, <2>1, <2>3
  <2> QED BY <2>1, <2>2, <2>4
<1>16. 0 .. size - 1 \subseteq Z
  <2>1. size - 1 \in Nat BY <1>1
  <2> HIDE DEF Z
  <2> QED BY <1>14, <1>15, <2>1, IntervalInduction
<1>17. size - 1 \in 0 .. size - 1 BY <1>1
<1> QED BY <1>9, <1>16, <1>17

(* The stall counters *)

\* A generation of the history.
Entry == [matrix : Matrices, evals : Nat]

\* The best value is the highest metric so far, and the counter has been counting down
\* since the last generation that raised it.
StallRight(node, c, b, h) ==
    /\ c \in 0 .. FullCntr(node)
    /\ b \in [ScObjectives -> Int]
    /\ h = <<>> => c = FullCntr(node) /\ b = LowestFitness
    /\ h # <<>> => /\ \A i \in ScObjectives : \A j \in 1 .. Len(h) : Metric(node, h[j].matrix)[i] <= b[i]
                   /\ \A i \in ScObjectives : \E j \in 1 .. Len(h) : Metric(node, h[j].matrix)[i] = b[i]
                   /\ FullCntr(node) - c < Len(h)
                   /\ \A k \in Len(h) - (FullCntr(node) - c) + 1 .. Len(h) : ~ Raised(h, node, k)
                   /\ c > 0 => Raised(h, node, Len(h) - (FullCntr(node) - c))

\* The metric of a node that may be in use.
MetricRight(node) ==
    \A M \in Matrices : \A i \in ScObjectives : Metric(node, M)[i] \in Int /\ Metric(node, M)[i] >= Lowest + 1

LEMMA RaisedStays ==
    ASSUME NEW h \in Seq(Entry), NEW x \in Entry, NEW node, NEW k \in 1 .. Len(h)
    PROVE  Raised(Append(h, x), node, k) <=> Raised(h, node, k)
<1>1. \A j \in 1 .. k : Append(h, x)[j] = h[j] OBVIOUS
<1>2. Append(h, x)[k] = h[k] /\ \A j \in 1 .. k - 1 : Append(h, x)[j] = h[j] BY <1>1
<1> QED BY <1>2 DEF Raised

\* With an exact comparison a generation improves on the best value when it raises the metric.
LEMMA Appended ==
    ASSUME NEW h \in Seq(Entry), NEW x \in Entry
    PROVE  /\ Append(h, x)[Len(h) + 1] = x /\ Len(Append(h, x)) = Len(h) + 1 /\ Append(h, x) # <<>>
           /\ Len(h) \in Nat
           /\ \A j \in 1 .. Len(h) : Append(h, x)[j] = h[j] /\ h[j].matrix \in Matrices
<1>1. \A j \in 1 .. Len(h) : h[j] \in Entry OBVIOUS
<1>2. \A j \in 1 .. Len(h) : h[j].matrix \in Matrices BY <1>1 DEF Entry
<1>3. Append(h, x)[Len(h) + 1] = x /\ Len(Append(h, x)) = Len(h) + 1 /\ Append(h, x) # <<>>
      /\ Len(h) \in Nat
  OBVIOUS
<1>4. \A j \in 1 .. Len(h) : Append(h, x)[j] = h[j] OBVIOUS
<1> QED BY <1>2, <1>3, <1>4

LEMMA ImprovesRaises ==
    ASSUME Delta = 1, NEW node, MetricRight(node), NEW h \in Seq(Entry), NEW x \in Entry,
           NEW c, NEW b, StallRight(node, c, b, h)
    PROVE  Improves(b, Metric(node, x.matrix)) <=> Raised(Append(h, x), node, Len(h) + 1)
<1> DEFINE m == Metric(node, x.matrix)
           H == Append(h, x)
<1>1. H[Len(h) + 1] = x /\ \A j \in 1 .. Len(h) : H[j] = h[j] /\ h[j].matrix \in Matrices
  BY Appended
<1>2. x.matrix \in Matrices BY DEF Entry
<1>3. \A i \in ScObjectives : m[i] \in Int /\ m[i] >= Lowest + 1 BY <1>2 DEF MetricRight
<1>4. Raised(H, node, Len(h) + 1) <=>
        \E i \in ScObjectives : \A j \in 1 .. Len(h) : m[i] > Metric(node, h[j].matrix)[i]
  <2>1. Len(h) + 1 - 1 = Len(h) OBVIOUS
  <2> QED BY <1>1, <2>1 DEF Raised
<1> HIDE DEF m, H
<1>5. CASE h = <<>>
  <2>1. 1 \in ScObjectives /\ Lowest \in Int BY StopAssumption DEF ScObjectives
  <2>2. b[1] = Lowest BY <1>5, <2>1 DEF StallRight, LowestFitness
  <2>3. m[1] >= b[1] + Delta BY <1>3, <2>1, <2>2
  <2>4. Improves(b, m) BY <2>1, <2>3 DEF Improves
  <2>5. Raised(H, node, Len(h) + 1) BY <1>4, <1>5, <2>1
  <2> QED BY <2>4, <2>5 DEF m, H
<1>6. CASE h # <<>>
  <2>1. ASSUME NEW i \in ScObjectives
        PROVE  m[i] >= b[i] + Delta <=> \A j \in 1 .. Len(h) : m[i] > Metric(node, h[j].matrix)[i]
    <3>1. b[i] \in Int /\ m[i] \in Int BY <1>3 DEF StallRight
    <3>2. \A j \in 1 .. Len(h) : Metric(node, h[j].matrix)[i] \in Int BY <1>1 DEF MetricRight
    <3>3. \A j \in 1 .. Len(h) : Metric(node, h[j].matrix)[i] <= b[i] BY <1>6 DEF StallRight
    <3>4. \E j \in 1 .. Len(h) : Metric(node, h[j].matrix)[i] = b[i] BY <1>6 DEF StallRight
    <3> QED BY <3>1, <3>2, <3>3, <3>4
  <2>2. Improves(b, m) <=> Raised(H, node, Len(h) + 1) BY <1>4, <2>1 DEF Improves
  <2> QED BY <2>2 DEF m, H
<1> QED BY <1>5, <1>6

\* The counter after an evaluation, and what it says.
NextOf(node, c, b, m) == IF Improves(b, m) THEN FullCntr(node) ELSE IF c = 0 THEN 0 ELSE c - 1

LEMMA WindowIsWhole ==
    ASSUME NEW g \in Nat, NEW q \in Nat, NEW l, NEW full, NEW d, l = g + 1, full = q + 1, d = 0
    PROVE  \A k \in g + 1 - q .. g + 1 : k \in l - (full - d) + 1 .. l
OBVIOUS

LEMMA StallStep ==
    ASSUME Delta = 1, NEW node, node.patience \in Nat, MetricRight(node),
           NEW h \in Seq(Entry), NEW x \in Entry, NEW c, NEW b, StallRight(node, c, b, h)
    PROVE  LET m == Metric(node, x.matrix)
               d == NextOf(node, c, b, m)
           IN /\ StallRight(node, d, Improved(b, m), Append(h, x))
              /\ d = 0 <=> HasStalled(Append(h, x), node, Len(h) + 1)
<1> DEFINE m == Metric(node, x.matrix)
           d == NextOf(node, c, b, m)
           H == Append(h, x)
           full == FullCntr(node)
           B == Improved(b, m)
<1>1. H[Len(h) + 1] = x /\ (\A j \in 1 .. Len(h) : H[j] = h[j] /\ h[j].matrix \in Matrices)
      /\ Len(H) = Len(h) + 1 /\ H # <<>> /\ Len(h) \in Nat
  BY Appended
<1>2. x.matrix \in Matrices BY DEF Entry
<1>3. \A i \in ScObjectives : m[i] \in Int /\ m[i] >= Lowest + 1 BY <1>2 DEF MetricRight
<1>4. Improves(b, m) <=> Raised(H, node, Len(h) + 1) BY ImprovesRaises
<1>5. \A k \in 1 .. Len(h) : Raised(H, node, k) <=> Raised(h, node, k) BY RaisedStays
<1>6. full \in Nat \ {0} /\ full = node.patience + 1 /\ c \in 0 .. full BY DEF FullCntr, StallRight
<1>7. h = <<>> <=> Len(h) = 0 OBVIOUS
<1>8. b \in [ScObjectives -> Int] BY DEF StallRight
<1>9. h = <<>> => Raised(H, node, Len(h) + 1)
  <2>1. 1 \in ScObjectives BY StopAssumption DEF ScObjectives
  <2> QED BY <2>1 DEF Raised
<1>10. d \in 0 .. full BY <1>6 DEF NextOf
<1>11. full - d < Len(H) /\ (\A k \in Len(H) - (full - d) + 1 .. Len(H) : ~ Raised(H, node, k))
       /\ (d > 0 => Raised(H, node, Len(H) - (full - d)))
  <2>1. CASE Improves(b, m)
    <3>1. d = full BY <2>1 DEF NextOf
    <3> QED BY <1>1, <1>4, <1>6, <2>1, <3>1
  <2>2. CASE ~ Improves(b, m)
    <3>1. h # <<>> /\ ~ Raised(H, node, Len(h) + 1) BY <1>4, <1>9, <2>2
    <3>2. full - c < Len(h) /\ (\A k \in Len(h) - (full - c) + 1 .. Len(h) : ~ Raised(h, node, k))
          /\ (c > 0 => Raised(h, node, Len(h) - (full - c)))
      BY <3>1 DEF StallRight
    <3>3. d = IF c = 0 THEN 0 ELSE c - 1 BY <2>2 DEF NextOf
    <3> HIDE DEF d, H, full
    <3>a. Len(H) = Len(h) + 1 /\ Len(h) \in Nat BY <1>1
    <3>b. full \in Nat /\ c \in 0 .. full BY <1>6
    <3>4. \A k \in Len(h) - (full - c) + 1 .. Len(h) : ~ Raised(H, node, k)
      <4>1. \A k \in Len(h) - (full - c) + 1 .. Len(h) : k \in 1 .. Len(h) BY <3>a, <3>b, <3>2
      <4> QED BY <1>5, <3>2, <4>1
    <3>5. \A k \in Len(h) - (full - c) + 1 .. Len(h) + 1 : ~ Raised(H, node, k)
      <4>1. \A k \in Len(h) - (full - c) + 1 .. Len(h) + 1 :
              k = Len(h) + 1 \/ k \in Len(h) - (full - c) + 1 .. Len(h)
        BY <1>1, <1>6
      <4> QED BY <3>1, <3>4, <4>1
    <3>6. CASE c = 0
      <4>1. d = 0 BY <3>3, <3>6
      <4>2. Len(H) - (full - d) + 1 = (Len(h) - (full - c) + 1) + 1 BY <3>a, <3>b, <3>6, <4>1
      <4>4. \A k \in Len(H) - (full - d) + 1 .. Len(H) : k \in Len(h) - (full - c) + 1 .. Len(h) + 1
        BY <3>a, <3>b, <4>2
      <4>3. full - d < Len(H) BY <3>a, <3>b, <3>2, <3>6, <4>1
      <4> QED BY <3>5, <4>1, <4>3, <4>4
    <3>7. CASE c > 0
      <4>1. d = c - 1 BY <1>6, <3>3, <3>7
      <4>2. Len(H) - (full - d) = Len(h) - (full - c) BY <3>a, <3>b, <4>1
      <4>3. Len(h) - (full - c) \in 1 .. Len(h) BY <1>1, <1>6, <3>2
      <4>4. Raised(H, node, Len(h) - (full - c)) BY <1>5, <3>2, <3>7, <4>3
      <4>5. full - d < Len(H) BY <3>a, <3>b, <3>2, <4>1
      <4> QED BY <3>a, <3>5, <4>2, <4>4, <4>5
    <3> QED BY <1>6, <3>6, <3>7
  <2> QED BY <2>1, <2>2
<1>12. B \in [ScObjectives -> Int] BY <1>3, <1>8 DEF Improved
<1>13. \A i \in ScObjectives : \A j \in 1 .. Len(H) : Metric(node, H[j].matrix)[i] <= B[i]
  <2> TAKE i \in ScObjectives
  <2>1. B[i] = IF m[i] >= b[i] + 1 THEN m[i] ELSE b[i] BY DEF Improved
  <2>2. b[i] \in Int /\ m[i] \in Int BY <1>3, <1>8
  <2>3. b[i] <= B[i] /\ m[i] <= B[i] BY <2>1, <2>2
  <2>4. \A j \in 1 .. Len(h) : Metric(node, h[j].matrix)[i] \in Int /\ Metric(node, h[j].matrix)[i] <= b[i]
    <3>1. h # <<>> => \A j \in 1 .. Len(h) : Metric(node, h[j].matrix)[i] <= b[i] BY DEF StallRight
    <3> QED BY <1>1, <1>7, <3>1 DEF MetricRight
  <2> TAKE j \in 1 .. Len(H)
  <2>5. CASE j = Len(h) + 1 BY <1>1, <2>3, <2>5
  <2>6. CASE j # Len(h) + 1
    <3>1. j \in 1 .. Len(h) /\ H[j] = h[j] BY <1>1, <2>6
    <3>2. B[i] \in Int BY <1>12
    <3> HIDE DEF B, H
    <3> QED BY <2>2, <2>3, <2>4, <3>1, <3>2
  <2> QED BY <2>5, <2>6
<1>14. \A i \in ScObjectives : \E j \in 1 .. Len(H) : Metric(node, H[j].matrix)[i] = B[i]
  <2> TAKE i \in ScObjectives
  <2>1. B[i] = IF m[i] >= b[i] + 1 THEN m[i] ELSE b[i] BY DEF Improved
  <2>2. Len(h) + 1 \in 1 .. Len(H) /\ Metric(node, H[Len(h) + 1].matrix)[i] = m[i] BY <1>1
  <2>3. CASE m[i] >= b[i] + 1 BY <2>1, <2>2, <2>3
  <2>4. CASE ~ (m[i] >= b[i] + 1)
    <3>1. h # <<>>
      <4>1. h = <<>> => b[i] = Lowest BY DEF StallRight, LowestFitness
      <4> QED BY <1>3, <2>4, <4>1
    <3>2. PICK j \in 1 .. Len(h) : Metric(node, h[j].matrix)[i] = b[i] BY <3>1 DEF StallRight
    <3>3. j \in 1 .. Len(H) /\ H[j] = h[j] BY <1>1
    <3> HIDE DEF B, H
    <3> QED BY <2>1, <2>4, <3>2, <3>3
  <2> QED BY <2>3, <2>4
<1>15. StallRight(node, d, B, H)
  <2> HIDE DEF d, B, H
  <2> QED BY <1>1, <1>10, <1>11, <1>12, <1>13, <1>14 DEF StallRight
<1>16. d = 0 <=> HasStalled(H, node, Len(h) + 1)
  <2> HIDE DEF d, H, full
  <2>1. ASSUME d = 0 PROVE HasStalled(H, node, Len(h) + 1)
    <3>1. Len(h) + 1 > node.patience BY <1>1, <1>6, <1>11, <2>1
    <3>2. \A k \in Len(h) + 1 - node.patience .. Len(h) + 1 : k \in Len(H) - (full - d) + 1 .. Len(H)
      <4>1. Len(H) = Len(h) + 1 /\ Len(h) \in Nat BY <1>1
      <4>2. full = node.patience + 1 BY <1>6
      <4> QED BY <2>1, <4>1, <4>2, WindowIsWhole
    <3> QED BY <1>11, <3>1, <3>2 DEF HasStalled
  <2>2. ASSUME d # 0 PROVE ~ HasStalled(H, node, Len(h) + 1)
    <3>1. d > 0 BY <1>10, <1>6, <2>2
    <3>2. Len(H) - (full - d) \in Len(h) + 1 - node.patience .. Len(h) + 1 BY <1>1, <1>6, <1>10, <3>1
    <3> QED BY <1>11, <3>1, <3>2 DEF HasStalled
  <2> QED BY <2>1, <2>2
<1> QED BY <1>15, <1>16

(* The run *)

\* As long as the run goes on, every stall condition is as it should be.
ScInv ==
    /\ tree \in Trees /\ evals \in Nat /\ history \in Seq(Entry) /\ stopped \in BOOLEAN
    /\ ~ stopped => /\ generation = Len(history) /\ generation < MaxGen
                    /\ \A n \in Stalls(tree) : StallRight(tree[n], cntr[n], fitnessBest[n], history)
    /\ StopsWhenItShould

LEMMA StallsFit ==
    ASSUME Delta = 1, NEW t \in Trees, NEW n \in Stalls(t)
    PROVE  IsTree(t) /\ n \in Nodes(t) /\ t[n].patience \in Nat /\ MetricRight(t[n])
<1>1. IsTree(t) BY TreesAssumption
<1>2. n \in Nodes(t) /\ t[n].patience \in Nat BY <1>1 DEF Stalls, IsTree
<1>3. MetricRight(t[n]) BY LowestAssumption DEF MetricRight
<1> QED BY <1>1, <1>2, <1>3

LEMMA StallsAtFirst ==
    ASSUME NEW t \in Trees, NEW n \in Stalls(t)
    PROVE  StallRight(t[n], InitialCntr(t)[n], InitialBest(t)[n], <<>>)
<1>1. t[n].patience \in Nat BY TreesAssumption DEF Stalls, IsTree
<1>2. FullCntr(t[n]) \in 0 .. FullCntr(t[n]) BY <1>1 DEF FullCntr
<1>3. LowestFitness \in [ScObjectives -> Int] BY StopAssumption DEF LowestFitness
<1>4. InitialCntr(t)[n] = FullCntr(t[n]) /\ InitialBest(t)[n] = LowestFitness
  BY DEF InitialCntr, InitialBest
<1> QED BY <1>2, <1>3, <1>4 DEF StallRight

\* The end of a generation: the root returns what the formula says, and if the run goes
\* on, every stall condition has been invoked.
LEMMA EvaluateIsRight ==
    ASSUME Delta = 1, \A t \in Trees : OrsAtTop(t), ScInv, NEW M \in Matrices, NEW e \in NewEvals, Evaluate(M, e)
    PROVE  ScInv'
<1> DEFINE x == [matrix |-> M, evals |-> evals']
           H == Append(history, x)
           k == Len(history) + 1
           verdict == Verdicts(tree, M, evals + e, generation)
           always == LimitReached(generation)
           leaf == [n \in Nodes(tree) |-> LeafVerdict(tree, n, M, evals + e)]
           b(n) == fitnessBest[n]
<1>1. tree \in Trees /\ evals \in Nat /\ history \in Seq(Entry) /\ ~ stopped
      /\ generation = Len(history) /\ generation < MaxGen
      /\ \A n \in Stalls(tree) : StallRight(tree[n], cntr[n], fitnessBest[n], history)
  BY DEF ScInv, Evaluate
<1>2. evals' = evals + e /\ stopped' = verdict[Root(tree)] /\ history' = H /\ tree' = tree BY DEF Evaluate
<1>3. evals' \in Nat
  <2>1. e \in Nat BY StopAssumption
  <2> QED BY <1>1, <1>2, <2>1
<1>4. x \in Entry BY <1>3 DEF Entry
<1>5. history' \in Seq(Entry) /\ Len(history') = k /\ history' # <<>> /\ k \in Nat /\ H[k] = x
  BY <1>1, <1>2, <1>4, Appended
<1>6. IsTree(tree) BY <1>1, TreesAssumption
<1>7. \A n \in Stalls(tree) : LET m == Metric(tree[n], M) IN
        /\ NextCntr(tree, n, M) = NextOf(tree[n], cntr[n], b(n), m)
        /\ StallRight(tree[n], NextCntr(tree, n, M), Improved(b(n), m), H)
        /\ NextCntr(tree, n, M) = 0 <=> HasStalled(H, tree[n], k)
  <2> TAKE n \in Stalls(tree)
  <2> DEFINE m == Metric(tree[n], M)
  <2>1. tree[n].patience \in Nat /\ MetricRight(tree[n]) BY <1>1, StallsFit
  <2>2. NextCntr(tree, n, M) = NextOf(tree[n], cntr[n], b(n), m) BY DEF NextCntr, NextOf
  <2>3. StallRight(tree[n], cntr[n], b(n), history) BY <1>1
  <2>4. x.matrix = M OBVIOUS
  <2> HIDE DEF x
  <2>5. /\ StallRight(tree[n], NextOf(tree[n], cntr[n], b(n), m), Improved(b(n), m), H)
        /\ NextOf(tree[n], cntr[n], b(n), m) = 0 <=> HasStalled(H, tree[n], k)
    BY <1>1, <1>4, <2>1, <2>3, <2>4, StallStep
  <2> QED BY <2>2, <2>5
<1>8. always <=> k = MaxGen
  <2>1. MaxGen \in Nat BY StopAssumption
  <2> QED BY <1>1, <2>1 DEF LimitReached
<1>9. ASSUME Comparable(tree, M)
      PROVE  \A n \in Nodes(tree) : LeafVerdict(tree, n, M, evals + e) <=> LeafShouldHold(H, tree[n], k)
  <2> TAKE n \in Nodes(tree)
  <2>1. H[k].evals = evals + e /\ H[k].matrix = M BY <1>2, <1>5
  <2>2. IsStall(tree[n]) => (NextCntr(tree, n, M) = 0 <=> HasStalled(H, tree[n], k)) BY <1>7 DEF Stalls
  <2>3. tree[n].kind = "value" =>
          ((\E v \in M : ~ Less(v, tree[n].threshold)) <=> \E v \in M : Reaches(v, tree[n].threshold))
    BY <1>9 DEF Comparable
  <2> QED BY <2>1, <2>2, <2>3 DEF LeafVerdict, LeafShouldHold
<1>10. Solves(always, leaf, tree, verdict) BY <1>6, VerdictsSolve
<1>11. Comparable(tree, M) => Solves(always, leaf, tree, ShouldHold(tree, H, k))
  <2> SUFFICES ASSUME Comparable(tree, M) PROVE Solves(always, leaf, tree, ShouldHold(tree, H, k)) OBVIOUS
  <2> DEFINE should == [n \in Nodes(tree) |-> LeafShouldHold(H, tree[n], k)]
  <2>1. Solves(k = MaxGen, should, tree, ShouldHold(tree, H, k)) BY <1>6, ShouldHoldSolves
  <2>2. \A n \in Nodes(tree) : leaf[n] <=> should[n] BY <1>9
  <2> HIDE DEF leaf, should, always
  <2> QED BY <1>8, <2>1, <2>2 DEF Solves, Formula
<1>12. Comparable(tree, M) => verdict = ShouldHold(tree, H, k) BY <1>6, <1>10, <1>11, FormulaUnique
<1>13. StopsWhenItShould'
  <2>1. Comparable(tree, M) => (stopped' <=> ShouldHold(tree', history', Len(history'))[Root(tree')])
    BY <1>2, <1>5, <1>12
  <2>2. LastEntry'.matrix = M BY <1>2, <1>5 DEF LastEntry
  <2> QED BY <1>2, <2>1, <2>2 DEF StopsWhenItShould
<1>14. stopped' \in BOOLEAN
  <2>1. verdict \in [Nodes(tree) -> BOOLEAN] /\ Root(tree) \in Nodes(tree) BY <1>6, <1>10 DEF Solves, IsTree, Root
  <2> QED BY <1>2, <2>1
<1>15. ASSUME ~ stopped'
       PROVE  /\ generation' = Len(history') /\ generation' < MaxGen
              /\ \A n \in Stalls(tree') : StallRight(tree'[n], cntr'[n], fitnessBest'[n], history')
  <2>1. ~ verdict[Root(tree)] BY <1>2, <1>15
  <2>2. Skipped(tree, verdict) = {} BY <1>1, <1>6, <1>10, <2>1, NothingSkipped
  <2>3. skipped' = {} BY <2>2 DEF Evaluate
  <2>4. generation' = k BY <1>1, <1>15 DEF Evaluate
  <2>5. k # MaxGen
    <3>1. Root(tree) \in Nodes(tree) BY <1>6 DEF IsTree, Root
    <3> QED BY <1>8, <1>10, <2>1, <3>1 DEF Solves, Formula
  <2>6. generation' < MaxGen
    <3>1. MaxGen \in Nat BY StopAssumption
    <3> QED BY <1>1, <2>4, <2>5, <3>1
  <2>7. ASSUME NEW n \in Stalls(tree) PROVE StallRight(tree[n], cntr'[n], fitnessBest'[n], history')
    <3>1. cntr'[n] = NextCntr(tree, n, M) /\ fitnessBest'[n] = Improved(fitnessBest[n], Metric(tree[n], M))
      BY <2>3 DEF Evaluate
    <3> QED BY <1>2, <1>7, <3>1
  <2> QED BY <1>2, <1>5, <2>4, <2>6, <2>7
<1> QED BY <1>1, <1>2, <1>3, <1>5, <1>13, <1>14, <1>15 DEF ScInv

\* A run stops in the first generation in which its condition is true as a formula about
\* the generations of the run, when every OR is at the top of its tree: composite.hpp:32
\* takes for granted that the run stops when an OR leaves its right operand out.  Of a
\* generation with a solution that is incomparable to a fitness threshold nothing is said.
THEOREM RunsStopInTime ==
    ASSUME Delta = 1, \A t \in Trees : OrsAtTop(t)
    PROVE  ScSpec => []StopsWhenItShould
<1>1. ScInit => ScInv
  <2> SUFFICES ASSUME ScInit PROVE ScInv OBVIOUS
  <2>1. \A n \in Stalls(tree) : StallRight(tree[n], cntr[n], fitnessBest[n], history)
    BY StallsAtFirst DEF ScInit
  <2>2. generation = Len(history) /\ generation < MaxGen BY StopAssumption DEF ScInit
  <2>3. history \in Seq(Entry) /\ evals \in Nat BY DEF ScInit
  <2> QED BY <2>1, <2>2, <2>3 DEF ScInit, ScInv, StopsWhenItShould
<1>2. ScInv /\ [ScNext]_scVars => ScInv'
  <2> SUFFICES ASSUME ScInv, [ScNext]_scVars PROVE ScInv' OBVIOUS
  <2>1. ASSUME NEW M \in Matrices, NEW e \in NewEvals, Evaluate(M, e) PROVE ScInv'
    BY <2>1, EvaluateIsRight
  <2>2. CASE Restart
    <3>1. /\ tree' \in Trees /\ cntr' = InitialCntr(tree') /\ fitnessBest' = InitialBest(tree')
          /\ generation' = 0 /\ evals' = 0 /\ stopped' = FALSE /\ history' = <<>>
      BY <2>2 DEF Restart, ScInv
    <3>2. \A n \in Stalls(tree') : StallRight(tree'[n], cntr'[n], fitnessBest'[n], history')
      BY <3>1, StallsAtFirst
    <3>3. generation' = Len(history') /\ generation' < MaxGen BY <3>1, StopAssumption
    <3>4. history' \in Seq(Entry) /\ evals' \in Nat BY <3>1
    <3> QED BY <3>1, <3>2, <3>3, <3>4 DEF ScInv, StopsWhenItShould
  <2>3. CASE UNCHANGED scVars BY <2>3 DEF ScInv, StopsWhenItShould, LastEntry, scVars
  <2> QED BY <2>1, <2>2, <2>3 DEF ScNext
<1>3. ScInv => StopsWhenItShould BY DEF ScInv
<1> QED BY <1>1, <1>2, <1>3, PTL DEF ScSpec
=============================================================================
