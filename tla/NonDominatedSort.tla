-------------------------- MODULE NonDominatedSort --------------------------
(***************************************************************************)
(* The three non-dominated sorts of algorithm/nd_sort.cpp.  Each assigns   *)
(* the solutions of a fitness matrix to Pareto fronts:                     *)
(*   "fast"       peels the fronts off with counters of dominators,        *)
(*   "degree"     fills a dominance matrix, one task per objective, and    *)
(*                peels with the sums of its columns,                      *)
(*   "efficient"  inserts the solutions in lexicographic order, each into  *)
(*                the first front in which nothing dominates it; this is   *)
(*                the one that nonDominatedSort uses.                      *)
(*                                                                         *)
(* The vector pareto_fronts is the function ranks from the solutions it    *)
(* holds to their ranks.  It is sorted by rank; what follows never depends *)
(* on the order of the solutions of one front, which is left open.         *)
(***************************************************************************)
EXTENDS FitnessMatrix

VARIABLES algorithm,  \* which of the sorts runs
          ranks,      \* pareto_fronts
          todo,       \* what the sort has left, see Init
          count,      \* better_count ("fast"), the sums of the columns ("degree")
          dmat,       \* the pairs <<row, col>> that are MAXIMAL ("degree")
          pending,    \* the objectives whose task still runs ("degree")
          current_rank

sortVars == <<algorithm, fmat, ranks, todo, count, dmat, pending, current_rank>>

Solutions == DOMAIN fmat
Pairs == Solutions \X Solutions
Nothing == [i \in {} |-> 0]

Dominators(i) == {j \in Solutions : paretoCompareLess(fmat[i], fmat[j])}
Assign(S, r) == ranks' = [i \in DOMAIN ranks \cup S |->
                            IF i \in S THEN r ELSE ranks[i]]

-----------------------------------------------------------------------------
\* The solutions that nothing dominates are put into the first front at once by
\* the fast sort, which then peels them off (todo: ranked, not yet peeled).
InitFast ==
    /\ algorithm = "fast"
    /\ count = [i \in Solutions |-> Cardinality(Dominators(i))]
    /\ todo = {i \in Solutions : Dominators(i) = {}}
    /\ ranks = [i \in todo |-> 0]
    /\ dmat = {} /\ pending = {}

\* All entries of the matrix start MAXIMAL (todo: the columns that are left).
InitDegree ==
    /\ algorithm = "degree"
    /\ dmat = Pairs /\ pending = Objectives
    /\ todo = Solutions
    /\ count = Nothing /\ ranks = Nothing

\* todo: the indices of argsort that are not inserted yet.
InitEfficient ==
    /\ algorithm = "efficient"
    /\ dmat = {} /\ pending = {}
    /\ todo = Solutions
    /\ count = Nothing /\ ranks = Nothing

SortInit == /\ SomeMatrix
            /\ current_rank = 0
            /\ InitFast \/ InitDegree \/ InitEfficient

-----------------------------------------------------------------------------
\* A solution of the earliest front that is left is peeled off: those that only
\* it still dominated go to the next front.
FastPeel(i) ==
    /\ algorithm = "fast"
    /\ DOMAIN ranks # Solutions
    /\ i \in todo
    /\ \A j \in todo : ranks[i] <= ranks[j]
    /\ LET worse == {j \in Solutions : i \in Dominators(j)}
           freed == {j \in worse : count[j] = 1}
       IN  /\ count' = [j \in Solutions |-> IF j \in worse THEN count[j] - 1 ELSE count[j]]
           /\ Assign(freed, ranks[i] + 1)
           /\ todo' = (todo \ {i}) \cup freed
    /\ UNCHANGED <<algorithm, fmat, dmat, pending, current_rank>>

\* The entries an objective clears: the column is better than the row in it.
ClearedBy(o) == {p \in Pairs : floatIsLess(fmat[p[1]][o], fmat[p[2]][o])}

\* The task of one objective.  The tasks only ever store NONMAXIMAL, so that
\* a task that misses the store of another one repeats it.
DegreeObjective(o) ==
    /\ o \in pending
    /\ dmat' = dmat \ ClearedBy(o)
    /\ pending' = pending \ {o}
    /\ UNCHANGED <<algorithm, fmat, ranks, todo, count, current_rank>>

\* All tasks are done.  Of two solutions that no objective tells apart none
\* dominates the other, nor itself; then the columns are summed.
DegreeSums ==
    /\ algorithm = "degree" /\ pending = {} /\ count = Nothing
    /\ dmat' = {p \in dmat : <<p[2], p[1]>> \notin dmat}
    /\ count' = [col \in Solutions |-> Cardinality({row \in Solutions : <<row, col>> \in dmat'})]
    /\ UNCHANGED <<algorithm, fmat, ranks, todo, pending, current_rank>>

\* One round of the peeling: the columns without MAXIMAL entries are removed as
\* one front, then their rows are cleared.
DegreeRound ==
    /\ algorithm = "degree" /\ count # Nothing
    /\ DOMAIN ranks # Solutions
    /\ LET zero == {col \in todo : count[col] = 0}
       IN  /\ Assign(zero, current_rank)
           /\ todo' = todo \ zero
           /\ count' = [col \in Solutions |->
                          count[col] - Cardinality({row \in zero : <<row, col>> \in dmat})]
           /\ dmat' = dmat \ (zero \X Solutions)
    /\ current_rank' = current_rank + 1
    /\ UNCHANGED <<algorithm, fmat, pending>>

\* Variant: only the first front is searched for a dominator.
FirstFreeFrontLazy(i) ==
    IF \E j \in DOMAIN ranks : ranks[j] = 0 /\ j \in Dominators(i) THEN 1 ELSE 0

\* The first front in which nothing dominates the solution, maybe a new one.
FirstFreeFront(i) ==
    CHOOSE r \in 0 .. Cardinality(DOMAIN ranks) :
      /\ \A j \in DOMAIN ranks : ranks[j] = r => j \notin Dominators(i)
      /\ \A q \in 0 .. r - 1 : \E j \in DOMAIN ranks : ranks[j] = q /\ j \in Dominators(i)

\* The next solution in descending lexicographic order is inserted.
EfficientInsert(i) ==
    /\ algorithm = "efficient"
    /\ i \in todo
    /\ \A j \in todo : ~LexicographicallyGreater(fmat[j], fmat[i])
    /\ Assign({i}, FirstFreeFront(i))
    /\ todo' = todo \ {i}
    /\ UNCHANGED <<algorithm, fmat, count, dmat, pending, current_rank>>

SortNext == \/ \E i \in Solutions : FastPeel(i) \/ EfficientInsert(i)
            \/ \E o \in Objectives : DegreeObjective(o)
            \/ DegreeSums
            \/ DegreeRound

SortSpec == SortInit /\ [][SortNext]_sortVars

Sorted == DOMAIN ranks = Solutions

-----------------------------------------------------------------------------
(* Whatever sort was used, and in whatever order equal solutions come out  *)
(* of the unstable sort of the indices, every solution ends up in the      *)
(* Pareto front it belongs to (fastNonDominatedSort, dominanceDegreeSort,  *)
(* efficientNonDominatedSort).                                             *)
RanksAreExact == Sorted => IsRanking(ranks, fmat)
=============================================================================
