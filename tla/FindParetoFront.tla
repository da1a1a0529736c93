-------------------------- MODULE FindParetoFront ---------------------------
(***************************************************************************)
(* detail::findParetoFrontBest (core/population.cpp), which finds the      *)
(* Pareto front of a fitness matrix with more than one objective in place: *)
(* the indices that may still be optimal are in [first, last) of a vector, *)
(* and are removed by swapping them to either end of that range.  The      *)
(* scan keeps a best solution that moves whenever something dominates it.  *)
(* Positions start at 1.                                                   *)
(***************************************************************************)
EXTENDS FitnessMatrix

VARIABLES indices,          \* a permutation of the solutions
          first, last,      \* the range of indices that is left
          best, it,         \* iterators into that range
          optimal_indices,  \* the solutions found, in any order
          pc                \* the loop that runs

searchVars == <<fmat, indices, first, last, best, it, optimal_indices, pc>>

Swapped(p, q) == [indices EXCEPT ![p] = indices[q], ![q] = indices[p]]
Compare(p, q) == paretoCompare(fmat[indices[p]], fmat[indices[q]])

-----------------------------------------------------------------------------
SearchInit ==
    /\ SomeMatrix
    /\ indices = [p \in DOMAIN fmat |-> p]
    /\ first = 1 /\ last = Cardinality(DOMAIN fmat) + 1
    /\ best = 1 /\ it = 1
    /\ optimal_indices = {}
    /\ pc = "outer"

Outer ==
    /\ pc = "outer"
    /\ IF first # last
       THEN best' = first /\ it' = first + 1 /\ pc' = "scan"
       ELSE pc' = "done" /\ UNCHANGED <<best, it>>
    /\ UNCHANGED <<fmat, indices, first, last, optimal_indices>>

\* Variant: the iterator stays where it is when nothing is removed.
ScanEqualStuck ==
    /\ pc = "scan" /\ it < last
    /\ Compare(best, it) = 0
    /\ it' = it
    /\ UNCHANGED <<fmat, indices, first, last, best, optimal_indices, pc>>

\* The element is dominated: it is swapped to the back, and the one that comes
\* from there is compared next.
ScanWorse ==
    /\ pc = "scan" /\ it < last
    /\ Compare(best, it) > 0
    /\ indices' = Swapped(it, last - 1)
    /\ last' = last - 1
    /\ UNCHANGED <<fmat, first, best, it, optimal_indices, pc>>

\* The best is dominated: it is swapped to the front, the element takes over.
ScanBetter ==
    /\ pc = "scan" /\ it < last
    /\ Compare(best, it) < 0
    /\ indices' = Swapped(best, first)
    /\ first' = first + 1
    /\ best' = it
    /\ it' = it + 1
    /\ UNCHANGED <<fmat, last, optimal_indices, pc>>

ScanEqual ==
    /\ pc = "scan" /\ it < last
    /\ Compare(best, it) = 0
    /\ it' = it + 1
    /\ UNCHANGED <<fmat, indices, first, last, best, optimal_indices, pc>>

\* "best is definitely optimal at this point"
ScanEnd ==
    /\ pc = "scan" /\ it >= last
    /\ optimal_indices' = optimal_indices \cup {indices[best]}
    /\ it' = first
    /\ pc' = "sweep"
    /\ UNCHANGED <<fmat, indices, first, last, best>>

\* Variant: the elements before the best one are not compared with it again.
NoSweep ==
    /\ pc = "sweep" /\ it < best
    /\ it' = it + 1
    /\ UNCHANGED <<fmat, indices, first, last, best, optimal_indices, pc>>

\* The elements before the best one were compared with earlier ones only.
Sweep ==
    /\ pc = "sweep" /\ it < best
    /\ IF paretoCompareLess(fmat[indices[it]], fmat[indices[best]])
       THEN indices' = Swapped(it, first) /\ first' = first + 1
       ELSE UNCHANGED <<indices, first>>
    /\ it' = it + 1
    /\ UNCHANGED <<fmat, last, best, optimal_indices, pc>>

SweepEnd ==
    /\ pc = "sweep" /\ it >= best
    /\ indices' = Swapped(best, last - 1)
    /\ last' = last - 1
    /\ pc' = "outer"
    /\ UNCHANGED <<fmat, first, best, it, optimal_indices>>

SearchNext == Outer \/ ScanWorse \/ ScanBetter \/ ScanEqual \/ ScanEnd \/ Sweep \/ SweepEnd

SearchSpec == SearchInit /\ [][SearchNext]_searchVars

-----------------------------------------------------------------------------
(* Type correctness: the vector stays a permutation of the solutions, and  *)
(* the iterators stay inside the range they are used on.                   *)
SearchTypeOK ==
    /\ SomeMatrix
    /\ indices \in [DOMAIN fmat -> DOMAIN fmat]
    /\ \A p, q \in DOMAIN fmat : indices[p] = indices[q] => p = q
    /\ first \in 1 .. last /\ last \in 1 .. Cardinality(DOMAIN fmat) + 1
    /\ optimal_indices \subseteq DOMAIN fmat
    /\ pc \in {"outer", "scan", "sweep", "done"}
    /\ pc = "scan" => best \in first .. last - 1 /\ it \in best + 1 .. last
    /\ pc = "sweep" => best \in first .. last - 1 /\ it \in first .. best

(* findParetoFrontBest: the result only ever holds optimal solutions (the  *)
(* code says "best is definitely optimal at this point"), and when the     *)
(* loop ends it is the whole Pareto front, all copies of equal solutions   *)
(* included.                                                               *)
FrontIsExact == /\ optimal_indices \subseteq ParetoFront(fmat)
                /\ pc = "done" => optimal_indices = ParetoFront(fmat)
=============================================================================
