---------------------------- MODULE ParetoFronts ----------------------------
(***************************************************************************)
(* A generation of a multi-objective run looks at one fitness matrix       *)
(* twice: the algorithm sorts it into fronts to replace the population     *)
(* (nonDominatedSort), and the default Algorithm::optimalSolutionsImpl     *)
(* searches its first front for the result of the run (findParetoFront).   *)
(* The search follows the sort here, on the same matrix: its front, and    *)
(* the first one of the sort, which NSGA-II and NSGA-III report instead,   *)
(* are both the Pareto front (RanksAreExact, FrontIsExact).                *)
(***************************************************************************)
EXTENDS NonDominatedSort, FindParetoFront

searchState == <<indices, first, last, best, it, optimal_indices, pc>>
vars == <<sortVars, searchState>>

Init == SortInit /\ SearchInit

Next == \/ SortNext /\ UNCHANGED searchState
        \/ Sorted /\ SearchNext
           /\ UNCHANGED <<algorithm, ranks, todo, count, dmat, pending, current_rank>>

Spec == Init /\ [][Next]_vars

\* One thread runs the sort and the search, and the pool runs the tasks.
FairSpec == Spec /\ WF_vars(Next)

-----------------------------------------------------------------------------
(* The loops that run until every solution has a front, and the search,    *)
(* end: no round finds an empty front, no element is compared for ever.    *)
SearchEnds == <>(pc = "done")
=============================================================================
