------------------------------- MODULE Fronts -------------------------------
(***************************************************************************)
(* What NSGA-II and NSGA-III see of the non-dominated sort of a pool of    *)
(* solutions (algorithm/nd_sort.cpp): its result, see NonDominatedSort for *)
(* the sorts themselves.  A pool is a sequence of fitness vectors.         *)
(***************************************************************************)
EXTENDS Dominance, FiniteSetsExt, SequencesExt

CONSTANT PopulationSize

ASSUME PopulationSizeAssumption == PopulationSize \in Nat \ {0}

Places == 1 .. PopulationSize

\* The solutions of p that are left after 0, 1, 2 ... fronts have been peeled off.
Unpeeled(p) ==
    LET left[k \in 0 .. Len(p)] ==
          IF k = 0 THEN <<DOMAIN p>>
          ELSE LET before == left[k - 1]
                   S == before[k]
               IN  Append(before, {i \in S : \E j \in S : paretoCompareLess(p[i], p[j])})
    IN  left[Len(p)]

\* nonDominatedSort, ParetoFronts::ranks
RanksOf(p) == LET left == Unpeeled(p)
              IN  [i \in DOMAIN p |-> CHOOSE k \in 0 .. Len(p) - 1 : i \in left[k + 1] \ left[k + 2]]

FrontOf(r, k) == {i \in DOMAIN r : r[i] = k}

\* ParetoFronts::partialFront: the front the cut at PopulationSize goes through,
\* empty when the cut is between two fronts.
Cut(r) == CHOOSE k \in Range(r) :
            /\ Cardinality({i \in DOMAIN r : r[i] < k}) < PopulationSize
            /\ Cardinality({i \in DOMAIN r : r[i] <= k}) >= PopulationSize
PartialFront(r) ==
    IF Cardinality({i \in DOMAIN r : r[i] <= Cut(r)}) = PopulationSize
    THEN {} ELSE FrontOf(r, Cut(r))
=============================================================================
