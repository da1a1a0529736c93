------------------------------- MODULE Nsga2 --------------------------------
(***************************************************************************)
(* The NSGA-II algorithm (algorithm/nsga2.cpp) with the Pareto fronts of   *)
(* algorithm/nd_sort.cpp: how the population of the next generation is     *)
(* picked out of parents and children, and what is remembered about it:    *)
(* ranks_ and dists_ are all that later selections look at.                *)
(*                                                                         *)
(* A solution is its fitness vector; the children of a generation are any  *)
(* solutions.  nonDominatedSort is modelled by its result, see             *)
(* NonDominatedSort.  The sorts of the library are not stable: where the   *)
(* keys of two solutions are equal, either order is possible.              *)
(*                                                                         *)
(* Crowding distances are kept in units of 1/Unit, which is a multiple of  *)
(* all differences between fitness values, so that the quotients are       *)
(* exact.  An interval of zero (1e-8 in the code) only divides zeros.      *)
(***************************************************************************)
EXTENDS Fronts

CONSTANTS Offspring, \* the children a generation may have
          Unit,      \* the unit of the crowding distances
          Infinity,  \* a distance that no finite one reaches
          MaxGenerations  \* bound on the number of replacements

\* GAPP_ASSERT(ga.num_objectives() > 1)
ASSUME ObjectivesAssumption == NumObjectives > 1
ASSUME OffspringAssumption == Offspring \subseteq [1 .. PopulationSize -> Fitness]
\* These two hold for the instances that are checked; they are not about the code.
ASSUME UnitAssumption == Unit \in Nat /\
    \A v, w \in Fitness : \A o \in Objectives : v[o] > w[o] => Unit % (v[o] - w[o]) = 0
ASSUME InfinityAssumption == Infinity \in Nat /\ Infinity > NumObjectives * Unit

VARIABLES pool,       \* the population the algorithm was last called with:
                      \* the initial one, or parents and children
          survivors,  \* the indices in pool of the current population
          ranks,      \* ranks_
          dists,      \* dists_
          generation  \* the number of replacements so far

vars == <<pool, survivors, ranks, dists, generation>>

\* The fitness matrix of the current population.
pop == [i \in Places |-> pool[survivors[i]]]

-----------------------------------------------------------------------------
\* All sequences of the solutions in S that are ascending in objective o.
Ascending(p, S, o) ==
    LET orders[k \in 0 .. Cardinality(S)] ==    \* the first k of them
          IF k = 0 THEN {<<>>}
          ELSE UNION {LET left == S \ ToSet(s)
                      IN  {Append(s, i) : i \in {j \in left : \A l \in left : p[j][o] <= p[l][o]}} :
                        s \in orders[k - 1]}
    IN  orders[Cardinality(S)]

\* What one objective adds to the distances of a front in the given order.
Contribution(p, order, o) ==
    LET width == p[Last(order)][o] - p[order[1]][o]
    IN  [i \in ToSet(order) |->
           LET k == CHOOSE k \in DOMAIN order : order[k] = i
           IN  IF k \in {1, Len(order)} THEN Infinity
               ELSE LET gap == p[order[k + 1]][o] - p[order[k - 1]][o]
                    IN  IF gap = 0 THEN 0 ELSE (gap * Unit) \div width]

\* The sums over the objectives; an infinite distance stays infinite.
Total(added) ==
    LET sum[o \in 0 .. NumObjectives] ==
          IF o = 0 THEN [i \in DOMAIN added[1] |-> 0]
          ELSE [i \in DOMAIN added[1] |-> Min({Infinity, sum[o - 1][i] + added[o][i]})]
    IN  sum[NumObjectives]

\* The contributions one objective may make, whatever the order of equal keys.
Contributions(p, S, o) == {Contribution(p, order, o) : order \in Ascending(p, S, o)}

\* The distances that may come of a choice of contributions by every objective.
Totals(added) == {Total(c) : c \in {c \in [Objectives -> UNION Range(added)] :
                                      \A o \in Objectives : c[o] \in added[o]}}

\* crowdingDistances for one front: the distances its solutions may have.
Distances(p, S) == Totals([o \in Objectives |-> Contributions(p, S, o)])

\* The same with the order the front is left in, that of the last objective.
Crowded(p, S) ==
    LET others == [o \in Objectives |-> Contributions(p, S, o)]
        left(s) == Totals([others EXCEPT ![NumObjectives] =
                             {Contribution(p, s, NumObjectives)}])
    IN  UNION {{[dist |-> d, order |-> s] : d \in left(s)} :
                 s \in Ascending(p, S, NumObjectives)}

-----------------------------------------------------------------------------
\* What is kept of a partial front: those with the largest crowding distances.
KeptOfPartial(p, partial, n) ==
    UNION {{K \in kSubset(n, partial) : \A i \in K, j \in partial \ K : d[i] >= d[j]} :
             d \in Distances(p, partial)}

\* The elements that are left by the resize of the fronts.
Kept(p, r) ==
    LET better == {i \in DOMAIN r : r[i] < Cut(r)}
        partial == PartialFront(r)
    IN  IF partial = {} THEN {{i \in DOMAIN r : r[i] <= Cut(r)}}
        ELSE {better \cup K :
                K \in KeptOfPartial(p, partial, PopulationSize - Cardinality(better))}

\* crowdingDistances for the fronts of the solutions in S of the pool p.
Outcomes(p, S, r) ==
    LET fronts == {r[i] : i \in S}
        of(k) == Crowded(p, {i \in S : r[i] = k})
    IN  {c \in [fronts -> UNION {of(k) : k \in fronts}] : \A k \in fronts : c[k] \in of(k)}

\* Variant: the ranks are cut like the distances, by the index in the pool.
RanksByIndex(r, chosen) == [i \in Places |-> r[i]]

RanksOfChosen(r, chosen) == [i \in Places |-> r[chosen[i]]]

\* crowding_distances is as long as the pool: zero for those that are not kept.
DistsOf(p, r, c) == [i \in DOMAIN p |-> IF r[i] \in DOMAIN c /\ i \in DOMAIN c[r[i]].dist
                                        THEN c[r[i]].dist[i] ELSE 0]

\* initializeImpl
Init == /\ pool \in [Places -> Fitness]
        /\ survivors = [i \in Places |-> i]
        /\ ranks = RanksOf(pool)
        /\ generation = 0
        /\ \E c \in Outcomes(pool, Places, ranks) : dists = DistsOf(pool, ranks, c)

\* The place of a solution of S in the order of the fronts.
PlaceOf(S, r, c, i) == Cardinality({j \in S : r[j] < r[i]}) +
                       CHOOSE k \in DOMAIN c[r[i]].order : c[r[i]].order[k] = i

\* nextPopulationImpl for the population and its children.  dists_ is cut to
\* the population size, ranks_ and the population are filled in the order of
\* the fronts.
NextPopulation(children) ==
    LET p == pop \o children
        r == RanksOf(p)
    IN  /\ generation < MaxGenerations
        /\ generation' = generation + 1
        /\ pool' = p
        /\ \E S \in Kept(p, r) : \E c \in Outcomes(p, S, r) :
             LET order == [n \in Places |-> CHOOSE i \in S : PlaceOf(S, r, c, i) = n]
                 d == DistsOf(p, r, c)
             IN  /\ survivors' = order
                 /\ ranks' = RanksOfChosen(r, order)
                 /\ dists' = [i \in Places |-> d[i]]

Next == \E children \in Offspring : NextPopulation(children)

Spec == Init /\ [][Next]_vars

\* selectImpl, for the two places that it draws.
Select(i, j) == IF ranks[i] # ranks[j] THEN (IF ranks[i] < ranks[j] THEN i ELSE j)
                ELSE IF dists[i] > dists[j] THEN i ELSE j

-----------------------------------------------------------------------------
(* ranks_ describes the population that it is used with: although it was   *)
(* found for parents and children together, it is the ranking of the       *)
(* survivors alone, at their new places.  Rank zero, which                 *)
(* optimalSolutionsImpl reports, is the Pareto front of the population.    *)
RanksDescribePopulation == IsRanking(ranks, pop)

(* nextPopulationImpl keeps the better solutions: none twice, and none     *)
(* that a discarded solution dominates.                                    *)
SurvivorsAreBest ==
    /\ \A i, j \in Places : survivors[i] = survivors[j] => i = j
    /\ \A i \in Places, d \in DOMAIN pool :
         d \in ToSet(survivors) \/ ~paretoCompareLess(pop[i], pool[d])

(* The best value that was found of any objective is never lost, however   *)
(* the front that is cut is crowded and whatever solutions are equal.      *)
ExtremesSurvive ==
    \A o \in Objectives, d \in DOMAIN pool : \E i \in Places : pop[i][o] >= pool[d][o]

(* selectImpl never prefers a solution of the population to one that       *)
(* dominates it, whatever the distances it falls back to are.              *)
SelectionPrefersDominator ==
    \A i, j \in Places : paretoCompareLess(pop[i], pop[j]) => Select(i, j) = j /\ Select(j, i) = j

(* The population and its ranks, as the selection sees them.               *)
PopulationIsBest ==
    RanksDescribePopulation /\ SurvivorsAreBest /\ ExtremesSurvive /\ SelectionPrefersDominator

(* "The algorithm uses a selection operator that selects solutions for the *)
(* crossovers based on these same criteria (their pareto ranks and         *)
(* crowding distances)" (algorithm/nsga2.hpp:26): what selectImpl compares *)
(* for a solution of the population is the crowding distance it has.       *)
DistancesDescribePopulation ==
    \A k \in ToSet(ranks) : \E d \in Distances(pop, FrontOf(ranks, k)) :
      \A i \in FrontOf(ranks, k) : dists[i] = d[i]
=============================================================================
