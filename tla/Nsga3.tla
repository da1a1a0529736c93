-------------------------------- MODULE Nsga3 -------------------------------
(***************************************************************************)
(* The NSGA-III algorithm (algorithm/nsga3.cpp): the solutions of the      *)
(* front that the cut goes through are picked one by one, for the          *)
(* reference direction with the lowest niche count so far.                 *)
(*                                                                         *)
(* A solution is its fitness vector.  The reference lines are integer      *)
(* vectors of equal length; normalized fitness vectors are multiplied by   *)
(* the widths of all objectives, and distances are kept times the square   *)
(* of that and of the length of the lines, so that all numbers are exact.  *)
(***************************************************************************)
EXTENDS Fronts, PopStats, Algorithms

CONSTANTS N3Lines,      \* ref_lines_
          N3Scale,      \* 1/N3Scale is the smallest width of an objective
          N3Weight,     \* what the weights of the other axes divide by in ASF
          N3Offspring,  \* the children a generation may have
          N3MaxGen      \* bound: number of generations

\* GAPP_ASSERT(!ref_lines_.empty())
ASSUME Nsga3Assumption ==
    /\ N3Lines \in Seq([Objectives -> Int]) /\ N3Lines # <<>>
    /\ N3Offspring \subseteq [Places -> Fitness]
    /\ N3Scale \in Nat \ {0} /\ N3Weight \in Nat \ {0}

VARIABLES n3Pool,     \* the population, or parents and children while they are picked from
          n3Fronts,   \* pareto_fronts, indices in the pool; empty in between
          n3Partial,  \* the first and last position of partial_front in it
          n3Info,     \* sol_info_
          n3Counts,   \* niche_counts_
          n3Refs,     \* ref_indices
          n3Picked,   \* the solutions that were moved to the front of partial_front
          n3Ideal,    \* ideal_point_
          n3Nadir,    \* nadir_point_
          n3Extremes, \* extreme_points_
          n3Generation

n3Vars == <<n3Pool, n3Fronts, n3Partial, n3Info, n3Counts, n3Refs, n3Picked,
            n3Ideal, n3Nadir, n3Extremes, n3Generation>>

References == DOMAIN N3Lines
Idle == n3Fronts = <<>>

-----------------------------------------------------------------------------
(* Reference directions. *)

ASF(ideal, axis, v) ==
    Max({(IF o = axis THEN 1 ELSE N3Weight) * (ideal[o] - v[o]) : o \in Objectives})

\* The best of the pool and of the old extreme points along each axis.
ExtremePoints(ideal, pool, extremes) ==
    LET points == pool \o extremes
    IN  [axis \in Objectives |->
           points[MinElement(points, LAMBDA v : ASF(ideal, axis, v))]]

Width(ideal, nadir, o) == Max({N3Scale * (ideal[o] - nadir[o]), 1})

\* normalizeFitnessVec, times N3Scale and the widths of all objectives.
NormalizeFitnessVec(v, ideal, nadir) ==
    [o \in Objectives |->
       FoldLeft(LAMBDA prod, q : IF q = o THEN prod ELSE prod * Width(ideal, nadir, q),
                N3Scale * (ideal[o] - v[o]), [q \in Objectives |-> q])]

InnerProduct(v, w) == MapThenSumSet(LAMBDA o : v[o] * w[o], Objectives)

PerpendicularDistanceSq(line, v) ==
    LET along == InnerProduct(line, v)
    IN  InnerProduct(v, v) * InnerProduct(line, line) - along * along

\* What associatePopWithRefs finds for one solution.
Association(v, ideal, nadir) ==
    LET fnorm == NormalizeFitnessVec(v, ideal, nadir)
        closest == MaxElement(N3Lines, LAMBDA line : InnerProduct(fnorm, line))
    IN  [ref |-> closest, dist |-> PerpendicularDistanceSq(N3Lines[closest], fnorm)]

\* associatePopWithRefs for the fronts up to a position; the others keep what
\* is remembered for their index.
AssociatePopWithRefs(pool, info, fronts, last) ==
    LET seen == {fronts[k] : k \in 1..last}
        found(i) == Association(pool[i], n3Ideal', n3Nadir')
    IN  [i \in DOMAIN info |->
           IF i \in seen THEN [info[i] EXCEPT !.ref = found(i).ref, !.dist = found(i).dist]
           ELSE info[i]]

RecalcNicheCounts(info, fronts, last) ==
    [ref \in References |-> Cardinality({k \in 1..last : info[fronts[k]].ref = ref})]

\* The references of the solutions at these positions, the lowest count first.
ReferenceSetOf(info, fronts, positions, counts) ==
    LET refs == EraseDuplicates([k \in 1..Cardinality(positions) |->
                                   info[fronts[Min(positions) + k - 1]].ref])
        order == Argsort(refs, LAMBDA lhs, rhs : counts[lhs] < counts[rhs])
    IN  [k \in DOMAIN refs |-> refs[order[k]]]

\* incrementNicheCount, with the counts after the increment.
MovedBack(refs, counts, ref) ==
    LET current == CHOOSE k \in DOMAIN refs : refs[k] = ref
        behind == {k \in current + 1..Len(refs) : counts[refs[k]] >= counts[ref]}
    IN  Exchanged(refs, current, Min(behind \cup {Len(refs) + 1}) - 1)

\* The position of the first of the closest solutions of the partial front.
FindClosestAssociated(ref) ==
    LET associated == {k \in n3Partial[1]..n3Partial[2] : n3Info[n3Fronts[k]].ref = ref}
    IN  CHOOSE k \in associated : \A l \in associated :
            /\ n3Info[n3Fronts[k]].dist <= n3Info[n3Fronts[l]].dist
            /\ n3Info[n3Fronts[k]].dist = n3Info[n3Fronts[l]].dist => k <= l

-----------------------------------------------------------------------------
\* ParetoFronts as it is filled by efficientNonDominatedSort: front by front,
\* each in the reverse of the order its solutions were inserted in.
FrontsOf(pool, ranks) ==
    Argsort([i \in DOMAIN pool |-> [rank |-> ranks[i], fitness |-> pool[i]]],
            LAMBDA lhs, rhs : \/ lhs.rank < rhs.rank
                              \/ /\ lhs.rank = rhs.rank
                                 /\ LexicographicallyGreater(rhs.fitness, lhs.fitness))

\* initializeImpl
N3Init ==
    /\ n3Pool \in [Places -> Fitness]
    /\ n3Ideal = MaxFitness(n3Pool)
    /\ n3Extremes = ExtremePoints(n3Ideal, n3Pool, <<>>)
    /\ n3Nadir = FindFrontNadirPoint(n3Extremes)
    /\ n3Info = [i \in Places |->
                   LET found == Association(n3Pool[i], n3Ideal, n3Nadir)
                   IN  [rank |-> RanksOf(n3Pool)[i], ref |-> found.ref, dist |-> found.dist]]
    /\ n3Counts = [ref \in References |-> Cardinality({i \in Places : n3Info[i].ref = ref})]
    /\ n3Fronts = <<>> /\ n3Partial = <<1, 0>> /\ n3Refs = <<>> /\ n3Picked = <<>>
    /\ n3Generation = 0

\* What is remembered for the parents, and nothing for the children.
Resized(info, ranks) ==
    [i \in DOMAIN ranks |-> IF i \in DOMAIN info THEN [info[i] EXCEPT !.rank = ranks[i]]
                            ELSE [rank |-> ranks[i], ref |-> 1, dist |-> 0]]

\* nextPopulationImpl, up to its loop.
N3NextPopulation(children) ==
    LET pool == n3Pool \o children
        ranks == RanksOf(pool)
        fronts == FrontsOf(pool, ranks)
        better == Cardinality({i \in DOMAIN pool : ranks[i] < Cut(ranks)})
        partial == IF PartialFront(ranks) = {} THEN <<PopulationSize + 1, PopulationSize>>
                   ELSE <<better + 1, better + Cardinality(PartialFront(ranks))>>
    IN  /\ Idle
        /\ n3Generation < N3MaxGen
        /\ n3Pool' = pool
        /\ n3Fronts' = fronts
        /\ n3Partial' = partial
        /\ n3Ideal' = ElementwiseMax(n3Ideal, MaxFitness(pool))
        /\ n3Extremes' = ExtremePoints(n3Ideal', pool, n3Extremes)
        /\ n3Nadir' = FindFrontNadirPoint(n3Extremes')
        /\ n3Info' = AssociatePopWithRefs(pool, Resized(n3Info, ranks), fronts, partial[2])
        /\ n3Counts' = RecalcNicheCounts(n3Info', fronts, partial[1] - 1)
        /\ n3Refs' = ReferenceSetOf(n3Info', fronts, partial[1]..partial[2], n3Counts')
        /\ n3Picked' = <<>>
        /\ n3Generation' = n3Generation + 1

\* How many are picked from the partial front.
ToPick == PopulationSize - (n3Partial[1] - 1)

\* A pass of the loop, for one of the references with the lowest count.  All
\* solutions of the pool that are remembered for it are counted.
PickFor(ref) ==
    LET counts == [n3Counts EXCEPT ![ref] = @ + 1]
        refs == MovedBack(n3Refs, counts, ref)
        closest == FindClosestAssociated(ref)
        associated == {k \in DOMAIN n3Fronts : n3Info[n3Fronts[k]].ref = ref}
    IN  /\ ~Idle
        /\ Len(n3Picked) < ToPick
        /\ ref \in ToSet(n3Refs)
        /\ \A k \in 1..(CHOOSE l \in DOMAIN n3Refs : n3Refs[l] = ref) :
             n3Counts[n3Refs[k]] = n3Counts[n3Refs[1]]
        /\ n3Counts' = counts
        /\ n3Refs' = IF Cardinality(associated) = 1 THEN EraseFirstStable(refs, ref) ELSE refs
        /\ n3Fronts' = Exchanged(n3Fronts, closest, n3Partial[1] + Len(n3Picked))
        /\ n3Picked' = Append(n3Picked, n3Fronts[closest])
        /\ UNCHANGED <<n3Pool, n3Partial, n3Info, n3Ideal, n3Nadir, n3Extremes, n3Generation>>

\* Variant: the traits stay those of the first solutions of the pool.
CreatePopulationOfPool ==
    /\ ~Idle
    /\ Len(n3Picked) = ToPick
    /\ n3Pool' = [i \in Places |-> n3Pool[n3Fronts[i]]]
    /\ n3Info' = [i \in Places |-> n3Info[i]]
    /\ n3Fronts' = <<>> /\ n3Partial' = <<1, 0>> /\ n3Refs' = <<>> /\ n3Picked' = <<>>
    /\ UNCHANGED <<n3Counts, n3Ideal, n3Nadir, n3Extremes, n3Generation>>

CreatePopulation ==
    /\ ~Idle
    /\ Len(n3Picked) = ToPick
    /\ n3Pool' = [i \in Places |-> n3Pool[n3Fronts[i]]]
    /\ n3Info' = [i \in Places |-> n3Info[n3Fronts[i]]]
    /\ n3Fronts' = <<>> /\ n3Partial' = <<1, 0>> /\ n3Refs' = <<>> /\ n3Picked' = <<>>
    /\ UNCHANGED <<n3Counts, n3Ideal, n3Nadir, n3Extremes, n3Generation>>

N3Next == \/ \E children \in N3Offspring : N3NextPopulation(children)
          \/ \E ref \in References : PickFor(ref)
          \/ CreatePopulation

N3Spec == N3Init /\ [][N3Next]_n3Vars

\* nichedCompare: whether the first of two places may win, randomly for
\* different references.
NichedCompare(i, j) ==
    IF n3Info[i].ref # n3Info[j].ref THEN BOOLEAN
    ELSE {IF n3Info[i].rank # n3Info[j].rank THEN n3Info[i].rank < n3Info[j].rank
          ELSE n3Info[i].dist < n3Info[j].dist}

-----------------------------------------------------------------------------
(* sol_info_ describes the population that selections use it with, at its  *)
(* new places and in the scale of this generation, though it was found for *)
(* parents and children, and keeps what it knew of others: ranks are those *)
(* of the population alone, and in a niche no dominated solution wins.     *)
TraitsDescribePopulation ==
    Idle =>
        /\ IsRanking([i \in Places |-> n3Info[i].rank], n3Pool)
        /\ \A i \in Places :
             LET exact == Association(n3Pool[i], n3Ideal, n3Nadir)
             IN  n3Info[i].ref = exact.ref /\ n3Info[i].dist = exact.dist
        /\ \A i, j \in Places :
             paretoCompareLess(n3Pool[i], n3Pool[j]) /\ n3Info[i].ref = n3Info[j].ref
                 => NichedCompare(i, j) = {FALSE}

(* The reference directions that are left stay ordered by their niche      *)
(* counts, so that the loop, which only looks at the first ones, always    *)
(* serves a direction with the lowest count.                               *)
LowestCountIsServed ==
    \A k, l \in DOMAIN n3Refs : k < l => n3Counts[n3Refs[k]] <= n3Counts[n3Refs[l]]

SolutionsAt(positions, ref) == {k \in positions : n3Info[n3Fronts[k]].ref = ref}
PicksFor(ref) == {k \in DOMAIN n3Picked : n3Info[n3Picked[k]].ref = ref}

(* What a niche count says of the solutions: it is the number of those     *)
(* before the partial front and of the picks made for the direction.  As   *)
(* long as no solution was picked again, that is the number of those kept  *)
(* so far; once one was (SelectedOnce), it counts twice, and the solution  *)
(* that was swapped in for it does not count.                              *)
CountsDescribeKept ==
    ~Idle => \A ref \in References :
        LET before == n3Partial[1] - 1
        IN  /\ n3Counts[ref] = Cardinality(SolutionsAt(1..before, ref)) + Cardinality(PicksFor(ref))
            /\ IsInjective(n3Picked) =>
                 n3Counts[ref] = Cardinality(SolutionsAt(1..before + Len(n3Picked), ref))

(* No solution is lost or kept twice by the swaps: what was picked stays   *)
(* among the survivors, with the closest of each direction served; none of *)
(* the discarded dominates a survivor.                                     *)
PickedSurvive ==
    ~Idle =>
        LET kept == {n3Fronts[k] : k \in 1..(n3Partial[1] - 1 + Len(n3Picked))}
        IN  /\ IsInjective(n3Fronts)
            /\ ToSet(n3Picked) \subseteq kept
            /\ \A k \in DOMAIN n3Picked, l \in n3Partial[1]..n3Partial[2] :
                 n3Info[n3Fronts[l]].ref = n3Info[n3Picked[k]].ref
                     => n3Info[n3Picked[k]].dist <= n3Info[n3Fronts[l]].dist
            /\ \A i \in kept, j \in DOMAIN n3Pool \ kept :
                 ~paretoCompareLess(n3Pool[i], n3Pool[j])

(* The picking and what it leaves to the next generation.                  *)
NichesAreServed ==
    TraitsDescribePopulation /\ LowestCountIsServed /\ CountsDescribeKept /\ PickedSurvive

(* "Move the selected candidate to the front of the partial front so it    *)
(* can't be selected again." (algorithm/nsga3.cpp:384)                     *)
SelectedOnce == IsInjective(n3Picked)
=============================================================================
