------------------------------ MODULE Metrics -------------------------------
(***************************************************************************)
(* Statistics of a population (metrics/pop_stats.cpp, core/population.cpp) *)
(* and the metrics that record them generation by generation.  A           *)
(* population is its fitness matrix, a sequence of fitness vectors; values *)
(* are integers that are compared exactly.  Volumes are numbers of cells   *)
(* of the grid, so that the reference definition can count them.           *)
(***************************************************************************)
EXTENDS PopStats

CONSTANTS MtMatrices,  \* the fitness matrices a generation may have
          MtRefPoint,  \* ref_point_ of Hypervolume, dominated by all vectors
          MtInfinity,  \* larger than any fitness value
          MtMaxGen     \* bound: number of generations

ASSUME MetricsAssumption ==
    /\ \A m \in MtMatrices : m \in Seq(Fitness) /\ m # <<>>
    /\ \A v \in Fitness, o \in Objectives : MtRefPoint[o] <= v[o] /\ v[o] < MtInfinity

-----------------------------------------------------------------------------
(* Statistics of a matrix. *)

\* Means are kept as sums, times Len(f), and variances times Len(f)^2 * (Len(f) - 1).
FitnessMean(f) == [o \in Objectives |-> FoldLeft(LAMBDA sum, v : sum + v[o], 0, f)]
FitnessVariance(f) ==
    [o \in Objectives |->
        FoldLeft(LAMBDA sum, v : sum + (Len(f) * v[o] - FitnessMean(f)[o]) ^ 2, 0, f)]

FindIndices(f, Pred(_)) == SelectSeq([i \in DOMAIN f |-> i], LAMBDA i : Pred(f[i]))

FindParetoFront1D(f) ==
    LET best == MaxFitness(f)[1]
    IN  FindIndices(f, LAMBDA v : v[1] = best)

\* argsort, descending: the indices of equal vectors in any order, here their own.
LexicographicOrder(f) ==
    SetToSortSeq(DOMAIN f, LAMBDA i, j : \/ LexicographicallyGreater(f[i], f[j])
                                         \/ f[i] = f[j] /\ i < j)

FindParetoFrontSort(f) ==
    LET Step(optimal, i) ==
            IF \E k \in ToSet(optimal) : paretoCompareLess(f[i], f[k]) THEN optimal
            ELSE Append(optimal, i)
    IN  FoldLeft(Step, <<>>, LexicographicOrder(f))

RECURSIVE KungImpl(_, _)
KungImpl(f, sorted) ==
    IF Len(sorted) = 1 THEN sorted
    ELSE LET middle == Len(sorted) \div 2
             top == KungImpl(f, SubSeq(sorted, 1, middle))
             bottom == KungImpl(f, SubSeq(sorted, middle + 1, Len(sorted)))
             Step(front, bad) ==
                 IF \E good \in ToSet(front) : paretoCompareLess(f[bad], f[good]) THEN front
                 ELSE Append(front, bad)
         IN  FoldLeft(Step, top, bottom)

FindParetoFrontKung(f) == KungImpl(f, LexicographicOrder(f))

\* The front is searched by FindParetoFront; its order makes no difference here.
FindNadirPoint(f) ==
    LET front == IF NumObjectives = 1 THEN FindParetoFront1D(f) ELSE FindParetoFrontSort(f)
    IN  FindFrontNadirPoint([k \in DOMAIN front |-> f[front[k]]])

-----------------------------------------------------------------------------
(* Hypervolumes. *)

VolumeBetween(v, w) ==
    LET prod == FoldLeft(LAMBDA p, o : p * (v[o] - w[o]), 1, [o \in Objectives |-> o])
    IN  Max({prod, -prod})

UniqueSortedParetoFront(f) ==
    LET Step(front, i) == IF front # <<>> /\ f[i] = Last(front) THEN front ELSE Append(front, f[i])
    IN  FoldLeft(Step, <<>>, FindParetoFrontSort(f))

\* Variant: the limit is left out.
LimitSetNot(f, limit) == f

LimitSet(f, limit) == [i \in DOMAIN f |-> ElementwiseMin(f[i], limit)]

RECURSIVE HypervolumeOf(_, _)
\* What a point adds to the volume of those behind it, summed up over the front.
HypervolumeOf(f, ref) ==
    LET front == UniqueSortedParetoFront(f)
        Rest(k) == SubSeq(front, k + 1, Len(front))
        Exclusive(k) == VolumeBetween(front[k], ref) - HypervolumeOf(LimitSet(Rest(k), front[k]), ref)
    IN  FoldLeft(LAMBDA sum, k : sum + Exclusive(k), 0, [k \in DOMAIN front |-> k])

-----------------------------------------------------------------------------
(* The metrics of a run. *)

VARIABLES mtPops,      \* the matrices of the generations so far
          mtFitness,   \* data_ of FitnessMin, FitnessMax, FitnessMean, FitnessVariance
          mtNadir,     \* data_ of NadirPoint
          mtVolumes,   \* data_ of Hypervolume
          mtWorst,     \* worst_point_ of AutoHypervolume
          mtIdeals,    \* ideal_points_
          mtData       \* data_

mtVars == <<mtPops, mtFitness, mtNadir, mtVolumes, mtWorst, mtIdeals, mtData>>

\* initialize: the data of a run before are cleared.
MtInitialize ==
    /\ mtPops' = <<>> /\ mtFitness' = <<>> /\ mtNadir' = <<>> /\ mtVolumes' = <<>>
    /\ mtWorst' = [o \in Objectives |-> MtInfinity]
    /\ mtIdeals' = <<>> /\ mtData' = <<>>

MtInit ==
    /\ mtPops = <<>> /\ mtFitness = <<>> /\ mtNadir = <<>> /\ mtVolumes = <<>>
    /\ mtWorst = [o \in Objectives |-> MtInfinity]
    /\ mtIdeals = <<>> /\ mtData = <<>>

\* The volumes before are carried over to another reference point.
Corrected(data, ideals, prev, worst) ==
    IF worst = prev THEN data
    ELSE [i \in DOMAIN data |->
            data[i] + VolumeBetween(ideals[i], worst) - VolumeBetween(ideals[i], prev)]

RecordedFitness(f) == [min |-> MinFitness(f), max |-> MaxFitness(f),
                       mean |-> FitnessMean(f), variance |-> FitnessVariance(f)]

MtUpdate(f) ==
    LET worst == ElementwiseMin(mtWorst, MinFitness(f))
    IN  /\ Len(mtPops) < MtMaxGen
        /\ mtPops' = Append(mtPops, f)
        /\ mtFitness' = Append(mtFitness, RecordedFitness(f))
        /\ mtNadir' = Append(mtNadir, FindNadirPoint(f))
        /\ mtVolumes' = Append(mtVolumes, HypervolumeOf(f, MtRefPoint))
        /\ mtWorst' = worst
        /\ mtData' = Append(Corrected(mtData, mtIdeals, mtWorst, worst), HypervolumeOf(f, worst))
        /\ mtIdeals' = Append(mtIdeals, MaxFitness(f))

MtNext == (\E f \in MtMatrices : MtUpdate(f)) \/ (mtPops # <<>> /\ MtInitialize)

MtSpec == MtInit /\ [][MtNext]_mtVars

-----------------------------------------------------------------------------
\* The cells of the grid between ref and one of the vectors of f.
Cells(f, ref) ==
    UNION {{c \in [Objectives -> Min(Range(ref))..MtInfinity] :
                \A o \in Objectives : ref[o] <= c[o] /\ c[o] < v[o]} : v \in Range(f)}

\* It is for two objectives that the corrections are exact.
VolumesAreExact ==
    \A g \in DOMAIN mtPops :
        /\ mtVolumes[g] = Cardinality(Cells(mtPops[g], MtRefPoint))
        /\ mtData[g] = Cardinality(Cells(mtPops[g], mtWorst))

StatisticsAreExact ==
    \A g \in DOMAIN mtPops : LET f == mtPops[g] IN
        /\ ToSet(FindParetoFrontSort(f)) = ParetoFront(f) /\ IsInjective(FindParetoFrontSort(f))
        /\ ToSet(FindParetoFrontKung(f)) = ParetoFront(f) /\ IsInjective(FindParetoFrontKung(f))
        /\ \A o \in Objectives :
            /\ mtNadir[g][o] = Min({f[i][o] : i \in ParetoFront(f)})
            /\ mtFitness[g].variance[o] =
                   Len(f) * MapThenSumSet(LAMBDA ij : (f[ij[1]][o] - f[ij[2]][o]) ^ 2,
                                          {ij \in (DOMAIN f) \X (DOMAIN f) : ij[1] < ij[2]})

(* What the metrics have recorded is what their definitions say of the     *)
(* population of that generation.  The recursive volume, and the one that  *)
(* is carried over from generation to generation as the reference point    *)
(* moves, is the volume that the population dominates: "every generation's *)
(* hypervolume is computed relative to the same reference point"           *)
(* (distribution_metrics.hpp).  The searches for a Pareto front find it,   *)
(* with all duplicates and none of its solutions twice, the nadir point is *)
(* the corner of that front, and the variance is that of the pairs.        *)
MetricsAreExact == VolumesAreExact /\ StatisticsAreExact
=============================================================================
