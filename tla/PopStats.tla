------------------------------ MODULE PopStats ------------------------------
(***************************************************************************)
(* Extreme values of the fitness vectors of a population, a sequence of    *)
(* them (metrics/pop_stats.cpp, utility/functional.hpp).                   *)
(***************************************************************************)
EXTENDS Dominance, Sequences, SequencesExt, FiniteSetsExt, Functions

ElementwiseMin(v, w) == [o \in Objectives |-> Min({v[o], w[o]})]
ElementwiseMax(v, w) == [o \in Objectives |-> Max({v[o], w[o]})]

MinFitness(f) == FoldLeft(ElementwiseMin, f[1], f)
MaxFitness(f) == FoldLeft(ElementwiseMax, f[1], f)

FindFrontNadirPoint(points) == FoldLeft(ElementwiseMin, points[1], points)
=============================================================================
