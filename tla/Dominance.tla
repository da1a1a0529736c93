----------------------------- MODULE Dominance -----------------------------
(***************************************************************************)
(* Pareto dominance between fitness vectors, as utility/math.hpp and       *)
(* utility/math.cpp define it for floating-point numbers that are compared *)
(* with a tolerance.  Fitness values are integers here; the tolerance is   *)
(* the same at every value, an absolute one.  A tolerance of zero makes    *)
(* the comparisons exact; with another one dominance is not transitive.    *)
(***************************************************************************)
EXTENDS Integers, FiniteSets

CONSTANTS NumObjectives,  \* the length of a fitness vector
          Fitness,        \* the fitness vectors a solution may have
          Tolerance       \* math::Tolerances, 1e-12 unless the user sets it

Objectives == 1 .. NumObjectives

ASSUME NumObjectivesAssumption == NumObjectives \in Nat
ASSUME FitnessAssumption == Fitness \subseteq [Objectives -> Int]
ASSUME ToleranceAssumption == Tolerance \in Nat

-----------------------------------------------------------------------------
floatIsLess(lhs, rhs) == rhs - lhs > Tolerance

paretoCompareLess(lhs, rhs) ==
    /\ \A o \in Objectives : ~floatIsLess(rhs[o], lhs[o])
    /\ \E o \in Objectives : floatIsLess(lhs[o], rhs[o])

\* Negative when rhs dominates, positive when lhs dominates.
paretoCompare(lhs, rhs) == IF paretoCompareLess(lhs, rhs) THEN -1
                           ELSE IF paretoCompareLess(rhs, lhs) THEN 1 ELSE 0

\* The comparison that the sorts of a fitness matrix use: exact, and descending.
LexicographicallyGreater(lhs, rhs) ==
    \E o \in Objectives : /\ lhs[o] > rhs[o]
                          /\ \A p \in 1 .. o - 1 : lhs[p] = rhs[p]

-----------------------------------------------------------------------------
(* What the algorithms promise about a fitness matrix f, a function from   *)
(* the indices of the solutions to their fitness vectors.                  *)

ParetoFront(f) ==
    {i \in DOMAIN f : \A j \in DOMAIN f : ~paretoCompareLess(f[i], f[j])}

\* Every solution is in the front right behind the best front it can be in:
\* behind all that dominate it, and behind the last one of them at once.
IsRanking(r, f) ==
    /\ DOMAIN r = DOMAIN f
    /\ \A i \in DOMAIN f :
         /\ r[i] \in Nat
         /\ \A j \in DOMAIN f : paretoCompareLess(f[i], f[j]) => r[j] < r[i]
         /\ r[i] > 0 => \E j \in DOMAIN f : /\ paretoCompareLess(f[i], f[j])
                                            /\ r[j] = r[i] - 1
=============================================================================
