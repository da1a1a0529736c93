-------------------------------- MODULE Soga --------------------------------
(***************************************************************************)
(* The single-objective algorithm (algorithm/single_objective.hpp) with    *)
(* its selections (soga_selection.cpp) and replacements                    *)
(* (soga_replacement.cpp), generation by generation.  A solution is its    *)
(* fitness value; the children of a generation are any solutions.          *)
(*                                                                         *)
(* A selection that depends on all of the population keeps its cumulative  *)
(* distribution in cdf_: it is prepared before the first selection of a    *)
(* generation.  Weights are integers, each method with a unit of its own;  *)
(* the factors that make the sum of the weights one are left out.          *)
(***************************************************************************)
EXTENDS Dominance, Algorithms

CONSTANTS
    SgSize,         \* population_size
    SgValues,       \* the fitness values a solution may have
    SgTourneySize,  \* tourney_size_
    SgElites,       \* values of n_ of Elitism
    SgWeights,      \* weights of Rank: min_weight_, max_weight_
    SgOffspring,    \* the children a generation may have
    SgMaxGen        \* bound: number of generations

ASSUME SogaAssumption ==
    /\ SgSize \in Nat \ {0, 1} /\ SgValues \subseteq Int
    /\ SgOffspring \subseteq [1..SgSize -> SgValues]
    /\ SgTourneySize \in Nat \ {0} /\ SgElites \subseteq Nat
    /\ SgWeights \subseteq {w \in Nat \X Nat : w[1] <= w[2]}

VARIABLES
    sgPopulation,   \* the current population
    sgSurvivors,    \* its indices in the pool of parents and children it was taken from
    sgSelection,    \* selection_: the method and its parameters
    sgCdf,          \* cdf_
    sgReplacement,  \* replacement_
    sgSelected,     \* whether the generation may select
    sgGeneration

sgVars == <<sgPopulation, sgSurvivors, sgSelection, sgCdf, sgReplacement, sgSelected, sgGeneration>>

SelectionMethods ==
    {[method |-> m] : m \in {"roulette", "tournament", "sigma", "boltzmann"}}
        \cup {[method |-> "rank", weights |-> w] : w \in SgWeights}
Replacements ==
    {[method |-> m] : m \in {"children", "best"}} \cup {[method |-> "elitism", n |-> n] : n \in SgElites}

-----------------------------------------------------------------------------
(* Weights of a population. *)

SumOf(s) == FoldLeft(LAMBDA sum, x : sum + x, 0, s)
SquareRoot(x) == CHOOSE r \in 0..x : r * r <= x /\ (r + 1) * (r + 1) > x

\* Negative values are moved up; times 3.
RouletteWeights(f) ==
    LET lowest == Min(Range(f))
    IN  [i \in DOMAIN f |-> IF lowest < 0 THEN f[i] - 2 * lowest ELSE 3 * f[i]]

\* Times Len(f) - 1.
RankWeights(f, weights) ==
    LET order == Argsort(f, <)
        Rank(i) == CHOOSE k \in DOMAIN order : order[k] = i
    IN  [i \in DOMAIN f |-> weights[1] * (Len(f) - 1) + (Rank(i) - 1) * (weights[2] - weights[1])]

\* In standard deviations, rounded down: times Len(f) and that deviation.
SigmaWeights(f) ==
    LET n == Len(f)
        deviation == SquareRoot(n * SumOf([i \in DOMAIN f |-> f[i] * f[i]]) - SumOf(f) * SumOf(f))
    IN  [i \in DOMAIN f |-> IF deviation = 0 THEN 1
                            ELSE Max({0, deviation + n * f[i] - SumOf(f)})]

\* A power that grows with the generations, as the temperature falls.
BoltzmannWeights(f, generation) ==
    [i \in DOMAIN f |-> 2 ^ ((f[i] - Min(Range(f))) * (generation + 1))]

\* Without any weight, all are equally likely.
WeightsToCdf(weights) ==
    LET wsum == SumOf(weights)
    IN  [i \in DOMAIN weights |-> IF wsum = 0 THEN i
                                  ELSE SumOf(SubSeq(weights, 1, i))]

CdfOf(selection, f, generation) ==
    CASE selection.method = "roulette" -> WeightsToCdf(RouletteWeights(f))
      [] selection.method = "rank" -> WeightsToCdf(RankWeights(f, selection.weights))
      [] selection.method = "sigma" -> WeightsToCdf(SigmaWeights(f))
      [] selection.method = "boltzmann" -> WeightsToCdf(BoltzmannWeights(f, generation))
      [] selection.method = "tournament" -> <<>>

\* What may be drawn: tournaments, or numbers from zero to below the end of the
\* distribution.  Doubled, the odd ones stand for the intervals between its
\* values, and the even ones for the values, which are drawn next to never.
Drawn(cdf) == 0..(2 * Last(cdf) - 1)
Selects(cdf, t) == LowerBound([k \in DOMAIN cdf |-> 2 * cdf[k]], t)
Chances(selection, cdf, f, i) ==
    IF selection.method = "tournament"
    THEN {d \in [1..SgTourneySize -> DOMAIN f] : d[MaxElement(d, LAMBDA k : f[k])] = i}
    ELSE {t \in Drawn(cdf) : t % 2 = 1 /\ Selects(cdf, t) = i}

-----------------------------------------------------------------------------
(* Replacements: the survivors of a pool, parents first. *)

Descending(lhs, rhs) == floatIsLess(rhs, lhs)

KeepChildren == [i \in 1..SgSize |-> SgSize + i]

\* Variant: the place of a child is not moved by the elite.
ElitismGap(pool, n) ==
    LET elite == Min({n, SgSize})
        sorted == Argsort(SubSeq(pool, 1, SgSize), Descending)
    IN  [i \in 1..SgSize |-> IF i <= elite THEN sorted[i] ELSE i]

Elitism(pool, n) ==
    LET elite == Min({n, SgSize})
        sorted == Argsort(SubSeq(pool, 1, SgSize), Descending)
    IN  [i \in 1..SgSize |-> IF i <= elite THEN sorted[i] ELSE SgSize + i - elite]

KeepBest(pool) == SubSeq(Argsort(pool, Descending), 1, SgSize)

SurvivorsOf(replacement, pool) ==
    CASE replacement.method = "children" -> KeepChildren
      [] replacement.method = "best" -> KeepBest(pool)
      [] replacement.method = "elitism" -> Elitism(pool, replacement.n)

-----------------------------------------------------------------------------
SgInit ==
    /\ sgPopulation \in [1..SgSize -> SgValues]
    /\ sgSurvivors = [i \in 1..SgSize |-> i]
    /\ sgSelection \in SelectionMethods /\ sgReplacement \in Replacements
    /\ sgCdf = <<>> /\ sgSelected = FALSE /\ sgGeneration = 0

\* Variant: done when nothing is prepared yet.
PrepareSelectionsOnce ==
    /\ ~sgSelected
    /\ sgSelected' = TRUE
    /\ sgCdf' = IF sgCdf = <<>> THEN CdfOf(sgSelection, sgPopulation, sgGeneration) ELSE sgCdf
    /\ UNCHANGED <<sgPopulation, sgSurvivors, sgSelection, sgReplacement, sgGeneration>>

PrepareSelections ==
    /\ ~sgSelected
    /\ sgSelected' = TRUE
    /\ sgCdf' = CdfOf(sgSelection, sgPopulation, sgGeneration)
    /\ UNCHANGED <<sgPopulation, sgSurvivors, sgSelection, sgReplacement, sgGeneration>>

SgNextPopulation(children) ==
    /\ sgSelected
    /\ sgGeneration < SgMaxGen
    /\ LET pool == sgPopulation \o children
           survivors == SurvivorsOf(sgReplacement, pool)
       IN  /\ sgSurvivors' = survivors
           /\ sgPopulation' = [i \in 1..SgSize |-> pool[survivors[i]]]
    /\ sgSelected' = FALSE
    /\ sgGeneration' = sgGeneration + 1
    /\ UNCHANGED <<sgSelection, sgCdf, sgReplacement>>

\* selection_method(): a new object, used from the next generation on.
SetSelection ==
    /\ ~sgSelected
    /\ sgSelection' \in SelectionMethods
    /\ sgCdf' = <<>>
    /\ UNCHANGED <<sgPopulation, sgSurvivors, sgReplacement, sgSelected, sgGeneration>>

SetReplacement ==
    /\ ~sgSelected
    /\ sgReplacement' \in Replacements
    /\ UNCHANGED <<sgPopulation, sgSurvivors, sgSelection, sgCdf, sgSelected, sgGeneration>>

SgNext ==
    \/ PrepareSelections
    \/ \E children \in SgOffspring : SgNextPopulation(children)
    \/ SetSelection
    \/ SetReplacement

SgSpec == SgInit /\ [][SgNext]_sgVars

-----------------------------------------------------------------------------
(* Whatever the method, the values and the generations before: every draw  *)
(* selects a solution of the current population, and a better one is drawn *)
(* at least as often as a worse one.                                       *)
BetterIsLikelier ==
    sgSelected =>
        LET f == sgPopulation
            chances == [i \in 1..SgSize |-> Chances(sgSelection, sgCdf, f, i)]
        IN  /\ sgCdf # <<>> => \A t \in Drawn(sgCdf) : Selects(sgCdf, t) \in 1..SgSize
            /\ \A i, j \in 1..SgSize :
                   f[i] > f[j] => Cardinality(chances[i]) >= Cardinality(chances[j])

(* No replacement keeps a solution twice (it is moved out of the pool when *)
(* it is kept), and those with an elite never lose the best of the parents.*)
ReplacementKeepsTheBest ==
    [][sgGeneration' # sgGeneration =>
        /\ IsInjective(sgSurvivors')
        /\ (sgReplacement.method = "best" \/ (sgReplacement.method = "elitism" /\ sgReplacement.n > 0))
               => Max(Range(sgPopulation)) <= Max(Range(sgPopulation'))]_sgVars
=============================================================================
