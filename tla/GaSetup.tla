------------------------------- MODULE GaSetup -------------------------------
(***************************************************************************)
(* How a GA is put together before a run: the constructors, the setters of *)
(* GaInfo and GA<T>, and what initializeAlgorithm() does with them.  A part *)
(* that the user leaves open is deduced from the fitness function of the   *)
(* run: the algorithm from the number of objectives, the mutation rate     *)
(* from the length of the chromosomes.  Two flags remember what is open.   *)
(*                                                                         *)
(* One object is set up, run and set up again.  What happens in a run is   *)
(* the subject of GaRun; here a run only ends, or a user function throws.  *)
(* The assertions are compiled in: a call they refuse ends the history.    *)
(***************************************************************************)
EXTENDS Integers, Sequences

CONSTANTS SuLengths,      \* chromosome lengths
          SuDefaultRate,  \* GaTraits<T>::defaultMutationRate of a length, percent
          SuRates,        \* the rates that a user sets, percent
          SuPopSizes,
          SuMaxCalls      \* bound: setters and runs of one object

ASSUME SuAssumption ==
    /\ SuLengths \subseteq Nat \ {0} /\ SuPopSizes \subseteq Nat \ {0}
    /\ SuDefaultRate \in [SuLengths -> Nat] /\ SuRates \subseteq Nat \ {0}
    /\ SuMaxCalls \in Nat

VARIABLES
    suPhase,         \* "none", "ready", "running" or the assertion that failed
    suBounded,       \* is_bounded of the gene type
    suAlgorithm,     \* algorithm_
    suUseDefaultAlgorithm,
    suMutation,      \* mutation_
    suUseDefaultRate,
    suCrossover,     \* crossover_
    suStop,          \* stop_condition_
    suPopSize, suCachedGens,
    suFunction,      \* fitness_function_
    suObjectives,    \* num_objectives_
    suBounds,        \* the length of bounds_
    suCapacity,      \* the capacity of the fitness cache
    suPopulation,    \* the lengths of the chromosomes in population_
    suWant,          \* history: what the user chose, or left to the library, and whether
                     \* a constructor that leaves the algorithm open forgot to say so
    suCalls          \* history: the number of calls

suParts == <<suAlgorithm, suUseDefaultAlgorithm, suMutation, suUseDefaultRate, suCrossover,
             suStop, suPopSize, suCachedGens>>
suRun == <<suFunction, suObjectives, suBounds, suCapacity, suPopulation>>
suVars == <<suPhase, suBounded, suParts, suRun, suWant, suCalls>>

-----------------------------------------------------------------------------
Open == 0    \* no rate, or no length of bounds, was given

\* Algorithms by what they can be used for, and by who made them.
Alg(goal, owner) == [goal |-> goal, owner |-> owner]
Null == Alg("nullptr", "nullptr")     \* as a choice: it is left to the library
SingleObjective == Alg("one objective", "library")
UserAlgorithms == {Alg(g, "user") : g \in {"one objective", "many objectives"}}

\* A crossover or a mutation: its rate, and whether it takes any chromosome length.
Operator(rate, anyLength) == [rate |-> rate, anyLength |-> anyLength]
UserOperators == {Operator(p, v) : p \in SuRates, v \in BOOLEAN}
DefaultCrossover == Operator(80, FALSE)
DefaultMutation == Operator(1, FALSE)
CrossoverLambda == Operator(80, FALSE)
MutationLambda == Operator(1, FALSE)

SuFunctions == [len : SuLengths, objectives : {1, 2}, dynamic : BOOLEAN]
NoFunction == [len |-> 0, objectives |-> 0, dynamic |-> FALSE]

GoalOf(objectives) == IF objectives = 1 THEN "one objective" ELSE "many objectives"

\* Variant: NSGA-III is the default from one objective on.
AlwaysNsga3(objectives) == Alg("many objectives", "library")

DefaultAlgorithm(objectives) == Alg(GoalOf(objectives), "library")

SuInit ==
    /\ suPhase = "none" /\ suBounded \in BOOLEAN
    /\ suAlgorithm = SingleObjective /\ suUseDefaultAlgorithm = FALSE
    /\ suMutation = DefaultMutation /\ suUseDefaultRate = FALSE
    /\ suCrossover = DefaultCrossover
    /\ suStop = "never" /\ suPopSize = 100 /\ suCachedGens = 0
    /\ suFunction = NoFunction /\ suObjectives = 0 /\ suBounds = 0
    /\ suCapacity = 0 /\ suPopulation = <<>>
    /\ suWant = [algorithm |-> Null, rate |-> Open, crossover |-> 80, forgotten |-> FALSE]
    /\ suCalls = 0

-----------------------------------------------------------------------------
Or(pointer, default) == IF pointer = Null THEN default ELSE pointer

\* The GaInfo part of every constructor, and the operators of GA<T>.
Construct(algorithm, crossover, mutation, stop) ==
    /\ suPhase = "none" /\ suPhase' = "ready"
    /\ \E n \in SuPopSizes : suPopSize' = n
    /\ suAlgorithm' = Or(algorithm, SingleObjective)
    /\ suCrossover' = crossover /\ suMutation' = mutation
    /\ suStop' = stop
    /\ UNCHANGED <<suBounded, suCachedGens, suRun, suCalls>>

Flags(algorithmIsOpen, rateIsOpen) ==
    suUseDefaultAlgorithm' = algorithmIsOpen /\ suUseDefaultRate' = rateIsOpen

Wants(algorithm, rate, crossover, forgotten) ==
    suWant' = [algorithm |-> algorithm, rate |-> rate, crossover |-> crossover,
               forgotten |-> forgotten]

\* GA(population_size)
ConstructDefault ==
    /\ Construct(SingleObjective, DefaultCrossover, DefaultMutation, "never")
    /\ Flags(TRUE, TRUE)
    /\ Wants(Null, Open, 80, FALSE)

\* GA(population_size, algorithm), by pointer and by value.  A null pointer, which the
\* constructor of GaInfo has just taken for an open algorithm, counts as a choice here.
ConstructAlgorithm ==
    \E a \in UserAlgorithms \cup {Null} :
      /\ Construct(a, DefaultCrossover, DefaultMutation, "never")
      /\ Flags(FALSE, TRUE)
      /\ Wants(a, Open, 80, a = Null)

\* NoEarlyStop takes the place of a null pointer.
Stops == {"user's", "never"}

\* GA(population_size, crossover, mutation, stop_condition), by pointer.
ConstructOperators ==
    \E x, m \in UserOperators, s \in Stops :
      /\ Construct(SingleObjective, x, m, s)
      /\ Flags(TRUE, FALSE)
      /\ Wants(Null, m.rate, x.rate, FALSE)

\* The same by value: it delegates to the constructor with all of the parts, and
\* passes an algorithm, so that the one it leaves open counts as a choice.
ConstructOperatorValues ==
    \E x, m \in UserOperators, s \in Stops :
      /\ Construct(SingleObjective, x, m, s)
      /\ Flags(FALSE, FALSE)
      /\ Wants(Null, m.rate, x.rate, TRUE)

\* GA(population_size, algorithm, crossover, mutation, stop_condition), both ways.
ConstructAll ==
    \E a \in UserAlgorithms \cup {Null}, x, m \in UserOperators, s \in Stops :
      /\ Construct(a, x, m, s)
      /\ Flags(a = Null, FALSE)
      /\ Wants(a, m.rate, x.rate, FALSE)

-----------------------------------------------------------------------------
Call == suPhase = "ready" /\ suCalls < SuMaxCalls /\ suCalls' = suCalls + 1
Setter == Call /\ UNCHANGED <<suPhase, suBounded, suRun>>

\* algorithm(f) with a value, a pointer or nullptr.
SetAlgorithm(a) ==
    /\ Setter
    /\ suAlgorithm' = Or(a, SingleObjective)
    /\ suUseDefaultAlgorithm' = (a = Null)
    /\ suWant' = [suWant EXCEPT !.algorithm = a, !.forgotten = FALSE]
    /\ UNCHANGED <<suMutation, suUseDefaultRate, suCrossover, suStop, suPopSize, suCachedGens>>

\* stop_condition(f): a pointer, a callable or nullptr.
SetStopCondition(s) ==
    /\ Setter
    /\ suStop' = s
    /\ UNCHANGED <<suAlgorithm, suUseDefaultAlgorithm, suMutation, suUseDefaultRate,
                   suCrossover, suPopSize, suCachedGens, suWant>>

\* crossover_method(f)
SetCrossover(x) ==
    /\ Setter
    /\ suCrossover' = x
    /\ suWant' = [suWant EXCEPT !.crossover = x.rate]
    /\ UNCHANGED <<suAlgorithm, suUseDefaultAlgorithm, suMutation, suUseDefaultRate,
                   suStop, suPopSize, suCachedGens>>

\* crossover_rate(pc)
SetCrossoverRate(p) ==
    /\ Setter
    /\ suCrossover' = [suCrossover EXCEPT !.rate = p]
    /\ suWant' = [suWant EXCEPT !.crossover = p]
    /\ UNCHANGED <<suAlgorithm, suUseDefaultAlgorithm, suMutation, suUseDefaultRate,
                   suStop, suPopSize, suCachedGens>>

\* mutation_method(f) with a mutation: its rate counts.
SetMutation(m) ==
    /\ Setter
    /\ suMutation' = m /\ suUseDefaultRate' = FALSE
    /\ suWant' = [suWant EXCEPT !.rate = m.rate]
    /\ UNCHANGED <<suAlgorithm, suUseDefaultAlgorithm, suCrossover, suStop, suPopSize,
                   suCachedGens>>

\* mutation_method(f) with a callable: it has no rate of its own.
SetMutationLambda ==
    /\ Setter
    /\ suMutation' = MutationLambda /\ suUseDefaultRate' = TRUE
    /\ suWant' = [suWant EXCEPT !.rate = Open]
    /\ UNCHANGED <<suAlgorithm, suUseDefaultAlgorithm, suCrossover, suStop, suPopSize,
                   suCachedGens>>

\* Variant: the rate of the user is still taken for a deduced one.
SetMutationRateLeftOpen(p) ==
    /\ Setter
    /\ suMutation' = [suMutation EXCEPT !.rate = p]
    /\ suWant' = [suWant EXCEPT !.rate = p]
    /\ UNCHANGED <<suAlgorithm, suUseDefaultAlgorithm, suUseDefaultRate, suCrossover,
                   suStop, suPopSize, suCachedGens>>

\* mutation_rate(pm)
SetMutationRate(p) ==
    /\ Setter
    /\ suMutation' = [suMutation EXCEPT !.rate = p] /\ suUseDefaultRate' = FALSE
    /\ suWant' = [suWant EXCEPT !.rate = p]
    /\ UNCHANGED <<suAlgorithm, suUseDefaultAlgorithm, suCrossover, suStop, suPopSize,
                   suCachedGens>>

\* population_size(size) and cache_size(generations)
SetSizes(n, g) ==
    /\ Setter
    /\ suPopSize' = n /\ suCachedGens' = g
    /\ UNCHANGED <<suAlgorithm, suUseDefaultAlgorithm, suMutation, suUseDefaultRate,
                   suCrossover, suStop, suWant>>

-----------------------------------------------------------------------------
\* Where solve() ends: an assertion fails, a user function throws, or the run begins.
AnyLengthAllowed == suCrossover.anyLength /\ suMutation.anyLength
HasValidChromosome(f, len) == AnyLengthAllowed \/ len = f.len

\* generatePopulation: the supplied candidates that fit into the population, and
\* generated ones of the right length.
GeneratedPopulation(f, supplied) ==
    [i \in 1 .. suPopSize |-> IF i <= Len(supplied) THEN supplied[i] ELSE f.len]

Capacity(f) == IF f.dynamic THEN 0 ELSE suCachedGens * suPopSize

\* solve() with one pair of bounds repeats it for every gene.
BoundsFor(f, b) == IF b = Open THEN f.len ELSE b

Begin(f, b) ==
    /\ Call
    /\ suFunction' = f
    /\ suBounds' = IF suBounded THEN BoundsFor(f, b) ELSE suBounds
    /\ suCapacity' = Capacity(f)
    /\ UNCHANGED <<suBounded, suPopSize, suCachedGens, suCrossover, suStop, suWant>>

BoundsAreWrong(f, b) == suBounded /\ BoundsFor(f, b) # f.len

\* The bounds are checked before anything is assigned.
RefuseBounds(f, b) ==
    /\ Call
    /\ BoundsAreWrong(f, b)
    /\ suPhase' = "bounds refused"
    /\ UNCHANGED <<suBounded, suParts, suRun, suWant>>

\* The fitness or the constraints function throws, in findObjectiveProperties().
ThrowEarly(f, b) ==
    /\ Begin(f, b) /\ ~ BoundsAreWrong(f, b)
    /\ suPopulation' = <<>>
    /\ UNCHANGED <<suPhase, suAlgorithm, suUseDefaultAlgorithm, suMutation, suUseDefaultRate,
                   suObjectives>>

\* It throws when the initial population is evaluated.
ThrowLate(f, b, supplied) ==
    /\ Begin(f, b) /\ ~ BoundsAreWrong(f, b)
    /\ \A i \in DOMAIN supplied : HasValidChromosome(f, supplied[i])
    /\ suObjectives' = f.objectives
    /\ suPopulation' = GeneratedPopulation(f, supplied)
    /\ UNCHANGED <<suPhase, suAlgorithm, suUseDefaultAlgorithm, suMutation, suUseDefaultRate>>

\* The assertion on the initial population of the caller.
RefusePopulation(f, b, supplied) ==
    /\ Begin(f, b) /\ ~ BoundsAreWrong(f, b)
    /\ \E i \in DOMAIN supplied : ~ HasValidChromosome(f, supplied[i])
    /\ suObjectives' = f.objectives
    /\ suPopulation' = <<>>
    /\ suPhase' = "population refused"
    /\ UNCHANGED <<suAlgorithm, suUseDefaultAlgorithm, suMutation, suUseDefaultRate>>

\* The assertion of evaluate() that a dynamic function is never cached.
CachesDynamic(f) == f.dynamic /\ suCachedGens > 0

RefuseEvaluation(f, b, supplied) ==
    /\ Begin(f, b) /\ ~ BoundsAreWrong(f, b) /\ CachesDynamic(f)
    /\ \A i \in DOMAIN supplied : HasValidChromosome(f, supplied[i])
    /\ suObjectives' = f.objectives
    /\ suPopulation' = GeneratedPopulation(f, supplied)
    /\ suPhase' = "evaluation refused"
    /\ UNCHANGED <<suAlgorithm, suUseDefaultAlgorithm, suMutation, suUseDefaultRate>>

\* initializeAlgorithm(): the open parts are deduced, then the algorithm checks the
\* number of objectives.  The rate is assigned with the setter of the user.
Initialize(f, b, supplied) ==
    /\ Begin(f, b) /\ ~ BoundsAreWrong(f, b) /\ ~ CachesDynamic(f)
    /\ \A i \in DOMAIN supplied : HasValidChromosome(f, supplied[i])
    /\ suObjectives' = f.objectives
    /\ suPopulation' = GeneratedPopulation(f, supplied)
    /\ suAlgorithm' = IF suUseDefaultAlgorithm THEN DefaultAlgorithm(suObjectives')
                      ELSE suAlgorithm
    /\ UNCHANGED suUseDefaultAlgorithm
    /\ IF suAlgorithm'.goal # GoalOf(suObjectives')
       THEN /\ suPhase' = "algorithm refused"
            /\ UNCHANGED <<suMutation, suUseDefaultRate>>
       ELSE /\ suPhase' = "running"
            /\ IF suUseDefaultRate
               THEN /\ suMutation' = [suMutation EXCEPT !.rate = SuDefaultRate[f.len]]
                    /\ suUseDefaultRate' = FALSE
               ELSE UNCHANGED <<suMutation, suUseDefaultRate>>

\* The run is over, or a user function has thrown in one of its generations.
EndRun == /\ suPhase = "running" /\ suPhase' = "ready"
          /\ UNCHANGED <<suBounded, suParts, suRun, suWant, suCalls>>

Set == \/ \E a \in UserAlgorithms \cup {Null} : SetAlgorithm(a)
       \/ \E s \in Stops : SetStopCondition(s)
       \/ \E x \in UserOperators \cup {CrossoverLambda} : SetCrossover(x)
       \/ \E m \in UserOperators : SetMutation(m)
       \/ \E p \in SuRates : SetCrossoverRate(p) \/ SetMutationRate(p)
       \/ SetMutationLambda
       \/ \E n \in SuPopSizes, g \in {0, 2} : SetSizes(n, g)

\* Initial populations: none, one candidate, or one more than there is room for.
SuSupplied == {<<>>} \cup {<<n>> : n \in SuLengths} \cup
            {[i \in 1 .. suPopSize + 1 |-> n] : n \in SuLengths}

SuSolve == \E f \in SuFunctions, b \in (IF suBounded THEN SuLengths ELSE {}) \cup {Open} :
             \/ RefuseBounds(f, b) \/ ThrowEarly(f, b)
             \/ \E s \in SuSupplied : \/ ThrowLate(f, b, s) \/ RefusePopulation(f, b, s)
                                    \/ RefuseEvaluation(f, b, s) \/ Initialize(f, b, s)

SuNext == \/ ConstructDefault \/ ConstructAlgorithm \/ ConstructOperators
          \/ ConstructOperatorValues \/ ConstructAll
          \/ Set \/ SuSolve \/ EndRun

SuSpec == SuInit /\ [][SuNext]_suVars

-----------------------------------------------------------------------------
\* What the user has chosen stays chosen, over any sequence of setters and of runs
\* that end, are refused or throw: what the library deduces for one run never
\* replaces it.
ChoicesSurvive ==
    suPhase # "none" =>
      /\ suWant.algorithm # Null => suAlgorithm = suWant.algorithm
      /\ suWant.rate # Open => suMutation.rate = suWant.rate
      /\ suCrossover.rate = suWant.crossover

\* Everything a run starts from belongs to its own fitness function, whatever the
\* earlier runs have left behind: the population, the bounds, the cache and the
\* algorithm.  One that nobody chose is deduced anew for every function and never the
\* one that refuses it: a run is refused only for an algorithm that the user chose, or
\* if a constructor forgot that it was left open and no setter opened it again
\* (AlgorithmIsDeduced says so without this exception).
RunFitsFunction ==
    /\ suPhase = "running" =>
         /\ suAlgorithm.goal = GoalOf(suFunction.objectives)
         /\ Len(suPopulation) = suPopSize
         /\ \A i \in DOMAIN suPopulation : AnyLengthAllowed \/ suPopulation[i] = suFunction.len
         /\ suBounded => suBounds = suFunction.len
         /\ suCapacity > 0 => ~ suFunction.dynamic /\ suCapacity % suPopSize = 0
    /\ suPhase = "algorithm refused" =>
         \/ suWant.algorithm # Null /\ suWant.algorithm.goal # GoalOf(suFunction.objectives)
         \/ suWant.forgotten

\* ga_base.decl.hpp: the algorithm is deduced from the number of objectives when the
\* user has not chosen one, so that no run is refused for it.
AlgorithmIsDeduced == suPhase = "algorithm refused" => suWant.algorithm # Null

\* ga_base.decl.hpp: the cache is disabled for a dynamic fitness function, regardless of
\* the size that was set, so that no run is refused for it.
CacheYieldsToDynamic == suPhase # "evaluation refused"

\* ga_base.decl.hpp: the mutation probability is deduced from the chromosome length
\* when the user has not set one.
RateIsDeduced ==
    suPhase = "running" /\ suWant.rate = Open =>
      suMutation.rate = SuDefaultRate[suFunction.len]

=============================================================================
