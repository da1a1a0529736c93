-------------------------------- MODULE GaRun --------------------------------
(***************************************************************************)
(* GA<T>::solve(): one object that is configured and run again and again.  *)
(* A run evaluates an initial population, then replaces it generation by   *)
(* generation until the stop condition or the generation limit ends it, or *)
(* until an exception of a user function leaves solve().  The loops of a   *)
(* generation run in parallel: their iterations end in any order.          *)
(*                                                                         *)
(* The encoding, the operators and the algorithm are chosen by the user:   *)
(* a crossover or a mutation yields any chromosome, the selection any      *)
(* parent and the algorithm any survivors.  What is modelled is what the   *)
(* framework does with them: which fitness a candidate carries, when it is *)
(* computed, what is kept of one generation, and of one run, in the next.  *)
(***************************************************************************)
EXTENDS Integers, Sequences, FiniteSets

CONSTANTS Chroms,      \* chromosomes
          Functions,   \* fitness functions
          Dynamic,     \* the functions declared as Type::Dynamic
          Fit,         \* Fit[f][c]: the fitness vectors that f may return for c
          Violation,   \* Violation[c]: the constraint violation of c
          RepairOf,    \* RepairOf[c]: what the repair function makes of c
          Settings,    \* the combinations of settings that solve() is called with
          MaxGens,     \* the limits that max_gen() is called with
          Unset        \* no constraint violation computed yet

ASSUME GaAssumption ==
    /\ Dynamic \subseteq Functions
    /\ \A f \in Functions, c \in Chroms : Fit[f][c] # {} /\ <<>> \notin Fit[f][c]
    /\ \A f \in Functions \ Dynamic, c \in Chroms : \E v \in Fit[f][c] : Fit[f][c] = {v}
    /\ \A f \in Functions, c, d \in Chroms : \A u \in Fit[f][c], v \in Fit[f][d] :
          u \in Seq(Int) /\ Len(u) = Len(v)      \* the number of objectives
    /\ Violation \in [Chroms -> Nat] /\ Unset \notin Nat
    /\ RepairOf \in [Chroms -> Chroms]
    /\ Settings \subseteq [popSize : Nat \ {0}, cachedGens : Nat, keepAll : BOOLEAN,
                            maxGen : Nat \ {0}]
    /\ MaxGens \subseteq Nat \ {0}

VARIABLES
    phase,           \* where solve() is
    debugBuild,      \* are the assertions compiled in
    popSize, cachedGens, keepAll, maxGen,     \* the settings
    callerMaxGen,    \* what restore_on_exit will put back in max_gen_
    fn,              \* the fitness function of the last run
    population, children, solutions,
    todo,            \* the iterations of the parallel loop that have not ended
    entries, capacity,                        \* fitness_cache_
    generation, evals,
    metric,          \* the sum of the data of a FitnessEvaluations monitor
    metricSum,       \* its sum_
    seen,            \* the generation numbers that the callback has read
    met              \* history: the chromosomes of every population of the run

settings == <<debugBuild, popSize, cachedGens, keepAll>>
limits == <<maxGen, callerMaxGen>>
cacheVars == <<entries, capacity>>
reports == <<generation, metric, metricSum, seen, met>>
vars == <<phase, settings, limits, fn, population, children, solutions, todo,
          cacheVars, evals, reports>>

\* The fitness cache, as FifoCache is shown to implement it.
Cache == INSTANCE FifoMap WITH Keys <- Chroms,
             Values <- UNION {Fit[f][c] : f \in Functions, c \in Chroms},
             Capacities <- {s.popSize * s.cachedGens : s \in Settings}

-----------------------------------------------------------------------------
\* A candidate; the fitness vector is empty until it is evaluated.
Cand(c, fitness, cv) == [chrom |-> c, fitness |-> fitness, cv |-> cv]
Fresh(c) == Cand(c, <<>>, Unset)
IsEvaluated(sol) == sol.fitness # <<>>
Elems(s) == {s[i] : i \in DOMAIN s}
ChromsOf(s) == {s[i].chrom : i \in DOMAIN s}
IsDynamic == fn \in Dynamic

\* math::paretoCompareLess, maximization of every objective.
Dominates(u, v) == /\ \A i \in DOMAIN u : u[i] >= v[i]
                   /\ \E i \in DOMAIN u : u[i] > v[i]
ParetoFront(S) == {s \in S : ~ \E t \in S : Dominates(t.fitness, s.fitness)}

\* Candidates that are evaluated may be assigned to a child as they are.  A
\* crossover that is performed gives a child the fitness of an equal parent.
Inherited(c, p1, p2) == IF c = p1.chrom THEN p1.fitness
                        ELSE IF c = p2.chrom THEN p2.fitness ELSE <<>>

Crossovers(p1, p2) ==
    {<<p1, p2>>} \cup
    (IF p1.chrom = p2.chrom THEN {}
     ELSE {<<Cand(c1, Inherited(c1, p1, p2), p1.cv), Cand(c2, Inherited(c2, p1, p2), p2.cv)>> :
             c1, c2 \in Chroms})

\* Variant: a mutated candidate keeps its fitness.
MutatedKeepsFitness(sol, c) == [sol EXCEPT !.chrom = c]

Mutated(sol, c) == [sol EXCEPT !.chrom = c,
                               !.fitness = IF c = sol.chrom THEN @ ELSE <<>>]

Validated(sol) == [sol EXCEPT !.cv = Violation[sol.chrom]]

Repaired(sol) == IF RepairOf[sol.chrom] = sol.chrom THEN sol
                 ELSE Validated(Cand(RepairOf[sol.chrom], <<>>, sol.cv))

-----------------------------------------------------------------------------
\* evaluate(): the fitness is still right, is cached, or has to be computed.
MayReuse(sol) == ~ IsDynamic /\ IsEvaluated(sol)
IsCached(sol) == cachedGens > 0 /\ sol.chrom \in Cache!KeysOf(entries)
CachedFitness(c) == entries[CHOOSE i \in DOMAIN entries : entries[i].key = c].value

Evaluations(sol) ==
    IF MayReuse(sol) THEN {sol}
    ELSE IF IsCached(sol) THEN {[sol EXCEPT !.fitness = CachedFitness(sol.chrom)]}
    ELSE {[sol EXCEPT !.fitness = v] : v \in Fit[fn][sol.chrom]}

CallsNeeded(sol) == IF MayReuse(sol) \/ IsCached(sol) THEN 0 ELSE 1

\* The assertion of evaluate() that a dynamic function is never cached.
AssertionFails(sol) == debugBuild /\ ~ MayReuse(sol) /\ cachedGens > 0 /\ IsDynamic

-----------------------------------------------------------------------------
Init == /\ phase = "idle" /\ debugBuild \in BOOLEAN
        /\ popSize = 100 /\ cachedGens = 0 /\ keepAll = FALSE
        /\ maxGen \in MaxGens /\ callerMaxGen = maxGen
        /\ fn \in Functions
        /\ population = <<>> /\ children = <<>> /\ solutions = {} /\ todo = {}
        /\ entries = <<>> /\ capacity = 0
        /\ generation = 0 /\ evals = 0
        /\ metric = 0 /\ metricSum = 0 /\ seen = <<>> /\ met = {}

\* The setter of the limit, called between runs.
SetMaxGen(m) ==
    /\ phase = "idle"
    /\ maxGen' = m /\ callerMaxGen' = m
    /\ UNCHANGED <<phase, settings, fn, population, children, solutions, todo,
                   cacheVars, evals, reports>>

\* The candidates that a caller may hand over: unevaluated ones and those of the
\* last run, as long as the function stays the same.
Supplied(f) == {Fresh(c) : c \in Chroms} \cup (IF f = fn THEN solutions ELSE {})

\* generatePopulation: the supplied candidates that fit, then generated ones.
InitialPopulations(f, n) == [1 .. n -> Supplied(f)]

ResetCache(f) == entries' = <<>>

\* Variant: the solutions of the last run stay.
KeepSolutions == UNCHANGED solutions

ClearSolutions == solutions' = {}

\* The other setters, as far as they were called since the last run, and solve()
\* up to the evaluation of the initial population.
Solve(f, s, pop) ==
    /\ phase = "idle"
    /\ phase' = "initial"
    /\ popSize' = s.popSize /\ cachedGens' = s.cachedGens /\ keepAll' = s.keepAll
    /\ fn' = f
    /\ callerMaxGen' = maxGen /\ maxGen' = s.maxGen
    /\ generation' = 0 /\ evals' = 0
    /\ ClearSolutions
    /\ population' = pop /\ children' = <<>>
    /\ ResetCache(f)
    /\ capacity' = IF f \in Dynamic THEN 0 ELSE s.cachedGens * s.popSize
    /\ todo' = DOMAIN pop
    /\ seen' = <<>> /\ met' = {}
    /\ UNCHANGED <<debugBuild, metric, metricSum>>

\* Variant: the end of an iteration is credited to the one before it.
EndedBefore(i) == todo \ {i - 1}

\* A parallel loop waits for all of its iterations.
Ended(i) == todo \ {i}

EvaluateInitial(i) ==
    /\ phase = "initial" /\ i \in todo
    /\ LET sol == Repaired(Validated(population[i]))
       IN IF AssertionFails(sol)
          THEN /\ phase' = "aborted"
               /\ UNCHANGED <<population, todo, evals>>
          ELSE /\ \E e \in Evaluations(sol) : population' = [population EXCEPT ![i] = e]
               /\ evals' = evals + CallsNeeded(sol)
               /\ todo' = Ended(i)
               /\ UNCHANGED phase
    /\ UNCHANGED <<settings, limits, fn, children, solutions, cacheVars, reports>>

\* Variant: the monitor keeps the sum of the last run.
FirstMetricStale == metric' = evals - metricSum /\ metricSum' = evals

\* metrics_.initialize() and the first update().
FirstMetric == metric' = evals /\ metricSum' = evals

\* The rest of initializeAlgorithm().
FinishInitialization ==
    /\ phase = "initial" /\ todo = {}
    /\ phase' = "checking"
    /\ solutions' = IF keepAll THEN ParetoFront(Elems(population)) ELSE {}
    /\ met' = ChromsOf(population)
    /\ FirstMetric
    /\ seen' = <<generation>>
    /\ UNCHANGED <<settings, limits, fn, population, children, todo, cacheVars,
                   generation, evals>>

-----------------------------------------------------------------------------
LimitReached == generation + 1 >= maxGen

\* updateOptimalSolutions: the merged set, one candidate for a chromosome.  Which
\* of several is kept is up to an unstable sort.
OnePerChrom(S) == {T \in SUBSET S : /\ {t.chrom : t \in T} = {s.chrom : s \in S}
                                    /\ \A s, t \in T : s.chrom = t.chrom => s = t}

\* Variant: the new solutions are added but the old ones never leave.
MergedWithoutComparing(old, pop) == OnePerChrom(old \cup ParetoFront(pop))

Merged(old, pop) == OnePerChrom(ParetoFront(old \cup ParetoFront(pop)))

RestoreLimit == maxGen' = callerMaxGen

\* The stop condition of the user may end the run early in any generation.
Stop == /\ phase = "checking"
        /\ phase' = "idle"
        /\ IF keepAll THEN UNCHANGED solutions
                      ELSE solutions' \in Merged(solutions, Elems(population))
        /\ RestoreLimit
        /\ UNCHANGED <<settings, callerMaxGen, fn, population, children, todo,
                       cacheVars, evals, reports>>

\* advance(), with a loop over the pairs of children.
Continue == /\ phase = "checking" /\ ~ LimitReached
            /\ phase' = "breeding"
            /\ children' = [i \in 1 .. popSize |-> Fresh(CHOOSE c \in Chroms : TRUE)]
            /\ todo' = 1 .. popSize \div 2
            /\ UNCHANGED <<settings, limits, fn, population, solutions,
                           cacheVars, evals, reports>>

Breed(i) ==
    /\ phase = "breeding" /\ i \in todo
    /\ \E a, b \in DOMAIN population : \E pair \in Crossovers(population[a], population[b]) :
          children' = [children EXCEPT ![2 * i - 1] = pair[1], ![2 * i] = pair[2]]
    /\ todo' = Ended(i)
    /\ UNCHANGED <<phase, settings, limits, fn, population, solutions,
                   cacheVars, evals, reports>>

\* The last child of an odd number of them; then the next loop begins.
FinishBreeding ==
    /\ phase = "breeding" /\ todo = {}
    /\ IF popSize % 2 = 0 THEN UNCHANGED children
       ELSE \E a, b \in DOMAIN population : \E pair \in Crossovers(population[a], population[b]) :
               children' = [children EXCEPT ![popSize] = pair[1]]
    /\ phase' = "varying" /\ todo' = 1 .. popSize
    /\ UNCHANGED <<settings, limits, fn, population, solutions, cacheVars, evals, reports>>

\* mutate, validate, repair and evaluate one child.
Vary(i) ==
    /\ phase = "varying" /\ i \in todo
    /\ \E c \in Chroms :
         LET sol == Repaired(Validated(Mutated(children[i], c)))
         IN IF AssertionFails(sol)
            THEN phase' = "aborted" /\ UNCHANGED <<children, todo, evals>>
            ELSE /\ \E e \in Evaluations(sol) : children' = [children EXCEPT ![i] = e]
                 /\ evals' = evals + CallsNeeded(sol)
                 /\ todo' = Ended(i)
                 /\ UNCHANGED phase
    /\ UNCHANGED <<settings, limits, fn, population, solutions, cacheVars, reports>>

-----------------------------------------------------------------------------
\* fitness_cache_.insert of a range: its last elements, at most the capacity.
Inserted(s, cap, pop) ==
    LET n == IF cap <= Len(pop) THEN cap ELSE Len(pop)
        from[i \in 0 .. n] ==
          IF i = 0 THEN s
          ELSE LET sol == pop[Len(pop) - n + i]
               IN Cache!InsertEntry(from[i - 1], cap, sol.chrom, sol.fitness)
    IN from[n]

\* Algorithm::nextPopulation: distinct members of the parents and the children.
Survivors(pool, n) == {[i \in 1 .. n |-> pool[pick[i]]] :
                         pick \in {p \in [1 .. n -> DOMAIN pool] :
                                     \A i, j \in 1 .. n : p[i] = p[j] => i = j}}

\* updatePopulation and the rest of advance().
EndGeneration ==
    /\ phase = "varying" /\ todo = {}
    /\ phase' = "checking"
    /\ entries' = Inserted(entries, capacity, population)
    /\ population' \in Survivors(population \o children, popSize)
    /\ children' = <<>>
    /\ IF keepAll THEN solutions' \in Merged(solutions, Elems(population'))
                  ELSE UNCHANGED solutions
    /\ metric' = metric + (evals - metricSum) /\ metricSum' = evals
    /\ seen' = Append(seen, generation)
    /\ generation' = generation + 1
    /\ met' = met \cup ChromsOf(population')
    /\ UNCHANGED <<settings, limits, fn, todo, capacity, evals>>

\* An exception of a user function leaves a parallel loop, and then solve().
\* What the other iterations still do is lost with the children.
Throw == /\ phase \in {"initial", "breeding", "varying"}
         /\ phase' = "idle"
         /\ RestoreLimit
         /\ children' = <<>> /\ todo' = {}
         /\ UNCHANGED <<settings, callerMaxGen, fn, population, solutions, cacheVars,
                        evals, reports>>

Next == \/ \E m \in MaxGens : SetMaxGen(m)
        \/ \E f \in Functions, s \in Settings :
              \E pop \in InitialPopulations(f, s.popSize) : Solve(f, s, pop)
        \/ \E i \in todo : EvaluateInitial(i) \/ Breed(i) \/ Vary(i)
        \/ FinishInitialization \/ Stop \/ Continue \/ FinishBreeding
        \/ EndGeneration \/ Throw

Spec == Init /\ [][Next]_vars

\* What solve() does by itself once it was called.
Step == \/ \E i \in todo : EvaluateInitial(i) \/ Breed(i) \/ Vary(i)
        \/ FinishInitialization \/ Continue \/ FinishBreeding \/ EndGeneration
        \/ (LimitReached /\ Stop)

FairSpec == Spec /\ WF_vars(Step)

-----------------------------------------------------------------------------
IsRight(sol) == /\ sol.fitness \in Fit[fn][sol.chrom]
                /\ sol.cv = Violation[sol.chrom]

\* The fitness of a candidate that evaluate() is through with, wherever it came from.
CandidatesAreConsistent ==
    /\ phase \in {"checking", "breeding", "varying"} =>
          \A i \in DOMAIN population : IsRight(population[i])
    /\ phase = "initial" => \A i \in DOMAIN population \ todo : IsRight(population[i])
    /\ phase = "varying" => \A i \in DOMAIN children \ todo : IsRight(children[i])

\* The cache never answers for another fitness function than the one in use,
\* and holds nothing when that function is dynamic.
CacheMatchesFunction ==
    /\ \A i \in DOMAIN entries : entries[i].value \in Fit[fn][entries[i].key]
    /\ IsDynamic /\ phase # "idle" => entries = <<>>

\* The fitness and the constraint violation of a candidate, and every fitness in the
\* cache, are those of the chromosome it has now, under the function of this run: however
\* the candidate got them (a parent, the cache, an earlier run, a call) and whatever
\* changed the chromosome, the function or the settings since.
FitnessIsCurrent == CandidatesAreConsistent /\ CacheMatchesFunction

Front(C) == {c \in C : ~ \E d \in C : \E u \in Fit[fn][c], v \in Fit[fn][d] : Dominates(v, u)}

\* With keep_all_optimal_solutions(), the merges of the fronts of the single
\* generations add up to the front of everything the run has had.
ArchiveIsComplete ==
    keepAll /\ ~ IsDynamic /\ phase \in {"checking", "breeding", "varying"} =>
      {s.chrom : s \in solutions} = Front(met)

\* Without it, a run returns the optimal solutions of its last population, each
\* chromosome once, and nothing of an earlier run.
ResultIsLastFront ==
    [][phase = "checking" /\ phase' = "idle" /\ ~ keepAll /\ ~ IsDynamic =>
         /\ {s.chrom : s \in solutions'} = Front(ChromsOf(population))
         /\ \A s \in solutions' : s \in Elems(population)]_vars

\* The evaluations that the monitor reports for the generations of a run add up to
\* num_fitness_evals(); a dynamic function is called for every candidate of every
\* generation, a static one at most that often.
EvaluationsAreCounted ==
    phase = "checking" =>
      /\ metric = evals
      /\ IF IsDynamic THEN evals = popSize * Len(seen) ELSE evals <= popSize * Len(seen)

\* A run has at most max_gen generations, the initial one included, whether or
\* not the early stop condition ever holds.
GenerationsAreBounded ==
    phase \in {"checking", "breeding", "varying"} =>
      Len(seen) <= maxGen /\ (phase # "checking" => Len(seen) < maxGen)

\* However solve() ends, the limit that was passed to it does not outlive it.
LimitIsRestored == phase = "idle" => maxGen = callerMaxGen

\* What one run counts and limits is its own, however the runs before it have ended:
\* the evaluations, the generations and max_gen.
RunsAreIndependent == EvaluationsAreCounted /\ GenerationsAreBounded /\ LimitIsRestored

\* A run that is not ended early or by an exception reaches its limit.  The only one
\* that does not is that of a dynamic function with a cache, in a build with assertions:
\* evaluate() refuses what the settings allow (CacheYieldsToDynamic of GaSetup).
RunsEnd ==
    phase # "idle" ~>
      phase = "idle" \/ (phase = "aborted" /\ debugBuild /\ IsDynamic /\ cachedGens > 0)

=============================================================================
