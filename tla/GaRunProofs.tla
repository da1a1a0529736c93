----------------------------- MODULE GaRunProofs -----------------------------
(***************************************************************************)
(* Safety of the runs of a GA, for any chromosomes, functions, settings    *)
(* and limits.  Each invariant is inductive relative to those before it:   *)
(* types and lengths, the fitness of every candidate and of the cache, the *)
(* counters, the archive.                                                  *)
(***************************************************************************)
EXTENDS GaRun, GaSetup, Induction, SequenceTheorems

Phases == {"idle", "initial", "checking", "breeding", "varying", "aborted"}
Vectors == UNION {Fit[f][c] : f \in Functions, c \in Chroms}
Sols == [chrom : Chroms, fitness : Vectors \cup {<<>>}, cv : Nat \cup {Unset}]
CacheEntries == [key : Chroms, value : Vectors]

ControlType ==
    /\ phase \in Phases /\ debugBuild \in BOOLEAN
    /\ popSize \in Nat \ {0} /\ cachedGens \in Nat /\ keepAll \in BOOLEAN
    /\ maxGen \in Nat \ {0} /\ callerMaxGen \in Nat \ {0}
    /\ fn \in Functions
    /\ todo \subseteq 1 .. popSize
    /\ capacity \in Nat
    /\ generation \in Nat /\ evals \in Nat /\ metric \in Int /\ metricSum \in Int
    /\ seen \in Seq(Nat)

DataType ==
    /\ population \in Seq(Sols) /\ children \in Seq(Sols)
    /\ solutions \subseteq Sols
    /\ entries \in Seq(CacheEntries)
    /\ met \subseteq Chroms

\* A run has popSize candidates, from the initial population on.
Lengths ==
    /\ phase \in {"initial", "checking", "breeding", "varying"} => Len(population) = popSize
    /\ phase \in {"breeding", "varying"} => Len(children) = popSize

TypeInv == ControlType /\ DataType /\ Lengths

-----------------------------------------------------------------------------
\* Whatever every insertion of a candidate of the range preserves, given as a
\* set of lists of entries, the insertion of the range preserves.
LEMMA InsertedStays ==
    ASSUME NEW s, NEW cap \in Nat, NEW pop \in Seq(Sols), NEW Good, s \in Good,
           \A e \in Good, i \in 1 .. Len(pop) :
              Cache!InsertEntry(e, cap, pop[i].chrom, pop[i].fitness) \in Good
    PROVE  Inserted(s, cap, pop) \in Good
<1> DEFINE n == IF cap <= Len(pop) THEN cap ELSE Len(pop)
           Ins(e, i) == LET sol == pop[Len(pop) - n + i]
                         IN Cache!InsertEntry(e, cap, sol.chrom, sol.fitness)
           Defines(f, m) == f = [i \in 0 .. m |-> IF i = 0 THEN s ELSE Ins(f[i - 1], i)]
           S == {m \in 0 .. n : \E f : Defines(f, m)}
           from == CHOOSE f : Defines(f, n)
<1>1. n \in Nat /\ n <= Len(pop) OBVIOUS
<1>2. \A e \in Good, i \in 1 .. n : Ins(e, i) \in Good
  <2>1. \A i \in 1 .. n : Len(pop) - n + i \in 1 .. Len(pop) BY <1>1
  <2> QED BY <2>1
<1> HIDE DEF n, Ins
<1>3. 0 \in S
  <2>1. Defines([i \in 0 .. 0 |-> s], 0) OBVIOUS
  <2>2. 0 \in 0 .. n BY <1>1
  <2> HIDE DEF Defines
  <2> QED BY <2>1, <2>2
<1>4. ASSUME NEW m \in 0 .. n - 1, m \in S PROVE m + 1 \in S
  <2>1. PICK f : Defines(f, m) BY <1>4
  <2> DEFINE g == [i \in 0 .. m + 1 |-> IF i <= m THEN f[i] ELSE Ins(f[m], m + 1)]
  <2>2. ASSUME NEW i \in 0 .. m + 1
        PROVE  g[i] = IF i = 0 THEN s ELSE Ins(g[i - 1], i)
    <3>1. CASE i = m + 1 BY <3>1
    <3>2. CASE i = 0 BY <2>1, <3>2
    <3>3. CASE i \in 1 .. m
      <4>1. f[i] = Ins(f[i - 1], i) BY <2>1, <3>3
      <4>2. g[i] = f[i] /\ g[i - 1] = f[i - 1] BY <3>3
      <4> QED BY <3>3, <4>1, <4>2
    <3> QED BY <3>1, <3>2, <3>3
  <2>3. Defines(g, m + 1) BY <2>2
  <2>4. m + 1 \in 0 .. n BY <1>1
  <2> HIDE DEF Defines, g
  <2> QED BY <2>3, <2>4
<1>5. n \in S
  <2> HIDE DEF S
  <2>1. 0 .. n \subseteq S BY <1>1, <1>3, <1>4, IntervalInduction
  <2> QED BY <1>1, <2>1
<1>6. Defines(from, n)
  <2>1. \E f : Defines(f, n) BY <1>5
  <2> QED BY <2>1
<1> DEFINE R == {i \in 0 .. n : from[i] \in Good}
<1>7. \A i \in 0 .. n : from[i] = IF i = 0 THEN s ELSE Ins(from[i - 1], i)
  <2> HIDE DEF from
  <2> QED BY <1>6
<1> HIDE DEF from
<1>8. 0 \in R BY <1>1, <1>7
<1>9. ASSUME NEW i \in 0 .. n - 1, i \in R PROVE i + 1 \in R
  <2>1. i + 1 \in 1 .. n /\ (i + 1) - 1 = i BY <1>1
  <2>2. from[i + 1] = Ins(from[i], i + 1) BY <1>7, <2>1
  <2> QED BY <1>2, <1>9, <2>1, <2>2
<1>10. n \in R
  <2> HIDE DEF R
  <2>1. 0 .. n \subseteq R BY <1>1, <1>8, <1>9, IntervalInduction
  <2> QED BY <1>1, <2>1
<1>11. Inserted(s, cap, pop) = from[n] BY DEF Inserted, from, n, Ins
<1> QED BY <1>10, <1>11

-----------------------------------------------------------------------------
(* The fitness that a candidate carries *)

\* What a candidate that is not evaluated again may be: its fitness, if it has one, is right.
Plausible(sol) == IsEvaluated(sol) => sol.fitness \in Fit[fn][sol.chrom]

LEMMA InheritedIsPlausible ==
    ASSUME NEW p1 \in Sols, NEW p2 \in Sols, Plausible(p1), Plausible(p2),
           NEW pair \in Crossovers(p1, p2), NEW k \in 1 .. 2
    PROVE  pair[k] \in Sols /\ Plausible(pair[k])
<1>1. CASE pair = <<p1, p2>> BY <1>1
<1>2. ASSUME NEW c1 \in Chroms, NEW c2 \in Chroms,
             pair = <<Cand(c1, Inherited(c1, p1, p2), p1.cv), Cand(c2, Inherited(c2, p1, p2), p2.cv)>>
      PROVE  pair[k] \in Sols /\ Plausible(pair[k])
  <2>1. \A c \in Chroms, cv \in Nat \cup {Unset} :
           /\ Cand(c, Inherited(c, p1, p2), cv) \in Sols
           /\ Plausible(Cand(c, Inherited(c, p1, p2), cv))
    BY DEF Sols, Cand, Inherited, Plausible, IsEvaluated
  <2>2. p1.cv \in Nat \cup {Unset} /\ p2.cv \in Nat \cup {Unset} BY DEF Sols
  <2>3. CASE k = 1 BY <1>2, <2>1, <2>2, <2>3
  <2>4. CASE k = 2 BY <1>2, <2>1, <2>2, <2>4
  <2> QED BY <2>3, <2>4
<1> QED BY <1>1, <1>2 DEF Crossovers

\* Validated, and repaired if that changes it.
LEMMA PreparedIsPlausible ==
    ASSUME NEW sol \in Sols, Plausible(sol)
    PROVE  LET r == Repaired(Validated(sol))
           IN r \in Sols /\ Plausible(r) /\ r.cv = Violation[r.chrom]
<1> DEFINE v == Validated(sol)
<1>1. v \in Sols /\ Plausible(v) /\ v.cv = Violation[v.chrom] /\ v.chrom \in Chroms
  BY GaAssumption DEF Validated, Sols, Plausible, IsEvaluated
<1> HIDE DEF v
<1> DEFINE r == Repaired(v)
<1>2. ASSUME RepairOf[v.chrom] = v.chrom
      PROVE  r \in Sols /\ Plausible(r) /\ r.cv = Violation[r.chrom]
  BY <1>1, <1>2 DEF Repaired
<1>3. ASSUME RepairOf[v.chrom] # v.chrom
      PROVE  r \in Sols /\ Plausible(r) /\ r.cv = Violation[r.chrom]
  <2> DEFINE c == RepairOf[v.chrom]
  <2>1. c \in Chroms /\ Violation[c] \in Nat BY <1>1, GaAssumption
  <2>2. r = [chrom |-> c, fitness |-> <<>>, cv |-> Violation[c]]
    BY <1>3 DEF Repaired, Validated, Cand
  <2> QED BY <2>1, <2>2 DEF Sols, Plausible, IsEvaluated
<1> QED BY <1>2, <1>3 DEF v

LEMMA MutatedIsPlausible ==
    ASSUME NEW sol \in Sols, Plausible(sol), NEW c \in Chroms
    PROVE  Mutated(sol, c) \in Sols /\ Plausible(Mutated(sol, c))
BY DEF Mutated, Sols, Plausible, IsEvaluated

\* The cache answers for the function in use.
CacheIsRight == \A i \in DOMAIN entries : entries[i].value \in Fit[fn][entries[i].key]

LEMMA EvaluatedIsRight ==
    ASSUME fn \in Functions, entries \in Seq(CacheEntries), CacheIsRight,
           NEW sol \in Sols, Plausible(sol), sol.cv = Violation[sol.chrom],
           NEW e \in Evaluations(sol)
    PROVE  e \in Sols /\ IsRight(e)
<1>1. ASSUME NEW v \in Fit[fn][sol.chrom], e = [sol EXCEPT !.fitness = v]
      PROVE  e \in Sols /\ IsRight(e)
  BY <1>1 DEF Sols, Vectors, IsRight
<1>2. CASE MayReuse(sol) BY <1>2 DEF Evaluations, MayReuse, Plausible, IsRight
<1>3. CASE ~ MayReuse(sol) /\ IsCached(sol)
  <2>1. PICK i \in DOMAIN entries : entries[i].key = sol.chrom
    BY <1>3 DEF IsCached, Cache!KeysOf
  <2> DEFINE j == CHOOSE k \in DOMAIN entries : entries[k].key = sol.chrom
  <2>2. j \in DOMAIN entries /\ entries[j].key = sol.chrom BY <2>1
  <2>3. CachedFitness(sol.chrom) = entries[j].value BY DEF CachedFitness
  <2> HIDE DEF j
  <2>4. CachedFitness(sol.chrom) \in Fit[fn][sol.chrom] BY <2>2, <2>3 DEF CacheIsRight
  <2>5. e = [sol EXCEPT !.fitness = CachedFitness(sol.chrom)] BY <1>3 DEF Evaluations
  <2> QED BY <1>1, <2>4, <2>5
<1>4. CASE ~ MayReuse(sol) /\ ~ IsCached(sol) BY <1>1, <1>4 DEF Evaluations
<1> QED BY <1>2, <1>3, <1>4

-----------------------------------------------------------------------------
(* The cache *)

LEMMA InsertEntryIsRight ==
    ASSUME NEW s \in Seq(CacheEntries), NEW cap \in Nat, NEW c \in Chroms, NEW v \in Vectors,
           \A i \in DOMAIN s : s[i].value \in Fit[fn][s[i].key], v \in Fit[fn][c]
    PROVE  LET t == Cache!InsertEntry(s, cap, c, v)
           IN /\ t \in Seq(CacheEntries)
              /\ \A i \in DOMAIN t : t[i].value \in Fit[fn][t[i].key]
<1> DEFINE new == Cache!Entry(c, v)
<1>1. new \in CacheEntries /\ new.value \in Fit[fn][new.key] BY DEF CacheEntries, Cache!Entry
<1> HIDE DEF new
<1>2. ASSUME NEW r \in Seq(CacheEntries), \A i \in DOMAIN r : r[i].value \in Fit[fn][r[i].key]
      PROVE  /\ Append(r, new) \in Seq(CacheEntries)
             /\ \A i \in DOMAIN Append(r, new) : Append(r, new)[i].value \in Fit[fn][Append(r, new)[i].key]
  BY <1>1, <1>2
<1>3. CASE c \in Cache!KeysOf(s)
  <2> DEFINE t == [i \in DOMAIN s |-> IF s[i].key = c THEN new ELSE s[i]]
  <2>1. t \in Seq(CacheEntries) BY <1>1
  <2>2. \A i \in DOMAIN t : t[i].value \in Fit[fn][t[i].key] BY <1>1
  <2>3. Cache!InsertEntry(s, cap, c, v) \in {s, t}
    BY <1>3 DEF Cache!InsertEntry, Cache!AssignEntry, new
  <2> QED BY <2>1, <2>2, <2>3
<1>4. CASE c \notin Cache!KeysOf(s) /\ Len(s) = cap /\ cap # 0
  <2>1. s # <<>> BY <1>4
  <2>2. Tail(s) \in Seq(CacheEntries) BY <2>1
  <2>3. \A i \in DOMAIN Tail(s) : Tail(s)[i] = s[i + 1] /\ i + 1 \in DOMAIN s BY <2>1
  <2>4. Cache!InsertEntry(s, cap, c, v) = Append(Tail(s), new)
    BY <1>4 DEF Cache!InsertEntry, Cache!AddEntry, new
  <2> QED BY <1>2, <2>2, <2>3, <2>4
<1>5. CASE c \notin Cache!KeysOf(s) /\ ~ (Len(s) = cap /\ cap # 0)
  <2>1. Cache!InsertEntry(s, cap, c, v) \in {s, Append(s, new)}
    BY <1>5 DEF Cache!InsertEntry, Cache!AddEntry, new
  <2> QED BY <1>2, <2>1
<1> QED BY <1>3, <1>4, <1>5

LEMMA InsertedIsRight ==
    ASSUME entries \in Seq(CacheEntries), CacheIsRight, capacity \in Nat,
           population \in Seq(Sols), \A i \in DOMAIN population : IsRight(population[i]),
           fn \in Functions
    PROVE  LET t == Inserted(entries, capacity, population)
           IN /\ t \in Seq(CacheEntries)
              /\ \A i \in DOMAIN t : t[i].value \in Fit[fn][t[i].key]
<1> DEFINE Good == {s \in Seq(CacheEntries) : \A i \in DOMAIN s : s[i].value \in Fit[fn][s[i].key]}
<1>1. entries \in Good BY DEF CacheIsRight
<1>2. ASSUME NEW e \in Good, NEW i \in 1 .. Len(population)
      PROVE  Cache!InsertEntry(e, capacity, population[i].chrom, population[i].fitness) \in Good
  <2>0. population[i] \in Sols /\ IsRight(population[i]) OBVIOUS
  <2>1. population[i].chrom \in Chroms /\ population[i].fitness \in Fit[fn][population[i].chrom]
    BY <2>0 DEF IsRight, Sols
  <2>2. population[i].fitness \in Vectors BY <2>1 DEF Vectors
  <2> QED BY <2>1, <2>2, InsertEntryIsRight
<1>3. Inserted(entries, capacity, population) \in Good
  <2> HIDE DEF Good
  <2> QED BY <1>1, <1>2, InsertedStays
<1> QED BY <1>3

\* Without a capacity nothing is inserted.
LEMMA NothingInserted ==
    ASSUME NEW s, NEW pop \in Seq(Sols) PROVE Inserted(s, 0, pop) = s
<1>1. \A e \in {s}, i \in 1 .. Len(pop) :
         Cache!InsertEntry(e, 0, pop[i].chrom, pop[i].fitness) \in {s}
  BY DEF Cache!InsertEntry
<1>2. Inserted(s, 0, pop) \in {s} BY <1>1, InsertedStays
<1> QED BY <1>2

-----------------------------------------------------------------------------
(* Types and lengths *)

LEMMA MergedIsKept == ASSUME NEW old, NEW pop, NEW S \in Merged(old, pop) PROVE S \subseteq old \cup pop
BY DEF Merged, OnePerChrom, ParetoFront

LEMMA SurvivorsAreOfThePool ==
    ASSUME NEW pool \in Seq(Sols), NEW n \in Nat, NEW p \in Survivors(pool, n)
    PROVE  /\ p \in Seq(Sols) /\ Len(p) = n
           /\ \A i \in 1 .. n : \E j \in DOMAIN pool : p[i] = pool[j]
<1>1. PICK pick \in [1 .. n -> DOMAIN pool] : p = [i \in 1 .. n |-> pool[pick[i]]]
  BY DEF Survivors
<1>2. \A i \in 1 .. n : pool[pick[i]] \in Sols OBVIOUS
<1> QED BY <1>1, <1>2

LEMMA SuppliedType == ASSUME TypeInv, NEW f \in Functions PROVE Supplied(f) \subseteq Sols
BY DEF TypeInv, DataType, Supplied, Fresh, Cand, Sols

LEMMA InitTypeInv == Init => TypeInv
<1> SUFFICES ASSUME Init PROVE TypeInv OBVIOUS
<1>1. maxGen \in Nat \ {0} /\ callerMaxGen \in Nat \ {0} BY GaAssumption DEF Init
<1>2. seen \in Seq(Nat) /\ todo \subseteq 1 .. popSize BY DEF Init
<1>3. phase \in Phases /\ keepAll \in BOOLEAN /\ debugBuild \in BOOLEAN /\ fn \in Functions BY DEF Init, Phases
<1>4. ControlType
  <2> HIDE DEF Phases
  <2> QED BY <1>1, <1>2, <1>3 DEF Init, ControlType
<1>5. DataType /\ Lengths BY DEF Init, DataType, Lengths
<1> QED BY <1>4, <1>5 DEF TypeInv

LEMMA ControlStep == ASSUME TypeInv, [Next]_vars PROVE ControlType'
<1> USE DEF TypeInv, ControlType, settings, limits, cacheVars, reports
<1>1. ASSUME NEW m \in MaxGens, SetMaxGen(m) PROVE ControlType'
  BY <1>1, GaAssumption DEF SetMaxGen
<1>2. ASSUME NEW f \in Functions, NEW s \in Settings, NEW pop \in InitialPopulations(f, s.popSize),
             Solve(f, s, pop)
      PROVE  ControlType'
  <2>1. /\ s.popSize \in Nat \ {0} /\ s.cachedGens \in Nat /\ s.keepAll \in BOOLEAN
        /\ s.maxGen \in Nat \ {0}
    BY GaAssumption
  <2>2. DOMAIN pop = 1 .. s.popSize BY DEF InitialPopulations
  <2>3. s.cachedGens * s.popSize \in Nat BY <2>1
  <2>4. capacity' \in Nat BY <1>2, <2>3 DEF Solve
  <2> QED BY <1>2, <2>1, <2>2, <2>4 DEF Solve, Phases
<1>3. ASSUME NEW i \in todo, EvaluateInitial(i) PROVE ControlType'
  <2>1. evals' \in Nat BY <1>3 DEF EvaluateInitial, CallsNeeded
  <2> QED BY <1>3, <2>1 DEF EvaluateInitial, Ended, Phases
<1>4. ASSUME NEW i \in todo, Breed(i) PROVE ControlType'
  BY <1>4 DEF Breed, Ended
<1>5. ASSUME NEW i \in todo, Vary(i) PROVE ControlType'
  <2>1. evals' \in Nat BY <1>5 DEF Vary, CallsNeeded
  <2>2. todo' \subseteq todo BY <1>5 DEF Vary, Ended
  <2>3. phase' \in Phases BY <1>5 DEF Vary, Phases
  <2> QED BY <1>5, <2>1, <2>2, <2>3 DEF Vary
<1>6. CASE FinishInitialization BY <1>6 DEF FinishInitialization, FirstMetric, Phases
<1>7. CASE Stop BY <1>7 DEF Stop, RestoreLimit, Phases
<1>8. CASE Continue
  <2>1. popSize \div 2 \in Nat /\ popSize \div 2 <= popSize OBVIOUS
  <2> QED BY <1>8, <2>1 DEF Continue, Phases
<1>9. CASE FinishBreeding BY <1>9 DEF FinishBreeding, Phases
<1>10. CASE EndGeneration BY <1>10 DEF EndGeneration, Phases
<1>11. CASE Throw BY <1>11 DEF Throw, RestoreLimit, Phases
<1>12. CASE UNCHANGED vars BY <1>12 DEF vars
<1> QED BY <1>1, <1>2, <1>3, <1>4, <1>5, <1>6, <1>7, <1>8, <1>9, <1>10, <1>11, <1>12 DEF Next

-----------------------------------------------------------------------------
(* The fitness of every candidate, and what the cache answers *)

Running == phase \in {"checking", "breeding", "varying"}

PopulationIsRight ==
    /\ phase = "initial" => \A i \in DOMAIN population :
          Plausible(population[i]) /\ (i \notin todo => IsRight(population[i]))
    /\ Running => \A i \in DOMAIN population : IsRight(population[i])

ChildrenAreRight ==
    /\ phase \in {"breeding", "varying"} => \A i \in DOMAIN children : Plausible(children[i])
    /\ phase = "varying" => \A i \in DOMAIN children \ todo : IsRight(children[i])

SolutionsAreRight == \A s \in solutions : IsRight(s)

\* A dynamic function has no cache while it is in use.
DynamicIsUncached == IsDynamic /\ phase # "idle" => capacity = 0 /\ entries = <<>>

FitnessInv == /\ PopulationIsRight /\ ChildrenAreRight /\ SolutionsAreRight
              /\ CacheIsRight /\ DynamicIsUncached

DataInv == DataType /\ Lengths /\ FitnessInv

LEMMA InitFitness == Init => FitnessInv
BY DEF Init, FitnessInv, Running, PopulationIsRight, ChildrenAreRight, SolutionsAreRight,
       CacheIsRight, DynamicIsUncached

LEMMA RightIsPlausible == ASSUME NEW sol, IsRight(sol) PROVE Plausible(sol)
BY DEF IsRight, Plausible

LEMMA SolveData ==
    ASSUME TypeInv, FitnessInv, NEW f \in Functions, NEW s \in Settings,
           NEW pop \in InitialPopulations(f, s.popSize), Solve(f, s, pop)
    PROVE  DataInv'
<1>1. s.popSize \in Nat BY GaAssumption
<1>2. pop \in Seq(Sols) /\ Len(pop) = s.popSize
  BY <1>1, SuppliedType DEF InitialPopulations
<1>3. ASSUME NEW i \in DOMAIN pop
      PROVE  IsEvaluated(pop[i]) => pop[i].fitness \in Fit[f][pop[i].chrom]
  <2>1. pop[i] \in Supplied(f) BY <1>3 DEF InitialPopulations
  <2> QED BY <2>1 DEF Supplied, Fresh, Cand, IsEvaluated, FitnessInv, SolutionsAreRight, IsRight
<1>4. DOMAIN pop = todo' BY DEF Solve
<1> QED BY <1>2, <1>3, <1>4
        DEF Solve, DataInv, DataType, Lengths, FitnessInv, Running, PopulationIsRight,
            ChildrenAreRight, SolutionsAreRight, CacheIsRight, DynamicIsUncached, TypeInv,
            ClearSolutions, ResetCache, IsDynamic, Plausible, IsEvaluated

LEMMA EvaluateInitialData ==
    ASSUME TypeInv, FitnessInv, NEW i \in todo, EvaluateInitial(i)
    PROVE  DataInv'
<1> USE DEF TypeInv, ControlType, DataType, DataInv, FitnessInv, settings, limits, cacheVars, reports
<1> DEFINE sol == Repaired(Validated(population[i]))
<1>1. phase = "initial" /\ population[i] \in Sols /\ Plausible(population[i])
  BY DEF EvaluateInitial, Lengths, PopulationIsRight
<1>2. sol \in Sols /\ Plausible(sol) /\ sol.cv = Violation[sol.chrom]
  BY <1>1, PreparedIsPlausible
<1> HIDE DEF sol
<1>3. CASE phase' = "aborted"
  BY <1>3 DEF EvaluateInitial, Lengths, PopulationIsRight, ChildrenAreRight, SolutionsAreRight,
              CacheIsRight, DynamicIsUncached, Running, IsDynamic, IsRight, Plausible
<1>4. ASSUME NEW e \in Evaluations(sol), population' = [population EXCEPT ![i] = e],
             todo' = Ended(i), phase' = phase
      PROVE  DataInv'
  <2>1. e \in Sols /\ IsRight(e) BY <1>2, EvaluatedIsRight
  <2>2. population' \in Seq(Sols) /\ Len(population') = Len(population)
    <3>1. i \in 1 .. Len(population) BY <1>1 DEF Lengths
    <3> QED BY <1>4, <2>1, <3>1, ExceptSeq
  <2>3. /\ fn' = fn /\ solutions' = solutions /\ entries' = entries /\ capacity' = capacity
        /\ children' = children /\ met' = met /\ popSize' = popSize
    BY DEF EvaluateInitial
  <2>4. \A j \in DOMAIN population' : population'[j] = IF j = i THEN e ELSE population[j]
    BY <1>1, <1>4 DEF Lengths
  <2>5. PopulationIsRight'
    BY <1>1, <1>4, <2>1, <2>2, <2>3, <2>4, RightIsPlausible
       DEF PopulationIsRight, Running, Ended, IsRight, Plausible
  <2> QED BY <1>1, <1>4, <2>2, <2>3, <2>5
          DEF Lengths, ChildrenAreRight, SolutionsAreRight, CacheIsRight, DynamicIsUncached,
              IsDynamic, IsRight
<1> QED BY <1>3, <1>4 DEF EvaluateInitial, sol

LEMMA BreedData ==
    ASSUME TypeInv, FitnessInv, NEW i \in todo, Breed(i)
    PROVE  DataInv'
<1> USE DEF TypeInv, ControlType, DataType, DataInv, FitnessInv, settings, limits, cacheVars, reports
<1>1. PICK a \in DOMAIN population, b \in DOMAIN population :
         \E pair \in Crossovers(population[a], population[b]) :
            children' = [children EXCEPT ![2 * i - 1] = pair[1], ![2 * i] = pair[2]]
  BY DEF Breed
<1>2. PICK pair \in Crossovers(population[a], population[b]) :
         children' = [children EXCEPT ![2 * i - 1] = pair[1], ![2 * i] = pair[2]]
  BY <1>1
<1>3. /\ population[a] \in Sols /\ Plausible(population[a])
      /\ population[b] \in Sols /\ Plausible(population[b])
  BY RightIsPlausible DEF Breed, PopulationIsRight, Running
<1>4. /\ pair[1] \in Sols /\ Plausible(pair[1])
      /\ pair[2] \in Sols /\ Plausible(pair[2])
  BY <1>3, InheritedIsPlausible
<1>5. children' \in Seq(Sols) /\ Len(children') = Len(children) /\ DOMAIN children' = DOMAIN children
  <2> DEFINE n == Len(children)
             half == [children EXCEPT ![2 * i - 1] = pair[1]]
  <2>1. n \in Nat /\ children \in [1 .. n -> Sols] OBVIOUS
  <2> HIDE DEF n
  <2>2. half \in [1 .. n -> Sols] BY <1>4, <2>1
  <2>3. children' = [half EXCEPT ![2 * i] = pair[2]] BY <1>2
  <2> HIDE DEF half
  <2>4. children' \in [1 .. n -> Sols] BY <1>4, <2>2, <2>3
  <2>5. children' \in Seq(Sols) /\ Len(children') = n /\ DOMAIN children' = DOMAIN children
    BY <2>1, <2>4
  <2> QED BY <2>5 DEF n
<1>6. \A j \in DOMAIN children' : children'[j] \in {pair[1], pair[2], children[j]}
  BY <1>2
<1>7. phase = "breeding" /\ phase' = phase BY DEF Breed
<1>8. \A j \in DOMAIN children' : Plausible(children'[j])
  BY <1>4, <1>5, <1>6, <1>7 DEF ChildrenAreRight
<1>9. ChildrenAreRight' BY <1>7, <1>8 DEF ChildrenAreRight, Plausible, Breed
<1> QED BY <1>5, <1>7, <1>9
        DEF Breed, Lengths, PopulationIsRight, Running, SolutionsAreRight, CacheIsRight,
            DynamicIsUncached, IsDynamic, IsRight, Plausible

LEMMA FinishBreedingData ==
    ASSUME TypeInv, FitnessInv, FinishBreeding
    PROVE  DataInv'
<1> USE DEF TypeInv, ControlType, DataType, DataInv, FitnessInv, settings, limits, cacheVars, reports
<1>1. /\ children' \in Seq(Sols) /\ Len(children') = Len(children)
      /\ \A j \in DOMAIN children' : Plausible(children'[j])
  <2>1. CASE UNCHANGED children BY <2>1 DEF FinishBreeding, ChildrenAreRight
  <2>2. ASSUME NEW a \in DOMAIN population, NEW b \in DOMAIN population,
               NEW pair \in Crossovers(population[a], population[b]),
               children' = [children EXCEPT ![popSize] = pair[1]]
        PROVE  /\ children' \in Seq(Sols) /\ Len(children') = Len(children)
               /\ \A j \in DOMAIN children' : Plausible(children'[j])
    <3>1. /\ population[a] \in Sols /\ Plausible(population[a])
          /\ population[b] \in Sols /\ Plausible(population[b])
      BY RightIsPlausible DEF FinishBreeding, PopulationIsRight, Running
    <3>2. pair[1] \in Sols /\ Plausible(pair[1]) BY <3>1, InheritedIsPlausible
    <3>3. popSize \in 1 .. Len(children) BY DEF FinishBreeding, Lengths
    <3>4. children' \in Seq(Sols) /\ Len(children') = Len(children)
      BY <2>2, <3>2, <3>3, ExceptSeq
    <3>5. \A j \in DOMAIN children' : children'[j] \in {pair[1], children[j]} BY <2>2
    <3> QED BY <3>2, <3>4, <3>5 DEF FinishBreeding, ChildrenAreRight
  <2> QED BY <2>1, <2>2 DEF FinishBreeding
<1>2. ChildrenAreRight'
  <2>1. todo' = DOMAIN children' BY <1>1 DEF FinishBreeding, Lengths
  <2> QED BY <1>1, <2>1 DEF FinishBreeding, ChildrenAreRight, Plausible
<1> QED BY <1>1, <1>2
        DEF FinishBreeding, Lengths, PopulationIsRight, Running, SolutionsAreRight,
            CacheIsRight, DynamicIsUncached, IsDynamic, IsRight

LEMMA VaryData ==
    ASSUME TypeInv, FitnessInv, NEW i \in todo, Vary(i)
    PROVE  DataInv'
<1> USE DEF TypeInv, ControlType, DataType, DataInv, FitnessInv, settings, limits, cacheVars, reports
<1>1. PICK c \in Chroms :
         LET sol == Repaired(Validated(Mutated(children[i], c)))
         IN IF AssertionFails(sol)
            THEN phase' = "aborted" /\ UNCHANGED <<children, todo, evals>>
            ELSE /\ \E e \in Evaluations(sol) : children' = [children EXCEPT ![i] = e]
                 /\ evals' = evals + CallsNeeded(sol)
                 /\ todo' = Ended(i)
                 /\ UNCHANGED phase
  BY DEF Vary
<1> DEFINE sol == Repaired(Validated(Mutated(children[i], c)))
<1>2. phase = "varying" /\ i \in 1 .. Len(children) /\ Plausible(children[i])
  <2>1. phase = "varying" /\ Len(children) = popSize BY DEF Vary, Lengths
  <2>2. i \in 1 .. Len(children) /\ DOMAIN children = 1 .. Len(children) BY <2>1
  <2> QED BY <2>1, <2>2 DEF ChildrenAreRight
<1>3. sol \in Sols /\ Plausible(sol) /\ sol.cv = Violation[sol.chrom]
  <2>1. children[i] \in Sols BY <1>2
  <2> QED BY <1>2, <2>1, MutatedIsPlausible, PreparedIsPlausible
<1>4. /\ fn' = fn /\ solutions' = solutions /\ entries' = entries /\ capacity' = capacity
      /\ population' = population /\ met' = met /\ popSize' = popSize
  BY DEF Vary
<1> HIDE DEF sol
<1>5. CASE phase' = "aborted" /\ UNCHANGED children
  BY <1>2, <1>4, <1>5
     DEF Lengths, PopulationIsRight, ChildrenAreRight, SolutionsAreRight,
         CacheIsRight, DynamicIsUncached, Running, IsDynamic, IsRight, Plausible
<1>6. ASSUME NEW e \in Evaluations(sol), children' = [children EXCEPT ![i] = e],
             todo' = Ended(i), phase' = phase
      PROVE  DataInv'
  <2>1. e \in Sols /\ IsRight(e) BY <1>3, EvaluatedIsRight
  <2>2. children' \in Seq(Sols) /\ Len(children') = Len(children)
    BY <1>2, <1>6, <2>1, ExceptSeq
  <2>3. \A j \in DOMAIN children' : children'[j] = IF j = i THEN e ELSE children[j]
    BY <1>2, <1>6
  <2>4. ChildrenAreRight'
    BY <1>2, <1>4, <1>6, <2>1, <2>2, <2>3, RightIsPlausible
       DEF ChildrenAreRight, Ended, IsRight, Plausible
  <2> QED BY <1>2, <1>4, <1>6, <2>2, <2>4
          DEF Lengths, PopulationIsRight, SolutionsAreRight, CacheIsRight, DynamicIsUncached,
              Running, IsDynamic, IsRight
<1> QED BY <1>1, <1>5, <1>6 DEF sol

LEMMA ContinueData ==
    ASSUME TypeInv, FitnessInv, Continue
    PROVE  DataInv'
<1> USE DEF TypeInv, ControlType, DataType, DataInv, FitnessInv, settings, limits, cacheVars, reports
<1> DEFINE c == CHOOSE c \in Chroms : TRUE
<1>1. population # <<>> BY DEF Continue, Lengths
<1>2. population[1] \in Sols BY <1>1
<1>3. c \in Chroms BY <1>2 DEF Sols
<1> HIDE DEF c
<1>4. Fresh(c) \in Sols /\ ~ IsEvaluated(Fresh(c)) BY <1>3 DEF Fresh, Cand, Sols, IsEvaluated
<1>5. children' = [i \in 1 .. popSize |-> Fresh(c)] BY DEF Continue, c
<1>6. children' \in Seq(Sols) /\ Len(children') = popSize BY <1>4, <1>5
<1>7. \A i \in DOMAIN children' : ~ IsEvaluated(children'[i]) BY <1>4, <1>5
<1> QED BY <1>6, <1>7
        DEF Continue, Lengths, PopulationIsRight, ChildrenAreRight, SolutionsAreRight,
            CacheIsRight, DynamicIsUncached, Running, IsDynamic, IsRight, Plausible, IsEvaluated

LEMMA FinishInitializationData ==
    ASSUME TypeInv, FitnessInv, FinishInitialization
    PROVE  DataInv'
<1> USE DEF TypeInv, ControlType, DataType, DataInv, FitnessInv, settings, limits, cacheVars, reports
<1>1. \A i \in DOMAIN population : population[i] \in Sols /\ IsRight(population[i])
  BY DEF FinishInitialization, PopulationIsRight
<1>2. solutions' \subseteq Elems(population) BY DEF FinishInitialization, ParetoFront
<1>3. \A s \in solutions' : s \in Sols /\ IsRight(s) BY <1>1, <1>2 DEF Elems
<1>4. met' \subseteq Chroms BY <1>1 DEF FinishInitialization, ChromsOf, Sols
<1>5. /\ phase = "initial" /\ phase' = "checking" /\ fn' = fn /\ population' = population
      /\ children' = children /\ entries' = entries /\ capacity' = capacity /\ popSize' = popSize
  BY DEF FinishInitialization
<1>6. DataType' BY <1>3, <1>4, <1>5
<1>7. Lengths' BY <1>5 DEF Lengths
<1> QED BY <1>1, <1>3, <1>5, <1>6, <1>7
        DEF PopulationIsRight, ChildrenAreRight, SolutionsAreRight,
            CacheIsRight, DynamicIsUncached, Running, IsDynamic, IsRight

LEMMA StopData ==
    ASSUME TypeInv, FitnessInv, Stop
    PROVE  DataInv'
<1> USE DEF TypeInv, ControlType, DataType, DataInv, FitnessInv, settings, limits, cacheVars, reports
<1>1. \A i \in DOMAIN population : population[i] \in Sols /\ IsRight(population[i])
  BY DEF Stop, PopulationIsRight, Running
<1>2. solutions' \subseteq solutions \cup Elems(population) BY MergedIsKept DEF Stop
<1>3. \A s \in solutions' : s \in Sols /\ IsRight(s)
  BY <1>1, <1>2 DEF Elems, SolutionsAreRight
<1> QED BY <1>3
        DEF Stop, Lengths, PopulationIsRight, ChildrenAreRight, SolutionsAreRight,
            CacheIsRight, DynamicIsUncached, Running, IsDynamic, IsRight

\* The survivors come from a pool whose members have all been evaluated.
LEMMA PoolIsRight ==
    ASSUME TypeInv, FitnessInv, EndGeneration
    PROVE  /\ population' \in Seq(Sols) /\ Len(population') = popSize
           /\ \A i \in DOMAIN population' : population'[i] \in Sols /\ IsRight(population'[i])
<1> DEFINE pool == population \o children
<1>1. \A i \in DOMAIN population : IsRight(population[i])
  BY DEF EndGeneration, FitnessInv, PopulationIsRight, Running
<1>2. \A i \in DOMAIN children : IsRight(children[i])
  BY DEF EndGeneration, FitnessInv, ChildrenAreRight
<1>3. population \in Seq(Sols) /\ children \in Seq(Sols) /\ popSize \in Nat
  BY DEF TypeInv, DataType, ControlType
<1>4. pool \in Seq(Sols) /\ \A i \in DOMAIN pool : IsRight(pool[i])
  <2>1. /\ pool \in Seq(Sols) /\ Len(pool) = Len(population) + Len(children)
        /\ \A i \in 1 .. Len(population) + Len(children) :
              pool[i] = IF i <= Len(population) THEN population[i] ELSE children[i - Len(population)]
    BY <1>3, ConcatProperties
  <2> HIDE DEF pool
  <2>2. ASSUME NEW i \in DOMAIN pool PROVE IsRight(pool[i])
    <3>1. CASE i <= Len(population)
      <4>1. i \in DOMAIN population BY <1>3, <2>1, <3>1
      <4> QED BY <1>1, <2>1, <3>1, <4>1
    <3>2. CASE i > Len(population)
      <4>1. i - Len(population) \in DOMAIN children BY <1>3, <2>1, <3>2
      <4> QED BY <1>2, <1>3, <2>1, <3>2, <4>1
    <3> QED BY <1>3, <2>1, <3>1, <3>2
  <2> QED BY <2>1, <2>2
<1>5. population' \in Survivors(pool, popSize) BY DEF EndGeneration
<1> HIDE DEF pool
<1>6. /\ population' \in Seq(Sols) /\ Len(population') = popSize
      /\ \A i \in 1 .. popSize : \E j \in DOMAIN pool : population'[i] = pool[j]
  BY <1>3, <1>4, <1>5, SurvivorsAreOfThePool
<1> QED BY <1>3, <1>4, <1>6

LEMMA EndGenerationData ==
    ASSUME TypeInv, FitnessInv, EndGeneration
    PROVE  DataInv'
<1> USE DEF TypeInv, ControlType, DataType, DataInv, FitnessInv, settings, limits, cacheVars, reports
<1>1. /\ population' \in Seq(Sols) /\ Len(population') = popSize
      /\ \A i \in DOMAIN population' : population'[i] \in Sols /\ IsRight(population'[i])
  BY PoolIsRight
<1>2. /\ phase = "varying" /\ phase' = "checking" /\ fn' = fn /\ popSize' = popSize
      /\ children' = <<>> /\ capacity' = capacity
  BY DEF EndGeneration
<1>3. \A s \in solutions' : s \in Sols /\ IsRight(s)
  <2>1. solutions' \subseteq solutions \cup Elems(population') BY MergedIsKept DEF EndGeneration
  <2> QED BY <1>1, <2>1 DEF Elems, SolutionsAreRight
<1>4. met' \subseteq Chroms BY <1>1 DEF EndGeneration, ChromsOf, Sols
<1>5. entries' \in Seq(CacheEntries) /\ CacheIsRight'
  <2>1. entries' = Inserted(entries, capacity, population) BY DEF EndGeneration
  <2>2. \A i \in DOMAIN population : IsRight(population[i])
    BY <1>2 DEF PopulationIsRight, Running
  <2> QED BY <1>2, <2>1, <2>2, InsertedIsRight DEF CacheIsRight
<1>6. DynamicIsUncached'
  <2>1. ASSUME IsDynamic PROVE entries' = <<>> /\ capacity' = 0
    <3>1. capacity = 0 /\ entries = <<>> BY <1>2, <2>1 DEF DynamicIsUncached
    <3>2. entries' = Inserted(entries, 0, population) BY <3>1 DEF EndGeneration
    <3> QED BY <1>2, <3>1, <3>2, NothingInserted
  <2> QED BY <1>2, <2>1 DEF DynamicIsUncached, IsDynamic
<1>7. PopulationIsRight' /\ ChildrenAreRight' /\ SolutionsAreRight'
  BY <1>1, <1>2, <1>3 DEF PopulationIsRight, ChildrenAreRight, SolutionsAreRight, Running, IsRight
<1>8. Lengths' BY <1>1, <1>2 DEF Lengths
<1>9. DataType' BY <1>1, <1>2, <1>3, <1>4, <1>5
<1> QED BY <1>5, <1>6, <1>7, <1>8, <1>9

LEMMA DataStep == ASSUME TypeInv, FitnessInv, [Next]_vars PROVE DataInv'
<1>1. ASSUME NEW m \in MaxGens, SetMaxGen(m) PROVE DataInv'
  BY <1>1 DEF SetMaxGen, TypeInv, DataInv, DataType, FitnessInv, Lengths, PopulationIsRight,
              ChildrenAreRight, SolutionsAreRight, CacheIsRight, DynamicIsUncached, Running,
              IsDynamic, IsRight, Plausible, settings, cacheVars, reports
<1>2. CASE Throw
  BY <1>2 DEF Throw, TypeInv, DataInv, DataType, FitnessInv, Lengths, PopulationIsRight,
              ChildrenAreRight, SolutionsAreRight, CacheIsRight, DynamicIsUncached, Running,
              IsDynamic, IsRight, Plausible, settings, cacheVars, reports
<1>3. CASE UNCHANGED vars
  BY <1>3 DEF vars, TypeInv, DataInv, DataType, FitnessInv, Lengths, PopulationIsRight,
              ChildrenAreRight, SolutionsAreRight, CacheIsRight, DynamicIsUncached, Running,
              IsDynamic, IsRight, Plausible, settings, cacheVars, reports
<1> QED BY <1>1, <1>2, <1>3, SolveData, EvaluateInitialData, BreedData, FinishBreedingData, VaryData,
           ContinueData, FinishInitializationData, StopData, EndGenerationData DEF Next

-----------------------------------------------------------------------------
\* Types and lengths, with the invariant of the fitness that they are inductive with.
THEOREM DataIsRight == Spec => [](TypeInv /\ FitnessInv)
<1>1. Init => TypeInv /\ FitnessInv BY InitTypeInv, InitFitness
<1>2. TypeInv /\ FitnessInv /\ [Next]_vars => (TypeInv /\ FitnessInv)'
  BY ControlStep, DataStep DEF TypeInv, DataInv
<1> QED BY <1>1, <1>2, PTL DEF Spec

\* FitnessIsCurrent: no candidate and no entry of the cache ever has a fitness
\* of another chromosome, another function or another run.
THEOREM FitnessStaysCurrent == Spec => []FitnessIsCurrent
<1>1. TypeInv /\ FitnessInv => FitnessIsCurrent
  BY DEF FitnessInv, PopulationIsRight, ChildrenAreRight, CacheIsRight, DynamicIsUncached,
         Running, FitnessIsCurrent, CandidatesAreConsistent, CacheMatchesFunction
<1> QED BY <1>1, DataIsRight, PTL

-----------------------------------------------------------------------------
(* The counters *)

\* The candidates of this run that evaluate() is through with.
Through == popSize * Len(seen) +
           (IF phase \in {"initial", "varying"} THEN popSize - Cardinality(todo) ELSE 0)

EvalsAreCounted ==
    phase \in {"initial", "checking", "breeding", "varying"} =>
       IF IsDynamic THEN evals = Through ELSE evals <= Through

GenerationsAreCounted ==
    /\ phase = "initial" => seen = <<>> /\ generation = 0
    /\ Running => Len(seen) = generation + 1

MetricIsCurrent == /\ Running => metric = metricSum
                   /\ phase \in {"checking", "breeding"} => metric = evals

CountersInv == /\ EvalsAreCounted /\ GenerationsAreCounted /\ MetricIsCurrent
               /\ GenerationsAreBounded /\ LimitIsRestored

LEMMA TodoCardinality ==
    ASSUME ControlType
    PROVE  /\ IsFiniteSet(todo) /\ Cardinality(todo) \in Nat
           /\ \A i \in todo : Cardinality(Ended(i)) = Cardinality(todo) - 1
           /\ Cardinality(1 .. popSize) = popSize
<1>1. popSize \in Nat /\ todo \in SUBSET (1 .. popSize) BY DEF ControlType
<1>2. IsFiniteSet(1 .. popSize) /\ Cardinality(1 .. popSize) = popSize BY <1>1, FS_Interval
<1>3. IsFiniteSet(todo) BY <1>1, <1>2, FS_Subset
<1>4. Cardinality(todo) \in Nat BY <1>3, FS_CardinalityType
<1>5. \A i \in todo : Cardinality(todo \ {i}) = Cardinality(todo) - 1 BY <1>3, FS_RemoveElement
<1> QED BY <1>2, <1>3, <1>4, <1>5 DEF Ended

LEMMA OneMoreGeneration == ASSUME NEW p \in Nat, NEW k \in Nat PROVE p * k \in Nat /\ p * (k + 1) = p * k + p
OBVIOUS

\* A dynamic function is called for every candidate.
LEMMA CallsCount ==
    ASSUME FitnessInv, phase # "idle", NEW sol
    PROVE  /\ CallsNeeded(sol) \in {0, 1}
           /\ IsDynamic => CallsNeeded(sol) = 1
BY DEF CallsNeeded, MayReuse, IsCached, FitnessInv, DynamicIsUncached, Cache!KeysOf

LEMMA InitCounters == Init => CountersInv
BY DEF Init, CountersInv, EvalsAreCounted, GenerationsAreCounted, MetricIsCurrent,
       GenerationsAreBounded, LimitIsRestored, Running

\* What the end of one iteration of a loop of evaluations does to the counters.
LEMMA IterationCounted ==
    ASSUME TypeInv, FitnessInv, CountersInv, phase \in {"initial", "varying"}, phase' = phase,
           NEW i \in todo, todo' = Ended(i), NEW sol, evals' = evals + CallsNeeded(sol),
           popSize' = popSize, seen' = seen, fn' = fn
    PROVE  EvalsAreCounted'
<1>1. Cardinality(todo') = Cardinality(todo) - 1 /\ Cardinality(todo) \in Nat
  BY TodoCardinality DEF TypeInv
<1>2. /\ CallsNeeded(sol) \in {0, 1}
      /\ IsDynamic => CallsNeeded(sol) = 1
  BY CallsCount
<1>3. popSize * Len(seen) \in Nat BY OneMoreGeneration DEF TypeInv, ControlType
<1>4. Through' = Through + 1 /\ Through \in Int BY <1>1, <1>3 DEF Through, TypeInv, ControlType
<1>5. evals \in Nat /\ IsDynamic' = IsDynamic BY DEF TypeInv, ControlType, IsDynamic
<1>6. IF IsDynamic THEN evals = Through ELSE evals <= Through
  BY DEF CountersInv, EvalsAreCounted
<1> HIDE DEF Through
<1> QED BY <1>2, <1>4, <1>5, <1>6 DEF EvalsAreCounted

LEMMA CountersStep ==
    ASSUME TypeInv, FitnessInv, CountersInv, [Next]_vars PROVE CountersInv'
<1> USE DEF CountersInv, GenerationsAreCounted, MetricIsCurrent, GenerationsAreBounded,
            LimitIsRestored, Running, settings, limits, cacheVars, reports
<1>0. ControlType BY DEF TypeInv
<1>1. ASSUME NEW m \in MaxGens, SetMaxGen(m) PROVE CountersInv'
  BY <1>1 DEF SetMaxGen, EvalsAreCounted
<1>2. ASSUME NEW f \in Functions, NEW s \in Settings, NEW pop \in InitialPopulations(f, s.popSize),
             Solve(f, s, pop)
      PROVE  CountersInv'
  <2>1. s.popSize \in Nat BY GaAssumption
  <2>2. todo' = 1 .. s.popSize BY <1>2 DEF Solve, InitialPopulations
  <2>3. Cardinality(todo') = s.popSize BY <2>1, <2>2, FS_Interval
  <2>4. s.popSize * 0 = 0 BY <2>1
  <2>5. EvalsAreCounted' BY <1>2, <2>1, <2>3, <2>4 DEF Solve, EvalsAreCounted, Through
  <2> QED BY <1>2, <2>5 DEF Solve
<1>3. ASSUME NEW i \in todo, EvaluateInitial(i) PROVE CountersInv'
  <2>1. CASE phase' = "aborted" BY <1>3, <2>1 DEF EvaluateInitial, EvalsAreCounted
  <2>2. CASE phase' = phase /\ todo' = Ended(i)
    <3>1. EvalsAreCounted' BY <1>3, <2>2, IterationCounted DEF EvaluateInitial
    <3> QED BY <1>3, <2>2, <3>1 DEF EvaluateInitial
  <2> QED BY <1>3, <2>1, <2>2 DEF EvaluateInitial
<1>4. ASSUME NEW i \in todo, Breed(i) PROVE CountersInv'
  BY <1>4 DEF Breed, EvalsAreCounted, Through, IsDynamic
<1>5. ASSUME NEW i \in todo, Vary(i) PROVE CountersInv'
  <2>1. CASE phase' = "aborted" BY <1>5, <2>1 DEF Vary, EvalsAreCounted
  <2>2. ASSUME phase' = phase, todo' = Ended(i), NEW sol, evals' = evals + CallsNeeded(sol)
        PROVE  CountersInv'
    <3>1. EvalsAreCounted' BY <1>5, <2>2, IterationCounted DEF Vary
    <3> QED BY <1>5, <2>2, <3>1 DEF Vary
  <2> QED BY <1>5, <2>1, <2>2 DEF Vary
<1>6. CASE FinishInitialization
  <2>1. Cardinality(todo) = 0 BY <1>6, FS_EmptySet DEF FinishInitialization
  <2>2. Len(seen) = 0 /\ Len(seen') = 1 /\ popSize * 0 = 0 /\ popSize * 1 = popSize
    BY <1>0, <1>6 DEF FinishInitialization, ControlType
  <2>3. EvalsAreCounted'
    BY <1>0, <1>6, <2>1, <2>2 DEF FinishInitialization, EvalsAreCounted, Through, IsDynamic, ControlType
  <2>4. Len(seen') = generation' + 1 /\ Len(seen') <= maxGen'
    BY <1>0, <1>6, <2>2 DEF FinishInitialization, ControlType
  <2> QED BY <1>0, <1>6, <2>3, <2>4 DEF FinishInitialization, FirstMetric, ControlType
<1>7. CASE Stop BY <1>7 DEF Stop, RestoreLimit, EvalsAreCounted
<1>8. CASE Continue
  <2>1. EvalsAreCounted' BY <1>8 DEF Continue, EvalsAreCounted, Through, IsDynamic
  <2> QED BY <1>0, <1>8, <2>1 DEF Continue, LimitReached, ControlType
<1>9. CASE FinishBreeding
  <2>1. Cardinality(todo') = popSize /\ popSize \in Nat
    BY <1>0, <1>9, TodoCardinality DEF FinishBreeding, ControlType
  <2>2. popSize * Len(seen) \in Nat BY <1>0, OneMoreGeneration DEF ControlType
  <2>3. EvalsAreCounted'
    BY <1>9, <2>1, <2>2 DEF FinishBreeding, EvalsAreCounted, Through, IsDynamic
  <2> QED BY <1>9, <2>3 DEF FinishBreeding
<1>10. CASE EndGeneration
  <2>1. Cardinality(todo) = 0 BY <1>10, FS_EmptySet DEF EndGeneration
  <2>2. Len(seen') = Len(seen) + 1 BY <1>0, <1>10 DEF EndGeneration, ControlType
  <2>3. popSize * Len(seen) \in Nat /\ popSize * Len(seen') = popSize * Len(seen) + popSize
    BY <1>0, <2>2, OneMoreGeneration DEF ControlType
  <2>4. Through' = Through
    BY <1>0, <1>10, <2>1, <2>3 DEF EndGeneration, Through, ControlType
  <2>5. EvalsAreCounted' BY <1>10, <2>4 DEF EndGeneration, EvalsAreCounted, IsDynamic
  <2>6. Len(seen) \in Nat /\ generation \in Nat /\ maxGen \in Nat /\ evals \in Nat /\ metric \in Int
    BY <1>0 DEF ControlType
  <2> QED BY <1>10, <2>2, <2>5, <2>6 DEF EndGeneration
<1>11. CASE Throw BY <1>11 DEF Throw, RestoreLimit, EvalsAreCounted
<1>12. CASE UNCHANGED vars
  BY <1>12 DEF vars, EvalsAreCounted, Through, IsDynamic
<1> QED BY <1>1, <1>2, <1>3, <1>4, <1>5, <1>6, <1>7, <1>8, <1>9, <1>10, <1>11, <1>12 DEF Next

\* RunsAreIndependent: a dynamic function is called exactly once for every candidate of
\* every generation, a run ends at its limit, and the limit of a call does not outlive it.
THEOREM RunsStayIndependent == Spec => []RunsAreIndependent
<1>1. Init => CountersInv BY InitCounters
<1>2. TypeInv /\ FitnessInv /\ CountersInv /\ [Next]_vars => CountersInv' BY CountersStep
<1>3. TypeInv /\ CountersInv => RunsAreIndependent
  <2> SUFFICES ASSUME TypeInv, CountersInv PROVE EvaluationsAreCounted
    BY DEF CountersInv, RunsAreIndependent
  <2>1. popSize * Len(seen) \in Nat BY OneMoreGeneration DEF TypeInv, ControlType
  <2> QED BY <2>1 DEF CountersInv, EvalsAreCounted, MetricIsCurrent, Running, Through, EvaluationsAreCounted
<1> QED BY <1>1, <1>2, <1>3, DataIsRight, PTL DEF Spec

-----------------------------------------------------------------------------
(* The archive *)

\* A fitness of d dominates one of c; a static function has only one of each.
Better(d, c) == \E u \in Fit[fn][c], v \in Fit[fn][d] : Dominates(v, u)

Chromosomes(S) == {s.chrom : s \in S}

LEMMA DominatesTransitive ==
    ASSUME NEW u \in Seq(Int), NEW v \in Seq(Int), NEW w \in Seq(Int),
           Len(u) = Len(v), Len(v) = Len(w), Dominates(u, v), Dominates(v, w)
    PROVE  Dominates(u, w)
<1>1. DOMAIN u = DOMAIN v /\ DOMAIN v = DOMAIN w OBVIOUS
<1>2. \A i \in DOMAIN u : u[i] \in Int /\ v[i] \in Int /\ w[i] \in Int BY <1>1
<1>3. \A i \in DOMAIN u : u[i] >= v[i] /\ v[i] >= w[i] BY <1>1 DEF Dominates
<1>4. PICK i \in DOMAIN u : u[i] > v[i] BY DEF Dominates
<1>5. \A j \in DOMAIN u : u[j] >= w[j] BY <1>2, <1>3
<1>6. u[i] > w[i] BY <1>2, <1>3, <1>4
<1> QED BY <1>5, <1>6 DEF Dominates

LEMMA DominatesIrreflexive == ASSUME NEW u \in Seq(Int) PROVE ~ Dominates(u, u)
BY DEF Dominates

LEMMA BetterIsStrict ==
    ASSUME fn \in Functions, ~ IsDynamic
    PROVE  /\ \A c \in Chroms : ~ Better(c, c)
           /\ \A a, b, c \in Chroms : Better(a, b) /\ Better(b, c) => Better(a, c)
<1>1. \A c \in Chroms : \E v \in Fit[fn][c] : Fit[fn][c] = {v} BY GaAssumption DEF IsDynamic
<1>2. \A c, d \in Chroms : \A u \in Fit[fn][c], v \in Fit[fn][d] : u \in Seq(Int) /\ Len(u) = Len(v)
  BY GaAssumption
<1>3. ASSUME NEW c \in Chroms, Better(c, c) PROVE FALSE
  <2>1. PICK u \in Fit[fn][c], v \in Fit[fn][c] : Dominates(v, u) BY <1>3 DEF Better
  <2>2. u = v BY <1>1
  <2>3. u \in Seq(Int) BY <1>2
  <2> QED BY <2>1, <2>2, <2>3, DominatesIrreflexive
<1>4. ASSUME NEW a \in Chroms, NEW b \in Chroms, NEW c \in Chroms, Better(a, b), Better(b, c)
      PROVE  Better(a, c)
  <2>1. PICK x \in Fit[fn][a], y \in Fit[fn][b] : Dominates(x, y) BY <1>4 DEF Better
  <2>2. PICK z \in Fit[fn][b], w \in Fit[fn][c] : Dominates(z, w) BY <1>4 DEF Better
  <2>3. y = z BY <1>1
  <2>4. x \in Seq(Int) /\ y \in Seq(Int) /\ w \in Seq(Int) /\ Len(x) = Len(y) /\ Len(y) = Len(w)
    BY <1>2, <2>3
  <2>5. Dominates(x, w) BY <2>1, <2>2, <2>3, <2>4, DominatesTransitive
  <2> QED BY <2>5 DEF Better
<1> QED BY <1>3, <1>4

LEMMA FrontIsUnbeaten == \A C : Front(C) = {c \in C : \A d \in C : ~ Better(d, c)}
BY DEF Front, Better

\* Going up from a chromosome of a finite set ends in its front.
LEMMA FrontDominates ==
    ASSUME fn \in Functions, ~ IsDynamic, NEW C \in SUBSET Chroms, IsFiniteSet(C), NEW c \in C
    PROVE  c \in Front(C) \/ \E d \in Front(C) : Better(d, c)
<1> DEFINE Above(x) == {y \in C : Better(y, x)}
           Sets == {Above(x) : x \in {c} \cup Above(c)}
<1>1. Sets \subseteq FiniteSubsetsOf(C)
  <2>1. ASSUME NEW x PROVE Above(x) \in SUBSET C /\ IsFiniteSet(Above(x))
    <3>1. Above(x) \in SUBSET C OBVIOUS
    <3> QED BY <3>1, FS_Subset
  <2> QED BY <2>1 DEF FiniteSubsetsOf
<1>2. Sets # {} OBVIOUS
<1>3. PICK U \in Sets : \A W \in Sets : <<W, U>> \notin StrictSubsetOrdering(C)
  <2> HIDE DEF Sets
  <2> QED BY <1>1, <1>2, WFMin, FS_StrictSubsetOrderingWellFounded
<1>4. PICK x \in {c} \cup Above(c) : U = Above(x) BY <1>3
<1>5. ASSUME NEW y \in C, Better(y, x) PROVE FALSE
  <2>1. x \in C /\ x \in Chroms /\ y \in Chroms /\ c \in Chroms BY <1>4
  <2>2. y \in Above(c) BY <1>4, <1>5, <2>1, BetterIsStrict
  <2>3. Above(y) \in Sets BY <2>2
  <2>4. Above(y) \subseteq Above(x) BY <1>5, <2>1, BetterIsStrict
  <2>5. y \in Above(x) /\ y \notin Above(y) BY <1>5, <2>1, BetterIsStrict
  <2>6. Above(y) \in SUBSET C /\ Above(x) \in SUBSET C OBVIOUS
  <2>7. <<Above(y), Above(x)>> \in StrictSubsetOrdering(C)
    <3> HIDE DEF Above
    <3> QED BY <2>4, <2>5, <2>6 DEF StrictSubsetOrdering
  <2> QED BY <1>3, <1>4, <2>3, <2>7
<1>6. x \in Front(C) BY <1>4, <1>5, FrontIsUnbeaten
<1> QED BY <1>4, <1>6

LEMMA FrontOfFronts ==
    ASSUME fn \in Functions, ~ IsDynamic, NEW A \in SUBSET Chroms, NEW B \in SUBSET Chroms,
           IsFiniteSet(A), IsFiniteSet(B)
    PROVE  Front(Front(A) \cup Front(B)) = Front(A \cup B)
<1>1. Front(A) \subseteq A /\ Front(B) \subseteq B BY FrontIsUnbeaten
<1>2. ASSUME NEW c \in Front(A \cup B) PROVE c \in Front(Front(A) \cup Front(B))
  BY <1>1, <1>2, FrontIsUnbeaten
<1>3. ASSUME NEW c \in Front(Front(A) \cup Front(B)), NEW d \in A \cup B, Better(d, c)
      PROVE  FALSE
  <2>1. c \in Chroms /\ d \in Chroms BY <1>1, FrontIsUnbeaten
  <2>2. \A e \in Front(A) \cup Front(B) : ~ Better(e, c) BY FrontIsUnbeaten
  <2>3. d \in Front(A) \cup Front(B) \/ \E e \in Front(A) \cup Front(B) : Better(e, d)
    BY FrontDominates
  <2>4. PICK e \in Front(A) \cup Front(B) : Better(e, d) BY <1>3, <2>2, <2>3
  <2>5. e \in Chroms BY <1>1
  <2>6. Better(e, c) BY <1>3, <2>1, <2>4, <2>5, BetterIsStrict
  <2> QED BY <2>2, <2>6
<1>4. ASSUME NEW c \in Front(Front(A) \cup Front(B)) PROVE c \in A \cup B
  BY <1>1, FrontIsUnbeaten
<1>5. \A c \in Front(Front(A) \cup Front(B)) : c \in Front(A \cup B)
  BY <1>3, <1>4, FrontIsUnbeaten
<1> QED BY <1>2, <1>5

\* The front of candidates with the right fitness is that of their chromosomes.
LEMMA FrontOfRight ==
    ASSUME fn \in Functions, ~ IsDynamic, NEW S \in SUBSET Sols, \A s \in S : IsRight(s)
    PROVE  Chromosomes(ParetoFront(S)) = Front(Chromosomes(S))
<1>1. \A c \in Chroms : \E v \in Fit[fn][c] : Fit[fn][c] = {v} BY GaAssumption DEF IsDynamic
<1>2. \A s \in S : s.chrom \in Chroms /\ Fit[fn][s.chrom] = {s.fitness}
  BY <1>1 DEF IsRight, Sols
<1>3. \A s, t \in S : Dominates(t.fitness, s.fitness) <=> Better(t.chrom, s.chrom)
  BY <1>2 DEF Better
<1>4. ASSUME NEW s \in S
      PROVE  s \in ParetoFront(S) <=> s.chrom \in Front(Chromosomes(S))
  BY <1>3, FrontIsUnbeaten DEF ParetoFront, Chromosomes
<1>5. ParetoFront(S) \subseteq S /\ Front(Chromosomes(S)) \subseteq Chromosomes(S)
  BY FrontIsUnbeaten DEF ParetoFront
<1> QED BY <1>4, <1>5 DEF Chromosomes

LEMMA MergedIsTheFront ==
    ASSUME fn \in Functions, ~ IsDynamic, NEW old \in SUBSET Sols, NEW pop \in SUBSET Sols,
           \A s \in old \cup pop : IsRight(s), NEW T \in Merged(old, pop)
    PROVE  Chromosomes(T) = Front(Chromosomes(old) \cup Front(Chromosomes(pop)))
<1> DEFINE S == old \cup ParetoFront(pop)
<1>1. S \in SUBSET Sols /\ \A s \in S : IsRight(s) BY DEF ParetoFront
<1>2. Chromosomes(ParetoFront(pop)) = Front(Chromosomes(pop)) BY FrontOfRight
<1>3. Chromosomes(S) = Chromosomes(old) \cup Front(Chromosomes(pop)) BY <1>2 DEF Chromosomes
<1>4. Chromosomes(T) = Chromosomes(ParetoFront(S))
  BY DEF Merged, OnePerChrom, Chromosomes
<1>5. Chromosomes(ParetoFront(S)) = Front(Chromosomes(S))
  <2> HIDE DEF S
  <2> QED BY <1>1, FrontOfRight
<1> QED BY <1>3, <1>4, <1>5

LEMMA PopulationChroms ==
    ASSUME NEW pop \in Seq(Sols)
    PROVE  /\ ChromsOf(pop) = Chromosomes(Elems(pop))
           /\ ChromsOf(pop) \in SUBSET Chroms /\ IsFiniteSet(ChromsOf(pop))
           /\ Elems(pop) \in SUBSET Sols
<1>1. \A i \in DOMAIN pop : pop[i] \in Sols /\ pop[i].chrom \in Chroms
  <2>1. \A i \in DOMAIN pop : pop[i] \in Sols OBVIOUS
  <2> QED BY <2>1 DEF Sols
<1> DEFINE f == [i \in 1 .. Len(pop) |-> pop[i].chrom]
<1>2. f \in Surjection(1 .. Len(pop), ChromsOf(pop)) BY DEF Surjection, ChromsOf
<1>3. Len(pop) \in Nat OBVIOUS
<1>4. IsFiniteSet(1 .. Len(pop)) BY <1>3, FS_Interval
<1>5. IsFiniteSet(ChromsOf(pop)) BY <1>2, <1>4, FS_Surjection
<1> QED BY <1>1, <1>5 DEF ChromsOf, Chromosomes, Elems

\* The archive while a run lasts; without keep_all_optimal_solutions() there is none.
ArchiveInv ==
    /\ Running => IsFiniteSet(met)
    /\ Running /\ ~ IsDynamic /\ keepAll => Chromosomes(solutions) = Front(met)
    /\ (phase = "initial" \/ Running) /\ ~ keepAll => solutions = {}

LEMMA ArchiveAfterInitialization ==
    ASSUME TypeInv, FitnessInv, FinishInitialization PROVE ArchiveInv'
<1>1. population \in Seq(Sols) /\ fn \in Functions BY DEF TypeInv, DataType, ControlType
<1>2. met' = ChromsOf(population) /\ met' = Chromosomes(Elems(population)) /\ IsFiniteSet(met')
      /\ Elems(population) \in SUBSET Sols
  BY <1>1, PopulationChroms DEF FinishInitialization
<1>3. \A s \in Elems(population) : IsRight(s)
  BY DEF FinishInitialization, FitnessInv, PopulationIsRight, Elems
<1>4. ASSUME ~ IsDynamic, keepAll PROVE Chromosomes(solutions') = Front(met')
  <2>1. solutions' = ParetoFront(Elems(population)) BY <1>4 DEF FinishInitialization
  <2> QED BY <1>1, <1>2, <1>3, <1>4, <2>1, FrontOfRight
<1>5. fn' = fn /\ keepAll' = keepAll /\ (~ keepAll => solutions' = {})
  BY DEF FinishInitialization, settings
<1>6. (Chromosomes(solutions) = Front(met))' <=> Chromosomes(solutions') = Front(met')
  BY <1>5 DEF Chromosomes, Front
<1> QED BY <1>2, <1>4, <1>5, <1>6 DEF ArchiveInv, IsDynamic

LEMMA ArchiveAfterGeneration ==
    ASSUME TypeInv, FitnessInv, ArchiveInv, EndGeneration PROVE ArchiveInv'
<1>1. /\ phase = "varying" /\ Running /\ fn \in Functions /\ solutions \in SUBSET Sols
      /\ met \in SUBSET Chroms /\ IsFiniteSet(met) /\ keepAll' = keepAll /\ fn' = fn
  BY DEF EndGeneration, Running, TypeInv, DataType, ControlType, ArchiveInv, settings
<1>2. population' \in Seq(Sols) /\ \A i \in DOMAIN population' : IsRight(population'[i])
  BY PoolIsRight
<1> DEFINE new == ChromsOf(population')
<1>3. /\ new = Chromosomes(Elems(population')) /\ new \in SUBSET Chroms /\ IsFiniteSet(new)
      /\ Elems(population') \in SUBSET Sols
  BY <1>2, PopulationChroms
<1>4. \A s \in solutions \cup Elems(population') : IsRight(s)
  BY <1>2 DEF FitnessInv, SolutionsAreRight, Elems
<1> HIDE DEF new
<1>5. met' = met \cup new BY DEF EndGeneration, new
<1>6. IsFiniteSet(met') BY <1>1, <1>3, <1>5, FS_Union
<1>7. ASSUME ~ IsDynamic, keepAll PROVE Chromosomes(solutions') = Front(met')
  <2>1. solutions' \in Merged(solutions, Elems(population')) BY <1>7 DEF EndGeneration
  <2>2. Chromosomes(solutions') = Front(Chromosomes(solutions) \cup Front(new))
    BY <1>1, <1>3, <1>4, <1>7, <2>1, MergedIsTheFront
  <2>3. Chromosomes(solutions) = Front(met) BY <1>1, <1>7 DEF ArchiveInv
  <2>4. Front(Front(met) \cup Front(new)) = Front(met \cup new)
    BY <1>1, <1>3, <1>7, FrontOfFronts
  <2> QED BY <1>5, <2>2, <2>3, <2>4
<1>8. (Chromosomes(solutions) = Front(met))' <=> Chromosomes(solutions') = Front(met')
  BY <1>1 DEF Chromosomes, Front
<1>9. ~ keepAll => solutions' = {} BY <1>1 DEF EndGeneration, ArchiveInv
<1> QED BY <1>1, <1>6, <1>7, <1>8, <1>9 DEF ArchiveInv, IsDynamic

LEMMA ArchiveStep ==
    ASSUME TypeInv, FitnessInv, ArchiveInv, [Next]_vars PROVE ArchiveInv'
<1> USE DEF ArchiveInv, Running, IsDynamic, Chromosomes, Front, settings, reports, cacheVars, limits
<1>1. ASSUME NEW m \in MaxGens, SetMaxGen(m) PROVE ArchiveInv' BY <1>1 DEF SetMaxGen
<1>2. ASSUME NEW f \in Functions, NEW s \in Settings, NEW pop \in InitialPopulations(f, s.popSize),
             Solve(f, s, pop)
      PROVE  ArchiveInv'
  BY <1>2 DEF Solve, ClearSolutions
<1>3. ASSUME NEW i \in todo, EvaluateInitial(i) PROVE ArchiveInv' BY <1>3 DEF EvaluateInitial
<1>4. ASSUME NEW i \in todo, Breed(i) PROVE ArchiveInv' BY <1>4 DEF Breed
<1>5. ASSUME NEW i \in todo, Vary(i) PROVE ArchiveInv' BY <1>5 DEF Vary
<1>6. CASE Stop BY <1>6 DEF Stop
<1>7. CASE Continue BY <1>7 DEF Continue
<1>8. CASE FinishBreeding BY <1>8 DEF FinishBreeding
<1>9. CASE Throw BY <1>9 DEF Throw
<1>10. CASE UNCHANGED vars BY <1>10 DEF vars
<1> QED BY <1>1, <1>2, <1>3, <1>4, <1>5, <1>6, <1>7, <1>8, <1>9, <1>10,
           ArchiveAfterInitialization, ArchiveAfterGeneration DEF Next

LEMMA ArchiveHolds == Spec => []ArchiveInv
<1>1. Init => ArchiveInv BY DEF Init, ArchiveInv, Running
<1>2. TypeInv /\ FitnessInv /\ ArchiveInv /\ [Next]_vars => ArchiveInv' BY ArchiveStep
<1> QED BY <1>1, <1>2, DataIsRight, PTL DEF Spec

\* ArchiveIsComplete: the fronts of the generations, merged one by one, are the
\* front of everything that the run has ever had in a population.
THEOREM ArchiveStaysComplete == Spec => []ArchiveIsComplete
<1>1. ArchiveInv => ArchiveIsComplete
  BY DEF ArchiveInv, Running, ArchiveIsComplete, Chromosomes
<1> QED BY <1>1, ArchiveHolds, PTL

\* ResultIsLastFront: a run that keeps no archive returns the front of its last
\* population, whatever earlier runs have left behind.
THEOREM ResultStaysLastFront == Spec => ResultIsLastFront
<1> DEFINE A == phase = "checking" /\ phase' = "idle" /\ ~ keepAll /\ ~ IsDynamic =>
                  /\ {s.chrom : s \in solutions'} = Front(ChromsOf(population))
                  /\ \A s \in solutions' : s \in Elems(population)
<1>1. ASSUME TypeInv, FitnessInv, ArchiveInv, [Next]_vars PROVE [A]_vars
  <2> SUFFICES ASSUME phase = "checking", phase' = "idle", ~ keepAll, ~ IsDynamic
               PROVE  /\ {s.chrom : s \in solutions'} = Front(ChromsOf(population))
                      /\ \A s \in solutions' : s \in Elems(population)
    OBVIOUS
  <2>1. Stop
    BY <1>1 DEF Next, vars, SetMaxGen, Solve, EvaluateInitial, Breed, Vary, FinishInitialization,
                Continue, FinishBreeding, EndGeneration, Throw
  <2>2. solutions = {} BY <1>1 DEF ArchiveInv, Running
  <2>3. solutions' \in Merged({}, Elems(population)) BY <2>1, <2>2 DEF Stop
  <2>4. population \in Seq(Sols) /\ fn \in Functions BY <1>1 DEF TypeInv, DataType, ControlType
  <2>5. \A s \in Elems(population) : IsRight(s)
    BY <1>1 DEF FitnessInv, PopulationIsRight, Running, Elems
  <2> DEFINE C == ChromsOf(population)
  <2>6. /\ C = Chromosomes(Elems(population)) /\ C \in SUBSET Chroms /\ IsFiniteSet(C)
        /\ Elems(population) \in SUBSET Sols
    BY <2>4, PopulationChroms
  <2> HIDE DEF C
  <2>7. Chromosomes(solutions') = Front(Chromosomes({}) \cup Front(C))
    BY <2>3, <2>4, <2>5, <2>6, MergedIsTheFront
  <2>8. Chromosomes({}) = {} /\ Front({}) = {} /\ IsFiniteSet({})
    BY FS_EmptySet DEF Chromosomes, Front
  <2>9. Front(Front(C)) = Front(C) BY <2>4, <2>6, <2>8, FrontOfFronts
  <2>10. solutions' \subseteq Elems(population) BY <2>3, MergedIsKept
  <2> QED BY <2>7, <2>8, <2>9, <2>10 DEF Chromosomes, C
<1>2. TypeInv /\ FitnessInv /\ ArchiveInv /\ [Next]_vars => [A]_vars BY <1>1
<1> QED BY <1>2, DataIsRight, ArchiveHolds, PTL DEF Spec, ResultIsLastFront

-----------------------------------------------------------------------------
(* How the object is set up: whatever the order of constructors, setters and *)
(* runs, the choices of the user survive and a run starts from parts that    *)
(* fit its function.                                                         *)

Pointers == UserAlgorithms \cup {Null}

SetupType ==
    /\ suPhase \in {"none", "ready", "running", "bounds refused", "population refused",
                    "evaluation refused", "algorithm refused"}
    /\ suBounded \in BOOLEAN /\ suUseDefaultAlgorithm \in BOOLEAN /\ suUseDefaultRate \in BOOLEAN
    /\ suMutation \in [rate : Nat, anyLength : BOOLEAN]
    /\ suCrossover \in [rate : Nat, anyLength : BOOLEAN]
    /\ suPopSize \in Nat \ {0} /\ suCachedGens \in Nat
    /\ suWant \in [algorithm : Pointers, rate : Nat, crossover : Nat, forgotten : BOOLEAN]

\* A flag is up only while the user has left the part to the library.  The converse
\* does not hold: the flag of the rate comes down with the first run, and two of the
\* constructors leave the flag of the algorithm down, which is all that is forgotten.
FlagsAreHonest == suPhase # "none" =>
                    /\ suUseDefaultAlgorithm => suWant.algorithm = Null
                    /\ suWant.algorithm = Null => suUseDefaultAlgorithm \/ suWant.forgotten
                    /\ suUseDefaultRate => suWant.rate = Open

SetupInv == SetupType /\ FlagsAreHonest /\ ChoicesSurvive /\ RunFitsFunction

LEMMA OperatorTypes ==
    /\ UserOperators \subseteq [rate : Nat, anyLength : BOOLEAN]
    /\ {DefaultCrossover, DefaultMutation, CrossoverLambda, MutationLambda}
         \subseteq [rate : Nat, anyLength : BOOLEAN]
    /\ SuRates \subseteq Nat /\ SuPopSizes \subseteq Nat \ {0}
BY SuAssumption DEF UserOperators, Operator, DefaultCrossover, DefaultMutation, CrossoverLambda,
                    MutationLambda

LEMMA NullIsNobodys == Null \notin UserAlgorithms /\ DefaultAlgorithm(1) # Null /\ SingleObjective # Null
BY DEF Null, UserAlgorithms, Alg, DefaultAlgorithm, SingleObjective

\* nullptr stands for the single-objective default.
LEMMA OrKeepsChoice ==
    ASSUME NEW a \in Pointers
    PROVE  a # Null => Or(a, SingleObjective) = a
BY DEF Or

LEMMA SetupInit == SuInit => SetupInv
<1> SUFFICES ASSUME SuInit PROVE SetupInv OBVIOUS
<1>1. SetupType
  <2>1. suMutation \in [rate : Nat, anyLength : BOOLEAN] /\ suCrossover \in [rate : Nat, anyLength : BOOLEAN]
    BY OperatorTypes DEF SuInit
  <2>2. suWant \in [algorithm : Pointers, rate : Nat, crossover : Nat, forgotten : BOOLEAN]
    BY DEF SuInit, Open, Pointers
  <2>3. suUseDefaultAlgorithm \in BOOLEAN /\ suUseDefaultRate \in BOOLEAN BY Zenon DEF SuInit
  <2>4. suPopSize \in Nat \ {0} /\ suCachedGens \in Nat BY DEF SuInit
  <2> QED BY <2>1, <2>2, <2>3, <2>4 DEF SuInit, SetupType
<1>2. FlagsAreHonest /\ ChoicesSurvive /\ RunFitsFunction
  BY DEF SuInit, FlagsAreHonest, ChoicesSurvive, RunFitsFunction
<1> QED BY <1>1, <1>2 DEF SetupInv

LEMMA ConstructStep ==
    ASSUME SetupInv, NEW a \in Pointers, NEW x \in UserOperators \cup {DefaultCrossover},
           NEW m \in UserOperators \cup {DefaultMutation}, NEW s \in Stops,
           NEW isOpen \in BOOLEAN, NEW rateIsOpen \in BOOLEAN, NEW rate \in Nat, NEW forgotten \in BOOLEAN,
           Construct(a, x, m, s), Flags(isOpen, rateIsOpen), Wants(a, rate, x.rate, forgotten),
           isOpen => a = Null, a = Null => isOpen \/ forgotten, rateIsOpen => rate = Open, rate # Open => rate = m.rate
    PROVE  SetupInv'
<1>1. /\ suPhase' = "ready" /\ suAlgorithm' = Or(a, SingleObjective) /\ suCrossover' = x
      /\ suMutation' = m /\ suPopSize' \in Nat \ {0} /\ suCachedGens' = suCachedGens
      /\ suBounded' = suBounded /\ suUseDefaultAlgorithm' = isOpen /\ suUseDefaultRate' = rateIsOpen
      /\ suWant' = [algorithm |-> a, rate |-> rate, crossover |-> x.rate, forgotten |-> forgotten]
  BY OperatorTypes DEF Construct, Flags, Wants
<1>2. x \in [rate : Nat, anyLength : BOOLEAN] /\ m \in [rate : Nat, anyLength : BOOLEAN]
  BY OperatorTypes
<1>3. SetupType' BY <1>1, <1>2 DEF SetupInv, SetupType
<1>4. FlagsAreHonest' /\ ChoicesSurvive' BY <1>1, OrKeepsChoice DEF FlagsAreHonest, ChoicesSurvive
<1>5. RunFitsFunction' BY <1>1 DEF RunFitsFunction
<1> QED BY <1>3, <1>4, <1>5 DEF SetupInv

LEMMA ConstructorStep ==
    ASSUME SetupInv, ConstructDefault \/ ConstructAlgorithm \/ ConstructOperators
                       \/ ConstructOperatorValues \/ ConstructAll
    PROVE  SetupInv'
<1> USE DEF Pointers
<1>0. /\ \A x \in UserOperators : x.rate \in Nat
      /\ DefaultCrossover.rate = 80 /\ Open \in Nat /\ "never" \in Stops
      /\ Or(SingleObjective, SingleObjective) = Or(Null, SingleObjective)
  BY OperatorTypes, NullIsNobodys DEF DefaultCrossover, Operator, Open, Stops, Or
<1>1. CASE ConstructDefault
  <2>1. Construct(Null, DefaultCrossover, DefaultMutation, "never")
    BY <1>0, <1>1 DEF ConstructDefault, Construct
  <2>2. Flags(TRUE, TRUE) /\ Wants(Null, Open, DefaultCrossover.rate, FALSE)
    BY <1>0, <1>1 DEF ConstructDefault
  <2> QED BY <1>0, <2>1, <2>2, ConstructStep
<1>2. CASE ConstructAlgorithm
  <2>1. PICK a \in UserAlgorithms \cup {Null} :
          Construct(a, DefaultCrossover, DefaultMutation, "never") /\ Flags(FALSE, TRUE)
            /\ Wants(a, Open, DefaultCrossover.rate, a = Null)
    BY <1>0, <1>2 DEF ConstructAlgorithm
  <2> QED BY <1>0, <2>1, ConstructStep
<1>3. ASSUME NEW x \in UserOperators, NEW m \in UserOperators, NEW s \in Stops, NEW isOpen \in BOOLEAN,
             Construct(SingleObjective, x, m, s), Flags(isOpen, FALSE),
             Wants(Null, m.rate, x.rate, ~ isOpen)
      PROVE  SetupInv'
  <2>1. Construct(Null, x, m, s) BY <1>0, <1>3 DEF Construct
  <2>2. m.rate \in Nat BY <1>0
  <2> QED BY <1>3, <2>1, <2>2, ConstructStep, ZenonT(40)
<1>4. CASE ConstructOperators BY <1>3, <1>4 DEF ConstructOperators
<1>5. CASE ConstructOperatorValues BY <1>3, <1>5 DEF ConstructOperatorValues
<1>6. CASE ConstructAll
  <2>1. PICK a \in UserAlgorithms \cup {Null}, x \in UserOperators, m \in UserOperators, s \in Stops :
          Construct(a, x, m, s) /\ Flags(a = Null, FALSE) /\ Wants(a, m.rate, x.rate, FALSE)
    BY <1>6 DEF ConstructAll
  <2> QED BY <1>0, <2>1, ConstructStep
<1> QED BY <1>1, <1>2, <1>4, <1>5, <1>6

\* Setters leave the object ready: what RunFitsFunction says of a run is void.
LEMMA ReadyIsEnough ==
    ASSUME SetupType', FlagsAreHonest', ChoicesSurvive', suPhase' = "ready" PROVE SetupInv'
BY DEF SetupInv, RunFitsFunction

LEMMA SetStep == ASSUME SetupInv, Set PROVE SetupInv'
<1> USE DEF SetupInv, Setter, Call, SetupType, FlagsAreHonest, ChoicesSurvive
<1>1. ASSUME NEW a \in UserAlgorithms \cup {Null}, SetAlgorithm(a) PROVE SetupInv'
  <2>1. suPhase' = "ready" /\ suPhase = "ready" BY <1>1 DEF SetAlgorithm
  <2>2. SetupType' BY <1>1 DEF SetAlgorithm, Pointers
  <2>3. FlagsAreHonest' BY <1>1, <2>1 DEF SetAlgorithm
  <2>4. ChoicesSurvive' BY <1>1, <2>1 DEF SetAlgorithm, Or
  <2> QED BY <2>1, <2>2, <2>3, <2>4, ReadyIsEnough
<1>2. ASSUME NEW s \in Stops, SetStopCondition(s) PROVE SetupInv'
  BY <1>2, ReadyIsEnough DEF SetStopCondition
<1>3. ASSUME NEW x \in UserOperators \cup {CrossoverLambda}, SetCrossover(x) PROVE SetupInv'
  <2>1. x \in [rate : Nat, anyLength : BOOLEAN] BY OperatorTypes
  <2> QED BY <1>3, <2>1, ReadyIsEnough DEF SetCrossover
<1>4. ASSUME NEW m \in UserOperators, SetMutation(m) PROVE SetupInv'
  <2>1. m \in [rate : Nat, anyLength : BOOLEAN] BY OperatorTypes
  <2> QED BY <1>4, <2>1, ReadyIsEnough DEF SetMutation
<1>5. ASSUME NEW p \in SuRates, SetCrossoverRate(p) PROVE SetupInv'
  <2>1. p \in Nat BY OperatorTypes
  <2> QED BY <1>5, <2>1, ReadyIsEnough DEF SetCrossoverRate
<1>6. ASSUME NEW p \in SuRates, SetMutationRate(p) PROVE SetupInv'
  <2>1. p \in Nat BY OperatorTypes
  <2> QED BY <1>6, <2>1, ReadyIsEnough DEF SetMutationRate
<1>7. CASE SetMutationLambda
  <2>1. MutationLambda \in [rate : Nat, anyLength : BOOLEAN] BY OperatorTypes
  <2> QED BY <1>7, <2>1, ReadyIsEnough DEF SetMutationLambda, Open
<1>8. ASSUME NEW n \in SuPopSizes, NEW g \in {0, 2}, SetSizes(n, g) PROVE SetupInv'
  <2>1. n \in Nat \ {0} BY OperatorTypes
  <2> QED BY <1>8, <2>1, ReadyIsEnough DEF SetSizes
<1> QED BY <1>1, <1>2, <1>3, <1>4, <1>5, <1>6, <1>7, <1>8 DEF Set

-----------------------------------------------------------------------------
\* What every way of ending the preparation of a run leaves alone.
LEMMA BeginKeeps ==
    ASSUME SetupInv, NEW f \in SuFunctions, NEW b, Begin(f, b)
    PROVE  /\ suPhase = "ready"
           /\ suBounded' = suBounded /\ suPopSize' = suPopSize /\ suCachedGens' = suCachedGens
           /\ suCrossover' = suCrossover /\ suWant' = suWant /\ suFunction' = f
           /\ suCapacity' = Capacity(f)
           /\ suBounded => suBounds' = BoundsFor(f, b)
BY DEF Begin, Call

\* A preparation that fails deduces nothing.
LEMMA RefusedKeepsChoices ==
    ASSUME SetupInv, suPhase = "ready",
           UNCHANGED <<suBounded, suAlgorithm, suUseDefaultAlgorithm, suMutation, suUseDefaultRate,
                       suCrossover, suPopSize, suCachedGens, suWant>>,
           suPhase' \in {"ready", "bounds refused", "population refused", "evaluation refused"}
    PROVE  SetupInv'
<1>1. SetupType' BY DEF SetupInv, SetupType
<1>2. FlagsAreHonest' /\ ChoicesSurvive' BY DEF SetupInv, FlagsAreHonest, ChoicesSurvive
<1>3. RunFitsFunction' BY DEF RunFitsFunction
<1> QED BY <1>1, <1>2, <1>3 DEF SetupInv

\* The population that a run starts with: its size, and chromosomes that fit.
LEMMA PopulationFits ==
    ASSUME NEW f \in SuFunctions, NEW supplied \in Seq(Nat), suPopSize \in Nat \ {0},
           \A i \in DOMAIN supplied : HasValidChromosome(f, supplied[i])
    PROVE  /\ Len(GeneratedPopulation(f, supplied)) = suPopSize
           /\ \A i \in DOMAIN GeneratedPopulation(f, supplied) :
                AnyLengthAllowed \/ GeneratedPopulation(f, supplied)[i] = f.len
<1> DEFINE pop == GeneratedPopulation(f, supplied)
<1>1. DOMAIN pop = 1 .. suPopSize BY DEF GeneratedPopulation
<1>2. Len(pop) = suPopSize
  <2>1. pop \in Seq({pop[i] : i \in 1 .. suPopSize}) BY DEF GeneratedPopulation
  <2> QED BY <1>1, <2>1, LenProperties
<1>3. ASSUME NEW i \in 1 .. suPopSize PROVE AnyLengthAllowed \/ pop[i] = f.len
  <2>1. CASE i <= Len(supplied)
    <3>1. i \in DOMAIN supplied BY <2>1
    <3> QED BY <2>1, <3>1 DEF HasValidChromosome, GeneratedPopulation
  <2>2. CASE ~ i <= Len(supplied) BY <2>2 DEF GeneratedPopulation
  <2> QED BY <2>1, <2>2
<1> QED BY <1>1, <1>2, <1>3

\* A capacity is a whole number of populations.
LEMMA CapacityIsWhole ==
    ASSUME NEW g \in Nat, NEW n \in Nat \ {0} PROVE (g * n) % n = 0
<1>1. g * n \in Nat OBVIOUS
<1>2. g * n = n * g + 0 OBVIOUS
<1> QED BY <1>1, <1>2

LEMMA InitializeStep ==
    ASSUME SetupInv, NEW f \in SuFunctions, NEW b, NEW supplied \in Seq(Nat), Initialize(f, b, supplied)
    PROVE  SetupInv'
<1> DEFINE refused == suAlgorithm'.goal # GoalOf(suObjectives')
<1>1. Begin(f, b) /\ ~ BoundsAreWrong(f, b) /\ ~ CachesDynamic(f) BY DEF Initialize
<1>2. /\ suPhase = "ready"
      /\ suBounded' = suBounded /\ suPopSize' = suPopSize /\ suCachedGens' = suCachedGens
      /\ suCrossover' = suCrossover /\ suWant' = suWant /\ suFunction' = f
      /\ suCapacity' = Capacity(f)
      /\ suBounded => suBounds' = BoundsFor(f, b)
  BY <1>1, BeginKeeps
<1>3. suUseDefaultAlgorithm' = suUseDefaultAlgorithm /\ suObjectives' = f.objectives BY DEF Initialize
<1>4. suAlgorithm' = IF suUseDefaultAlgorithm THEN DefaultAlgorithm(f.objectives) ELSE suAlgorithm
  BY <1>3 DEF Initialize
<1>5. CASE refused
  <2>1. suPhase' = "algorithm refused" /\ suMutation' = suMutation /\ suUseDefaultRate' = suUseDefaultRate
    BY <1>5 DEF Initialize
  <2>2. ~ suUseDefaultAlgorithm BY <1>3, <1>4, <1>5 DEF DefaultAlgorithm, Alg
  <2>3. SetupType' BY <1>2, <1>3, <2>1 DEF SetupInv, SetupType
  <2>4. FlagsAreHonest' /\ ChoicesSurvive'
    BY <1>2, <1>3, <1>4, <2>1, <2>2 DEF SetupInv, FlagsAreHonest, ChoicesSurvive
  <2>5. RunFitsFunction'
    <3>1. suAlgorithm' = suAlgorithm BY <1>4, <2>2
    <3>2. CASE suWant.algorithm = Null
      BY <1>2, <2>1, <2>2, <3>2 DEF SetupInv, FlagsAreHonest, RunFitsFunction
    <3>3. CASE suWant.algorithm # Null
      BY <1>2, <1>3, <1>5, <2>1, <3>1, <3>3 DEF SetupInv, ChoicesSurvive, RunFitsFunction
    <3> QED BY <3>2, <3>3
  <2> QED BY <2>3, <2>4, <2>5 DEF SetupInv
<1>6. CASE ~ refused
  <2>1. /\ suPhase' = "running"
        /\ IF suUseDefaultRate
           THEN suMutation' = [suMutation EXCEPT !.rate = SuDefaultRate[f.len]] /\ suUseDefaultRate' = FALSE
           ELSE suMutation' = suMutation /\ suUseDefaultRate' = suUseDefaultRate
    BY <1>6 DEF Initialize
  <2>2. SuDefaultRate[f.len] \in Nat BY SuAssumption DEF SuFunctions
  <2>3. suMutation \in [rate : Nat, anyLength : BOOLEAN] BY DEF SetupInv, SetupType
  <2>4. /\ suMutation' \in [rate : Nat, anyLength : BOOLEAN]
        /\ suMutation'.anyLength = suMutation.anyLength
        /\ ~ suUseDefaultRate => suMutation' = suMutation
    BY <2>1, <2>2, <2>3
  <2>5. suUseDefaultRate' => suUseDefaultRate BY <2>1
  <2>6. suUseDefaultRate' \in BOOLEAN
    <3>1. CASE suUseDefaultRate BY <2>1, <3>1, Zenon
    <3>2. CASE ~ suUseDefaultRate
      <4>1. suUseDefaultRate' = suUseDefaultRate BY <2>1, <3>2
      <4> QED BY <4>1, Zenon DEF SetupInv, SetupType
    <3> QED BY <3>1, <3>2
  <2>7. SetupType' BY <1>2, <1>3, <2>1, <2>4, <2>6 DEF SetupInv, SetupType
  <2>8. FlagsAreHonest' BY <1>2, <1>3, <2>1, <2>5 DEF SetupInv, FlagsAreHonest
  <2>9. ChoicesSurvive'
    <3>1. suWant.algorithm # Null => suAlgorithm' = suWant.algorithm
      BY <1>2, <1>4 DEF SetupInv, FlagsAreHonest, ChoicesSurvive
    <3>2. suWant.rate # Open => suMutation'.rate = suWant.rate
      BY <1>2, <2>4 DEF SetupInv, FlagsAreHonest, ChoicesSurvive
    <3>3. suCrossover.rate = suWant.crossover BY <1>2 DEF SetupInv, ChoicesSurvive
    <3> QED BY <1>2, <3>1, <3>2, <3>3 DEF ChoicesSurvive
  <2>10. RunFitsFunction'
    <3>1. suAlgorithm'.goal = GoalOf(suFunction'.objectives) BY <1>2, <1>3, <1>6
    <3>2. suPopSize \in Nat \ {0} /\ suCachedGens \in Nat BY DEF SetupInv, SetupType
    <3>3. /\ suPopulation' = GeneratedPopulation(f, supplied)
          /\ \A i \in DOMAIN supplied : HasValidChromosome(f, supplied[i])
      BY DEF Initialize
    <3>4. AnyLengthAllowed' <=> AnyLengthAllowed BY <1>2, <2>4 DEF AnyLengthAllowed
    <3>5. /\ Len(suPopulation') = suPopSize'
          /\ \A i \in DOMAIN suPopulation' : AnyLengthAllowed' \/ suPopulation'[i] = suFunction'.len
      BY <1>2, <3>2, <3>3, <3>4, PopulationFits
    <3>6. suBounded' => suBounds' = suFunction'.len BY <1>1, <1>2 DEF BoundsAreWrong
    <3>7. suCapacity' > 0 => ~ suFunction'.dynamic /\ suCapacity' % suPopSize' = 0
      BY <1>2, <3>2, CapacityIsWhole DEF Capacity
    <3>8. suPhase' # "algorithm refused" BY <2>1
    <3> QED BY <3>1, <3>5, <3>6, <3>7, <3>8 DEF RunFitsFunction
  <2> QED BY <2>7, <2>8, <2>9, <2>10 DEF SetupInv
<1> QED BY <1>5, <1>6

LEMMA SuppliedAreLengths ==
    ASSUME SetupInv PROVE \A s \in SuSupplied : s \in Seq(Nat)
<1>1. suPopSize \in Nat BY DEF SetupInv, SetupType
<1>2. suPopSize + 1 \in Nat BY <1>1
<1>3. SuLengths \subseteq Nat BY SuAssumption
<1>4. \A n \in SuLengths : [i \in 1 .. suPopSize + 1 |-> n] \in Seq(Nat) BY <1>2, <1>3
<1>5. \A n \in SuLengths : <<n>> \in Seq(Nat) BY <1>3
<1>6. <<>> \in Seq(Nat) OBVIOUS
<1> QED BY <1>4, <1>5, <1>6, Zenon DEF SuSupplied

LEMMA SolveStep == ASSUME SetupInv, SuSolve PROVE SetupInv'
<1> USE DEF suParts, suRun
<1>1. PICK f \in SuFunctions, b \in (IF suBounded THEN SuLengths ELSE {}) \cup {Open} :
         \/ RefuseBounds(f, b) \/ ThrowEarly(f, b)
         \/ \E s \in SuSupplied : \/ ThrowLate(f, b, s) \/ RefusePopulation(f, b, s)
                                  \/ RefuseEvaluation(f, b, s) \/ Initialize(f, b, s)
  BY DEF SuSolve
<1>2. CASE RefuseBounds(f, b) BY <1>2, RefusedKeepsChoices DEF RefuseBounds, Call
<1>3. CASE ThrowEarly(f, b) BY <1>3, RefusedKeepsChoices, BeginKeeps DEF ThrowEarly
<1>4. ASSUME NEW s \in SuSupplied, ThrowLate(f, b, s) PROVE SetupInv'
  BY <1>4, RefusedKeepsChoices, BeginKeeps DEF ThrowLate
<1>5. ASSUME NEW s \in SuSupplied, RefusePopulation(f, b, s) PROVE SetupInv'
  BY <1>5, RefusedKeepsChoices, BeginKeeps DEF RefusePopulation
<1>6. ASSUME NEW s \in SuSupplied, RefuseEvaluation(f, b, s) PROVE SetupInv'
  BY <1>6, RefusedKeepsChoices, BeginKeeps DEF RefuseEvaluation
<1>7. ASSUME NEW s \in SuSupplied, Initialize(f, b, s) PROVE SetupInv'
  BY <1>7, InitializeStep, SuppliedAreLengths
<1> QED BY <1>1, <1>2, <1>3, <1>4, <1>5, <1>6, <1>7

LEMMA SetupStep == ASSUME SetupInv, [SuNext]_suVars PROVE SetupInv'
<1>1. CASE EndRun
  <2>1. SetupType' /\ FlagsAreHonest' /\ ChoicesSurvive' /\ suPhase' = "ready"
    BY <1>1 DEF EndRun, suParts, SetupInv, SetupType, FlagsAreHonest, ChoicesSurvive
  <2> QED BY <2>1, ReadyIsEnough
<1>2. CASE UNCHANGED suVars
  BY <1>2 DEF suVars, suParts, suRun, SetupInv, SetupType, FlagsAreHonest, ChoicesSurvive,
              RunFitsFunction, AnyLengthAllowed
<1> QED BY <1>1, <1>2, ConstructorStep, SetStep, SolveStep DEF SuNext

LEMMA SetupInvHolds == SuSpec => []SetupInv
<1>1. SetupInv /\ [SuNext]_suVars => SetupInv' BY SetupStep
<1> QED BY <1>1, SetupInit, PTL DEF SuSpec

\* What the user has chosen is neither lost nor replaced by what the library deduces,
\* for any sequence of constructors, setters and runs, whatever the default rates are.
THEOREM ChoicesStay == SuSpec => []ChoicesSurvive
<1>1. SetupInv => ChoicesSurvive BY DEF SetupInv
<1> QED BY <1>1, SetupInvHolds, PTL

\* A run starts from a population, bounds, a cache and an algorithm that belong to its
\* own fitness function.  It is refused for its algorithm only if the user chose one for
\* the other kind of function, or if one of two constructors, a null pointer for the
\* algorithm or the operators by value, forgot that it was left open.
THEOREM RunsFit == SuSpec => []RunFitsFunction
<1>1. SetupInv => RunFitsFunction BY DEF SetupInv
<1> QED BY <1>1, SetupInvHolds, PTL

=============================================================================
