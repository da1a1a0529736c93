# A verification development for gapp

gapp is a C++20 library of genetic algorithms: a user derives a fitness function,
chooses an encoding, operators and an algorithm, and calls `solve()`. This directory
holds TLA+ models of the parts of the library that keep state, run concurrently or
are easy to get subtly wrong, the TLC configurations that check them, and TLAPS
proofs. Source paths below are relative to `src/src/` unless they start with `src/docs/`.

## 1. Inventory

### 1.1 Components

| component | state | operations | what makes it correct |
|---|---|---|---|
| GA run (`core/ga_base.*`, `core/ga_info.*`, bases of crossover, mutation, algorithm) | population, children, solutions, generation and evaluation counters, limit, fitness cache | setters, `solve()`: initialize, evaluate, advance, update, stop | a candidate carries the fitness of its chromosome; nothing of an earlier run leaks; the archive is the Pareto front of all that was met; counters and limits are exact |
| thread pool (`utility/thread_pool.hpp`, `latch.hpp`, `concurrent_queue.hpp`) | workers, one queue each, turn counter, stack frames of running loops | `execute_loop`, `thread_count`, destructor, worker loop | every iteration runs once, tasks do not outlive the frame they refer to, failures are reported, waiting never deadlocks |
| fitness cache (`utility/cache.hpp`, `circular_buffer.hpp`) | hash map, ring of iterators | insert, try_insert, insert range, clear, reset, copy | bounded FIFO map, no dangling iterator, no rehash |
| Pareto sets (`core/population.*`) | verdicts shared by the tasks of one merge | `mergeParetoSets`, `findParetoFront` | the result is the Pareto front whatever the order of the tasks |
| stop conditions (`stop_condition/*`) | stall counters, best metric so far | initialize, evaluate; composition by OR, AND, NOT | the composed condition means what its formula says |
| metrics (`metrics/*`) | one record per generation | initialize, update | records describe the generations of this run |
| non-dominated sorting (`algorithm/nd_sort.*`, `core/population.*`) | dominance lists or matrix shared by tasks | sort, partialFront, resize | ranks are the definition's ranks |
| NSGA-II, NSGA-III, single objective (`algorithm/*`) | ranks, distances, niche counts of the current population | initialize, prepareSelections, select, nextPopulation | the state describes the population it is used for; survivors are distinct and the best |
| operators (`crossover/*`, `mutation/*`) | none but rates | produce children and mutants | valid chromosomes (permutations stay permutations, bounds hold) |
| random numbers (`utility/rng.hpp`) | global generator, registry of thread generators | draw, seed, register, sampling | distinct streams, samples without replacement are distinct |
| locks and RCU (`utility/spinlock.hpp`, `shared_spinlock.hpp`, `rcu.hpp`) | counter words, epochs | lock, unlock, read sections, synchronize | mutual exclusion, no reader sees freed data |
| reference lines, cone tree, quasi-random numbers (`algorithm/reference_lines.*`, `utility/cone_tree.*`, `utility/qrng.hpp`) | points, nodes | generation, thinning out, nearest-direction search | points on the simplex, far apart; the search finds the nearest direction |
| containers (`utility/small_vector.hpp`, `dynamic_bitset.hpp`, `matrix.hpp`) | elements, capacity | those of the standard containers | the contents of an abstract sequence, also when an element throws |
| iterators, benchmark problems | sequential | | out of scope, see 6 |

### 1.2 How they interact

`solve()` runs on the thread of the user. It evaluates, breeds and mutates with
`parallel_for`, which splits a range over the one global pool; user functions run in the
workers and may call `parallel_for` again. `evaluate()` looks the candidate up in the cache
from many threads; only `updatePopulation()`, between the loops, changes the cache.
The algorithm replaces the population, `updateOptimalSolutions()` merges Pareto sets (a
parallel loop again), metrics and a callback observe the end of each generation, and the stop
condition is asked between generations. Several GA objects may run in several user threads and
share the pool.

### 1.3 What is hard

Races of the merge tasks over shared verdicts; loops nested in tasks of the same pool; exceptions
on any thread; reuse of fitness values across crossover, mutation, repair, cache and runs; one
object solving many problems in turn; iterators that must survive insertions; counters that depend on
being called exactly once per generation. `PROJECT.json` lists every hazard at its line, with
the property that covers it or the reason why none does.

## 2. Modules

| module | models | state |
|---|---|---|
| `ParetoMerge` | `mergeParetoSets`, one process per row of the longer input | verdicts, the values ever stored per shared verdict, the value each task has loaded |
| `ThreadPool` | `execute_loop` with workers, clients, nesting, exceptions, resize, destructor | per thread a stack of frames; queues; latches; who is unwinding |
| `GaRun` | one GA object over many runs | settings, population, children, solutions, cache, counters, the monitor |
| `GaSetup` | constructors, setters, and what a run deduces and checks before it starts | the parts of the GA, the two flags, what the user has chosen or left open |
| `StopCondition` | a tree of stop conditions over the generations of several runs | counters and best values of the stall conditions |
| `Metrics`, `PopStats` | statistics, the searches Sort, Kung and 1D, the recursive hypervolume, and the metrics that record them | the records of a run, the reference point that moves |
| `CircularBuffer` | the ring, as operators on a record | slots, `first_`, size, capacity |
| `FifoCache` | `fifo_cache` on a ring of iterators | map, bucket count, order, rest of a range being inserted |
| `FifoMap` | what the cache promises: a bounded map in order of insertion | sequence of pairs, capacity |
| `SmallVector` | the vector with an inline buffer, also when an element, or its move, throws | the cells of every block of memory, what `std::vector` would hold |
| `DynamicBitset` | bits in blocks | blocks, size, the vector of bits they stand for |
| `Matrix` | rows in a flat vector, with the proxies of rows | the flat vector, the length of a row, the rows it stands for |
| `Algorithms` | `argsort`, `lower_bound`, `erase_duplicates` and others of `utility/algorithm.hpp` | |
| `SharedSpinlock` | the lock as a counter of readers and the writer | counter, what every thread has of the lock |
| `Rcu` | the RCU domain and one object, on that lock | epochs as the others see them, stores not visible yet, list of readers, objects, per thread its place in the code |
| `Generators` | the registry of generators, `seed()`, and the spinlock around it | global generator, list, generators of the threads, the place of each thread |
| `Sampling` | `sampleUnique` and `sampleUniqueSet`, `sampleCdf`, ranges | the bits that a thread keeps between calls |
| `Dominance` | `floatIsLess`, `paretoCompareLess`, `paretoCompare`, and what a front and a ranking are | |
| `FitnessMatrix` | the matrix that the next two work on | `fmat` |
| `NonDominatedSort` | the sort by dominance lists, by dominance degrees, and ENS | dominators left, degree matrix of the objectives that are done, fronts |
| `FindParetoFront` | the search BEST | permutation of the solutions, the range that is left, iterators, solutions found |
| `ParetoFronts` | a sort and then a search on one matrix | both of the above |
| `Fronts` | what the algorithms see of a sort: ranks, the cut, the partial front | |
| `Nsga2` | initialization, replacement and selection of NSGA-II | population, `ranks_`, `dists_`, what the last step started from |
| `Nsga3` | the same of NSGA-III, one action per pick of the niching | population, fronts, traits of the solutions, niche counts, reference set, ideal, extreme and nadir points |
| `ReferenceLines` | quasi-random points, three mappings to the simplex, `pickSparseSubset` | the sequence, the point being mapped, candidates and their distances |
| `ConeTree` | construction of the tree and the search in it | points, nodes, their capacity and whether a reference to one still holds, the search's stack and best match |
| `Soga` | the selections and replacements of the single-objective algorithm | population, `cdf_`, both methods |
| `CrossoverMethods` | the crossovers as functions of the parents and the random choices | |
| `Variation` | the crossover and mutation operators with what they draw, and the wrappers that decide about fitness values | two parents, two children, the choices of the crossover |

The theorems are in modules of their own, one for the components that are proved about together:

| Module | Theorems about |
|---|---|
| `ParetoMergeProofs` | `ParetoMerge` |
| `ThreadPoolProofs` | `ThreadPool` |
| `GaRunProofs` | `GaRun`, `GaSetup` |
| `ContainerProofs` | `CircularBuffer`, `FifoCache` and its refinement of `FifoMap`, `DynamicBitset`, `Matrix` |
| `RcuProofs` | `SharedSpinlock`, `Rcu`, `Generators` |
| `ParetoFrontsProofs` | `FindParetoFront`, `NonDominatedSort`, `ParetoFronts`, `StopCondition` |
| `AlgorithmProofs` | `Nsga2`, `Nsga3`, `Soga`, `ConeTree` |
| `Induction` | induction and recursion over the natural numbers, orders of finite sets and folds over them, used by five of the others |

How they build on each other: `NonDominatedSort` and `FindParetoFront` extend `FitnessMatrix` and are extended by `ParetoFronts`;
`Nsga2` and `Nsga3` rely, through `Fronts`, on the ranks and fronts that `RanksAreExact` and `FrontIsExact` establish. `Rcu` extends
`SharedSpinlock`: its actions take the operations of the lock as conjuncts. `FifoCache` takes its operations from `CircularBuffer` and
implements `FifoMap` (the abstract specification, property `ImplementsFifoMap`), and `GaRun` uses the operators of `FifoMap`
for its cache. `Variation` takes its choices from `Sampling`, `Metrics` its fronts from `Dominance`: each layer relies only on what the
layer below was shown to promise.

A module whose name begins with `MC` gives constants their values and puts modules side by side: its variable `part` says which of
them is at work in a behaviour, and the variables of the others stay in an initial state. The state graph is the disjoint union of those
of the parts, which spares a run for each of them and changes nothing about what is checked. A definition
whose comment begins with "Variant" is a plausible mistake in the code that a property must detect; it is part of no specification.

### Correspondence

*ParetoMerge.* A task alternates between `Load` (line 130) and one of the four outcomes of the
comparison. A relaxed load may return any value that was stored to that row so far, or
the initial one, which is weaker than what coherence allows; the verdict of a task's own row is private. `Finished` is the
return of `parallel_for`.

*ThreadPool.* A loop frame is an activation of `execute_loop` (its `pc`: submit, run, wait, try), a
task frame a queued slice that a thread runs. `Submit` takes the next turn and queues a slice. `TakeTask`
is both `worker_main` and the helping in lines 73-79. An exception unwinds
frame by frame (`CatchInTask`, `UnwindLoop`). A worker is a worker of the pool by its index; the search of
`local_worker_queue()` by thread id yields the same answer. Queue operations are single steps,
since each holds the lock of its queue. The check-then-take of a helping
worker is one step, as nobody else takes from its queue.

*GaRun.* The parallel loops are sets of iterations (`todo`) that end in any order. An iteration is one
step: nothing that an iteration reads is written by another one, except
the counter of evaluations, which is incremented atomically. `Crossovers`, `Mutated`, `Repaired`, `Evaluations`
are the non-virtual wrappers that decide which fitness a candidate carries; the user's
operators, the algorithm and the early stop condition are nondeterministic. `Throw` is an exception
of a user function in one of the parallel loops.

*GaSetup.* One action per constructor and per group of setters; an assertion that a call violates ends the history in a
phase named for it. `SuSolve` is `initializeAlgorithm()` up to the first generation; `suWant` remembers what the user asked for, and in `forgotten`
whether the object comes from a constructor that leaves the algorithm open without setting the flag for it.

*StopCondition.* A tree is a sequence of nodes. `Verdicts` is the value every node would return,
`Skipped` the nodes an OR leaves out; `Evaluate` updates the counters of the others. Less than every
fitness value, `Lowest` stands for minus infinity. The mean is represented by the sum, populations being equally
large.

*Metrics.* `MtUpdate` is the update of every metric at the end of a generation, `MtInitialize` the start of a run. Means and variances are kept
without their denominators, volumes as numbers of cells of the grid, which the reference definition counts.

*FifoCache.* An iterator is the key it points to. `AddNew` does what lines 110-114 do
in their order; a range is inserted one element at a time (`InsertRange`, `InsertNext`). `buckets` is the
least that the standard guarantees. The refinement mapping reads the ring from its first slot
and looks the values up in the map.

*SmallVector.* Every operation is a composition of construct, destroy, assign and allocate on cells, each of which may be the one
that throws (`n` operations succeed before); `svModel` follows the calls as `std::vector` would. Where moves may throw (`svNothrowMove` is false), so may the
assignments of `std::shift_right`, `shift_left` and `swap_ranges` (`MoveWithin`, `SwapRanges`), at each of them, and `std::rotate`, whose order is the library's
(`HalfRotated`); such a call leaves some elements moved from, an `emplace` in the middle a vector that is one longer, and then only the memory has to be sound. A call known to err puts its name into `svDefects`
and ends the history, so that `VectorIsSound` speaks of all others.

*DynamicBitset*, *Matrix.* One action per member function, next to the sequence it stands for; bits past the end keep what the operations leave in them.

*Generators.* The state of a generator is a seed, a number of jumps and a number of steps. `TestAndSet` and `Test` are the two loops of
`spinlock::lock()`; the constructor of a thread's generator reads, jumps and lists in separate steps.

*Sampling.* What a function can return is the set of its results over all sequences of numbers it can draw, so that `SampleIsUniform`
can count how many of them lead to each subset.

*Variation.* `VrNext` is a crossover of any two parents with any choices followed by a mutation of each child. A fitness vector is
represented by the chromosome it was computed for. Methods of reals yield any value that each can reach on a grid. `AbortedMutation` is the end of a program
with assertions in a shift of all genes; without assertions that shift moves nothing.

*NonDominatedSort.* `algorithm` says which sort runs, `ranks` is what its vector of fronts holds so far. The counters of the first sort are filled
by one task per objective, whose steps commute: they start as what these tasks leave. In the second one `dmat` is the set of entries that
are still `MAXIMAL`, and the tasks of the objectives clear theirs in any order. `EfficientInsert` takes
any of the equal solutions next, as the sort of the indices is not stable.

*FindParetoFront.* One action per turn of a loop; positions of the index vector start at 1.

*Nsga2.* The order of solutions in the pool matters only where the code looks at it: `Outcomes` are all selections that an
unstable sort of the partial front may leave, so children are a multiset. Distances are in units in which every
quotient is a whole number, and `Infinity` exceeds every sum.

*Nsga3.* `N3NextPopulation` is `nextPopulationImpl` up to its loop, `PickFor` one turn of the loop, `CreatePopulation` its end. Reference lines are
integer vectors of equal length, and distances are kept times every denominator, so that all comparisons are exact.

*ConeTree.* `BuildLeaf` and `BuildNode` are turns of the loop of `buildTree`, `VisitNode` one of `findBestMatch`. A ball is a sum of points and a
squared radius times the square of their number. Which of two children has the higher bound, a comparison of roots, is left open. When appending the children
moves `nodes_`, the links are written through a dangling reference; anything may follow, so `ctDefined` becomes false and the behaviour ends.

*ReferenceLines.* Coordinates are multiples of `1/RlUnit`, rounded down; `MirrorPass` is a pass over the coordinates, `PickNext` a turn of the
loop of `pickSparseSubset`.

*Soga.* `PrepareSelections` fills `cdf_`; `Selects` is what a number drawn from it selects. Weights are integers.

*SharedSpinlock.* One action per atomic operation; a failed compare-exchange and a turn of a waiting loop are no steps.
`TryLockShared` and `BackOff` have no caller in the library: they are steps of `LockSpec`, which the proofs are about,
and of no run.

*Rcu.* One action per access to shared memory. A store to a reader's epoch is in `pending` until `Flush` makes it
visible. If `StoresAreDelayed`, the thread may go on before that (store buffers, as on x86; a compare-exchange still waits);
if not, its next load waits (a release store and an acquire load on AArch64, or any sequentially consistent store).
A load of `writer_epoch` or `data_` gets the current value; an older epoch would only make a writer wait longer. `list` is a set, and a scan
takes it as a whole: `ScansSeeLiveReaders` is what justifies this. A thread whose reader is not registered may replace
the object, as `synchronize()` does not use the reader of its own thread.

## 3. Runs

### Runs that pass

**`parallel`** (`ThreadPool`, `ParetoMerge`)
* `FrameOutlivesTasks`: while a slice of a loop is queued or running, the frame of `execute_loop` that it refers to exists;
  `LoopIsComplete`: a loop that returns has run every iteration once, or reports the failure of one; `ClientsFinish`, `WorkersExit`: nobody waits for ever.
* `ResultIsParetoFront`, `VerdictsAreFinal`, `MergeCompletes`: the merge yields the front of the union, no task overturns a decided verdict, and all come to an end.
* Bounds: 0-2 workers, two clients, an outer loop of two nested loops and a flat loop of three iterations in blocks of two, one
  resize, so that a waiting worker gets unrelated tasks on top of its wait. Inputs of up to two solutions with two objectives and values 1..3:
  chains of dominance, equal and incomparable vectors, two tasks that share both columns; the safety of the merge is proved for all sizes.

**`ga_run`** (`GaRun`, `GaSetup`)
* `FitnessIsCurrent`: every fitness value, in candidates, solutions and the cache, is one of the current function for that chromosome; `ArchiveIsComplete`:
  with `keep_all_optimal_solutions` the result is the front of all that was met; `ResultIsLastFront`: without it, of the last population;
  `RunsAreIndependent`: evaluations, generations and the limit of a run are its own; `RunsEnd`: a run ends by itself, unless it is one of a dynamic function
  with a cache in a build with assertions (`CacheYieldsToDynamic` below).
* `ChoicesSurvive`: what the library deduces never replaces what the user has chosen; `RunFitsFunction`: population, bounds, cache and algorithm belong to the
  function of the run, which is refused only for an algorithm that the user chose, or on an object whose constructor forgot that it was open (`AlgorithmIsDeduced` below).
* Bounds: four chromosomes, one of which is always repaired, two static functions that disagree and a dynamic one; population sizes one and two,
  caches of one and two generations, limits of two and three generations, runs without bound. For the setup any three calls:
  enough for a setter, a run and another run, with functions of two lengths, of one or many objectives, static or dynamic.

**`rcu`** (`Rcu` on `SharedSpinlock`, `Generators`)
* `MutualExclusion`, `ReadersSeeLiveData`, `ScansSeeLiveReaders`, `SynchronizeEnds`. Three threads, each of them reader and writer, and two replacements: two writers wait at a time
  while the third thread reads, ends and comes back. The safety part is proved for all numbers.
* `StreamsAreDistinct`: no two threads draw from one stream, and the list leads to exactly the generators that exist; `NumbersFollowSeed`:
  after `seed()`, whatever was drawn ahead is gone. Three threads, one call of `seed()`, at any time at which no thread draws. Deadlock is checked.

**`pareto_fronts`** (`ParetoFronts`, `StopCondition`, `Metrics`)
* `RanksAreExact`, `FrontIsExact`, `SearchEnds`: every matrix of up to five solutions with five vectors of two objectives: a chain of
  three, incomparable and equal solutions. The search removes at both ends and moves its best solution more than once. Two objectives are the least for which
  these functions are called; the search is proved for any number.
* `StopsWhenItShould`: five trees with every kind of node, five fitness matrices, five generations: patience runs out, is renewed and
  runs out again; runs repeat. The formula says of a fitness threshold that a solution reaches it in every objective. It is compared with the code in generations without a solution that is
  incomparable to the threshold (`Comparable`), and the trees have an OR only below ORs; what happens otherwise is among the disagreements below.
* `MetricsAreExact`: hypervolumes with a fixed and with a moving reference point are the cells that the population dominates, the searches
  Sort and Kung find the front with its duplicates, nadir point and variance fit their definitions. Populations of up to three, two generations in any order: the reference point moves in none, one or both coordinates.

**`algorithms`** (`Nsga2`, `Nsga3`, `Soga`, `ConeTree`, `ReferenceLines`)
* `PopulationIsBest`: the survivors of NSGA-II are distinct, none is worse by rank than one left out, the extremes of a cut front stay, and `ranks_` are theirs.
  `NichesAreServed`: those of NSGA-III keep their traits, every pick serves a direction with the lowest niche count, and no solution that is left out dominates a survivor. The count of a direction is the number of its solutions
  before the partial front and of the picks made for it (`CountsDescribeKept`): that is the number of those kept as long as no solution was picked twice, and not afterwards (`nsga3_selection` below).
  Any population of three with any three children, so that one generation shows what any generation can do: the cut falls into or between fronts, among equal solutions and distances.
* `BetterIsLikelier`: in every selection a better solution of the *current* population is drawn at least as often as a worse one, and every draw selects one;
  `ReplacementKeepsTheBest`: no survivor twice, and an elite never loses the best. Three values, one of them negative, every method and change of method.
* `TreeIsExact`: the tree holds every point and its search finds the greatest inner product. Up to four points with equal ones, leaves of one point: empty partitions and skipped subtrees occur,
  and the nodes reserved are enough for any points (`ReserveSuffices`), which they are not with the leaf size of the code.
* `PointsAreSpread`: the mapped points are on the simplex, and the points picked are distinct candidates, each as far as possible from those before it. Up to four dimensions and three points out of six.

**`data_structures`** (`FifoCache`, `SmallVector`, `DynamicBitset`, `Matrix`, `Variation`, `Sampling`)
* `OrderMatchesCache`, `HasFreeBucket`, `ImplementsFifoMap`: capacities 0-3, four keys, two values, ranges of up to two: the ring wraps around, ranges are longer than
  the capacity, resets grow and shrink. The safety part and the refinement are proved for all sizes.
* `VectorIsSound`: no cell is used, destroyed or lost against the rules, no two vectors share memory, and the contents are those of `std::vector`, or after a failure what each call
  promises: appending, resizing and changing the capacity have no effect then, the others may lose the values of elements but none of their cells. Two vectors with a buffer of two, up to four
  elements, four calls; any of the first seven operations on elements may throw, more than any call makes.
* `BitsetIsExact`, `MatrixIsRows`: blocks of three bits and up to seven of them; up to three rows of up to two.
* `OffspringAreSound`: children are valid chromosomes of their encoding, and keep a fitness vector only if it is theirs; `ChildrenFollowTheirParents`: the genes of a child are where
  the description of the operator puts them. All pairs of permutations of up to four genes with all cuts: cycles of displaced genes share positions. Mutated ranges are of the least length or of any up to all genes,
  the two ends of the documented interval.
* `SampleIsUniform`: every subset is drawn in equally many ways, whatever the calls before left in the bits. Ranges of up to five numbers cross the threshold between
  marking the chosen and the others.

### Runs that disagree with the documentation

* **`rcu_delayed_stores`** (`ReadersSeeLiveData`): `read_lock()` stores the epoch with release order and loads it back with acquire order, so that
  nothing orders the store before the load of the object on a machine with store buffers: on x86 both are plain moves.
  A writer then finds nobody reading and deletes the object that the reader has just got, contrary to what
  `src/test/misc/rcu.cpp:22` asserts of it. A sequentially consistent store in `rcu.hpp:24`, or a fence after it,
  gives the behaviour of the run `rcu`.
* **`nsga2_distances`** (`DistancesDescribePopulation`): NSGA-II is documented to select by rank and crowding distance, but `dists_` is computed for the pool of
  parents and children and cut to the population size, while the survivors move to new places (`algorithm/nsga2.cpp:104`).
  A tie of ranks is broken by the distances of other solutions. The ranks are moved with the survivors.
* **`nsga3_selection`** (`SelectedOnce`): a solution is moved "so it can't be selected again" (`algorithm/nsga3.cpp:384`), but the next search goes through the whole
  partial front, selects it again and moves it away from its place; a solution that nothing has picked is kept in its stead.
* **`small_vector_insert`** (`MatchesStdVector`): several elements inserted with spare capacity and more elements behind the position than are inserted
  go to another position (`utility/small_vector.hpp:807` and `834`). The test has two elements, for which the case does not occur.
* **`sample_unique_set`** (`SampleIsUnique`): for ranges of 65536 numbers and more, `sampleUnique()` may return a number twice (`utility/rng.hpp:483`). The run counts a
  range as huge from four numbers on; the threshold decides only which function is called.
* **`default_rate`** (`RateIsDeduced`): the mutation rate that is deduced for the first run counts as chosen from then on (`core/ga_base.impl.hpp:368`), so that a second run
  with chromosomes of another length keeps it. It does so also when the user had set a rate and opened it again.

### Disagreements without a run

The properties above name these cases as their exceptions. Each is stated as a formula of its own, which is false: TLC refutes it when it takes the place of the properties of the cfg.

* `AlgorithmIsDeduced` (`MCGaRun.cfg`): a null pointer as algorithm, or operators by value without one, leave the algorithm to be deduced by their description
  (`core/ga_base.decl.hpp:120` and `170`), but clear the flag that says so (`core/ga_base.impl.hpp:57` and `84`). A function with two objectives is then refused
  (`algorithm/single_objective.cpp:58`).
* `CacheYieldsToDynamic` (`MCGaRun.cfg`): "The cache will also be disabled when using a dynamic fitness function" (`core/ga_base.decl.hpp:381`), but nothing disables it,
  and `evaluate()` asserts that it is not there (`core/ga_base.impl.hpp:493`).
* `ThresholdIsReached` (`MCParetoFronts.cfg`): a run stops for a solution that is not worse than the threshold (`stop_condition/stop_condition.cpp:51`), which with several objectives need not be
  "equal to or better than" it (`stop_condition/stop_condition.hpp:60`).
* `StopsWhenItShould` (`MCParetoFronts.cfg`, with the tree `<<Value(<<1, 1>>), BestStall(1), Or(1, 2), Evals(2), And(3, 4)>>`): below an AND or a NOT, an OR leaves out its second operand
  although the run may go on, contrary to what `stop_condition/composite.hpp:32` takes for granted; a stall condition there misses a generation.
* `AnyPointsCanBeSearched` (`MCAlgorithms.cfg`, with eleven equal points and `CtMaxLeaf = 8`, as in the code): half as many nodes are reserved as there are points (`utility/cone_tree.cpp:36`), while eleven
  equal points need seven. `nodes_` is then moved under the reference of line 130, through which lines 165 and 166 write.
* `RangesAreAccepted` (`MCDataStructures.cfg`): `range_max` of a shift may be 1.0 (`mutation/permutation.hpp:151`). When the range is the whole chromosome, two different places out of one are asked for
  (`mutation/permutation.cpp:93`), against the assertion in `utility/rng.hpp:495`.

### Other observations

The "cache the last 2 generations" of the documentation (`src/docs/fitness-functions.md:221`) is not quite what the cache does: a key that
is inserted again keeps its age (`utility/cache.hpp:111`). The callback reads generation number 0 for the initial generation and again for the next one
(`core/ga_base.impl.hpp:559` against `core/ga_info.hpp:141`). With a tolerance above zero dominance is not transitive: for the solutions (2, 0), (0, 4), (1, 2) and a
tolerance of 1, the best solution of a scan is not "definitely optimal" as `core/population.cpp:131` has it.
`pop_back()` of `small_vector` destroys the cell past the end instead of the last element (line 770). For three objectives the corrections of `AutoHypervolume` are not exact.
`mutation::integer::Uniform` does not return when both bounds of a gene are equal. The edge crossover does not keep as many edges as its
description says (`crossover/permutation.hpp:88`).

### Fairness

`parallel`: weak fairness of every worker and every client, which the scheduler of the operating system grants to running threads
(no lock is held while waiting, so no strong fairness is needed), of the replacement of the workers that
`thread_count()` performs, of the destructor at the end of the program, and of every task of the merge, each of which the pool runs; nobody is obliged to resize or to reset the scheduler.
`ga_run`: weak fairness of the steps that `solve()` takes by itself; calling `solve()`, throwing and stopping early are
never obliged to happen. `rcu`: weak fairness of what a thread does once it has begun,
leaving its read section included, and of stores becoming visible; no thread is obliged to begin anything. Strong fairness is not needed for the lock: once a writer has counted itself among its readers, nobody else can lock it exclusively before
the writer has been in. `pareto_fronts`: weak fairness of the next step of the sort and the search, as one thread executes the loops. The other runs have safety properties only.

`CHECK_DEADLOCK FALSE` is used where the system may stop: a merge or a program that has finished, a run
that was aborted by an assertion, a stopped run, the last call within a bound.

## 4. Proofs

Every theorem is about the specification that the runs check, for all values of its constants.

**The merge** (`ParetoMergeProofs`), from `FitnessAssumption` (fitness vectors are integer vectors over one set of
objectives) and `MaxLenAssumption` (the bound on the lengths is a natural number, of any size).
`ResultIsParetoFront` speaks of the final state only, so it says nothing of the verdicts on the way to it. The
inductive invariant `IInv` is `TypeOK` and

* `StoresAreSound`: every value that any task has ever stored for a row of `rhs` is justified by a row of `lhs`. It has
  to speak of all stored values, not of the current one, because a task may load an old one;
* `LhsIsSound`: the same for the verdicts on the rows of `lhs`;
* `StatesAreStored`: current verdicts and loaded values are among the stored ones;
* `PassedIsDecided`: a pair that a task has passed left the dominated one of the two marked as `DOMINATED`. This is what
  makes the result complete.

The step that needs care is the second one of a comparison: it stores a verdict that was decided from a
stale load. `NoChains` (no row of one input lies strictly between rows of the other one, by transitivity and because both
inputs are Pareto sets) shows that `DOMINATED` and `OPTIMAL` can never both be justified for a row, hence that a late
store of `OPTIMAL` cannot overwrite `DOMINATED`. From `Invariance` follow `TypeCorrect`, `MergeIsCorrect`
(`ResultIsParetoFront`) and `VerdictsStand` (the action property `VerdictsAreFinal`).

**The ring** (first part of `ContainerProofs`): for every operation, a lemma on the elements that it leaves at every position, and that
it leaves a well-formed ring, for any capacity. All of them rest on three facts about the indices: a position is
mapped to a slot (`SlotInRing`), different positions to different slots (`SlotsDiffer`), and moving `first_` by one
moves all positions by one (`SlotsShift`). `EmplaceFrontShifts`, `PopFrontShifts`, `PopBackShortens` and
`SetCapacityKeepsPrefix` cover operations that the cache does not use and no run reaches.

**The cache** (second part), from `CacheAssumption` and those lemmas. `OrderMatchesCache` is not inductive alone: that pushing a
key drops the front of the order needs the ring to be well-formed (`IsBuffer`), a free bucket is counted in a
finite map, and a pair of a range that is left to insert needs a capacity that is not zero (`CapacityIsLegal`). With these
added to `IInv`, `TypeCorrect`, `OrderIsExact` and `NeverRehashes` follow. `Refinement` shows that every
step of the cache is a step of `FifoMap` under the mapping of the order to its pairs, or leaves them unchanged: a new
key appends its entry and drops the head if the ring is full (`AddNewRefines`), one that is present changes
its pair in place (`AssignRefines`), a copy is a stutter because its ring holds the same elements from slot 0 on (`CopyStep`).

**The bitset** (third part), from `DbAssumption` (a block has at least one bit). `BitsetIsExact` has two halves. The first one, that the bits are those of the vector except for the
unfilled ones, is inductive with its types (`DbInv`). Its difficult step is `ResizeBits`: the last block of the *new* size is masked with the partial block of the *old* one, which is right
when the set grows within that block and has no effect on a new one, all bits of which are equal. The bits of the old last block that a new one makes it skip are those that `dbUnfilled` takes out.
The second half, that no query answers for what is behind the end, follows from `DbInv` in every state: a position is a block and an offset in one way only (`PlaceHasBit`, `BitHasPlace`), positions are ordered by
blocks first (`PlacesAreOrdered`, which gives `find_first()`), and every position below the size is in a full block or below the mask of the partial one (`BitsOfBlocks`). `popcount()` is a fold, which is shown
to add up the bits block by block (`FullBlocksAreCounted`).

**The matrix** (fourth part), from `MxAssumption`. The invariant `MxInv` is `MatrixIsRows` with the sizes that it leaves open: the flat vector is as long as there are rows times columns, and the entry of
a row and a column is at its place (`PlaceHasEntry`, `PlaceIsUnique`). Every step is a lemma about where the places of the rows go that it inserts, erases, resizes or replaces.

**The lock** (first part of `RcuProofs`), from `LockAssumption` (finitely many threads, fewer than the value that stands for the
writer). `MutualExclusion` is not inductive: that the counter is zero has to mean that nobody is there.
`CounterIsExact` says so in every state, with the readers that have counted themselves before they may enter; from it follow
`LockExcludes` and `LockTypeCorrect` (the counter does not wrap around).

**Read-copy-update** (second part), from `LockAssumption` and `RcuAssumption`. Every step of `Rcu` is a step of the lock
(`StepUsesLock`), so its invariant is taken over. `RcuInv` adds that threads use the lock as they should
(`LockIsUsed`, `ScansAreGuarded`), that there are no more epochs than updates (`EpochsAreCounted`), and that the objects of two
writers are different (`ObjectsAreDistinct`); `TypeCorrect`, `ListIsProtected` and `ScansAreSafe` follow with or without store buffers.
`ReadSectionsProtect` needs `~StoresAreDelayed` and two more parts: a thread with a reference is in the list with an
epoch not above the writers' one (`SectionsAreMarked`, the only place where the order of store and load counts), and a writer that has
the object which a reader refers to has a target above the epoch of that reader and has not checked it off
(`HoldersAreWaitedFor`). That a compare-exchange fails does no harm, because the target is above every epoch
that was handed out before it was computed.

**The search for the front** (first part of `ParetoFrontsProofs`), from `FitnessAssumption`, any number of solutions and `Tolerance = 0`.
`FrontIsExact` says nothing of the solutions that were dropped. The inductive invariant adds that

* a dropped solution is dominated by one that is left in the range or was found (`RemovedAreDominated`): `RemoveOne` shows by transitivity
  that this survives the removal of the dominating one;
* the best solution of a scan is not dominated by anything between the start of the range and the iterator, and does not dominate anything
  between itself and the iterator (`BestOfScanned`); what it dominates in front of itself is what the sweep is for;
* nothing in the range is dominated by a solution that was found, except what the sweep has still to visit (`NoneBehindOptimal`).

At the end of a scan these three make the best solution optimal (`ScanEndInv`), and with an empty range the solutions found are
the whole front (`InvIsExact`). `SwapEntries` keeps the indices a permutation.

**The generators** (third part of `RcuProofs`), from `GnAssumption`. `StreamsAreDistinct` says nothing while `seed()` runs, when the
streams of different threads do overlap, and nothing of who may be where. `GnInv` is `GnControl` (the spinlock is held by exactly the thread
that is inside, and nobody draws during `seed()`), `ListIsExact` (the list has every generator that is alive exactly once, and none that does not exist yet or
no longer) and `StreamsInv`: every generator carries the seed of the global one and a number of jumps of its own, below
that of the global generator, and during `seed()` this holds of the generators that were seeded already. From it follow `StreamsStayDistinct` and `NumbersStayWithSeed`.

**The run of a GA** (first part of `GaRunProofs`), from `GaAssumption`. Four invariants, each inductive with those before it:

* `TypeInv`: besides the types, which candidates a population, the children and the pool of iterations are made of in every phase;
* `FitnessInv`: a candidate that counts as evaluated has the fitness of its chromosome under the function of *this* run, in the population, among
  the children, in the solutions and in the cache, and a dynamic function is never cached. The insertion of a range into the cache is a recursive function: what each of its
  insertions preserves, the range preserves (`InsertedStays`). From it follow `DataIsRight` and `FitnessStaysCurrent`;
* `CountersInv`: evaluations are those of the generations that are over, plus those of the iterations that have ended in this one; from it `RunsStayIndependent`;
* `ArchiveInv`: while a run keeps all solutions, their chromosomes are the front of everything that was ever met. That fronts can be merged
  is `FrontOfFronts`: the front of a union is that of the union of the fronts, since whatever is dominated in a finite set is dominated by an optimal member (`FrontDominates`). From it
  `ArchiveStaysComplete` and the action property `ResultStaysLastFront`.

**The setup of a GA** (second part), from `SuAssumption`. `ChoicesSurvive` is not inductive: that a deduced default replaces only what nobody chose needs the flags
`use_default_algorithm_` and `use_default_mutation_rate_` to be honest (`FlagsAreHonest`: when one is set, the user has chosen nothing; and when no algorithm was chosen, its flag is set or `forgotten`). With it and `RunFitsFunction` in `SetupInv` follow
`ChoicesStay` and `RunsFit`. That a flag is set whenever nothing was chosen is what the run `default_rate` and the counterexample to `AlgorithmIsDeduced` refute.

**The thread pool** (`ThreadPoolProofs`), from `PoolAssumption` and `CallsAssumption`. The key is that no slice is at two places: it is still to be submitted, in one
queue, or in one frame of one stack (`SlicesAreUnique`, with `LoopsAreUnique` for the frames of `execute_loop`). Then

* the latch is never below the number of slices that are somewhere (`LatchInv`), so it opens only when no task is left;
* a slice that is nowhere ran to its end or its loop has an exception (`SlicesAreRun`), and an iteration that failed is known to the loop, or is on the
  way to it in a thread that unwinds (`FailuresAreKnown`);
* the loop that an iteration calls is idle until that iteration runs (`CallsAreAhead`), so that nothing is left over in a loop that begins.

`LoopsStayComplete` follows without a hypothesis. `FrameOutlivesTasks` is false in general: an exception in the slice of the calling thread leaves
`execute_loop` while its tasks are queued (`utility/thread_pool.hpp:68`). `FramesOutliveTasks` says that this is the only way: it is proved of every behaviour in which that
never happens (`[]~UnguardedThrow`), exceptions in tasks included, and `QuietFramesOutliveTasks` of all of them when nothing throws. After an unguarded throw the program is undefined, so that
`LoopsStayComplete` is about it only up to there.

**The sorts** (second part of `ParetoFrontsProofs`). `SortInv` is `SortType`, `RankedAreRight` (a solution that has a rank is in the front it belongs to: it has a
dominator in the front before it, and all of its dominators have lower ranks) and one invariant for each algorithm:

* `FastInv`: the number kept for a solution is that of its dominators without a rank;
* `DegreeInv`: the matrix is what the objectives that are done have left in it, and after the last one it holds exactly the dominators without a rank;
* `EfficientInv`: every front below the rank of a placed solution has one that dominates it. The solutions are placed in an order in which dominators come first (`DominatorsComeFirst`, which needs exact comparisons). There is always a front without a dominator of the next solution (`FreeFrontExists`, by the pigeonhole principle).

`SortsCorrect` needs `Tolerance = 0`; `SortsTolerate` shows that two of the sorts are right with any tolerance, even though dominance is not transitive then.
`FrontsCorrect`: each step of `ParetoFronts` is a step or a stutter of the sort and of the search, so both properties hold of their composition.

**Stop conditions** (third part), from `StopAssumption`, `TreesAssumption` and `LowestAssumption`. The verdicts of the code and the formula are both recursive functions over the nodes. Both solve
the equations of the tree (`VerdictsSolve`, `ShouldHoldSolves`; that there is a solution is `RecursionExists`), and those have one solution
(`FormulaUnique`), so that it is enough to compare the leaves. For a stall condition the invariant `StallRight` relates the counter to the history: `patience + 1 - cntr` generations have passed without raising the metric, the one
before them did, and the best value is the maximum over the history. `StallStep` carries it through an evaluation. It is lost when a node is not invoked; `NothingSkipped` shows that
this does not happen as long as the run goes on, if every OR is the root or an operand of another OR (`OrsAtTop`, a hypothesis of `RunsStopInTime`): a true operand makes all ORs above it
true. Thresholds are compared only in generations whose solutions are comparable to them, where "not worse" and "at least as good" agree (`Comparable`, a condition of the property). The other hypothesis, `Delta = 1`, is an exact comparison of integers: with a larger difference several small improvements count for nothing.

**NSGA-II** (first part of `AlgorithmProofs`), from `FitnessAssumption`, `PopulationSizeAssumption` and the assumptions of `Nsga2`, with `Tolerance = 0`. The inductive invariant `PickedInv` says of what shape pool and survivors are, that the ranks are the ranking
of the population (`RanksDescribePopulation`) and that no survivor is worse than what was discarded (`SurvivorsAreBest`). Along the way:

* every solution has exactly one rank: a set of solutions that is not empty has an undominated one (`UndominatedExists`), so each peeling of a front leaves fewer (`UnpeeledShrinks`);
* the cut keeps as many as the population holds, lower ranks first (`CutIsRight`, `KeptIsBest`);
* the fronts in ascending order give every survivor a place of its own (`AscendingOrders`, `PlacesAreTaken`), so that none is kept twice;
* only the ends of a front have an infinite distance, and there are at most two for each objective (`EndsAreInfinite`); therefore the best of each objective survive (`ExtremesAreKept`).

The last point needs `PopulationSize >= 2 * NumObjectives`: in a smaller population the cut may go through the ends of the first front. `RanksStayRight` is
everything without that point and without the hypothesis, `PopulationStaysBest` all of `PopulationIsBest` with it. The run has three solutions and two objectives, less than the
theorem asks for; what it checks there is not implied by the theorem.

**NSGA-III** (second part of `AlgorithmProofs`), from the same assumptions and `Nsga3Assumption`, with `Tolerance = 0`. `NichesAreServed` speaks of four things, and each
needs more than it says. The inductive invariant `N3IInv` consists of

* `NumbersTyped`, which also keeps the directions in the order of their counts (`InOrder`). That a pick serves a direction with the lowest count rests on it: the one that was
  served moves behind the others with a count as low, and one without candidates is erased (`MovedBackInOrder`, `ErasedInOrder`);
* between generations `PopulationIsRanked`: ranks and traits are those of the population. `AssociatedUpTo` follows the loop that associates only the solutions up to the partial front,
  `CreatePopulation` throws away those that were not;
* in the loop `PoolIsRanked` and `FrontsAreCut`: the sequence of the fronts is the pool in ascending ranks, everything before the partial front is kept, and the picks go to its beginning
  (`FrontsAreContiguous`, `PartialFrontIsCut`). A pick exchanges two of its solutions (`ExchangedIsOrder`);
* `PickedAreClosest`: what was picked is among the first solutions of the partial front, as many as there were picks, and no other of its direction is closer. More is not true: one that
  is picked twice leaves a place to a solution that nobody picked (the run `nsga3_selection`);
* `CountsFollow`, proved with that invariant (`CountsStart`, `CountsStep`): the counts are those of the solutions before the partial front and of the picks, and as long as no solution was picked again the picks are
  the first solutions of the partial front in their order. From it `CountsDescribeKept`.

Two models of `std::sort` and `std::unique` define their results by what they satisfy; that there is such a result is `ListedSorts` and `WithoutDuplicates`.

**The single-objective algorithm** (third part), from `SogaAssumption` and `Tolerance = 0`: `BestIsKept`. Types are enough as an invariant. That an elite keeps the best needs
that sorting in descending order puts one of the best at the front (`ArgsortDescends`), for `KeepBest` of parents and children together (`KeepBestSurvives`), for `Elitism` of the parents (`ElitismSurvives`).

**The cone tree** (fourth part), from `CtAssumption`: `TreeStaysExact`. The inductive invariant `CtIInv` consists of

* `CtTypes`, in which the points are those of the input in another order (`Rearranged`);
* `TreeIsSound`: ranges that have points in common are those of a node and of one that it was split into (`RangesNest`). Every partition moves points within one range, so
  a ball that was computed keeps its points through all of the later ones (`BallStays`);
* `SearchIsSound`: every point is in a node on the stack or not better than the best (`SearchCovers`).

That is about trees whose nodes never move under a reference (`ctDefined`); what happens to the others is undefined. `RvIInv` bounds the number of nodes: each node that is still to be built owes two
for every point it has above the size of a leaf (`Owed`), so a tree of n points never has more than `2 * (n - CtMaxLeaf) + 1`, and one for which as many are reserved always is defined (`ReserveSuffices`). With the
leaf size of the code that is ten points.

Two steps are not obvious. The points that `std::partition` compares with are moved by it: until the first one goes to the right, nothing is moved and the search from the left has not passed the second
reference point, so the right side is never empty (`PartitionStates`); that the left one can be is why the code moves the middle by one, and the mutant drops it. And a node is skipped when the product of its center and its radius
allow nothing better, which is the inequality of Cauchy and Schwarz for points of any length (`CauchySchwarz`, an induction over the sums; `ProductIsBounded`, `SkippedIsWorse`).

**Induction.** The induction theorems of the library take an operator as a parameter and cannot be used. `Induction` derives a form in which the cases that hold are a *set*
(`IntervalInduction`, from the well-foundedness of the inclusion of finite sets), and from it that recursive functions exist
(`IterationExists`: each value from the one before it, `RecursionExists`: from any before it). What a recursive function computes can then be proved: the proofs above do it for the insertion of a
range, the ranks, the degrees, the verdicts of a tree and the nodes that an OR leaves out. Folds of the community modules exist in the same way (`FoldExists`, `SubsetInduction`), a finite set
can be listed in any strict order (`ListedInOrder`), and what has a least or greatest element is `FiniteExtremes`.

Out of reach of the prover and left to TLC: `SearchEnds`, `MergeCompletes`, `ClientsFinish`, `WorkersExit`, `RunsEnd`, `SynchronizeEnds` (liveness), and what the RECURSIVE operators of `Metrics` compute.
These safety properties are only model-checked:

* `MetricsAreExact` is about RECURSIVE operators, and `BetterIsLikelier` about powers (`^`), of which the provers know nothing;
* `PointsAreSpread` rests on `^` and on `SortSeq`, an operator of `TLC` that the provers take as unknown;
* `SampleIsUniform` counts sequences of draws, and `OffspringAreSound` and `ChildrenFollowTheirParents` are about choices that the recursive operators of `CrossoverMethods` make;
* `VectorIsSound` is about failures at every operation on an element and merges functions with `@@`, another operator of `TLC`; its proof would be one for each of twenty compositions of four primitives and has not been attempted.

## 5. Assumptions

* Comparisons of fitness values and genes are exact (tolerances of zero, `math::ScopedTolerances`). With tolerances,
  dominance is not transitive and the theorems on the merge, the search, the efficient sort and the algorithms do not apply; the lemmas `LessTransitive` are
  where it is used. `Dominance` has a constant `Tolerance`; with 1, both `RanksAreExact` and `FrontIsExact` are violated.
* NSGA-III has at least one reference line, and all are integer vectors (`Nsga3Assumption`; the code asserts the first in `algorithm/nsga3.cpp:222`).
* All points of a cone tree have the length of its queries (`CtAssumption`; they are rows of one matrix, and `utility/cone_tree.cpp:175` asserts it of a query).
* Two objectives at least where NSGA-II is used (`ObjectivesAssumption`, asserted in `algorithm/nsga2.cpp:64`), and vectors of one length for every function (`GaAssumption`).
* `Unit` and `Infinity` of `Nsga2` make the quotients of crowding distances exact and keep infinite ones apart; they exist for every finite set of fitness vectors.
* A loop of the thread pool stands for one activation of `execute_loop`, hence is called from one place (`CallsAssumption`); the threads that call loops are not workers by their names.
* No `+infinity` or NaN among the metrics of a stop condition, and minus infinity is below all of them (`LowestAssumption`).
* Numbers are integers, scaled so that the quotients that are compared are exact; where the code takes roots or draws reals, they are rounded or any
  value that can be reached is allowed, as the comment of each module says.
* A throwing iteration of a parallel loop is in a queued slice whenever its loop has one. An
  exception in the slice of the calling thread destroys the frame while tasks refer to it
  (`utility/thread_pool.hpp:68`); what follows is undefined, and `FrameOutlivesTasks` fails when `MCThrowing` is
  extended by such an iteration.
* A user hands over unevaluated candidates or solutions of the last run of the same function.
* The algorithm returns distinct members of the pool, as the replacements of the library do.
* Fitness values of a static function depend on the chromosome only, as `FitnessFunctionInfo` demands.
* `seed()` does not run while numbers are drawn, as its description asks of the caller; a row is not appended to or assigned from the matrix that it is a part of.

## 6. Not modelled

* Benchmark problems (`problems/*`): closed formulas over real numbers, without state.
* The iterator facades (`utility/iterators.hpp`), type-erased functions (`utility/functional.hpp`), candidate attributes and custom metrics: sequential, generic code whose
  correctness is one of types.
* Floating-point numerics: rounding, the mapping to the simplex by logarithms, how likely the values of real-valued operators are.
* Exceptions of allocators outside of `small_vector`, in particular those of `circular_buffer` (`set_capacity()` gives the old buffer back with the new capacity when a move throws, line 281).
* The condition variable of `concurrent_queue`: its operations are single steps of `ThreadPool`.
* The assertions on the results of user functions, and the wording of all of them.

## 7. Plan

1. Done: the parallel loops and the merge, the cache, the GA object and its setup, stop conditions and metrics, the locks, read-copy-update and the generators, sorting, NSGA-II and NSGA-III
   with its geometry, the single-objective algorithm, the operators, sampling, and the containers.
   Proved: all safety properties that the runs check of the merge, the cache, the bitset, the matrix, the thread pool, the GA object, the locks, read-copy-update, the generators, the sorts, the search,
   the stop conditions, NSGA-II and NSGA-III, the replacements of the single-objective algorithm, and the cone tree.
2. Left to prove: `VectorIsSound`, with the composition of its operations as the unit of the argument, and what can be said of the operators without `CrossoverMethods`.
3. Then, if it can be done at a size that TLC can check: `concurrent_queue` with its condition variable as an implementation of the queue of `ThreadPool`.
