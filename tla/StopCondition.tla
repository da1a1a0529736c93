---------------------------- MODULE StopCondition ----------------------------
(***************************************************************************)
(* The stop condition of a GA: a tree of conditions, some of which count   *)
(* generations.  It is initialized at the start of a run and evaluated     *)
(* once at the end of every generation.  A tree is a sequence of nodes in  *)
(* which the operands of a node come before it; the last one is the root.  *)
(***************************************************************************)
EXTENDS Integers, Sequences, FiniteSets, FiniteSetsExt

CONSTANTS Trees,       \* the conditions in use
          Matrices,    \* fitness matrices: sets of fitness vectors, equally large
          NewEvals,    \* fitness evaluations of a generation
          NumObj,      \* number of objectives
          MaxGen,
          Delta,       \* the least difference that counts as an improvement
          Lowest       \* stands for minus infinity

ASSUME StopAssumption == /\ MaxGen \in Nat \ {0} /\ NumObj \in Nat \ {0} /\ NewEvals \subseteq Nat
                         /\ Delta \in Nat /\ Lowest \in Int

VARIABLES tree,
          cntr,        \* cntr_ of the stall conditions
          fitnessBest,        \* fitness_max_, best_fitness_mean_
          generation, evals,
          stopped,     \* has the root returned true
          skipped,     \* nodes that the last evaluation has not invoked
          history      \* what every evaluation of this run could see

scVars == <<tree, cntr, fitnessBest, generation, evals, stopped, skipped, history>>

Nodes(t) == DOMAIN t
Root(t) == Len(t)
ScObjectives == 1 .. NumObj

\* The nodes.
Evals(max) == [kind |-> "evals", max |-> max]
Value(threshold) == [kind |-> "value", threshold |-> threshold]
BestStall(patience) == [kind |-> "best", patience |-> patience]
MeanStall(patience) == [kind |-> "mean", patience |-> patience]
NoEarlyStop == [kind |-> "never"]
Or(l, r) == [kind |-> "or", left |-> l, right |-> r]
And(l, r) == [kind |-> "and", left |-> l, right |-> r]
Not(b) == [kind |-> "not", base |-> b]

IsStall(node) == node.kind \in {"best", "mean"}
Stalls(t) == {n \in Nodes(t) : IsStall(t[n])}

\* The operands of a node.
Operands(node) == IF node.kind \in {"or", "and"} THEN {node.left, node.right}
                  ELSE IF node.kind = "not" THEN {node.base} ELSE {}

\* Every node but the root is an operand.
IsTree(t) ==
    /\ Len(t) \in Nat \ {0} /\ Nodes(t) = 1 .. Len(t)
    /\ \A n \in Nodes(t) : /\ t[n].kind \in {"evals", "value", "best", "mean", "never", "or", "and", "not"}
                           /\ IsStall(t[n]) => t[n].patience \in Nat
                           /\ Operands(t[n]) \subseteq 1 .. n - 1
    /\ \A n \in Nodes(t) \ {Root(t)} : \E p \in Nodes(t) : n \in Operands(t[p])

ASSUME TreesAssumption == \A t \in Trees : IsTree(t)

\* What a condition can see of the GA.
HighestFitness(M) == [i \in ScObjectives |-> Max({v[i] : v \in M})]

\* The mean times the population size.
FitnessSum(M) == [i \in ScObjectives |-> MapThenSumSet(LAMBDA v : v[i], M)]

Metric(node, M) == IF node.kind = "best" THEN HighestFitness(M) ELSE FitnessSum(M)

\* The least value is below all that occur.
ASSUME LowestAssumption ==
    \A t \in Trees : \A n \in Stalls(t), M \in Matrices : \A i \in ScObjectives :
      Metric(t[n], M)[i] \in Int /\ Metric(t[n], M)[i] >= Lowest + Delta

\* math::paretoCompareLess
Less(u, v) == /\ \A i \in ScObjectives : u[i] <= v[i]
              /\ \E i \in ScObjectives : u[i] < v[i]

-----------------------------------------------------------------------------
\* metricImproved: a coordinate is only replaced by one that is better by Delta.
Improves(old, new) == \E i \in ScObjectives : new[i] >= old[i] + Delta
Improved(old, new) == [i \in ScObjectives |-> IF new[i] >= old[i] + Delta THEN new[i] ELSE old[i]]

FullCntr(node) == node.patience + 1

NextCntr(t, n, M) == IF Improves(fitnessBest[n], Metric(t[n], M)) THEN FullCntr(t[n])
                     ELSE IF cntr[n] = 0 THEN 0 ELSE cntr[n] - 1

LimitReached(g) == g + 1 >= MaxGen

LeafVerdict(t, n, M, e) ==
    \/ t[n].kind = "evals" /\ e >= t[n].max
    \/ t[n].kind = "value" /\ \E v \in M : ~ Less(v, t[n].threshold)
    \/ IsStall(t[n]) /\ NextCntr(t, n, M) = 0

\* The value of operator() of every node; of a node that is not invoked, the value
\* it would have.
Verdicts(t, M, e, g) ==
    LET verdict[n \in Nodes(t)] ==
          \/ LimitReached(g)
          \/ t[n].kind = "or" /\ (verdict[t[n].left] \/ verdict[t[n].right])
          \/ t[n].kind = "and" /\ verdict[t[n].left] /\ verdict[t[n].right]
          \/ t[n].kind = "not" /\ ~ verdict[t[n].base]
          \/ LeafVerdict(t, n, M, e)
    IN verdict

\* Variant: AND does not evaluate its second operand in vain.
ShortCircuitsBoth(node, verdict) == \/ node.kind = "or" /\ verdict[node.left]
                                    \/ node.kind = "and" /\ ~ verdict[node.left]

ShortCircuits(node, verdict) == node.kind = "or" /\ verdict[node.left]

\* The operands that a node leaves out, and everything below them.
Skipped(t, verdict) ==
    LET out[k \in 0 .. Len(t) - 1] ==    \* from the root down
          IF k = 0 THEN {}
          ELSE LET n == Len(t) - k
                   parent == CHOOSE p \in Nodes(t) : n \in Operands(t[p])
               IN IF parent \in out[k - 1] \/ (ShortCircuits(t[parent], verdict) /\ n = t[parent].right)
                  THEN out[k - 1] \cup {n} ELSE out[k - 1]
    IN out[Len(t) - 1]

-----------------------------------------------------------------------------
LowestFitness == [i \in ScObjectives |-> Lowest]

InitialBest(t) == [n \in Stalls(t) |-> LowestFitness]
InitialCntr(t) == [n \in Stalls(t) |-> FullCntr(t[n])]

ScInit ==
    /\ tree \in Trees
    /\ cntr = InitialCntr(tree) /\ fitnessBest = InitialBest(tree)
    /\ generation = 0 /\ evals = 0
    /\ stopped = FALSE /\ skipped = {} /\ history = <<>>

\* The end of a generation that has left this fitness matrix.
Evaluate(M, e) ==
    LET verdict == Verdicts(tree, M, evals + e, generation)
    IN /\ ~ stopped
       /\ evals' = evals + e
       /\ skipped' = Skipped(tree, verdict)
       /\ stopped' = verdict[Root(tree)]
       /\ cntr' = [n \in Stalls(tree) |->
                     IF n \in skipped' THEN cntr[n] ELSE NextCntr(tree, n, M)]
       /\ fitnessBest' = [n \in Stalls(tree) |->
                     IF n \in skipped' THEN fitnessBest[n] ELSE Improved(fitnessBest[n], Metric(tree[n], M))]
       /\ generation' = IF stopped' THEN generation ELSE generation + 1
       /\ history' = Append(history, [matrix |-> M, evals |-> evals'])
       /\ UNCHANGED tree

\* initialize(): the same condition in a second run.
Restart == /\ stopped
           /\ cntr' = InitialCntr(tree) /\ fitnessBest' = InitialBest(tree)
           /\ generation' = 0 /\ evals' = 0
           /\ stopped' = FALSE /\ skipped' = {} /\ history' = <<>>
           /\ UNCHANGED tree

ScNext == (\E M \in Matrices, e \in NewEvals : Evaluate(M, e)) \/ Restart

ScSpec == ScInit /\ [][ScNext]_scVars

-----------------------------------------------------------------------------
\* Whether a condition should hold after evaluation k, from the history h of the run.
\* A metric has stalled when none of the last patience + 1 generations has raised
\* it above what it was in all the generations before.
Raised(h, node, k) == \E i \in ScObjectives : \A j \in 1 .. k - 1 :
                         Metric(node, h[k].matrix)[i] > Metric(node, h[j].matrix)[i]

HasStalled(h, node, k) == k > node.patience /\ \A j \in k - node.patience .. k : ~ Raised(h, node, j)

\* stop_condition.hpp: a solution is "equal to or better than" the threshold, that is, in
\* no objective below it.
Reaches(v, threshold) == \A i \in ScObjectives : v[i] >= threshold[i]

LeafShouldHold(h, node, k) ==
    \/ node.kind = "evals" /\ h[k].evals >= node.max
    \/ node.kind = "value" /\ \E v \in h[k].matrix : Reaches(v, node.threshold)
    \/ IsStall(node) /\ HasStalled(h, node, k)

ShouldHold(t, h, k) ==
    LET holds[n \in Nodes(t)] ==
          \/ k = MaxGen
          \/ t[n].kind = "or" /\ (holds[t[n].left] \/ holds[t[n].right])
          \/ t[n].kind = "and" /\ holds[t[n].left] /\ holds[t[n].right]
          \/ t[n].kind = "not" /\ ~ holds[t[n].base]
          \/ LeafShouldHold(h, t[n], k)
    IN holds

\* Whether every solution either reaches a threshold of t or is worse than it, as is always
\* the case with one objective.
Comparable(t, M) == \A n \in Nodes(t) : t[n].kind = "value" =>
                       \A v \in M : Less(v, t[n].threshold) <=> ~ Reaches(v, t[n].threshold)

LastEntry == history[Len(history)]

\* A run stops in the first generation in which its condition, read as a formula
\* about the generations of this run, is true, and in its last one at the latest:
\* the counters are what the formula means, across the operators and across runs.
\* For a generation in which a solution is incomparable to a threshold this is false,
\* as ThresholdIsReached says; and for a tree with an OR below an AND or a NOT, where the
\* operand that is left out misses a generation although the run goes on.
StopsWhenItShould ==
    history # <<>> /\ Comparable(tree, LastEntry.matrix) =>
      (stopped <=> ShouldHold(tree, history, Len(history))[Root(tree)])

\* stop_condition.hpp: a condition on the fitness value stops a run early only if a
\* solution is equal to or better than the threshold.
ThresholdIsReached ==
    stopped /\ tree[Root(tree)].kind = "value" /\ Len(history) < MaxGen =>
      \E v \in LastEntry.matrix : Reaches(v, tree[Root(tree)].threshold)

=============================================================================
