---------------------------- MODULE ParetoMerge ----------------------------
(***************************************************************************)
(* detail::mergeParetoSets: the Pareto-optimal solutions of the union of   *)
(* two Pareto sets.  The rows of lhs are compared with all of rhs by a     *)
(* parallel_for, one task per row (the pool may put several rows in one    *)
(* task, which allows fewer interleavings, not other ones).  The verdicts  *)
(* on rhs are shared: a task loads rhs_state[j] with relaxed ordering,     *)
(* compares the two solutions, and later stores a verdict that is not      *)
(* conditional on the value it loaded.                                     *)
(*                                                                         *)
(* A solution is a fitness vector, a function from the objectives to Int;  *)
(* the floating-point tolerances are taken to be zero.                     *)
(***************************************************************************)
EXTENDS Integers, FiniteSets

CONSTANTS Objectives,  \* the objectives that are maximised
          Fitness,     \* the fitness vectors a solution may have
          MaxLen       \* bound on the length of either input

ASSUME FitnessAssumption == Fitness \subseteq [Objectives -> Int]
ASSUME MaxLenAssumption == MaxLen \in Nat

VARIABLES lhs,        \* the longer input, a function from its indices
          rhs,        \* the shorter input
          lhs_state,  \* verdict on every row of lhs, private to its task
          rhs_state,  \* verdicts on rhs, shared: the latest store
          stores,     \* the values stored to rhs_state[j] so far
          pc,         \* the state of every task
          col,        \* the row of rhs that a task compares with
          seen        \* the value a task loaded from rhs_state[col]

vars == <<lhs, rhs, lhs_state, rhs_state, stores, pc, col, seen>>

-----------------------------------------------------------------------------
(* math::paretoCompareLess and math::paretoCompare, exact comparisons. *)

ParetoCompareLess(a, b) == /\ \A o \in Objectives : a[o] <= b[o]
                           /\ \E o \in Objectives : a[o] < b[o]

ParetoCompare(a, b) == IF ParetoCompareLess(a, b) THEN -1
                       ELSE IF ParetoCompareLess(b, a) THEN 1 ELSE 0

ParetoDominance == {"UNKNOWN", "OPTIMAL", "DOMINATED"}

IsParetoSet(s) == \A i, j \in DOMAIN s : ~ParetoCompareLess(s[i], s[j])

\* Both inputs of the function are Pareto sets: the solutions found so far and
\* the optimal solutions of the current population.
Inputs == {s \in UNION {[1 .. n -> Fitness] : n \in 0 .. MaxLen} : IsParetoSet(s)}

Rows == DOMAIN lhs
Cols == DOMAIN rhs

-----------------------------------------------------------------------------
\* The inputs are swapped so that lhs is the longer one; when either is empty
\* the other one is the result, which is the result of a loop with no work.
Init == \E a, b \in Inputs :
          /\ lhs = IF Cardinality(DOMAIN b) > Cardinality(DOMAIN a) THEN b ELSE a
          /\ rhs = IF Cardinality(DOMAIN b) > Cardinality(DOMAIN a) THEN a ELSE b
          /\ lhs_state = [i \in Rows |-> "UNKNOWN"]
          /\ rhs_state = [j \in Cols |-> "UNKNOWN"]
          /\ stores = [j \in Cols |-> {}]
          /\ pc = [i \in Rows |-> "load"]
          /\ col = [i \in Rows |-> 1]
          /\ seen = [i \in Rows |-> "UNKNOWN"]

\* The relaxed load may return any value of the modification order of
\* rhs_state[j]: nothing orders this task after the stores of the others.
Load(i) ==
    /\ pc[i] = "load"
    /\ col[i] \in Cols
    /\ \E v \in stores[col[i]] \cup {"UNKNOWN"} : seen' = [seen EXCEPT ![i] = v]
    /\ pc' = [pc EXCEPT ![i] = "compare"]
    /\ UNCHANGED <<lhs, rhs, lhs_state, rhs_state, stores, col>>

NextCol(i) == /\ col' = [col EXCEPT ![i] = @ + 1]
              /\ pc' = [pc EXCEPT ![i] = "load"]
              /\ UNCHANGED <<lhs, rhs, seen>>

SetLhs(i, v) == lhs_state' = [lhs_state EXCEPT ![i] = v]

StoreRhs(j, v) == /\ rhs_state' = [rhs_state EXCEPT ![j] = v]
                  /\ stores' = [stores EXCEPT ![j] = @ \cup {v}]

\* Variant: the inner loop is repeated for a pair that is skipped.
SkipForever(i) ==
    /\ pc[i] = "compare"
    /\ lhs_state[i] = "DOMINATED" \/ seen[i] = "DOMINATED"
    /\ pc' = [pc EXCEPT ![i] = "load"]
    /\ UNCHANGED <<lhs, rhs, lhs_state, rhs_state, stores, col, seen>>

\* One side is known to be dominated: the comparison is skipped.
Skip(i) ==
    /\ pc[i] = "compare"
    /\ lhs_state[i] = "DOMINATED" \/ seen[i] = "DOMINATED"
    /\ NextCol(i)
    /\ UNCHANGED <<lhs_state, rhs_state, stores>>

\* lhs[i] is known to be optimal: only rhs[j] may turn out to be dominated.
CompareOptimalLhs(i) ==
    /\ pc[i] = "compare"
    /\ lhs_state[i] = "OPTIMAL" /\ seen[i] # "DOMINATED"
    /\ IF seen[i] = "UNKNOWN" /\ ParetoCompareLess(rhs[col[i]], lhs[i])
       THEN StoreRhs(col[i], "DOMINATED")
       ELSE UNCHANGED <<rhs_state, stores>>
    /\ NextCol(i)
    /\ UNCHANGED lhs_state

\* Variant: the operands of the comparison are swapped.
CompareOptimalRhsSwapped(i) ==
    /\ pc[i] = "compare"
    /\ lhs_state[i] = "UNKNOWN" /\ seen[i] = "OPTIMAL"
    /\ IF ParetoCompareLess(rhs[col[i]], lhs[i])
       THEN SetLhs(i, "DOMINATED")
       ELSE UNCHANGED lhs_state
    /\ NextCol(i)
    /\ UNCHANGED <<rhs_state, stores>>

\* rhs[j] is known to be optimal: only lhs[i] may turn out to be dominated.
CompareOptimalRhs(i) ==
    /\ pc[i] = "compare"
    /\ lhs_state[i] = "UNKNOWN" /\ seen[i] = "OPTIMAL"
    /\ IF ParetoCompareLess(lhs[i], rhs[col[i]])
       THEN SetLhs(i, "DOMINATED")
       ELSE UNCHANGED lhs_state
    /\ NextCol(i)
    /\ UNCHANGED <<rhs_state, stores>>

\* Variant: two solutions that do not dominate each other are both optimal.
CompareUnknownOptimistic(i) ==
    /\ pc[i] = "compare"
    /\ lhs_state[i] = "UNKNOWN" /\ seen[i] = "UNKNOWN"
    /\ LET comp == ParetoCompare(lhs[i], rhs[col[i]])
       IN /\ SetLhs(i, IF comp < 0 THEN "DOMINATED" ELSE "OPTIMAL")
          /\ StoreRhs(col[i], IF comp > 0 THEN "DOMINATED" ELSE "OPTIMAL")
    /\ NextCol(i)

\* Nothing is known of either: the verdict on one follows from the other's.
CompareUnknown(i) ==
    /\ pc[i] = "compare"
    /\ lhs_state[i] = "UNKNOWN" /\ seen[i] = "UNKNOWN"
    /\ LET comp == ParetoCompare(lhs[i], rhs[col[i]])
       IN \/ /\ comp < 0
             /\ SetLhs(i, "DOMINATED")
             /\ StoreRhs(col[i], "OPTIMAL")
          \/ /\ comp > 0
             /\ SetLhs(i, "OPTIMAL")
             /\ StoreRhs(col[i], "DOMINATED")
          \/ /\ comp = 0
             /\ UNCHANGED <<lhs_state, rhs_state, stores>>
    /\ NextCol(i)

Task(i) == Load(i) \/ Skip(i) \/ CompareOptimalLhs(i)
           \/ CompareOptimalRhs(i) \/ CompareUnknown(i)

\* parallel_for returns when every task is done; that orders their stores
\* before the selection of the result.
Finished == \A i \in Rows : col[i] \notin Cols

Next == \E i \in Rows : Task(i)

Spec == Init /\ [][Next]_vars
FairSpec == Spec /\ \A i \in 1 .. MaxLen : WF_vars(i \in Rows /\ Task(i))

-----------------------------------------------------------------------------
\* The rows of lhs and of rhs that are moved to optimal_solutions.
OptimalLhs == {i \in Rows : lhs_state[i] # "DOMINATED"}
OptimalRhs == {j \in Cols : rhs_state[j] # "DOMINATED"}

TypeOK ==
    /\ lhs \in Inputs
    /\ rhs \in Inputs
    /\ lhs_state \in [Rows -> ParetoDominance]
    /\ rhs_state \in [Cols -> ParetoDominance]
    /\ stores \in [Cols -> SUBSET ParetoDominance]
    /\ pc \in [Rows -> {"load", "compare"}]
    /\ col \in [Rows -> Nat \ {0}] /\ \A i \in Rows : col[i] - 1 \in Cols \cup {0}
    /\ seen \in [Rows -> ParetoDominance]

DominatedLhs(i) == \E j \in Cols : ParetoCompareLess(lhs[i], rhs[j])
DominatedRhs(j) == \E i \in Rows : ParetoCompareLess(rhs[j], lhs[i])

\* The merged set is the Pareto front of the union of the inputs, whatever the
\* order in which the tasks loaded and stored the shared verdicts: no optimal
\* solution is lost and no dominated one is kept ("Find the pareto-optimal
\* solutions in the set (lhs U rhs)").
ResultIsParetoFront ==
    Finished => /\ OptimalLhs = {i \in Rows : ~DominatedLhs(i)}
                /\ OptimalRhs = {j \in Cols : ~DominatedRhs(j)}

\* A store that was decided on a stale load never overturns a verdict that
\* another task stored in the meantime.
VerdictsAreFinal ==
    [][\A j \in Cols : rhs_state[j] # "UNKNOWN" => rhs_state'[j] = rhs_state[j]]_vars

\* The parallel loop ends.
MergeCompletes == <>Finished
=============================================================================
