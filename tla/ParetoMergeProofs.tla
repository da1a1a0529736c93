-------------------------- MODULE ParetoMergeProofs --------------------------
(***************************************************************************)
(* For inputs of any length over any set of fitness vectors, the merge     *)
(* returns the Pareto front of the union and never overturns a verdict.    *)
(***************************************************************************)
EXTENDS ParetoMerge, TLAPS

\* A value that was stored for rhs[j] is justified by some row of lhs.
StoresAreSound ==
    \A j \in Cols : \A v \in stores[j] :
       \/ v = "DOMINATED" /\ DominatedRhs(j)
       \/ v = "OPTIMAL" /\ \E i \in Rows : ParetoCompareLess(lhs[i], rhs[j])

\* A verdict on a row of lhs is justified by some row of rhs.
LhsIsSound ==
    \A i \in Rows :
       /\ lhs_state[i] = "DOMINATED" => DominatedLhs(i)
       /\ lhs_state[i] = "OPTIMAL" => \E j \in Cols : ParetoCompareLess(rhs[j], lhs[i])

\* The shared verdict and the loaded values come from the stores.
StatesAreStored ==
    /\ \A j \in Cols : \/ rhs_state[j] = "UNKNOWN" /\ stores[j] = {}
                       \/ rhs_state[j] \in stores[j]
    /\ \A i \in Rows : pc[i] = "compare" =>
          /\ col[i] \in Cols
          /\ seen[i] = "UNKNOWN" \/ seen[i] \in stores[col[i]]

\* What the rows of rhs that a task has passed imply.
PassedIsDecided ==
    \A i \in Rows, j \in Cols : j < col[i] =>
       /\ ParetoCompareLess(lhs[i], rhs[j]) => lhs_state[i] = "DOMINATED"
       /\ ParetoCompareLess(rhs[j], lhs[i]) => rhs_state[j] = "DOMINATED"

IInv == TypeOK /\ StoresAreSound /\ LhsIsSound /\ StatesAreStored /\ PassedIsDecided

-----------------------------------------------------------------------------
\* Pareto dominance is transitive ...
LEMMA LessTransitive ==
    ASSUME NEW a \in Fitness, NEW b \in Fitness, NEW c \in Fitness,
           ParetoCompareLess(a, b), ParetoCompareLess(b, c)
    PROVE  ParetoCompareLess(a, c)
<1>1. a \in [Objectives -> Int] /\ b \in [Objectives -> Int] /\ c \in [Objectives -> Int]
  BY FitnessAssumption
<1>2. \A o \in Objectives : a[o] <= b[o] /\ b[o] <= c[o] /\ a[o] \in Int /\ b[o] \in Int /\ c[o] \in Int
  BY <1>1 DEF ParetoCompareLess
<1>3. PICK o \in Objectives : a[o] < b[o]
  BY DEF ParetoCompareLess
<1>4. a[o] < c[o]
  BY <1>2, <1>3
<1>5. \A p \in Objectives : a[p] <= c[p]
  BY <1>2
<1> QED BY <1>4, <1>5 DEF ParetoCompareLess

\* ... and asymmetric.
LEMMA LessAsymmetric ==
    ASSUME NEW a \in Fitness, NEW b \in Fitness,
           ParetoCompareLess(a, b), ParetoCompareLess(b, a)
    PROVE  FALSE
<1>1. a \in [Objectives -> Int] /\ b \in [Objectives -> Int]
  BY FitnessAssumption
<1> QED BY <1>1 DEF ParetoCompareLess

LEMMA InputShape ==
    ASSUME NEW s \in Inputs
    PROVE  /\ IsParetoSet(s)
           /\ \E n \in Nat : DOMAIN s = 1 .. n
           /\ \A i \in DOMAIN s : s[i] \in Fitness
<1>1. PICK n \in 0 .. MaxLen : s \in [1 .. n -> Fitness]
  BY DEF Inputs
<1>2. n \in Nat
  BY MaxLenAssumption
<1> QED BY <1>1, <1>2 DEF Inputs

\* No row of either input lies strictly between rows of the other one.
LEMMA NoChains ==
    ASSUME lhs \in Inputs, rhs \in Inputs
    PROVE  /\ \A j \in Cols : \A i, k \in Rows :
                 ~(ParetoCompareLess(lhs[i], rhs[j]) /\ ParetoCompareLess(rhs[j], lhs[k]))
           /\ \A i \in Rows : \A j, k \in Cols :
                 ~(ParetoCompareLess(rhs[j], lhs[i]) /\ ParetoCompareLess(lhs[i], rhs[k]))
<1>1. (\A i \in Rows : lhs[i] \in Fitness) /\ (\A j \in Cols : rhs[j] \in Fitness)
  BY InputShape DEF Rows, Cols
<1>2. IsParetoSet(lhs) /\ IsParetoSet(rhs)
  BY InputShape
<1> QED BY <1>1, <1>2, LessTransitive DEF IsParetoSet, Rows, Cols

-----------------------------------------------------------------------------
LEMMA InitIInv == Init => IInv
<1> SUFFICES ASSUME Init PROVE IInv
  OBVIOUS
<1>1. lhs \in Inputs /\ rhs \in Inputs
  BY DEF Init
<1>2. /\ lhs_state = [i \in Rows |-> "UNKNOWN"]
      /\ rhs_state = [j \in Cols |-> "UNKNOWN"]
      /\ stores = [j \in Cols |-> {}]
      /\ pc = [i \in Rows |-> "load"]
      /\ col = [i \in Rows |-> 1]
      /\ seen = [i \in Rows |-> "UNKNOWN"]
  BY DEF Init
<1>3. TypeOK
  BY <1>1, <1>2 DEF TypeOK, ParetoDominance
<1>4. StoresAreSound /\ LhsIsSound /\ StatesAreStored
  BY <1>2 DEF StoresAreSound, LhsIsSound, StatesAreStored
<1>5. \A j \in Cols : ~(j < 1)
  BY <1>1, InputShape DEF Cols
<1>6. PassedIsDecided
  BY <1>2, <1>5 DEF PassedIsDecided
<1> QED BY <1>3, <1>4, <1>6 DEF IInv

\* The next column: everything passed is decided if the compared pair is and
\* the verdicts that were DOMINATED still are.
LEMMA PassCompared ==
    ASSUME IInv, NEW i \in Rows, pc[i] = "compare", NextCol(i),
           \A k \in Rows : lhs_state[k] = "DOMINATED" => lhs_state'[k] = "DOMINATED",
           \A j \in Cols : rhs_state[j] = "DOMINATED" => rhs_state'[j] = "DOMINATED",
           ParetoCompareLess(lhs[i], rhs[col[i]]) => lhs_state'[i] = "DOMINATED",
           ParetoCompareLess(rhs[col[i]], lhs[i]) => rhs_state'[col[i]] = "DOMINATED"
    PROVE  PassedIsDecided'
<1>1. lhs' = lhs /\ rhs' = rhs /\ Rows' = Rows /\ Cols' = Cols
  BY DEF NextCol, Rows, Cols
<1>2. col[i] \in Nat /\ col'[i] = col[i] + 1 /\ \A k \in Rows : k # i => col'[k] = col[k]
  BY DEF NextCol, IInv, TypeOK
<1>3. \A j \in Cols : j \in Nat
  BY InputShape DEF IInv, TypeOK, Cols
<1>4. \A k \in Rows, j \in Cols : j < col'[k] => j < col[k] \/ (k = i /\ j = col[i])
  BY <1>2, <1>3
<1>5. ASSUME NEW k \in Rows, NEW j \in Cols, j < col'[k]
      PROVE  /\ ParetoCompareLess(lhs[k], rhs[j]) => lhs_state'[k] = "DOMINATED"
             /\ ParetoCompareLess(rhs[j], lhs[k]) => rhs_state'[j] = "DOMINATED"
  BY <1>4, <1>5 DEF IInv, PassedIsDecided
<1> QED BY <1>1, <1>5 DEF PassedIsDecided

\* What the verdicts say of a pair that is compared.
LEMMA ComparedPair ==
    ASSUME IInv, NEW i \in Rows, pc[i] = "compare"
    PROVE  /\ col[i] \in Cols
           /\ lhs_state[i] = "DOMINATED" \/ seen[i] = "OPTIMAL"
                => ~ParetoCompareLess(rhs[col[i]], lhs[i])
           /\ lhs_state[i] = "OPTIMAL" \/ seen[i] = "DOMINATED"
                => ~ParetoCompareLess(lhs[i], rhs[col[i]])
           /\ ParetoCompareLess(lhs[i], rhs[col[i]])
                => rhs_state[col[i]] # "DOMINATED" /\ lhs_state[i] # "OPTIMAL"
           /\ ParetoCompareLess(rhs[col[i]], lhs[i])
                => rhs_state[col[i]] # "OPTIMAL" /\ lhs_state[i] # "DOMINATED"
           /\ seen[i] \in ParetoDominance /\ lhs_state[i] \in ParetoDominance
           /\ rhs_state[col[i]] \in ParetoDominance
           /\ seen[i] # "UNKNOWN" => rhs_state[col[i]] # "UNKNOWN"
           /\ lhs_state = [lhs_state EXCEPT ![i] = lhs_state[i]]
<1>1. col[i] \in Cols
  BY DEF IInv, StatesAreStored
<1>2. lhs \in Inputs /\ rhs \in Inputs
  BY DEF IInv, TypeOK
<1>3. /\ seen[i] \in ParetoDominance /\ lhs_state[i] \in ParetoDominance
      /\ rhs_state[col[i]] \in ParetoDominance
      /\ lhs_state = [lhs_state EXCEPT ![i] = lhs_state[i]]
  BY <1>1 DEF IInv, TypeOK
<1>4. seen[i] # "UNKNOWN" => rhs_state[col[i]] # "UNKNOWN"
  BY <1>1 DEF IInv, StatesAreStored, StoresAreSound
<1>5. /\ lhs_state[i] = "DOMINATED" \/ seen[i] = "OPTIMAL"
           => ~ParetoCompareLess(rhs[col[i]], lhs[i])
      /\ lhs_state[i] = "OPTIMAL" \/ seen[i] = "DOMINATED"
           => ~ParetoCompareLess(lhs[i], rhs[col[i]])
  BY <1>1, <1>2, NoChains DEF IInv, StatesAreStored, StoresAreSound, LhsIsSound,
                              DominatedLhs, DominatedRhs
<1>6. /\ ParetoCompareLess(lhs[i], rhs[col[i]])
           => rhs_state[col[i]] # "DOMINATED" /\ lhs_state[i] # "OPTIMAL"
      /\ ParetoCompareLess(rhs[col[i]], lhs[i])
           => rhs_state[col[i]] # "OPTIMAL" /\ lhs_state[i] # "DOMINATED"
  BY <1>1, <1>2, NoChains DEF IInv, StatesAreStored, StoresAreSound, LhsIsSound,
                              DominatedLhs, DominatedRhs
<1> QED BY <1>1, <1>3, <1>4, <1>5, <1>6

-----------------------------------------------------------------------------
LEMMA LoadStep == ASSUME IInv, NEW i \in Rows, Load(i) PROVE IInv'
<1>1. /\ lhs' = lhs /\ rhs' = rhs /\ lhs_state' = lhs_state /\ rhs_state' = rhs_state
      /\ stores' = stores /\ col' = col /\ Rows' = Rows /\ Cols' = Cols
      /\ pc' = [pc EXCEPT ![i] = "compare"] /\ col[i] \in Cols
  BY DEF Load, Rows, Cols
<1>2. PICK v \in stores[col[i]] \cup {"UNKNOWN"} : seen' = [seen EXCEPT ![i] = v]
  BY DEF Load
<1>3. TypeOK'
  BY <1>1, <1>2 DEF IInv, TypeOK, ParetoDominance
<1>4. StatesAreStored'
  BY <1>1, <1>2 DEF IInv, StatesAreStored, TypeOK
<1>5. StoresAreSound' /\ LhsIsSound' /\ PassedIsDecided'
  BY <1>1 DEF IInv, StoresAreSound, LhsIsSound, PassedIsDecided, DominatedLhs, DominatedRhs
<1> QED BY <1>3, <1>4, <1>5 DEF IInv

\* The parts of the invariant that a comparison leaves to its verdicts: it may
\* decide lhs[i] if it is undecided, and may store a verdict for rhs[col[i]].
LEMMA CompareStep ==
    ASSUME IInv, NEW i \in Rows, pc[i] = "compare", NextCol(i),
           NEW v, NEW w,
           \/ v = lhs_state[i]
           \/ v = "DOMINATED" /\ ParetoCompareLess(lhs[i], rhs[col[i]])
           \/ v = "OPTIMAL" /\ ParetoCompareLess(rhs[col[i]], lhs[i]),
           SetLhs(i, v),
           \/ UNCHANGED <<rhs_state, stores>>
           \/ /\ StoreRhs(col[i], w)
              /\ \/ w = "DOMINATED" /\ ParetoCompareLess(rhs[col[i]], lhs[i])
                 \/ w = "OPTIMAL" /\ ParetoCompareLess(lhs[i], rhs[col[i]]),
           ParetoCompareLess(lhs[i], rhs[col[i]]) => lhs_state'[i] = "DOMINATED",
           ParetoCompareLess(rhs[col[i]], lhs[i]) => rhs_state'[col[i]] = "DOMINATED"
    PROVE  IInv'
<1>1. /\ lhs' = lhs /\ rhs' = rhs /\ seen' = seen /\ Rows' = Rows /\ Cols' = Cols
      /\ col' = [col EXCEPT ![i] = @ + 1] /\ pc' = [pc EXCEPT ![i] = "load"]
      /\ lhs_state' = [lhs_state EXCEPT ![i] = v]
  BY DEF NextCol, SetLhs, Rows, Cols
<1>2. col[i] \in Cols
  BY ComparedPair
<1>3. v \in ParetoDominance
  BY DEF IInv, TypeOK, ParetoDominance
<1>4. /\ lhs_state' \in [Rows -> ParetoDominance]
      /\ col' \in [Rows -> Nat \ {0}] /\ \A k \in Rows : col'[k] - 1 \in Cols \cup {0}
  BY <1>1, <1>2, <1>3 DEF IInv, TypeOK
<1>5. /\ lhs' \in Inputs /\ rhs' \in Inputs /\ seen' \in [Rows -> ParetoDominance]
      /\ pc' \in [Rows -> {"load", "compare"}]
  BY <1>1 DEF IInv, TypeOK
<1>6. CASE UNCHANGED <<rhs_state, stores>>
  <2>1. TypeOK'
    BY <1>1, <1>4, <1>5, <1>6 DEF IInv, TypeOK
  <2>2. StoresAreSound'
    BY <1>1, <1>6 DEF IInv, StoresAreSound, DominatedRhs
  <2>3. LhsIsSound'
    BY <1>1, <1>2 DEF IInv, LhsIsSound, DominatedLhs, TypeOK
  <2>4. StatesAreStored'
    BY <1>1, <1>6 DEF IInv, StatesAreStored, TypeOK
  <2>5. \A k \in Rows : lhs_state[k] = "DOMINATED" => lhs_state'[k] = "DOMINATED"
    BY <1>1, ComparedPair DEF IInv, TypeOK
  <2>6. PassedIsDecided'
    BY <1>6, <2>5, PassCompared
  <2> QED BY <2>1, <2>2, <2>3, <2>4, <2>6 DEF IInv
<1>7. CASE ~UNCHANGED <<rhs_state, stores>>
  <2>1. /\ rhs_state' = [rhs_state EXCEPT ![col[i]] = w]
        /\ stores' = [stores EXCEPT ![col[i]] = @ \cup {w}]
        /\ \/ w = "DOMINATED" /\ ParetoCompareLess(rhs[col[i]], lhs[i])
           \/ w = "OPTIMAL" /\ ParetoCompareLess(lhs[i], rhs[col[i]])
    BY <1>7 DEF StoreRhs
  <2>2. TypeOK'
    <3>1. /\ rhs_state' \in [Cols -> ParetoDominance]
          /\ stores' \in [Cols -> SUBSET ParetoDominance]
      BY <2>1 DEF IInv, TypeOK, ParetoDominance
    <3> QED BY <1>1, <1>4, <1>5, <3>1 DEF TypeOK
  <2>3. StoresAreSound'
    BY <1>1, <1>2, <2>1 DEF IInv, StoresAreSound, DominatedRhs, TypeOK
  <2>4. LhsIsSound'
    BY <1>1, <1>2 DEF IInv, LhsIsSound, DominatedLhs, TypeOK
  <2>5. StatesAreStored'
    <3>1. \A j \in Cols : stores[j] \subseteq stores'[j]
      BY <2>1 DEF IInv, TypeOK
    <3>2. \A j \in Cols : rhs_state'[j] = rhs_state[j] \/ rhs_state'[j] \in stores'[j]
      BY <1>2, <2>1 DEF IInv, TypeOK
    <3>3. \A j \in Cols : stores'[j] = stores[j] \/ rhs_state'[j] \in stores'[j]
      BY <1>2, <2>1 DEF IInv, TypeOK
    <3>4. \A k \in Rows : pc'[k] = "compare" =>
             pc[k] = "compare" /\ col'[k] = col[k] /\ seen'[k] = seen[k]
      BY <1>1 DEF IInv, TypeOK
    <3> QED BY <1>1, <3>1, <3>2, <3>3, <3>4 DEF IInv, StatesAreStored
  <2>6. \A k \in Rows : lhs_state[k] = "DOMINATED" => lhs_state'[k] = "DOMINATED"
    BY <1>1, ComparedPair DEF IInv, TypeOK
  <2>7. \A j \in Cols : rhs_state[j] = "DOMINATED" => rhs_state'[j] = "DOMINATED"
    BY <2>1, ComparedPair DEF IInv, TypeOK
  <2>8. PassedIsDecided'
    BY <2>6, <2>7, PassCompared
  <2> QED BY <2>2, <2>3, <2>4, <2>5, <2>8 DEF IInv
<1> QED BY <1>6, <1>7

LEMMA TaskStep == ASSUME IInv, NEW i \in Rows, Task(i) PROVE IInv'
<1> DEFINE lessLR == ParetoCompareLess(lhs[i], rhs[col[i]])
           lessRL == ParetoCompareLess(rhs[col[i]], lhs[i])
<1>1. ~(lessLR /\ lessRL)
  <2>1. SUFFICES ASSUME col[i] \in Cols PROVE ~(lessLR /\ lessRL)
    BY ComparedPair DEF Task, Load, Skip, CompareOptimalLhs, CompareOptimalRhs, CompareUnknown
  <2>2. lhs[i] \in Fitness /\ rhs[col[i]] \in Fitness
    BY <2>1, InputShape DEF IInv, TypeOK, Rows, Cols
  <2> QED BY <2>2, LessAsymmetric
<1>2. CASE Load(i)
  BY <1>2, LoadStep
<1>3. CASE Skip(i)
  <2>1. /\ pc[i] = "compare" /\ NextCol(i) /\ lhs_state' = lhs_state
        /\ UNCHANGED <<rhs_state, stores>>
        /\ lhs_state[i] = "DOMINATED" \/ seen[i] = "DOMINATED"
    BY <1>3 DEF Skip
  <2>2. SetLhs(i, lhs_state[i])
    BY <2>1, ComparedPair DEF SetLhs
  <2>3. (lessLR => lhs_state'[i] = "DOMINATED") /\ (lessRL => rhs_state'[col[i]] = "DOMINATED")
    BY <2>1, ComparedPair DEF ParetoDominance
  <2> QED BY <2>1, <2>2, <2>3, CompareStep
<1>4. CASE CompareOptimalLhs(i)
  <2>1. /\ pc[i] = "compare" /\ NextCol(i) /\ lhs_state' = lhs_state
        /\ lhs_state[i] = "OPTIMAL" /\ seen[i] # "DOMINATED"
        /\ IF seen[i] = "UNKNOWN" /\ lessRL
           THEN StoreRhs(col[i], "DOMINATED") ELSE UNCHANGED <<rhs_state, stores>>
    BY <1>4 DEF CompareOptimalLhs
  <2>2. SetLhs(i, lhs_state[i])
    BY <2>1, ComparedPair DEF SetLhs
  <2>3. ~lessLR /\ (lessRL => seen[i] = "UNKNOWN")
    BY <2>1, ComparedPair DEF ParetoDominance
  <2>4. lessRL => rhs_state'[col[i]] = "DOMINATED"
    BY <2>1, <2>3, ComparedPair DEF StoreRhs, IInv, TypeOK
  <2> QED BY <2>1, <2>2, <2>3, <2>4, CompareStep
<1>5. CASE CompareOptimalRhs(i)
  <2>1. /\ pc[i] = "compare" /\ NextCol(i) /\ UNCHANGED <<rhs_state, stores>>
        /\ lhs_state[i] = "UNKNOWN" /\ seen[i] = "OPTIMAL"
        /\ IF lessLR THEN SetLhs(i, "DOMINATED") ELSE UNCHANGED lhs_state
    BY <1>5 DEF CompareOptimalRhs
  <2>2. ~lessRL
    BY <2>1, ComparedPair
  <2>3. CASE lessLR
    <3>1. lhs_state'[i] = "DOMINATED"
      BY <2>1, <2>3 DEF SetLhs, IInv, TypeOK
    <3> QED BY <2>1, <2>2, <2>3, <3>1, CompareStep
  <2>4. CASE ~lessLR
    <3>1. SetLhs(i, lhs_state[i])
      BY <2>1, <2>4, ComparedPair DEF SetLhs
    <3> QED BY <2>1, <2>2, <2>4, <3>1, CompareStep
  <2> QED BY <2>3, <2>4
<1>6. CASE CompareUnknown(i)
  <2>1. /\ pc[i] = "compare" /\ NextCol(i)
        /\ lhs_state[i] = "UNKNOWN" /\ seen[i] = "UNKNOWN"
        /\ \/ lessLR /\ SetLhs(i, "DOMINATED") /\ StoreRhs(col[i], "OPTIMAL")
           \/ lessRL /\ SetLhs(i, "OPTIMAL") /\ StoreRhs(col[i], "DOMINATED")
           \/ ~lessLR /\ ~lessRL /\ UNCHANGED <<lhs_state, rhs_state, stores>>
    BY <1>6 DEF CompareUnknown, ParetoCompare
  <2>2. col[i] \in Cols
    BY <2>1, ComparedPair
  <2>3. CASE lessLR /\ SetLhs(i, "DOMINATED") /\ StoreRhs(col[i], "OPTIMAL")
    <3>1. lhs_state'[i] = "DOMINATED" /\ ~lessRL
      BY <1>1, <2>3 DEF SetLhs, IInv, TypeOK
    <3> QED BY <2>1, <2>3, <3>1, CompareStep
  <2>4. CASE lessRL /\ SetLhs(i, "OPTIMAL") /\ StoreRhs(col[i], "DOMINATED")
    <3>1. rhs_state'[col[i]] = "DOMINATED" /\ ~lessLR
      BY <1>1, <2>2, <2>4 DEF StoreRhs, IInv, TypeOK
    <3> QED BY <2>1, <2>4, <3>1, CompareStep
  <2>5. CASE ~lessLR /\ ~lessRL /\ UNCHANGED <<lhs_state, rhs_state, stores>>
    <3>1. SetLhs(i, lhs_state[i])
      BY <2>1, <2>5, ComparedPair DEF SetLhs
    <3> QED BY <2>1, <2>5, <3>1, CompareStep
  <2> QED BY <2>1, <2>3, <2>4, <2>5
<1> QED BY <1>2, <1>3, <1>4, <1>5, <1>6 DEF Task

LEMMA StutterStep == ASSUME IInv, UNCHANGED vars PROVE IInv'
BY DEF vars, IInv, TypeOK, StoresAreSound, LhsIsSound, StatesAreStored, PassedIsDecided,
       Rows, Cols, DominatedLhs, DominatedRhs

\* The invariant holds in every state of the merge.
THEOREM Invariance == Spec => []IInv
<1>1. IInv /\ [Next]_vars => IInv'
  BY TaskStep, StutterStep DEF Next
<1> QED BY InitIInv, <1>1, PTL DEF Spec

\* Every state of the merge is well typed.
THEOREM TypeCorrect == Spec => []TypeOK
<1>1. IInv => TypeOK
  BY DEF IInv
<1> QED BY Invariance, <1>1, PTL

\* mergeParetoSets returns exactly the Pareto-optimal solutions of lhs U rhs,
\* for inputs of any length and every interleaving of the tasks.
THEOREM MergeIsCorrect == Spec => []ResultIsParetoFront
<1>1. IInv => ResultIsParetoFront
  <2> SUFFICES ASSUME IInv, Finished PROVE /\ OptimalLhs = {i \in Rows : ~DominatedLhs(i)}
                                          /\ OptimalRhs = {j \in Cols : ~DominatedRhs(j)}
    BY DEF ResultIsParetoFront
  <2>1. PICK n \in Nat : Cols = 1 .. n
    BY InputShape DEF IInv, TypeOK, Cols
  <2>2. \A i \in Rows, j \in Cols : j < col[i]
    BY <2>1 DEF Finished, IInv, TypeOK
  <2>3. \A i \in Rows : lhs_state[i] = "DOMINATED" <=> DominatedLhs(i)
    BY <2>2 DEF IInv, PassedIsDecided, LhsIsSound, DominatedLhs
  <2>4. \A j \in Cols : rhs_state[j] = "DOMINATED" => DominatedRhs(j)
    BY DEF IInv, StatesAreStored, StoresAreSound
  <2>5. \A j \in Cols : DominatedRhs(j) => rhs_state[j] = "DOMINATED"
    BY <2>2 DEF IInv, PassedIsDecided, DominatedRhs
  <2> QED BY <2>3, <2>4, <2>5 DEF OptimalLhs, OptimalRhs
<1> QED BY Invariance, <1>1, PTL

\* A verdict on a row of rhs, once stored, is not changed by any task.
THEOREM VerdictsStand == Spec => VerdictsAreFinal
<1> DEFINE Final == \A j \in Cols : rhs_state[j] # "UNKNOWN" => rhs_state'[j] = rhs_state[j]
<1>1. ASSUME IInv, IInv', Next PROVE Final
  <2> SUFFICES ASSUME NEW j \in Cols, rhs_state[j] # "UNKNOWN", rhs_state'[j] # rhs_state[j]
               PROVE  FALSE
    OBVIOUS
  <2>1. PICK i \in Rows : Task(i)
    BY <1>1 DEF Next
  <2>2. pc[i] = "compare" /\ col[i] = j /\ stores'[j] = stores[j] \cup {rhs_state'[j]}
    BY <1>1, <2>1 DEF Task, Load, Skip, CompareOptimalLhs, CompareOptimalRhs, CompareUnknown,
                      StoreRhs, IInv, TypeOK
  <2>3. rhs' = rhs /\ lhs' = lhs /\ Cols' = Cols /\ Rows' = Rows
    BY <2>1 DEF Task, Load, Skip, CompareOptimalLhs, CompareOptimalRhs, CompareUnknown,
                NextCol, Rows, Cols
  <2>4. rhs_state[j] \in stores'[j] /\ rhs_state'[j] \in stores'[j]
    BY <1>1, <2>2 DEF IInv, StatesAreStored
  <2>5. /\ DominatedRhs(j)
        /\ \E k \in Rows : ParetoCompareLess(lhs[k], rhs[j])
    BY <1>1, <2>3, <2>4 DEF IInv, StoresAreSound, DominatedRhs
  <2>6. lhs \in Inputs /\ rhs \in Inputs
    BY <1>1 DEF IInv, TypeOK
  <2> QED BY <2>5, <2>6, NoChains DEF DominatedRhs
<1>2. ASSUME IInv, IInv', [Next]_vars PROVE [Final]_vars
  BY <1>1, <1>2
<1>3. IInv /\ IInv' /\ [Next]_vars => [Final]_vars
  BY <1>2
<1> QED BY Invariance, <1>3, PTL DEF Spec, VerdictsAreFinal
=============================================================================
