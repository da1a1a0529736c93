----------------------------- MODULE Algorithms -----------------------------
(***************************************************************************)
(* The algorithms of utility/algorithm.hpp that the components share.      *)
(* Positions count from 1, so the end of a range is Len(s) + 1.            *)
(***************************************************************************)
EXTENDS Integers, Sequences, SequencesExt, FiniteSets, FiniteSetsExt, Functions

CONSTANT Cutoff     \* lower_bound scans ranges that are not longer

ASSUME CutoffAssumption == Cutoff \in Nat \ {0}

\* The position the halving leaves the scan at.
Halved(s, value) ==
    LET half[length \in 0..Len(s), first \in 1..(Len(s) + 1)] ==
            IF length <= Cutoff THEN first
            ELSE LET middle == length \div 2
                 IN  half[middle, IF s[first + middle] < value THEN first + middle ELSE first]
    IN  half[Len(s), 1]

\* lower_bound, for a sorted range: the rest is scanned up to its end.
LowerBound(s, value) ==
    LET found == {i \in Halved(s, value)..Len(s) : ~(s[i] < value)}
    IN  IF found = {} THEN Len(s) + 1 ELSE Min(found)

\* The first of the best elements, as positions.
MaxElement(s, Value(_)) ==
    CHOOSE i \in DOMAIN s : \A j \in DOMAIN s : /\ Value(s[j]) <= Value(s[i])
                                                /\ Value(s[j]) = Value(s[i]) => i <= j
MinElement(s, Value(_)) ==
    CHOOSE i \in DOMAIN s : \A j \in DOMAIN s : /\ Value(s[i]) <= Value(s[j])
                                                /\ Value(s[j]) = Value(s[i]) => i <= j

\* argsort and partial_argsort: the library may leave equal elements in any
\* order; here they stay in theirs.
Argsort(s, IsLess(_, _)) ==
    LET before(i) == {j \in DOMAIN s : IsLess(s[j], s[i]) \/ (~IsLess(s[i], s[j]) /\ j < i)}
    IN  [k \in DOMAIN s |-> CHOOSE i \in DOMAIN s : Cardinality(before(i)) = k - 1]

EraseFirstStable(s, value) ==
    IF value \notin Range(s) THEN s
    ELSE LET found == CHOOSE i \in DOMAIN s : s[i] = value /\ \A j \in 1..(i - 1) : s[j] # value
         IN  SubSeq(s, 1, found - 1) \o SubSeq(s, found + 1, Len(s))

\* The values in ascending order, each behind those that are less.
EraseDuplicates(s) ==
    LET values == Range(s)
    IN  [k \in 1..Cardinality(values) |->
           CHOOSE v \in values : Cardinality({w \in values : w < v}) = k - 1]

Exchanged(s, i, j) == [s EXCEPT ![i] = s[j], ![j] = s[i]]
=============================================================================
