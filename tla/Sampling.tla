------------------------------ MODULE Sampling ------------------------------
(***************************************************************************)
(* Random choices (rng.hpp).  A generator may return any number of its     *)
(* range, so what a function can return is the set of results over all the *)
(* sequences of numbers it can draw.                                       *)
(*                                                                         *)
(* sampleUnique() keeps the bits of the numbers it has selected in a       *)
(* variable of the thread: they are there at the next call, whose range    *)
(* may be longer or shorter.                                               *)
(***************************************************************************)
EXTENDS Integers, Sequences, FiniteSets

LOCAL INSTANCE SequencesExt

CONSTANTS
    HugeRange,      \* length of the ranges that are sampled with a hash set
    SampleRange,       \* bound: length of the ranges in the calls
    MaxNumber       \* bound: what a Poisson variable may return

ASSUME SamplingAssumption == HugeRange \in Nat /\ SampleRange \in Nat /\ MaxNumber \in Nat

(***************************************************************************)
(* Functions without a state                                               *)
(***************************************************************************)
\* The sequences of numbers for the limits first .. last: one of lbound ..
\* limit for each.
Draws(lbound, first, last) ==
    {d \in [1..(last - first + 1) -> lbound..last] : \A i \in DOMAIN d : d[i] <= first + i - 1}

\* Binomial variables.  Larger ones are approximated, and drawn again until
\* they are one of 0 .. n.
RandomBinomialExact(n) == 0..n
RandomBinomialApproxPoisson(n) == {k \in 0..MaxNumber : ~(k > n)}
\* x / 4 is the number, rounded half up from -0.5 to n + 0.5
RandomBinomialApproxNormal(n) ==
    {(x + 2) \div 4 : x \in {y \in -MaxNumber..(5 * MaxNumber) : -2 < y /\ y < 4 * n + 2}}

\* p is given in percent
RandomBinomial(n, p) ==
    LET usePoisson == (n > 50 /\ p * n < 1000) \/ (5 < n /\ n <= 50 /\ p < 20)
        useNormal == ~usePoisson /\ n > 5
    IN  CASE usePoisson -> IF p = 0 THEN {0} ELSE RandomBinomialApproxPoisson(n)
          [] useNormal -> RandomBinomialApproxNormal(n)
          [] ~usePoisson /\ ~useNormal -> RandomBinomialExact(n)

(***************************************************************************)
(* Unique numbers of a range lbound .. ubound - 1                          *)
(***************************************************************************)
\* select_many: the numbers to leave out are drawn
SelectMany(len, count) == count >= (6 * len) \div 10

\* The numbers, and the bits that are left in the variable of the thread.
SelectFew(lbound, ubound, count, draws, bits) ==
    LET Step(acc, i) ==
            LET n == draws[i]
                limit == ubound - count + i - 1
                number == IF acc.bits[n - lbound] THEN limit ELSE n
            IN  [numbers |-> Append(acc.numbers, number),
                 bits |-> [acc.bits EXCEPT ![number - lbound] = TRUE]]
    IN  FoldLeft(Step, [numbers |-> <<>>, bits |-> bits], [i \in 1..count |-> i])

SelectRest(lbound, ubound, count, draws, bits) ==
    LET Step(acc, i) ==
            LET n == draws[i]
                limit == ubound - Len(draws) + i - 1
            IN  [acc EXCEPT ![IF acc[n - lbound] THEN n - lbound ELSE limit - lbound] = FALSE]
        left == FoldLeft(Step, bits, [i \in 1..Len(draws) |-> i])
        chosen == SetToSortSeq({lbound + k : k \in {j \in DOMAIN left : left[j]}}, <)
    IN  [numbers |-> [k \in 1..count |-> IF k <= Len(chosen) THEN chosen[k] ELSE 0],
         bits |-> left]

\* Huge ranges: a number that was replaced is remembered as it was drawn.
SampleUniqueSet(ubound, count, draws) ==
    LET Step(acc, i) ==
            LET n == draws[i]
                limit == ubound - count + i - 1
            IN  [numbers |-> Append(acc.numbers, IF n \in acc.selected THEN limit ELSE n),
                 selected |-> acc.selected \cup {n}]
    IN  FoldLeft(Step, [numbers |-> <<>>, selected |-> {}], [i \in 1..count |-> i]).numbers

\* Variant: only the new bits get their value.
PreparedByResize(bits, len, value) ==
    [k \in 0..(len - 1) |-> IF k \in DOMAIN bits THEN bits[k] ELSE value]

\* The bitset gets the size of the range, then all its bits their value.
Prepared(bits, len, value) ==
    LET resized == [k \in 0..(len - 1) |-> IF k \in DOMAIN bits THEN bits[k] ELSE FALSE]
    IN  [k \in DOMAIN resized |-> value]

\* The results of a call over all that it may draw.
SampleUnique(lbound, ubound, count, bits) ==
    LET len == ubound - lbound
        many == SelectMany(len, count)
        prepared == Prepared(bits, len, many)
        AllBut == IF count > len THEN {<<>>} ELSE Draws(lbound, lbound + count, ubound - 1)
    IN  IF len >= HugeRange
        THEN {[numbers |-> SampleUniqueSet(ubound, count, d), bits |-> bits, draws |-> d] :
                  d \in Draws(lbound, ubound - count, ubound - 1)}
        ELSE IF many
        THEN {LET r == SelectRest(lbound, ubound, count, d, prepared)
              IN  [numbers |-> r.numbers, bits |-> r.bits, draws |-> d] : d \in AllBut}
        ELSE {LET r == SelectFew(lbound, ubound, count, d, prepared)
              IN  [numbers |-> r.numbers, bits |-> r.bits, draws |-> d] :
                  d \in Draws(lbound, ubound - count, ubound - 1)}

\* What the operators of the algorithms get: distinct numbers of 0 .. n - 1.
Samples(n, count) == {r.numbers : r \in SampleUnique(0, n, count, <<>>)}

(***************************************************************************)
(* A thread that samples again and again                                   *)
(***************************************************************************)
VARIABLES
    smBits,         \* is_selected of the thread
    smCall          \* the last call: its arguments, results and draws

smVars == <<smBits, smCall>>

NoCall == [lbound |-> 0, ubound |-> 0, count |-> 0, numbers |-> <<>>]

SmInit == smBits = <<>> /\ smCall = NoCall

SmSample ==
    \E lbound \in 0..1, len \in 0..SampleRange : \E count \in 0..len :
        \E r \in SampleUnique(lbound, lbound + len, count, smBits) :
            /\ smBits' = r.bits
            /\ smCall' = [lbound |-> lbound, ubound |-> lbound + len, count |-> count,
                          numbers |-> r.numbers]

SmNext == SmSample
SmSpec == SmInit /\ [][SmNext]_smVars

(***************************************************************************)
(* Properties                                                              *)
(***************************************************************************)
\* The numbers are of the range and distinct, whatever the calls before have
\* left in the variable of the thread (rng.hpp: "Generate count unique
\* integers from the half-open range").
SampleIsUnique ==
    /\ Len(smCall.numbers) = smCall.count
    /\ Range(smCall.numbers) \subseteq smCall.lbound..(smCall.ubound - 1)
    /\ IsInjective(smCall.numbers)

\* Every subset of the range is drawn by as many sequences of numbers as any
\* other: the replacement of a number that was drawn before favours none.
SampleIsUniform ==
    LET len == smCall.ubound - smCall.lbound
        all == SampleUnique(smCall.lbound, smCall.ubound, smCall.count, smBits)
        Ways(S) == Cardinality({r \in all : Range(r.numbers) = S})
        subsets == kSubset(smCall.count, smCall.lbound..(smCall.ubound - 1))
    IN  len < HugeRange => \A S \in subsets : Ways(S) * Cardinality(subsets) = Cardinality(all)
=============================================================================
