----------------------------- MODULE Variation -----------------------------
(***************************************************************************)
(* How two children are made of two parents: the crossover and mutation    *)
(* operators of every encoding, the choices they draw, and the classes     *)
(* they derive from, which decide whether a child keeps a fitness vector.  *)
(* The genes of reals are points of a grid.  A fitness vector is           *)
(* represented by the chromosome it was computed for, or by None.          *)
(***************************************************************************)
EXTENDS CrossoverMethods, Sampling

LOCAL INSTANCE SequencesExt

CONSTANTS
    MaxLength,      \* genes of a permutation
    NumGenes,       \* genes of other chromosomes, for each encoding
    MaxGene,        \* the bounds of integer and real genes are 0 and MaxGene
    RangeMax,       \* range_max of the mutations of a permutation, in percent
    MutationRates,  \* mutation rates of the other encodings, in percent
    MaxPoints       \* crossover points of NPoint

ASSUME VariationAssumption ==
    /\ NumGenes \in [{"binary", "integer", "real"} -> Nat \ {0}]
    /\ MaxLength \in Nat \ {0, 1} /\ MaxGene \in Nat \ {0} /\ MaxPoints \in Nat \ {0}
    /\ RangeMax \subseteq 0..100 /\ MutationRates \subseteq 0..100

VARIABLES
    vrEncoding,     \* the kind of genes
    vrParents,      \* the chromosomes of the parents, which are evaluated
    vrChildren,     \* the children: chromosome and fitness
    vrCrossed,      \* the crossover that was applied and what it drew
    vrAborted       \* an assertion ended the program

vrVars == <<vrEncoding, vrParents, vrChildren, vrCrossed, vrAborted>>

None == <<>>
Skipped == [method |-> "none", first |-> 0, last |-> 0, indices |-> {}]
Candidate(chrom, fitness) == [chromosome |-> chrom, fitness |-> fitness]

(***************************************************************************)
(* Candidates of the encodings (generateCandidate of each)                 *)
(***************************************************************************)
Genes(encoding) == IF encoding = "binary" THEN 0..1 ELSE 0..MaxGene
OrderTable == [n \in 1..MaxLength |-> {p \in [1..n -> 1..n] : IsInjective(p)}]
Chromosomes(encoding) ==
    IF encoding = "permutation" THEN UNION Range(OrderTable)
    ELSE [1..NumGenes[encoding] -> Genes(encoding)]
Clamp(x) == IF x < 0 THEN 0 ELSE IF x > MaxGene THEN MaxGene ELSE x

(***************************************************************************)
(* Crossover operators                                                     *)
(***************************************************************************)
\* The samples of count of n positions, and the sets of positions, counted from 1.
Lengths == 0..Max({MaxLength} \cup Range(NumGenes))
SampleTable == [n \in Lengths |-> [count \in 0..n |-> Samples(n, count)]]
SampledTable == [n \in Lengths |-> [count \in 0..n |-> {{i + 1 : i \in Range(s)} : s \in SampleTable[n][count]}]]
Sampled(n, count) == SampledTable[n][count]

\* A range of 1 .. n - 1 positions.
RandomRanges(n) == {<<f, l>> \in (0..n) \X (0..n) : l - f \in 1..(n - 1)}

\* A crossover that makes one child, applied both ways round.
BothWays(Cross(_, _), p1, p2) == <<Cross(p1, p2), Cross(p2, p1)>>

Ranged(name, range) == [Skipped EXCEPT !.method = name, !.first = range[1], !.last = range[2]]
At(name, I) == [Skipped EXCEPT !.method = name, !.indices = I]

PermutationCrossovers(p1, p2) ==
    LET n == Len(p1)
        Order1(r) == LET Child(a, b) == Order1Crossover(a, b, r[1], r[2]) IN BothWays(Child, p1, p2)
        Order2(r) == LET Child(a, b) == Order2Crossover(a, b, r[1], r[2]) IN BothWays(Child, p1, p2)
        PMX(r) == LET Child(a, b) == PMXCrossover(a, b, r[1], r[2]) IN BothWays(Child, p1, p2)
        Position(I) == LET Child(a, b) == PositionCrossover(a, b, I) IN BothWays(Child, p1, p2)
        UnsignedPosition(I) == LET Child(a, b) == UnsignedPositionCrossover(a, b, I) IN BothWays(Child, p1, p2)
        NumSampled == UNION {Sampled(n, count) : count \in 1..(n - 1)}
    IN  IF n < 2 THEN {<< <<p1, p2>>, At("short", {}) >>}
        ELSE {<< Order1(r), Ranged("order1", r) >> : r \in RandomRanges(n)}
             \cup {<< Order2(r), Ranged("order2", r) >> : r \in RandomRanges(n)}
             \cup {<< PMX(r), Ranged("pmx", r) >> : r \in RandomRanges(n)}
             \cup {<< Position(I), At("position", I) >> : I \in NumSampled}
             \cup {<< UnsignedPosition(I), At("position", I) >> : I \in NumSampled}
             \cup {<< CycleCrossover(p1, p2), At("cycle", {}) >>}
             \cup {<< BothWays(EdgeCrossover, p1, p2), At("edge", {}) >>,
                   << BothWays(UnsignedEdgeCrossover, p1, p2), At("edge", {}) >>}

\* Binary and integer genes.
PointCrossovers(p1, p2) ==
    LET n == Len(p1)
    IN  {<< SinglePointCrossover(p1, p2, k), At("point", {}) >> : k \in 0..n}
        \cup {<< TwoPointCrossover(p1, p2, ab[1], ab[2]), At("point", {}) >> : ab \in (0..n) \X (0..n)}
        \cup UNION {{<< NPointCrossover(p1, p2, {i - 1 : i \in I}), At("point", {}) >> :
                         I \in Sampled(n, IF k < n THEN k ELSE n)} : k \in 1..MaxPoints}
        \cup UNION {{<< UniformCrossover(p1, p2, I), At("point", {}) >> : I \in Sampled(n, k)} :
                        k \in RandomBinomial(n, 50)}

\* What a gene of a real child may be before it is clamped: between the
\* parents; in an extended interval; beyond either of them;
\* beyond the better one.
ArithmeticGenes(a, b) == Min({a, b})..Max({a, b})
BLXaGenes(a, b) == (Min({a, b}) - (Max({a, b}) - Min({a, b})))..(Max({a, b}) + (Max({a, b}) - Min({a, b})))
SimulatedBinaryGenes(a, b) == IF a = b THEN {a} ELSE -MaxGene..(2 * MaxGene)
WrightGenes(better, other) == IF better >= other THEN better..(2 * better - other) ELSE (2 * better - other)..better

Clamped(p1, p2, Of(_, _)) ==
    {c \in [Positions(p1) -> Genes("real")] :
        \A i \in Positions(p1) : c[i] \in {Clamp(x) : x \in Of(p1[i], p2[i])}}

RealCrossovers(p1, p2) ==
    LET Pairs(better, other) ==
            UNION {Clamped(p1, p2, ArithmeticGenes) \X Clamped(p1, p2, ArithmeticGenes),
                   Clamped(p1, p2, BLXaGenes) \X Clamped(p1, p2, BLXaGenes),
                   Clamped(p1, p2, SimulatedBinaryGenes) \X Clamped(p1, p2, SimulatedBinaryGenes),
                   Clamped(better, other, WrightGenes) \X Clamped(better, other, WrightGenes)}
    IN  {<< pair, At("real", {}) >> : pair \in Pairs(p1, p2) \cup Pairs(p2, p1)}

Crossovers(encoding, p1, p2) ==
    CASE encoding = "permutation" -> PermutationCrossovers(p1, p2)
      [] encoding \in {"binary", "integer"} -> PointCrossovers(p1, p2)
      [] encoding = "real" -> RealCrossovers(p1, p2)

(***************************************************************************)
(* Mutation operators: the chromosomes a chromosome may become             *)
(***************************************************************************)
Swapped(c, i, j) == [c EXCEPT ![i] = c[j], ![j] = c[i]]

\* Parts of at least min genes, at most range_max of the chromosome.
MutatedRanges(n, min) ==
    {<<f, l>> \in (0..n) \X (0..n) :
        \E rm \in RangeMax : l - f \in min..Max({(rm * n) \div 100, min})}

Inversion(c) ==
    {[i \in Positions(c) |-> IF i \in (r[1] + 1)..r[2] THEN c[r[1] + 1 + r[2] - i] ELSE c[i]] :
        r \in MutatedRanges(Len(c), 2)}

Swap2(c) == {Swapped(c, s[1] + 1, s[2] + 1) : s \in SampleTable[Len(c)][2]}

Swap3(c) ==
    IF Len(c) < 3 THEN {c}
    ELSE {Swapped(Swapped(c, s[1] + 1, s[2] + 1), s[1] + 1, s[3] + 1) : s \in SampleTable[Len(c)][3]}

Shuffle(c) ==
    UNION {{d \in OrderTable[Len(c)] : \A i \in Positions(c) : i \notin (r[1] + 1)..r[2] => d[i] = c[i]} :
               r \in MutatedRanges(Len(c), 2)}

\* A part of the genes is moved: the range first .. last is rotated.
Rotated(c, first, middle, last) ==
    SubSeq(c, 1, first) \o SubSeq(c, middle + 1, last)
        \o SubSeq(c, first + 1, middle) \o SubSeq(c, last + 1, Len(c))

\* A range gets another one of the places it may have.
Shift(c) ==
    UNION {LET len == r[2] - r[1]
           IN  {IF s[2] < s[1] THEN Rotated(c, s[2], s[1], s[1] + len)
                ELSE Rotated(c, s[1], s[1] + len, s[2] + len) :
                    s \in SampleTable[Len(c) - len + 1][2]} :
           r \in {range \in MutatedRanges(Len(c), 1) : range[2] - range[1] < Len(c)}}

\* All of the genes have one place only: two are asked for all the same.
ShiftsAll(c) == Len(c) >= 2 /\ \E r \in MutatedRanges(Len(c), 1) : r[2] - r[1] = Len(c)

\* Genes at a random number of positions get another value each.
MutatedAt(c, Values(_)) ==
    UNION {UNION {{d \in [Positions(c) -> 0..MaxGene] :
                       \A i \in Positions(c) : IF i \in I THEN d[i] \in Values(c[i]) ELSE d[i] = c[i]} :
                      I \in Sampled(Len(c), k)} :
           k \in UNION {RandomBinomial(Len(c), p) : p \in MutationRates}}

Flip(c) == LET Other(g) == {1 - g} IN MutatedAt(c, Other)

\* Numbers are drawn until one differs from the old gene.
UniformInteger(c) == LET Other(g) == 0..MaxGene \ {g} IN MutatedAt(c, Other)

\* Any value; towards a bound; any, clamped; towards the nearest bound; a bound.
UniformReal(c) == LET Value(g) == 0..MaxGene IN MutatedAt(c, Value)
NonUniform(c) == LET Between(g) == {Clamp(x) : x \in 0..MaxGene} IN MutatedAt(c, Between)
Gauss(c) == LET Around(g) == {Clamp(x) : x \in -MaxGene..(2 * MaxGene)} IN MutatedAt(c, Around)
Polynomial(c) == LET Near(g) == {Clamp(x) : x \in 0..MaxGene} IN MutatedAt(c, Near)
Boundary(c) == LET Bound(g) == {0, MaxGene} IN MutatedAt(c, Bound)

Mutations(encoding, c) ==
    CASE encoding = "permutation" /\ Len(c) < 2 -> {c}
      [] encoding = "permutation" /\ Len(c) >= 2 ->
             {c} \cup Inversion(c) \cup Swap2(c) \cup Swap3(c) \cup Shuffle(c) \cup Shift(c)
      [] encoding = "binary" -> Flip(c)
      [] encoding = "integer" -> UniformInteger(c)
      [] encoding = "real" ->
             UniformReal(c) \cup NonUniform(c) \cup Gauss(c) \cup Polynomial(c) \cup Boundary(c)

(***************************************************************************)
(* The base classes of the operators                                       *)
(***************************************************************************)
VrInit ==
    /\ vrEncoding \in {"binary", "integer", "permutation", "real"}
    /\ vrParents \in {<<p1, p2>> \in Chromosomes(vrEncoding) \X Chromosomes(vrEncoding) : Len(p1) = Len(p2)}
    /\ vrChildren = <<>>
    /\ vrCrossed = Skipped
    /\ vrAborted = FALSE

Parent(k) == Candidate(vrParents[k], vrParents[k])

\* Not done with a probability of 1 - pc, nor with equal parents.
SkipCrossover ==
    /\ vrChildren = <<>>
    /\ vrChildren' = <<Parent(1), Parent(2)>>
    /\ UNCHANGED <<vrEncoding, vrParents, vrCrossed, vrAborted>>

\* A child that equals a parent gets its fitness.
WithFitness(c) ==
    CASE c = vrParents[1] -> Candidate(c, Parent(1).fitness)
      [] c # vrParents[1] /\ c = vrParents[2] -> Candidate(c, Parent(2).fitness)
      [] c # vrParents[1] /\ c # vrParents[2] -> Candidate(c, None)

Crossover ==
    /\ vrChildren = <<>>
    /\ vrParents[1] # vrParents[2]
    /\ \E result \in Crossovers(vrEncoding, vrParents[1], vrParents[2]) :
        /\ vrChildren' = [k \in 1..2 |-> WithFitness(result[1][k])]
        /\ vrCrossed' = result[2]
    /\ UNCHANGED <<vrEncoding, vrParents, vrAborted>>

\* An evaluated candidate that changes loses its fitness.
Mutated(candidate, c) ==
    CASE candidate.fitness = None -> Candidate(c, None)
      [] candidate.fitness # None /\ c # candidate.chromosome -> Candidate(c, None)
      [] candidate.fitness # None /\ c = candidate.chromosome -> candidate

\* The children are mutated independently of each other: one of them is looked at.
\* Without assertions a shift of all genes gets the same place twice, and none moves.
Mutate ==
    /\ Len(vrChildren) = 2 /\ ~vrAborted
    /\ \E k \in 1..2 : \E c \in Mutations(vrEncoding, vrChildren[k].chromosome) :
        vrChildren' = <<Mutated(vrChildren[k], c)>>
    /\ vrCrossed' = Skipped
    /\ UNCHANGED <<vrEncoding, vrParents, vrAborted>>

\* With assertions sampleUnique() refuses two numbers out of one.
AbortedMutation ==
    /\ Len(vrChildren) = 2 /\ ~vrAborted
    /\ vrEncoding = "permutation"
    /\ \E k \in 1..2 : ShiftsAll(vrChildren[k].chromosome)
    /\ vrAborted' = TRUE
    /\ UNCHANGED <<vrEncoding, vrParents, vrChildren, vrCrossed>>

VrNext == SkipCrossover \/ Crossover \/ Mutate \/ AbortedMutation
VrSpec == VrInit /\ [][VrNext]_vrVars

(***************************************************************************)
(* Properties                                                              *)
(***************************************************************************)
\* Children are candidates of their encoding: permutations of the genes, or
\* genes within the bounds, and as long as their parents.  The edge crossover
\* relies for it on neighbour lists that stay symmetric, the partially mapped
\* one on chains that leave the range.
OffspringAreValid ==
    \A k \in DOMAIN vrChildren :
        /\ Len(vrChildren[k].chromosome) = Len(vrParents[1])
        /\ vrChildren[k].chromosome \in Chromosomes(vrEncoding)

\* A child that counts as evaluated has the fitness of its own chromosome:
\* neither a crossover nor a mutation leaves that of another one behind.
FitnessIsOfTheChild ==
    \A k \in DOMAIN vrChildren : vrChildren[k].fitness \in {None, vrChildren[k].chromosome}

\* A child, whatever operators it went through, is a candidate the GA can go on with.
OffspringAreSound == OffspringAreValid /\ FitnessIsOfTheChild

\* Shift accepts any range_max of the closed interval its documentation gives
\* (mutation/permutation.hpp:151): no mutation ends the program.
RangesAreAccepted == ~vrAborted

\* The genes of c that are not in the set kept, from a position on, around the end.
Others(c, from, kept) ==
    SelectSeq([i \in Positions(c) |-> c[((from + i - 1) % Len(c)) + 1]], LAMBDA g : g \notin kept)

\* The positions that a crossover keeps are those of one parent, the rest comes
\* in the order (Order1: around the end; PMX: where possible at the place) of
\* the other one, as permutation.hpp describes the operators.
Follows(child, p1, p2) ==
    LET range == (vrCrossed.first + 1)..vrCrossed.last
        Keeps(I) == \A i \in I : child[i] = p1[i]
        Ordered(from, I) == Others(child, from, GenesAt(p1, I)) = Others(p2, from, GenesAt(p1, I))
    IN  /\ vrCrossed.method = "order1" => Keeps(range) /\ Ordered(vrCrossed.last, range)
        /\ vrCrossed.method = "order2" => Keeps(range) /\ Ordered(0, range)
        /\ vrCrossed.method = "position" => Keeps(vrCrossed.indices) /\ Ordered(0, vrCrossed.indices)
        /\ vrCrossed.method = "pmx" =>
               /\ Keeps(range)
               /\ \A i \in Positions(p1) \ range : p2[i] \notin GenesAt(p1, range) => child[i] = p2[i]
        /\ vrCrossed.method \in {"cycle", "point"} => \A i \in Positions(p1) : child[i] \in {p1[i], p2[i]}

ChildrenFollowTheirParents ==
    vrCrossed # Skipped =>
        /\ Follows(vrChildren[1].chromosome, vrParents[1], vrParents[2])
        /\ Follows(vrChildren[2].chromosome, vrParents[2], vrParents[1])
=============================================================================
