------------------------- MODULE CrossoverMethods -------------------------
(***************************************************************************)
(* The implementations of the crossover operators (crossover_impl.hpp,     *)
(* neighbour_list.hpp) as functions of the parents' chromosomes and of the *)
(* random choices.  Positions and genes are counted from 1; a range        *)
(* [first, last) of the code stands for the positions first + 1 .. last.   *)
(* Types whose genes are unsigned integers have versions of their own;     *)
(* where the two differ in more than the table that they look a gene up    *)
(* in, both are here.                                                      *)
(***************************************************************************)
EXTENDS Integers, Sequences, FiniteSets

LOCAL INSTANCE SequencesExt

Positions(p) == 1..Len(p)
GenesAt(p, I) == {p[i] : i \in I}
IndexIn(p, gene) == CHOOSE i \in Positions(p) : p[i] = gene

\* A pair of children: the parents, with the genes at the positions I swapped.
SwappedAt(p1, p2, I) ==
    << [i \in Positions(p1) |-> IF i \in I THEN p2[i] ELSE p1[i]],
       [i \in Positions(p1) |-> IF i \in I THEN p1[i] ELSE p2[i]] >>

(***************************************************************************)
(* Crossovers that exchange the genes at some positions                    *)
(***************************************************************************)
\* The points are distinct; an odd number of them is completed by the end.
NPointCrossover(p1, p2, points) ==
    LET sorted == SetToSortSeq(points, <)
        all == IF Len(sorted) % 2 = 1 THEN Append(sorted, Len(p1)) ELSE sorted
        Segment(k) == (all[2 * k - 1] + 1)..all[2 * k]
    IN  SwappedAt(p2, p1, UNION {Segment(k) : k \in 1..(Len(all) \div 2)})

SinglePointCrossover(p1, p2, point) == SwappedAt(p1, p2, 1..point)

TwoPointCrossover(p1, p2, a, b) ==
    SwappedAt(p1, p2, IF a > b THEN (b + 1)..a ELSE (a + 1)..b)

UniformCrossover(p1, p2, indices) == SwappedAt(p1, p2, indices)

(***************************************************************************)
(* Cycle crossover                                                         *)
(***************************************************************************)
\* The positions of a cycle, in the order in which they are visited.
CycleFrom(p1, p2, start) ==
    LET Visit[path \in Seq(Positions(p1))] ==
            IF p2[Last(path)] = p1[start] THEN path
            ELSE Visit[Append(path, IndexIn(p1, p2[Last(path)]))]
    IN  Range(Visit[<<start>>])

\* Cycles are found from the left; every second one is odd.
FindOddCycleIndices(p1, p2) ==
    LET Find[deleted \in SUBSET Positions(p1), odd \in BOOLEAN] ==
            IF deleted = Positions(p1) THEN {}
            ELSE LET start == CHOOSE i \in Positions(p1) \ deleted :
                                  \A j \in Positions(p1) \ deleted : i <= j
                     cycle == CycleFrom(p1, p2, start)
                 IN  (IF odd THEN cycle ELSE {}) \cup Find[deleted \cup cycle, ~odd]
    IN  Find[{}, FALSE]

CycleCrossover(p1, p2) == SwappedAt(p1, p2, FindOddCycleIndices(p1, p2))

(***************************************************************************)
(* Order and position crossovers: some genes of the first parent keep      *)
(* their places, the others follow in the order of the second              *)
(***************************************************************************)
\* Variant: the second parent is walked from its beginning.
Order1CrossoverFromFront(p1, p2, first, last) ==
    LET n == Len(p1)
        direct == GenesAt(p1, (first + 1)..last)
        Step(acc, gene) ==
            IF gene \in direct THEN acc
            ELSE [child |-> [acc.child EXCEPT ![(acc.pos % n) + 1] = gene], pos |-> acc.pos + 1]
    IN  FoldLeft(Step, [child |-> p1, pos |-> last], p2).child

Order1Crossover(p1, p2, first, last) ==
    LET n == Len(p1)
        direct == GenesAt(p1, (first + 1)..last)
        \* both parents are walked from last on, around their ends
        Step(acc, k) ==
            LET gene == p2[((last + k - 1) % n) + 1]
            IN  IF gene \in direct THEN acc
                ELSE [child |-> [acc.child EXCEPT ![(acc.pos % n) + 1] = gene], pos |-> acc.pos + 1]
    IN  FoldLeft(Step, [child |-> p1, pos |-> last], [k \in Positions(p1) |-> k]).child

Order2Crossover(p1, p2, first, last) ==
    LET direct == GenesAt(p1, (first + 1)..last)
        Step(acc, gene) ==
            LET pos == IF acc.pos = first THEN last ELSE acc.pos
            IN  IF gene \in direct THEN acc
                ELSE [child |-> [acc.child EXCEPT ![pos + 1] = gene], pos |-> pos + 1]
    IN  FoldLeft(Step, [child |-> p1, pos |-> 0], p2).child

\* Any type of gene: walk over the child, past the genes that stay.
PositionCrossover(p1, p2, indices) ==
    LET direct == GenesAt(p1, indices)
        Step(acc, gene) ==
            IF gene \in direct THEN acc
            ELSE LET pos == CHOOSE i \in Positions(p1) :
                                /\ i >= acc.pos /\ acc.child[i] \notin direct
                                /\ \A j \in acc.pos..(i - 1) : acc.child[j] \in direct
                 IN  [child |-> [acc.child EXCEPT ![pos] = gene], pos |-> pos + 1]
    IN  FoldLeft(Step, [child |-> p1, pos |-> 1], p2).child

\* Unsigned genes: a table of the next position that is free; 0 behind the last.
UnsignedPositionCrossover(p1, p2, indices) ==
    LET direct == GenesAt(p1, indices)
        NextIndirect[i \in 1..(Len(p1) + 1)] ==
            CASE i > Len(p1) -> 0
              [] i <= Len(p1) /\ p1[i] \in direct -> NextIndirect[i + 1]
              [] i <= Len(p1) /\ p1[i] \notin direct -> i
        Step(acc, gene) ==
            IF gene \in direct THEN acc
            ELSE [child |-> [acc.child EXCEPT ![NextIndirect[acc.pos]] = gene],
                  pos |-> NextIndirect[acc.pos] + 1]
    IN  FoldLeft(Step, [child |-> p1, pos |-> 1], p2).child

(***************************************************************************)
(* Partially mapped crossover: a gene of the second parent that lost its   *)
(* place takes the one at the end of the chain of replacements             *)
(***************************************************************************)
\* Variant: only one replacement is followed.
PMXCrossoverOneStep(p1, p2, first, last) ==
    LET range == (first + 1)..last
        copied == [i \in Positions(p2) |-> IF i \in range THEN p1[i] ELSE p2[i]]
        Step(child, i) ==
            IF i \notin range \/ p2[i] \in GenesAt(p1, range) THEN child
            ELSE [child EXCEPT ![IndexIn(p2, p1[i])] = p2[i]]
    IN  FoldLeft(Step, copied, [i \in Positions(p1) |-> i])

PMXCrossover(p1, p2, first, last) ==
    LET range == (first + 1)..last
        direct == GenesAt(p1, range)
        copied == [i \in Positions(p2) |-> IF i \in range THEN p1[i] ELSE p2[i]]
        EndOfChain[pos \in Positions(p1)] ==
            IF pos \notin range THEN pos ELSE EndOfChain[IndexIn(p2, p1[pos])]
        Step(child, i) ==
            IF i \notin range \/ p2[i] \in direct THEN child
            ELSE [child EXCEPT ![EndOfChain[i]] = p2[i]]
    IN  FoldLeft(Step, copied, [i \in Positions(p1) |-> i])

(***************************************************************************)
(* Edge crossover                                                          *)
(***************************************************************************)
EMPTY == 0

\* The slots of a list of unsigned neighbours that are in use.
SizeOf(list) == Cardinality({k \in DOMAIN list : list[k] # EMPTY})

\* Any type of gene: a list of neighbours in the order in which they came.
AddNeighbour(list, gene) == IF gene \in Range(list) THEN list ELSE Append(list, gene)
RemoveNeighbour(list, gene) == SelectSeq(list, LAMBDA g : g # gene)

\* Unsigned genes: four slots, the empty ones at the back until one is removed.
AddToSlots(slots, gene) ==
    LET k == CHOOSE k \in 1..4 : /\ slots[k] \in {gene, EMPTY}
                                 /\ \A j \in 1..(k - 1) : slots[j] \notin {gene, EMPTY}
    IN  [slots EXCEPT ![k] = gene]
RemoveFromSlots(slots, gene) == [k \in 1..4 |-> IF slots[k] = gene THEN EMPTY ELSE slots[k]]

\* The pairs <<gene, neighbour>>, in the order in which the lists are made.
NeighbourPairs(p1, p2) ==
    LET n == Len(p1)
        Inner(i) == << <<p1[i], p1[i - 1]>>, <<p1[i], p1[i + 1]>>,
                       <<p2[i], p2[i - 1]>>, <<p2[i], p2[i + 1]>> >>
    IN  << <<p1[1], p1[2]>>, <<p2[1], p2[2]>> >>
        \o FlattenSeq([k \in 1..(n - 2) |-> Inner(k + 1)])
        \o << <<p1[n], p1[n - 1]>>, <<p2[n], p2[n - 1]>> >>

MakeNeighbourLists(p1, p2, none, Add(_, _)) ==
    LET Step(lists, pair) == [lists EXCEPT ![pair[1]] = Add(@, pair[2])]
    IN  FoldLeft(Step, [gene \in Range(p1) |-> none], NeighbourPairs(p1, p2))

\* The gene that follows: the default, unless a neighbour of the last gene has
\* no more neighbours left than the best one so far.
NextGene(lists, last, default, Drop(_, _)) ==
    LET Step(acc, neighbour) ==
            LET left == [acc.lists EXCEPT ![neighbour] = Drop(@, last)]
            IN  CASE neighbour = EMPTY -> acc
                  [] neighbour # EMPTY /\ SizeOf(left[neighbour]) <= SizeOf(left[acc.next]) ->
                         [lists |-> left, next |-> neighbour]
                  [] neighbour # EMPTY /\ SizeOf(left[neighbour]) > SizeOf(left[acc.next]) ->
                         [acc EXCEPT !.lists = left]
    IN  FoldLeft(Step, [lists |-> lists, next |-> default], lists[last])

EdgeChild(p1, lists, Default(_), Drop(_, _)) ==
    LET Step(acc, k) ==
            LET r == NextGene(acc.lists, Last(acc.child), Default(acc.child), Drop)
            IN  [child |-> Append(acc.child, r.next), lists |-> r.lists]
    IN  FoldLeft(Step, [child |-> <<p1[1]>>, lists |-> lists],
                 [k \in 1..(Len(p1) - 1) |-> k]).child

\* Any type of gene: the default is the first gene of p1 that remains.
EdgeCrossover(p1, p2) ==
    LET Remaining(child) == SelectSeq(p1, LAMBDA g : g \notin Range(child))
        Default(child) == IF Remaining(child) = <<>> THEN EMPTY ELSE Head(Remaining(child))
    IN  EdgeChild(p1, MakeNeighbourLists(p1, p2, <<>>, AddNeighbour), Default, RemoveNeighbour)

\* Unsigned genes: the default is the smallest gene that is not used.
UnsignedEdgeCrossover(p1, p2) ==
    LET Default(child) == CHOOSE g \in Range(p1) \ Range(child) :
                              \A h \in Range(p1) \ Range(child) : g <= h
        none == [k \in 1..4 |-> EMPTY]
    IN  EdgeChild(p1, MakeNeighbourLists(p1, p2, none, AddToSlots), Default, RemoveFromSlots)
=============================================================================
