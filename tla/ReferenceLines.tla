--------------------------- MODULE ReferenceLines ---------------------------
(***************************************************************************)
(* The reference lines of NSGA-III (algorithm/reference_lines.cpp).  The   *)
(* points of a quasi-random sequence (utility/qrng.hpp) in a hypercube are *)
(* mapped onto a simplex, one by one, and of k times as many points as are *)
(* wanted a subset is picked that lies far apart.                          *)
(*                                                                         *)
(* Coordinates are multiples of 1/RlUnit; roots and products are rounded   *)
(* down to one.  The mapping by logarithms is not modelled.                *)
(***************************************************************************)
EXTENDS Algorithms

CONSTANTS RlUnit,
          RlMappings,   \* a subset of {"sort", "mirror", "root"}
          RlDims,       \* the dimensions of the points
          RlNumPoints,  \* the numbers of points wanted
          RlMultiples   \* values of k

ASSUME RlAssumption ==
    /\ RlUnit \in Nat \ {0} /\ RlMappings \subseteq {"sort", "mirror", "root"}
    /\ RlDims \subseteq Nat \ {0} /\ RlNumPoints \subseteq Nat /\ RlMultiples \subseteq Nat \ {0}

VARIABLES
    rlMapping, rlDim, rlNum, rlK,   \* the arguments
    rlAlpha, rlPoint,   \* alpha_ and point_ of the quasi-random sequence
    rlMapped,           \* the point that is being mapped by reflections, or <<>>
    rlLast,             \* last, in simplexMappingMirror
    rlPasses,           \* history: passes over that point
    rlCandidates,       \* candidate_points
    rlPoints,           \* points
    rlDistances,        \* min_distances
    rlGenerated         \* history: all of the candidates

rlVars == <<rlMapping, rlDim, rlNum, rlK, rlAlpha, rlPoint, rlMapped, rlLast, rlPasses,
            rlCandidates, rlPoints, rlDistances, rlGenerated>>

Coordinates == 0 .. RlUnit
SquaredDistance(p, q) == MapThenSumSet(LAMBDA i : (p[i] - q[i]) * (p[i] - q[i]), DOMAIN p)

AdjacentDifference(p) == [i \in DOMAIN p |-> IF i = 1 THEN p[1] ELSE p[i] - p[i - 1]]

-----------------------------------------------------------------------------
SimplexMappingSort(p) == AdjacentDifference(SortSeq(Append(p, RlUnit), <))

\* x^(1/n), and a product.
Root(x, n) == Max({r \in Coordinates : r ^ n <= x * RlUnit ^ (n - 1)})
Product(x, y) == (x * y) \div RlUnit

\* Every coordinate is scaled by the one after it, from the back.
SimplexMappingRoot(p) ==
    LET scaled[i \in DOMAIN p] == IF i = Len(p) THEN Root(p[i], i)
                                  ELSE Product(scaled[i + 1], Root(p[i], i))
    IN  AdjacentDifference(Append([i \in DOMAIN p |-> scaled[i]], RlUnit))

\* Two coordinates in the wrong order are reflected between their neighbours.
Reflected(p, first, last) ==
    LET high == p[last + 1]
        low == IF first = 1 THEN 0 ELSE p[first - 1]
    IN  [p EXCEPT ![first] = low + high - @, ![last] = low + high - @]

\* A pass of simplexMappingMirror, and whether it has found any.
Pass(p, last) ==
    FoldLeft(LAMBDA s, first : IF s.point[first] > s.point[last]
                               THEN [point |-> Reflected(s.point, first, last), lower |-> TRUE]
                               ELSE s,
             [point |-> p, lower |-> FALSE], [first \in 1 .. last - 1 |-> first])

-----------------------------------------------------------------------------
RlInit ==
    /\ rlMapping \in RlMappings /\ rlDim \in RlDims /\ rlNum \in RlNumPoints /\ rlK \in RlMultiples
    /\ rlAlpha \in [1 .. rlDim - 1 -> 0 .. RlUnit - 1]
    /\ \E seed \in 0 .. RlUnit - 1 : rlPoint = [i \in 1 .. rlDim - 1 |-> seed]
    /\ rlMapped = <<>> /\ rlLast = 0 /\ rlPasses = 0
    /\ rlCandidates = <<>> /\ rlPoints = <<>> /\ rlDistances = <<>> /\ rlGenerated = <<>>

Generating == rlMapped = <<>> /\ rlPoints = <<>> /\ Len(rlCandidates) < rlK * rlNum

\* QuasiRandom::operator(): the next point of the sequence.
NextQuasiRandom == [i \in DOMAIN rlPoint |-> (rlPoint[i] + rlAlpha[i]) % RlUnit]

AddCandidate(p) == rlCandidates' = Append(rlCandidates, p) /\ rlGenerated' = rlCandidates'

MapPoint ==
    /\ Generating /\ rlMapping # "mirror"
    /\ rlPoint' = NextQuasiRandom
    /\ AddCandidate(IF rlMapping = "sort" THEN SimplexMappingSort(rlPoint')
                    ELSE SimplexMappingRoot(rlPoint'))
    /\ UNCHANGED <<rlMapping, rlDim, rlNum, rlK, rlAlpha, rlMapped, rlLast, rlPasses, rlPoints,
                   rlDistances>>

\* simplexMappingMirror: a point of one coordinate is done.
StartMirror ==
    /\ Generating /\ rlMapping = "mirror"
    /\ rlPoint' = NextQuasiRandom
    /\ rlPasses' = 0
    /\ IF rlDim = 1
       THEN AddCandidate(<<RlUnit>>) /\ UNCHANGED <<rlMapped, rlLast>>
       ELSE /\ rlMapped' = Append(rlPoint', RlUnit) /\ rlLast' = rlDim - 1
            /\ UNCHANGED <<rlCandidates, rlGenerated>>
    /\ UNCHANGED <<rlMapping, rlDim, rlNum, rlK, rlAlpha, rlPoints, rlDistances>>

MirrorPass ==
    /\ rlMapped # <<>>
    /\ LET pass == Pass(rlMapped, rlLast)
       IN  IF pass.lower \/ rlLast > 1
           THEN /\ rlMapped' = pass.point
                /\ rlLast' = IF pass.lower THEN rlLast ELSE rlLast - 1
                /\ UNCHANGED <<rlCandidates, rlGenerated>>
           ELSE /\ rlMapped' = <<>> /\ rlLast' = 0
                /\ AddCandidate(AdjacentDifference(pass.point))
    /\ rlPasses' = rlPasses + 1
    /\ UNCHANGED <<rlMapping, rlDim, rlNum, rlK, rlAlpha, rlPoint, rlPoints, rlDistances>>

\* pickSparseSubset: the last candidate is the first point of the subset.
PickFirst ==
    /\ rlPoints = <<>> /\ rlNum > 0 /\ Len(rlCandidates) = rlK * rlNum
    /\ rlPoints' = <<Last(rlCandidates)>>
    /\ rlCandidates' = Front(rlCandidates)
    /\ rlDistances' = [i \in DOMAIN rlCandidates' |-> SquaredDistance(rlCandidates'[i], rlPoints'[1])]
    /\ UNCHANGED <<rlMapping, rlDim, rlNum, rlK, rlAlpha, rlPoint, rlMapped, rlLast, rlPasses,
                   rlGenerated>>

\* The last element takes the place of the one that is removed.
Removed(s, i) == Front(Exchanged(s, i, Len(s)))

\* Variant: the distances stay where they are.
PickNextUnswapped ==
    /\ rlPoints # <<>> /\ Len(rlPoints) < rlNum
    /\ LET idx == MaxElement(rlDistances, LAMBDA d : d)
           left == Removed(rlCandidates, idx)
           distances == Front(rlDistances)
       IN  /\ rlPoints' = Append(rlPoints, rlCandidates[idx])
           /\ rlCandidates' = left
           /\ rlDistances' = [i \in DOMAIN left |->
                                 Min({distances[i], SquaredDistance(left[i], rlCandidates[idx])})]
    /\ UNCHANGED <<rlMapping, rlDim, rlNum, rlK, rlAlpha, rlPoint, rlMapped, rlLast, rlPasses,
                   rlGenerated>>

PickNext ==
    /\ rlPoints # <<>> /\ Len(rlPoints) < rlNum
    /\ LET idx == MaxElement(rlDistances, LAMBDA d : d)
           left == Removed(rlCandidates, idx)
           distances == Removed(rlDistances, idx)
       IN  /\ rlPoints' = Append(rlPoints, rlCandidates[idx])
           /\ rlCandidates' = left
           /\ rlDistances' = [i \in DOMAIN left |->
                                 Min({distances[i], SquaredDistance(left[i], rlCandidates[idx])})]
    /\ UNCHANGED <<rlMapping, rlDim, rlNum, rlK, rlAlpha, rlPoint, rlMapped, rlLast, rlPasses,
                   rlGenerated>>

RlNext == MapPoint \/ StartMirror \/ MirrorPass \/ PickFirst \/ PickNext
RlSpec == RlInit /\ [][RlNext]_rlVars

-----------------------------------------------------------------------------
\* Every mapping leads to the simplex: no coordinate is negative and their sum is one,
\* from any point of the hypercube, also where coordinates are equal.  The mapping by
\* reflections, which goes over a point until nothing changes, comes to an end.
PointsAreOnSimplex ==
    /\ \A i \in DOMAIN rlGenerated :
         /\ \A c \in 1 .. rlDim : rlGenerated[i][c] >= 0
         /\ FoldFunction(+, 0, rlGenerated[i]) = RlUnit
    /\ rlPasses <= 2 ^ rlDim

\* The distance that a candidate is chosen by is the one from the closest point chosen
\* so far, although candidates and distances are moved in two arrays; every point of
\* the subset was farther from the ones before it than any candidate that is left.
SubsetIsSparse ==
    LET Nearest(p, n) == Min({SquaredDistance(p, rlPoints[j]) : j \in 1 .. n})
    IN  rlPoints # <<>> =>
          /\ Len(rlDistances) = Len(rlCandidates)
          /\ \A i \in DOMAIN rlCandidates : rlDistances[i] = Nearest(rlCandidates[i], Len(rlPoints))
          /\ \A n \in 2 .. Len(rlPoints), i \in DOMAIN rlCandidates :
                Nearest(rlPoints[n], n - 1) >= Nearest(rlCandidates[i], n - 1)
          /\ \A p \in Range(rlGenerated) :
                Cardinality({i \in DOMAIN rlGenerated : rlGenerated[i] = p})
                  = Cardinality({i \in DOMAIN rlCandidates : rlCandidates[i] = p})
                    + Cardinality({i \in DOMAIN rlPoints : rlPoints[i] = p})

\* The reference points are a part of the points that were mapped, spread over the simplex.
PointsAreSpread == PointsAreOnSimplex /\ SubsetIsSparse
=============================================================================
