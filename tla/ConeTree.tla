------------------------------ MODULE ConeTree ------------------------------
(***************************************************************************)
(* ConeTree (utility/cone_tree.cpp): the point with the greatest inner     *)
(* product with a query, found in a binary tree of ranges of points.  Each *)
(* node has a ball around its points: the mean of them and a radius, which *)
(* bound the products that it may hold.                                    *)
(*                                                                         *)
(* Coordinates are integers.  A ball is kept as the sum of its n points    *)
(* and the square of n times its radius, so that every comparison but one  *)
(* is exact: which of two children has the higher bound is left open.      *)
(* Positions of points and nodes count from 1, and 0 is no node.           *)
(***************************************************************************)
EXTENDS Algorithms

CONSTANTS CtDim,       \* the length of the points and of the queries
          CtInputs,    \* the points that trees are built from
          CtQueries,
          CtMaxLeaf    \* MAX_LEAF_ELEMENTS

ASSUME CtAssumption ==
    /\ CtMaxLeaf \in Nat \ {0} /\ CtDim \in Nat
    /\ CtInputs \subseteq Seq([1 .. CtDim -> Int]) /\ CtQueries \subseteq [1 .. CtDim -> Int]

VARIABLES
    ctInput,     \* the points of the caller
    ctPoints,    \* points_
    ctNodes,     \* nodes_
    ctCapacity,  \* the capacity of nodes_
    ctDefined,   \* whether the program has done nothing yet that is not defined
    ctAt,        \* the node buildTree() is at
    ctQuery,     \* query_point, <<>> when there is none
    ctStack,     \* node_stack, its top first
    ctBest       \* best: a position, 0 before the first match

ctVars == <<ctInput, ctPoints, ctNodes, ctCapacity, ctDefined, ctAt, ctQuery, ctStack, ctBest>>

-----------------------------------------------------------------------------
SumUp(g) == MapThenSumSet(LAMBDA i : g[i], DOMAIN g)
Dot(p, q) == SumUp([i \in DOMAIN p |-> p[i] * q[i]])
DistanceSq(p, q) == SumUp([i \in DOMAIN p |-> (p[i] - q[i]) * (p[i] - q[i])])

PointsOf(node) == node.first .. node.last - 1
Count(node) == node.last - node.first

NewNode(first, last) ==
    [first |-> first, last |-> last, sum |-> <<>>, radiusSq |-> 0, left |-> 0, right |-> 0]

FindCenter(points, node) ==
    [i \in DOMAIN points[node.first] |-> SumUp([k \in PointsOf(node) |-> points[k][i]])]
FindRadius(points, node, sum) ==
    Max({DistanceSq([i \in DOMAIN sum |-> Count(node) * points[k][i]], sum) : k \in PointsOf(node)})

FindFurthestElement(points, node, from) ==
    LET range == SubSeq(points, node.first, node.last - 1)
        Distance(p) == DistanceSq(points[from], p)
    IN  node.first - 1 + MaxElement(range, Distance)

\* std::partition for bidirectional iterators, an element at a time.  The points that
\* the elements are compared with are looked up by their positions, where other points
\* may have been moved to by then.
PartitionStep(s, one, two) ==
    LET GoesLeft(k) == DistanceSq(s.points[k], s.points[one]) < DistanceSq(s.points[k], s.points[two])
    IN  CASE s.first = s.last -> s
          [] s.first # s.last /\ s.forward ->
               IF GoesLeft(s.first) THEN [s EXCEPT !.first = @ + 1]
               ELSE [s EXCEPT !.last = @ - 1, !.forward = FALSE]
          [] s.first # s.last /\ ~ s.forward ->
               IF ~ GoesLeft(s.last) THEN [s EXCEPT !.last = @ - 1]
               ELSE [s EXCEPT !.points = Exchanged(@, s.first, s.last),
                              !.first = @ + 1, !.forward = TRUE]

\* Every step leaves one element less to be looked at.
Partition(points, node) ==
    LET one == FindFurthestElement(points, node, node.first)
        two == FindFurthestElement(points, node, one)
        start == [points |-> points, first |-> node.first, last |-> node.last, forward |-> TRUE]
    IN  FoldLeft(LAMBDA s, i : PartitionStep(s, one, two), start,
                 [i \in 1 .. 2 * Count(node) |-> i])

\* nodes_.reserve(): half a node for every point.
Reserved == (4 * Len(ctInput)) \div CtMaxLeaf

CtInit ==
    /\ ctInput \in CtInputs
    /\ ctPoints = ctInput
    /\ ctNodes = IF ctInput = <<>> THEN <<>> ELSE <<NewNode(1, Len(ctInput) + 1)>>
    /\ ctCapacity = Max({Reserved, Len(ctNodes)})
    /\ ctDefined = TRUE
    /\ ctAt = 1
    /\ ctQuery = <<>> /\ ctStack = <<>> /\ ctBest = 0

-----------------------------------------------------------------------------
Built == ctAt > Len(ctNodes)

WithBall(node) ==
    LET sum == FindCenter(ctPoints, node)
    IN  [node EXCEPT !.sum = sum, !.radiusSq = FindRadius(ctPoints, node, sum)]

BuildLeaf ==
    /\ ctDefined /\ ~ Built /\ Count(ctNodes[ctAt]) <= CtMaxLeaf
    /\ ctNodes' = [ctNodes EXCEPT ![ctAt] = WithBall(@)]
    /\ ctAt' = ctAt + 1
    /\ UNCHANGED <<ctInput, ctPoints, ctCapacity, ctDefined, ctQuery, ctStack, ctBest>>

\* Variant: a range of equal points is left to the right child.
MiddleAsIs(node, found) == found

\* Both children get a point.
Middle(node, found) == IF found = node.first THEN found + 1 ELSE found

\* nodes_ grows to twice its capacity when it is full.
Grown(size) == IF size <= ctCapacity THEN ctCapacity ELSE 2 * ctCapacity

\* The children are numbered through a reference that was taken before they were added.
\* When nodes_ has been moved in between, that is a write to memory that was given back:
\* nothing is known of the program from then on, and the history ends there.
BuildNode ==
    /\ ctDefined /\ ~ Built /\ Count(ctNodes[ctAt]) > CtMaxLeaf
    /\ LET node == WithBall(ctNodes[ctAt])
           partition == Partition(ctPoints, node)
           middle == Middle(node, partition.first)
           left == Len(ctNodes) + 1
       IN  /\ ctPoints' = partition.points
           /\ ctCapacity' = Grown(left + 1)
           /\ ctDefined' = (ctCapacity' = ctCapacity)
           /\ ctNodes' = [ctNodes EXCEPT ![ctAt] = [node EXCEPT !.left = left, !.right = left + 1]]
                         \o <<NewNode(node.first, middle), NewNode(middle, node.last)>>
    /\ ctAt' = ctAt + 1
    /\ UNCHANGED <<ctInput, ctQuery, ctStack, ctBest>>

-----------------------------------------------------------------------------
IsLeafNode(node) == node.left = 0 /\ node.right = 0

FindBestMatch(query) ==
    /\ ctDefined /\ Built /\ ctStack = <<>>
    /\ ctQuery' = query
    /\ ctStack' = IF ctNodes = <<>> THEN <<>> ELSE <<1>>
    /\ ctBest' = 0
    /\ UNCHANGED <<ctInput, ctPoints, ctNodes, ctCapacity, ctDefined, ctAt>>

\* best.prod >= innerProductUpperBound(node)
CannotBeBetter(node) ==
    /\ ctBest # 0
    /\ LET above == Count(node) * Dot(ctPoints[ctBest], ctQuery) - Dot(node.sum, ctQuery)
       IN  above >= 0 /\ above * above >= Dot(ctQuery, ctQuery) * node.radiusSq

FindBestMatchLinear(node) ==
    LET range == SubSeq(ctPoints, node.first, node.last - 1)
    IN  node.first - 1 + MaxElement(range, LAMBDA p : Dot(p, ctQuery))

Better(k) == ctBest = 0 \/ Dot(ctPoints[k], ctQuery) > Dot(ctPoints[ctBest], ctQuery)

VisitNode ==
    /\ ctStack # <<>>
    /\ LET node == ctNodes[Head(ctStack)]
           rest == Tail(ctStack)
       IN  \/ /\ CannotBeBetter(node)
              /\ ctStack' = rest
              /\ UNCHANGED ctBest
           \/ /\ ~ CannotBeBetter(node) /\ IsLeafNode(node)
              /\ ctStack' = rest
              /\ LET found == FindBestMatchLinear(node)
                 IN  ctBest' = IF Better(found) THEN found ELSE ctBest
           \/ /\ ~ CannotBeBetter(node) /\ ~ IsLeafNode(node)
              /\ ctStack' \in {<<node.left, node.right>> \o rest, <<node.right, node.left>> \o rest}
              /\ UNCHANGED ctBest
    /\ UNCHANGED <<ctInput, ctPoints, ctNodes, ctCapacity, ctDefined, ctAt, ctQuery>>

CtNext == BuildLeaf \/ BuildNode \/ (\E q \in CtQueries : FindBestMatch(q)) \/ VisitNode
CtSpec == CtInit /\ [][CtNext]_ctVars

-----------------------------------------------------------------------------
\* Whatever the order in which the nodes are visited, and whatever was skipped, the
\* search ends at a point with the greatest product of all that the tree was built from.
BestMatchIsBest ==
    Built /\ ctStack = <<>> /\ ctQuery # <<>> /\ ctInput # <<>> =>
      \A p \in Range(ctInput) : Dot(p, ctQuery) <= Dot(ctPoints[ctBest], ctQuery)

\* Partitioning moves the very points it compares with.  Still no point is lost, both
\* children of a node have points, which are all of its points, and every ball that was
\* computed holds what is in its range after all of the later moves below it.
TreeHoldsPoints ==
    /\ \A p \in Range(ctInput) : Cardinality({k \in DOMAIN ctInput : ctInput[k] = p})
                                   = Cardinality({k \in DOMAIN ctPoints : ctPoints[k] = p})
    /\ \A i \in DOMAIN ctNodes :
         LET node == ctNodes[i]
         IN  /\ Count(node) > 0
             /\ i < ctAt => \A k \in PointsOf(node) :
                   DistanceSq([c \in DOMAIN node.sum |-> Count(node) * ctPoints[k][c]], node.sum)
                     <= node.radiusSq
             /\ ~ IsLeafNode(node) => /\ ctNodes[node.left].first = node.first
                                      /\ ctNodes[node.left].last = ctNodes[node.right].first
                                      /\ ctNodes[node.right].last = node.last

\* nodes_ is never moved while it is filled when what is reserved for it has room for the
\* two children of every node that is split, and no tree has more such nodes than it has
\* points above the size of one leaf.
ReserveSuffices ==
    LET n == Len(ctInput)
    IN  2 * (n - CtMaxLeaf) + 1 <= (4 * n) \div CtMaxLeaf => ctDefined

\* As long as nodes_ was not moved under a reference to one of its nodes, searches in a
\* tree are exact, and so is the tree they are made in.
TreeIsExact == ReserveSuffices /\ (ctDefined => TreeHoldsPoints /\ BestMatchIsBest)

\* A tree can be built from any points: findBestMatch() "Returns the closest point in the
\* tree to the query point" (cone_tree.hpp).  It does not hold: most of eleven equal points
\* are split off one at a time, into more nodes than were reserved.
AnyPointsCanBeSearched == ctDefined

=============================================================================
