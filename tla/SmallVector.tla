---------------------------- MODULE SmallVector ----------------------------
(***************************************************************************)
(* small_vector: a vector whose first elements live in a buffer inside of  *)
(* the object and that moves to the heap when the buffer is full.  The     *)
(* model keeps the memory: every cell of every block is raw or holds an    *)
(* element, and any construction, assignment or allocation may throw, the  *)
(* moves of a type whose moves may throw included; what throws leaves its  *)
(* own operands as they were.  Trivially copyable types, whose elements    *)
(* are copied as bytes, are the case in which nothing fails.  Allocators   *)
(* are equal.                                                              *)
(***************************************************************************)
EXTENDS Integers, Sequences, FiniteSets, TLC

LOCAL INSTANCE SequencesExt

CONSTANTS
    Vector,         \* the vectors that exist side by side, a set of numbers
    InlineSize,     \* elements the buffer of a vector holds
    NumValues,      \* values an element may have
    MaxSize,        \* bound: elements of a vector
    MaxSource,      \* bound: elements handed to one call
    MaxFailure,     \* bound: operations on elements before one throws
    MaxCalls        \* bound: calls in a behaviour

ASSUME SmallVectorAssumption ==
    /\ InlineSize \in Nat \ {0} /\ NumValues \in Nat \ {0}
    /\ {MaxSize, MaxSource, MaxFailure, MaxCalls} \subseteq Nat

VARIABLES
    svMem,          \* the blocks of memory there are, and their cells
    svVec,          \* first_ and the number of elements of each vector
    svModel,        \* what a std::vector holds after the same calls
    svNothrowMove,  \* elements are moved, and exchanged, without a throw
    svBad,          \* an element was lost, or memory without one was used
    svDefects,      \* the calls at which the implementation is known to err
    svCalls         \* calls so far

svVars == <<svMem, svVec, svModel, svNothrowMove, svBad, svDefects, svCalls>>

Raw == 0                    \* a cell without an element
Moved == NumValues + 1      \* an element that was moved from
Value == 1..NumValues
SvNone == <<"none", 0>>                   \* first_ of a vector that is not there
Buffer(v) == <<"buffer", v>>            \* the buffer inside of the vector
Heap == {<<"heap", n>> : n \in 1..(Cardinality(Vector) + 1)}  \* one is given back before the next is asked for
Dead == [first |-> SvNone, size |-> 0]
Inline(v, n) == [first |-> Buffer(v), size |-> n]

(***************************************************************************)
(* The state of a call: the memory, first_ and the size of the vector, the *)
(* number of operations on elements that still succeed, whether one has    *)
(* thrown.                                                                 *)
(***************************************************************************)
Call(w, n) == [mem |-> svMem, first |-> w.first, size |-> w.size,
               left |-> n, thrown |-> FALSE, bad |-> FALSE]
Throw(s) == [s EXCEPT !.thrown = TRUE, !.left = 0]

Cells(s, b, i, j) == SubSeq(s.mem[b], i + 1, j)
SvContents(s) == IF s.first = SvNone THEN <<>> ELSE Cells(s, s.first, 0, s.size)
Copies(n, x) == [k \in 1..n |-> x]
Put(cells, i, src) ==
    [k \in DOMAIN cells |-> IF k \in (i + 1)..(i + Len(src)) THEN src[k - i] ELSE cells[k]]

Allocate(s, b, cap) ==
    IF s.left = 0 THEN Throw(s)
    ELSE [s EXCEPT !.mem = (b :> Copies(cap, Raw)) @@ @, !.left = @ - 1]

\* The cells of a block that is given back must hold no element any more.
Deallocate(s, b) ==
    IF b \notin DOMAIN s.mem \cap Heap THEN s
    ELSE [s EXCEPT !.mem = Restrict(@, DOMAIN @ \ {b}),
                   !.bad = @ \/ \E k \in DOMAIN s.mem[b] : s.mem[b][k] # Raw]

DestroyRange(s, b, i, j) ==
    [s EXCEPT !.mem[b] = [k \in DOMAIN @ |-> IF k \in (i + 1)..j THEN Raw ELSE @[k]],
              !.bad = @ \/ \E k \in (i + 1)..j : k \notin DOMAIN s.mem[b] \/ s.mem[b][k] = Raw]

\* When the construction of an element throws, the ones before it are destroyed.
SvConstructRange(s, b, i, src) ==
    IF Len(src) > s.left THEN Throw(s)
    ELSE [s EXCEPT !.mem[b] = Put(@, i, src), !.left = @ - Len(src),
                   !.bad = @ \/ \E k \in (i + 1)..(i + Len(src)) :
                                    k \notin DOMAIN s.mem[b] \/ s.mem[b][k] # Raw]

AssignRange(s, b, i, src) ==
    LET n == Min({Len(src), s.left})
        t == [s EXCEPT !.mem[b] = Put(@, i, SubSeq(src, 1, n)), !.left = @ - n,
                       !.bad = @ \/ \E k \in (i + 1)..(i + n) : s.mem[b][k] = Raw]
    IN  IF n < Len(src) THEN Throw(t) ELSE t

\* The elements i + 1 .. j of b move to d, behind the first k of its cells;
\* those that were moved before a failure are lost.
RelocateWeak(s, b, i, j, d, k) ==
    LET n == IF svNothrowMove THEN j - i ELSE Min({j - i, s.left})
        t == [s EXCEPT !.mem[b] = Put(@, i, Copies(n, Moved)), !.left = n]
    IN  IF n < j - i THEN Throw(t)
        ELSE [SvConstructRange(t, d, k, Cells(s, b, i, j))
                  EXCEPT !.left = IF svNothrowMove THEN s.left ELSE s.left - n]

\* Elements whose move may throw are copied, so that a failure loses nothing.
RelocateStrong(s, b, i, j, d, k) ==
    IF svNothrowMove THEN RelocateWeak(s, b, i, j, d, k)
    ELSE SvConstructRange(s, d, k, Cells(s, b, i, j))

\* Elements of b are assigned to others by a move, one after another: from the
\* cell m[1] to the cell m[2] for each m of moves.
MoveWithin(s, b, moves) ==
    LET n == IF svNothrowMove THEN Len(moves) ELSE Min({Len(moves), s.left})
        MoveOne(cells, m) == [cells EXCEPT ![m[2]] = cells[m[1]], ![m[1]] = Moved]
    IN  [s EXCEPT !.mem[b] = FoldLeft(MoveOne, @, SubSeq(moves, 1, n)),
                  !.left = IF svNothrowMove THEN @ ELSE @ - n,
                  !.thrown = n < Len(moves),
                  !.bad = @ \/ \E k \in 1..n : Raw \in {s.mem[b][moves[k][1]], s.mem[b][moves[k][2]]}]

\* The first k elements of b and of d are exchanged, each with a move to a
\* temporary and two assignments: what fails in between loses an element.
SwapRanges(s, b, d, k) ==
    LET done == IF svNothrowMove THEN k ELSE Min({k, s.left \div 3})
        rest == IF done < k THEN s.left % 3 ELSE 0
        t == [s EXCEPT
                !.mem[b] = Put(@, 0, Cells(s, d, 0, done) \o
                                     CASE rest = 0 -> <<>> [] rest = 1 -> <<Moved>>
                                       [] rest = 2 -> Cells(s, d, done, done + 1)),
                !.mem[d] = Put(@, 0, Cells(s, b, 0, done) \o (IF rest = 2 THEN <<Moved>> ELSE <<>>)),
                !.left = IF svNothrowMove THEN @ ELSE @ - 3 * done]
    IN  IF done < k THEN Throw(t) ELSE t

(***************************************************************************)
(* Capacity                                                                *)
(***************************************************************************)
First(v) == svVec[v].first
Size(v) == svVec[v].size
IsSmall(w) == w.first \notin Heap
SvCapacity(s) == Len(s.mem[s.first])
NextCapacity(s, growth) == Max({SvCapacity(s) + growth, SvCapacity(s) + SvCapacity(s) \div 2})
NewBlock(s) == CHOOSE b \in Heap : b \notin DOMAIN s.mem /\ \A c \in Heap \ DOMAIN s.mem : b[2] <= c[2]

SetStorage(s, b, size) == [s EXCEPT !.first = b, !.size = size]

\* All reallocations: allocate, fill the new block, drop the old one.  A guard
\* gives the new block back when Fill throws.
Reallocate(s, cap, size, Fill(_, _)) ==
    LET b == NewBlock(s)
        a == Allocate(s, b, cap)
        f == IF a.thrown THEN a ELSE Fill(a, b)
    IN  IF f.thrown THEN Deallocate(f, b)
        ELSE SetStorage(Deallocate(DestroyRange(f, s.first, 0, s.size), s.first), b, size)

ReallocateN(s, cap) ==
    LET Fill(a, b) == RelocateStrong(a, a.first, 0, a.size, b, 0)
    IN  Reallocate(s, cap, s.size, Fill)

\* The new element is constructed first: it may be a copy of an old one.
ReallocateEmplace(s, pos, x) ==
    LET Fill(a, b) ==
            LET c == SvConstructRange(a, b, pos, <<x>>)
                r == RelocateStrong(c, a.first, 0, pos, b, 0)
                t == RelocateStrong(r, a.first, pos, a.size, b, pos + 1)
            IN  CASE c.thrown -> c
                  [] ~c.thrown /\ r.thrown -> DestroyRange(r, b, pos, pos + 1)
                  [] ~c.thrown /\ ~r.thrown /\ t.thrown -> DestroyRange(t, b, 0, pos + 1)
                  [] ~c.thrown /\ ~r.thrown /\ ~t.thrown -> t
    IN  Reallocate(s, NextCapacity(s, 1), s.size + 1, Fill)

ReallocateInsert(s, pos, src) ==
    LET n == Len(src)
        Fill(a, b) ==
            LET r == RelocateWeak(a, a.first, 0, pos, b, 0)
                c == SvConstructRange(r, b, pos, src)
                t == RelocateWeak(c, a.first, pos, a.size, b, pos + n)
            IN  CASE r.thrown -> r
                  [] ~r.thrown /\ c.thrown -> DestroyRange(c, b, 0, pos)
                  [] ~r.thrown /\ ~c.thrown /\ t.thrown -> DestroyRange(t, b, 0, pos + n)
                  [] ~r.thrown /\ ~c.thrown /\ ~t.thrown -> t
    IN  Reallocate(s, NextCapacity(s, n), s.size + n, Fill)

Reserve(s, n) ==
    IF n > SvCapacity(s) THEN ReallocateN(s, NextCapacity(s, n - SvCapacity(s))) ELSE s

ShrinkToFit(s) == IF s.size > InlineSize THEN ReallocateN(s, s.size) ELSE s

(***************************************************************************)
(* Modifiers                                                               *)
(***************************************************************************)
\* emplace; push_back, emplace_back and insert of one element are cases of it.
\* In the middle the last element moves to the new cell, and the vector is one
\* longer before the others are shifted and the element is moved in.
Emplace(s, pos, x) ==
    LET e == IF s.left = 0 THEN Throw(s) ELSE [s EXCEPT !.left = @ - 1]
        l == RelocateWeak(e, s.first, s.size - 1, s.size, s.first, s.size)
        shift == [k \in 1..(s.size - pos - 1) |-> <<s.size - k, s.size - k + 1>>]
        r == MoveWithin([l EXCEPT !.size = s.size + 1], s.first, shift)
        stuck == r.thrown \/ (~svNothrowMove /\ r.left = 0)
    IN  CASE s.size = SvCapacity(s) -> ReallocateEmplace(s, pos, x)
          [] s.size < SvCapacity(s) /\ pos = s.size ->
                 LET c == SvConstructRange(s, s.first, pos, <<x>>)
                 IN  IF c.thrown THEN c ELSE [c EXCEPT !.size = @ + 1]
          [] s.size < SvCapacity(s) /\ pos < s.size ->
                 IF e.thrown \/ l.thrown THEN Throw(s)
                 ELSE IF stuck THEN Throw(r) ELSE [r EXCEPT !.mem[s.first] = Put(@, pos, <<x>>)]

SvEmplaceBack(s, x) == IF s.thrown THEN s ELSE Emplace(s, s.size, x)

\* The element behind the last one is destroyed.
SvPopBack(s) == [DestroyRange(s, s.first, s.size, s.size + 1) EXCEPT !.size = @ - 1]

SvResize(s, n, x) ==
    IF n <= s.size THEN [DestroyRange(s, s.first, n, s.size) EXCEPT !.size = n]
    ELSE LET r == Reserve(s, n)
             c == SvConstructRange(r, r.first, r.size, Copies(n - r.size, x))
         IN  CASE r.thrown -> r
               [] ~r.thrown /\ c.thrown -> c
               [] ~r.thrown /\ ~c.thrown -> [c EXCEPT !.size = n]

\* Room for the new elements is made by moving the last Len(src) elements, or
\* all those behind pos: the ones between pos and them stay where they are.
SvInsert(s, pos, src) ==
    LET n == Len(src)
        b == s.first
        middle == Max({s.size - n, pos})
        moved == s.size - middle
        c == SvConstructRange(s, b, s.size, SubSeq(src, moved + 1, n))
        t == RelocateWeak([c EXCEPT !.size = middle + n], b, middle, s.size, b, middle + n)
        a == AssignRange([t EXCEPT !.size = s.size + n], b, middle, SubSeq(src, 1, moved))
    IN  CASE n > SvCapacity(s) - s.size -> ReallocateInsert(s, pos, src)
          [] n <= SvCapacity(s) - s.size /\ c.thrown -> c
          [] n <= SvCapacity(s) - s.size /\ ~c.thrown /\ t.thrown -> t
          [] n <= SvCapacity(s) - s.size /\ ~c.thrown /\ ~t.thrown -> a

\* Elements that are read one after another are appended, then rotated to pos.
InsertInput(s, pos, src) ==
    LET a == FoldLeft(SvEmplaceBack, s, src)
    IN  IF a.thrown THEN a
        ELSE [a EXCEPT !.mem[a.first] =
                  Put(@, pos, Cells(a, a.first, s.size, a.size) \o Cells(a, a.first, pos, s.size))]

\* The rotation exchanges elements in an order that is left open: when one of
\* the moves fails, they are in any order, and one of them may be lost.
HalfRotated(s, pos) ==
    LET Behind == (pos + 1)..s.size
        Left(order, lost) == [k \in Behind |-> IF k = lost THEN Moved ELSE s.mem[s.first][order[k]]]
    IN  {Throw([s EXCEPT !.mem[s.first] = Left(order, lost) @@ @]) :
            order \in Permutations(Behind), lost \in pos..s.size}

Erase(s, i, j) ==
    LET n == s.size - (j - i)
        shift == [k \in 1..(IF i = j THEN 0 ELSE s.size - j) |-> <<j + k, i + k>>]
        shifted == MoveWithin(s, s.first, shift)
    IN  IF shifted.thrown THEN shifted
        ELSE [DestroyRange(shifted, s.first, n, s.size) EXCEPT !.size = n]

SvAssign(s, src) ==
    LET n == Len(src)
        common == Min({s.size, n})
        a == AssignRange(s, s.first, 0, SubSeq(src, 1, common))
        c == SvConstructRange(a, s.first, common, SubSeq(src, common + 1, n))
        Fill(x, b) == SvConstructRange(x, b, 0, src)
    IN  CASE n > SvCapacity(s) -> Reallocate(s, NextCapacity(s, n - s.size), n, Fill)
          [] n <= SvCapacity(s) /\ a.thrown -> a
          [] n <= SvCapacity(s) /\ ~a.thrown /\ c.thrown -> c
          [] n <= SvCapacity(s) /\ ~a.thrown /\ ~c.thrown ->
                 [DestroyRange(c, s.first, common, s.size) EXCEPT !.size = n]

AssignInput(s, src) ==
    LET common == Min({s.size, Len(src)})
        a == AssignRange(s, s.first, 0, SubSeq(src, 1, common))
        d == [DestroyRange(a, s.first, common, s.size) EXCEPT !.size = common]
    IN  IF a.thrown THEN a ELSE FoldLeft(SvEmplaceBack, d, SubSeq(src, common + 1, Len(src)))

SvClear(s) == [DestroyRange(s, s.first, 0, s.size) EXCEPT !.size = 0]

(***************************************************************************)
(* Calls on one vector                                                     *)
(***************************************************************************)
Calling(v) == svCalls < MaxCalls /\ svDefects = {} /\ svVec[v] # Dead
Elements(v) == SubSeq(svMem[First(v)], 1, Size(v))
Sources == UNION {[1..n -> Value] : n \in 0..MaxSource}
Fits(n) == n <= MaxSize

Leave(s, vec, model, defects) ==
    /\ svMem' = s.mem
    /\ svVec' = vec
    /\ svModel' = model
    /\ svBad' = (svBad \/ s.bad)
    /\ svDefects' = defects
    /\ svCalls' = svCalls + 1
    /\ UNCHANGED svNothrowMove

\* A call that fails leaves the elements as they were, or some elements.
Modify(v, s, after, strong) ==
    Leave(s, [svVec EXCEPT ![v] = [first |-> s.first, size |-> s.size]],
          [svModel EXCEPT ![v] = CASE ~s.thrown -> after
                                   [] s.thrown /\ strong -> @
                                   [] s.thrown /\ ~strong -> SvContents(s)], {})

Spliced(seq, i, j, src) == SubSeq(seq, 1, i) \o src \o SubSeq(seq, j + 1, Len(seq))

CallEmplace(v, n) ==
    \E pos \in 0..Size(v), x \in Value \cup {Elements(v)[k] : k \in 1..Size(v)} :
        /\ Fits(Size(v) + 1)
        /\ LET atEnd == pos = Size(v)
               grows == Size(v) = SvCapacity(Call(svVec[v], n))
           IN  Modify(v, Emplace(Call(svVec[v], n), pos, x),
                      Spliced(svModel[v], pos, pos, <<x>>), atEnd \/ grows)

CallPopBack(v) ==
    /\ Size(v) > 0
    /\ LET s == SvPopBack(Call(svVec[v], 0))
       IN  Leave(s, [svVec EXCEPT ![v].size = s.size], [svModel EXCEPT ![v] = Front(@)], {"pop_back"})

CallResize(v, n) ==
    \E size \in 0..MaxSize, x \in Value :
        Modify(v, SvResize(Call(svVec[v], n), size, x),
               SubSeq(svModel[v], 1, Min({size, Size(v)})) \o Copies(size - Size(v), x), TRUE)

Misplaces(v, pos, src) ==
    /\ Len(src) \in 1..(SvCapacity(Call(svVec[v], 0)) - Size(v))
    /\ pos < Size(v) - Len(src)

CallInsert(v, n) ==
    \E pos \in 0..Size(v), src \in Sources :
        /\ Fits(Size(v) + Len(src))
        /\ LET s == SvInsert(Call(svVec[v], n), pos, src)
               after == Spliced(svModel[v], pos, pos, src)
           IN  IF Misplaces(v, pos, src) /\ ~s.thrown
               THEN Leave(s, [svVec EXCEPT ![v].size = s.size], [svModel EXCEPT ![v] = after], {"insert"})
               ELSE Modify(v, s, after, FALSE)

CallInsertInput(v, n) ==
    \E pos \in 0..Size(v), src \in Sources :
        /\ Fits(Size(v) + Len(src))
        /\ \E s \in {InsertInput(Call(svVec[v], n), pos, src)} :
               LET fails == ~svNothrowMove /\ ~s.thrown /\ s.left = 0 /\ pos < Size(v) /\ src # <<>>
               IN  \E t \in {s} \cup (IF fails THEN HalfRotated(s, pos) ELSE {}) :
                       Modify(v, t, Spliced(svModel[v], pos, pos, src), FALSE)

CallErase(v, n) ==
    \E i \in 0..Size(v), j \in 0..Size(v) :
        /\ i <= j
        /\ Modify(v, Erase(Call(svVec[v], n), i, j), Spliced(svModel[v], i, j, <<>>), FALSE)

CallAssign(v, n) ==
    \E src \in Sources :
        \/ Modify(v, SvAssign(Call(svVec[v], n), src), src, FALSE)
        \/ Modify(v, AssignInput(Call(svVec[v], n), src), src, FALSE)

CallReserve(v, n) ==
    \/ \E cap \in 0..MaxSize : Modify(v, Reserve(Call(svVec[v], n), cap), svModel[v], TRUE)
    \/ Modify(v, ShrinkToFit(Call(svVec[v], n)), svModel[v], TRUE)

CallClear(v) == Modify(v, SvClear(Call(svVec[v], 0)), <<>>, TRUE)

CallReset(v) ==
    LET s == SvClear(Call(svVec[v], 0))
    IN  Modify(v, SetStorage(Deallocate(s, s.first), Buffer(v), 0), <<>>, TRUE)

Destructor(v) ==
    LET s == SvClear(Call(svVec[v], 0))
    IN  Leave(Deallocate(s, s.first), [svVec EXCEPT ![v] = Dead], [svModel EXCEPT ![v] = <<>>], {})

(***************************************************************************)
(* Constructors                                                            *)
(***************************************************************************)
AllocateN(s, v, n) ==
    IF n <= InlineSize THEN SetStorage(s, Buffer(v), 0)
    ELSE LET a == Allocate(s, NewBlock(s), n) IN IF a.thrown THEN a ELSE SetStorage(a, NewBlock(s), 0)

\* From a count or a range; a guard gives the memory back.
Constructed(v, src, n) ==
    LET a == AllocateN(Call(Dead, n), v, Len(src))
        c == SvConstructRange(a, a.first, 0, src)
    IN  CASE a.thrown -> a
          [] ~a.thrown /\ c.thrown -> SetStorage(Deallocate(c, c.first), SvNone, 0)
          [] ~a.thrown /\ ~c.thrown -> [c EXCEPT !.size = Len(src)]

\* From elements that are read one after another: nothing is guarded.
ConstructedInput(v, src, n) ==
    LET s == FoldLeft(SvEmplaceBack, Call(Inline(v, 0), n), src)
    IN  IF s.thrown THEN SetStorage(s, SvNone, 0) ELSE s

Constructor(v, n) ==
    /\ svCalls < MaxCalls /\ svDefects = {} /\ svVec[v] = Dead
    /\ \E src \in Sources \cup {svModel[w] : w \in Vector} :
        \/ Modify(v, Constructed(v, src, n), src, FALSE)
        \/ LET s == ConstructedInput(v, src, n)
           IN  Leave(s, [svVec EXCEPT ![v] = [first |-> s.first, size |-> s.size]],
                     [svModel EXCEPT ![v] = IF s.thrown THEN <<>> ELSE src],
                     IF s.thrown THEN {"constructor"} ELSE {})

(***************************************************************************)
(* Calls on two vectors                                                    *)
(***************************************************************************)
\* The vectors after a call that does as std::vector does, or fails half-way;
\* a vector that was moved from keeps what it holds.
Settle(s, vec, model, Known) ==
    Leave(s, vec, [v \in Vector |-> IF v \in Known THEN model[v]
                                    ELSE IF vec[v] = Dead THEN <<>>
                                    ELSE Cells(s, vec[v].first, 0, vec[v].size)], {})

MoveConstructor(v, w, n) ==
    /\ svCalls < MaxCalls /\ svDefects = {} /\ svVec[v] = Dead /\ svVec[w] # Dead
    /\ LET from == svVec[w]
           r == RelocateWeak(Call(Dead, n), from.first, 0, from.size, Buffer(v), 0)
           moved == [svModel EXCEPT ![v] = svModel[w]]
       IN  CASE ~IsSmall(from) ->
                    Settle(Call(Dead, n), [svVec EXCEPT ![v] = from, ![w] = Inline(w, 0)], moved, Vector \ {w})
             [] IsSmall(from) /\ r.thrown ->
                    Settle(r, svVec, svModel, Vector \ {w})
             [] IsSmall(from) /\ ~r.thrown ->
                    Settle(DestroyRange(r, from.first, 0, from.size),
                           [svVec EXCEPT ![v] = Inline(v, from.size), ![w].size = 0], moved, Vector \ {w})

\* Copy assignment is assign() of the elements of the other vector.
SvCopyAssign(v, w, n) ==
    /\ Calling(v) /\ svVec[w] # Dead /\ v # w
    /\ Modify(v, SvAssign(Call(svVec[v], n), Elements(w)), svModel[w], FALSE)

MoveAssign(v, w, n) ==
    /\ Calling(v) /\ svVec[w] # Dead /\ v # w
    /\ LET src == Elements(w)
           allowed == IF svNothrowMove THEN Len(src) ELSE Min({n, Len(src)})
           a == SvAssign(Call(svVec[v], allowed), src)
           stolen == DestroyRange(Call(svVec[v], 0), First(v), 0, Size(v))
           moved == [svModel EXCEPT ![v] = svModel[w]]
           Others == Vector \ {v, w}
       IN  CASE ~IsSmall(svVec[v]) /\ ~IsSmall(svVec[w]) ->
                    Settle(Call(Dead, 0), [svVec EXCEPT ![v] = svVec[w], ![w] = svVec[v]], moved, Others \cup {v})
             [] IsSmall(svVec[v]) /\ ~IsSmall(svVec[w]) ->
                    Settle(stolen, [svVec EXCEPT ![v] = svVec[w], ![w] = Inline(w, 0)], moved, Others \cup {v})
             [] IsSmall(svVec[w]) ->
                    Settle([a EXCEPT !.mem[First(w)] = Put(@, 0, Copies(allowed, Moved))],
                           [svVec EXCEPT ![v].size = a.size],
                           moved, Others \cup (IF a.thrown THEN {} ELSE {v}))

Swap(v, w, n) ==
    /\ Calling(v) /\ svVec[w] # Dead /\ v # w
    /\ LET big == IF ~IsSmall(svVec[v]) \/ (IsSmall(svVec[w]) /\ Size(v) >= Size(w)) THEN v ELSE w
           small == IF big = v THEN w ELSE v
           k == Size(small)
           s == Call(Dead, n)
           \* both in their buffers: the common part is swapped, the rest moves over
           swapped == SwapRanges(s, First(small), First(big), k)
           r == IF swapped.thrown THEN swapped
                ELSE RelocateStrong(swapped, First(big), k, Size(big), First(small), k)
           \* one in its buffer: its elements move to the buffer of the other
           t == RelocateStrong(s, First(small), 0, k, Buffer(big), 0)
           exchanged == [svModel EXCEPT ![v] = svModel[w], ![w] = svModel[v]]
       IN  CASE ~IsSmall(svVec[v]) /\ ~IsSmall(svVec[w]) ->
                    Settle(s, [svVec EXCEPT ![v] = svVec[w], ![w] = svVec[v]], exchanged, Vector)
             [] IsSmall(svVec[v]) /\ IsSmall(svVec[w]) /\ r.thrown ->
                    Settle(r, svVec, svModel, Vector \ {v, w})
             [] IsSmall(svVec[v]) /\ IsSmall(svVec[w]) /\ ~r.thrown ->
                    Settle(DestroyRange(r, First(big), k, Size(big)),
                           [svVec EXCEPT ![small].size = Size(big), ![big].size = k], exchanged, Vector)
             [] IsSmall(svVec[v]) # IsSmall(svVec[w]) /\ t.thrown ->
                    Settle(t, svVec, svModel, Vector)
             [] IsSmall(svVec[v]) # IsSmall(svVec[w]) /\ ~t.thrown ->
                    Settle(DestroyRange(t, First(small), 0, k),
                           [svVec EXCEPT ![small] = svVec[big], ![big] = Inline(big, k)], exchanged, Vector)

(***************************************************************************)
(* Specification                                                           *)
(***************************************************************************)
SvInit ==
    /\ svMem = [b \in {Buffer(v) : v \in Vector} |-> Copies(InlineSize, Raw)]
    /\ svVec = [v \in Vector |-> Dead]
    /\ svModel = [v \in Vector |-> <<>>]
    /\ svNothrowMove \in BOOLEAN
    /\ svBad = FALSE
    /\ svDefects = {}
    /\ svCalls = 0

SvNext ==
    \/ \E v \in Vector :
        /\ Calling(v)
        /\ \/ CallPopBack(v) \/ CallClear(v) \/ CallReset(v) \/ Destructor(v)
    \/ \E v \in Vector, n \in 0..MaxFailure :
        \/ Constructor(v, n)
        \/ Calling(v) /\ \/ CallEmplace(v, n) \/ CallResize(v, n) \/ CallInsert(v, n)
                         \/ CallInsertInput(v, n) \/ CallErase(v, n) \/ CallAssign(v, n)
                         \/ CallReserve(v, n)
        \/ \E w \in Vector : \/ MoveConstructor(v, w, n) \/ SvCopyAssign(v, w, n)
                             \/ MoveAssign(v, w, n) \/ Swap(v, w, n)

SvSpec == SvInit /\ [][SvNext]_svVars

(***************************************************************************)
(* Properties                                                              *)
(***************************************************************************)
\* Every block belongs to one vector, and holds exactly its elements: no call,
\* failed or not, loses an element or a block, destroys an element twice or
\* uses memory without one (small_vector.hpp, the guards of every operation).
MemoryIsSound ==
    /\ ~svBad
    /\ DOMAIN svMem = {Buffer(v) : v \in Vector} \cup {First(v) : v \in {w \in Vector : svVec[w] # Dead}}
    /\ \A v \in Vector, w \in Vector : v # w /\ svVec[v] # Dead => First(v) # First(w)
    /\ \A b \in DOMAIN svMem, k \in 1..(MaxSize + MaxSize) :
           k \in DOMAIN svMem[b] =>
               (svMem[b][k] # Raw <=> \E v \in Vector : First(v) = b /\ k <= Size(v))

\* The elements are those of a std::vector after the same calls, and one that
\* appends an element, puts one in new memory, resizes the vector or changes
\* its capacity has no effect when it fails (small_vector.hpp,
\* relocate_range_strong() and the functions that reallocate).  The others may
\* leave some elements moved from, and then only their memory is sound.
MatchesStdVector ==
    \A v \in Vector : svVec[v] # Dead => Elements(v) = svModel[v]

\* Both, but for the calls that are known to err.
VectorIsSound == svDefects = {} => MemoryIsSound /\ MatchesStdVector
=============================================================================
