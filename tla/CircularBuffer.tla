--------------------------- MODULE CircularBuffer ---------------------------
(***************************************************************************)
(* detail::circular_buffer: a deque of fixed capacity in a ring of slots.  *)
(* A buffer is a record; every operator returns the buffer that the member *)
(* function of that name leaves behind.  A slot that holds no element is   *)
(* Vacant: reading it would be a read of destroyed or raw storage.         *)
(***************************************************************************)
EXTENDS Integers, Sequences

CONSTANT Vacant

\* The buffers of a capacity, with elements of a set; first_ stays below the
\* capacity, except that both are zero in a buffer without storage.
Buffers(capacity, elements) ==
    [buffer : [0 .. capacity - 1 -> elements \cup {Vacant}],
     first : 0 .. (IF capacity = 0 THEN 0 ELSE capacity - 1),
     size : 0 .. capacity, capacity : {capacity}]

\* The members of a circular_buffer.
Ring(buffer, first, size, capacity) ==
    [buffer |-> buffer, first |-> first, size |-> size, capacity |-> capacity]

NewBuffer(capacity) == Ring([i \in 0 .. capacity - 1 |-> Vacant], 0, 0, capacity)

NextIdx(b, i) == IF i + 1 = b.capacity THEN 0 ELSE i + 1
PrevIdx(b, i) == IF i = 0 THEN b.capacity - 1 ELSE i - 1

\* pointer_to: the slot of the element at a position.
SlotOf(b, pos) == IF b.first + pos >= b.capacity THEN b.first + pos - b.capacity
                                                 ELSE b.first + pos

\* operator[] and front; positions count from 0.
ElementAt(b, pos) == b.buffer[SlotOf(b, pos)]
Front(b) == b.buffer[b.first]

IsFull(b) == b.size = b.capacity

\* What iterating over the buffer from begin() to end() yields.
Contents(b) == [i \in 1 .. b.size |-> ElementAt(b, i - 1)]

-----------------------------------------------------------------------------
\* Variant: the oldest slot is overwritten but stays the first.
EmplaceBackKeepsFirst(b, x) ==
    IF IsFull(b)
    THEN Ring([b.buffer EXCEPT ![b.first] = x], b.first, b.size, b.capacity)
    ELSE Ring([b.buffer EXCEPT ![SlotOf(b, b.size)] = x], b.first, b.size + 1, b.capacity)

EmplaceBack(b, x) ==
    IF IsFull(b)
    THEN Ring([b.buffer EXCEPT ![b.first] = x], NextIdx(b, b.first), b.size, b.capacity)
    ELSE Ring([b.buffer EXCEPT ![SlotOf(b, b.size)] = x], b.first, b.size + 1, b.capacity)

EmplaceFront(b, x) ==
    LET newFirst == PrevIdx(b, b.first)
    IN Ring([b.buffer EXCEPT ![newFirst] = x], newFirst,
            IF IsFull(b) THEN b.size ELSE b.size + 1, b.capacity)

PopFront(b) ==
    Ring([b.buffer EXCEPT ![b.first] = Vacant], NextIdx(b, b.first), b.size - 1, b.capacity)

PopBack(b) ==
    Ring([b.buffer EXCEPT ![SlotOf(b, b.size - 1)] = Vacant], b.first, b.size - 1, b.capacity)

\* clear() and reset(): the storage is kept if its capacity does not change.
Cleared(b) == NewBuffer(b.capacity)
ResetTo(capacity) == NewBuffer(capacity)

\* The last elements of a range that fit, as the constructor from a range.
FromRange(capacity, range) ==
    LET size == IF capacity <= Len(range) THEN capacity ELSE Len(range)
    IN Ring([i \in 0 .. capacity - 1 |->
               IF i < size THEN range[Len(range) - size + i + 1] ELSE Vacant],
            0, size, capacity)

\* The first elements that fit; destroying the old storage resets first_.
SetCapacity(b, capacity) ==
    LET size == IF capacity <= b.size THEN capacity ELSE b.size
    IN IF capacity = b.capacity THEN b
       ELSE Ring([i \in 0 .. capacity - 1 |-> IF i < size THEN ElementAt(b, i) ELSE Vacant],
                 0, size, capacity)
=============================================================================
