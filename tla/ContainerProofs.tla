--------------------------- MODULE ContainerProofs ---------------------------
(***************************************************************************)
(* The containers of the library, for any elements and sizes:              *)
(*  - the fitness cache: its order matches its map, the map never          *)
(*    rehashes, and the cache is the map that forgets its keys in the      *)
(*    order of their insertion.  That rests on the ring being a deque:     *)
(*    what every operation does to the sequence of its elements;           *)
(*  - the bitset: its blocks show the vector of bools, and no query        *)
(*    answers for the bits past the end;                                   *)
(*  - the matrix: its flat vector and the length of a row show the rows.   *)
(***************************************************************************)
EXTENDS FifoCache, DynamicBitset, Matrix, Induction, FiniteSetTheorems, SequenceTheorems, TLAPS

(* The ring *)

\* The fields of a buffer are those of some ring with elements of E ...
IsShape(b, E) ==
    /\ b = Ring(b.buffer, b.first, b.size, b.capacity)
    /\ b.capacity \in Nat /\ b.size \in Nat /\ b.first \in Nat
    /\ b.buffer \in [0 .. b.capacity - 1 -> E \cup {Vacant}]
    /\ b.size <= b.capacity
    /\ b.capacity > 0 => b.first < b.capacity
    /\ b.capacity = 0 => b.first = 0

\* ... and the occupied slots hold elements of E.
Holds(b, E) == \A i \in 0 .. b.size - 1 : ElementAt(b, i) \in E

IsBuffer(b, E) == IsShape(b, E) /\ Holds(b, E)

-----------------------------------------------------------------------------
\* Such a buffer is one of the type of the model.
LEMMA BufferIsTyped ==
    ASSUME NEW E, NEW b, IsShape(b, E)
    PROVE  b \in Buffers(b.capacity, E)
<1>1. /\ b.first \in 0 .. (IF b.capacity = 0 THEN 0 ELSE b.capacity - 1)
      /\ b.size \in 0 .. b.capacity
      /\ b.buffer \in [0 .. b.capacity - 1 -> E \cup {Vacant}]
      /\ b.capacity \in {b.capacity}
  BY DEF IsShape
<1>2. Ring(b.buffer, b.first, b.size, b.capacity) \in Buffers(b.capacity, E)
  BY <1>1 DEF Ring, Buffers
<1> QED BY <1>2 DEF IsShape

\* A ring of fitting fields is such a buffer.
Fits(E, slots, first, size, c) ==
    /\ c \in Nat /\ size \in Nat /\ first \in Nat
    /\ slots \in [0 .. c - 1 -> E \cup {Vacant}]
    /\ size <= c
    /\ c > 0 => first < c
    /\ c = 0 => first = 0

LEMMA RingShape ==
    ASSUME NEW E, NEW slots, NEW first, NEW size, NEW c, Fits(E, slots, first, size, c),
           NEW b, b = Ring(slots, first, size, c)
    PROVE  /\ b.buffer = slots /\ b.first = first /\ b.size = size /\ b.capacity = c
           /\ IsShape(b, E)
<1>1. b.buffer = slots /\ b.first = first /\ b.size = size /\ b.capacity = c
  BY DEF Ring
<1> QED BY <1>1 DEF IsShape, Fits

\* Positions are mapped to slots of the ring ...
LEMMA SlotInRing ==
    ASSUME NEW E, NEW b, IsShape(b, E), NEW i \in 0 .. b.capacity - 1
    PROVE  SlotOf(b, i) \in 0 .. b.capacity - 1
BY DEF SlotOf, IsShape

\* ... and different positions to different slots.
LEMMA SlotsDiffer ==
    ASSUME NEW E, NEW b, IsShape(b, E),
           NEW i \in 0 .. b.capacity - 1, NEW j \in 0 .. b.capacity - 1, i # j
    PROVE  SlotOf(b, i) # SlotOf(b, j)
<1> DEFINE c == b.capacity
           f == b.first
<1>1. c \in Nat /\ f \in Nat /\ (c > 0 => f < c)
  BY DEF IsShape
<1>2. i \in Nat /\ j \in Nat /\ i < c /\ j < c
  BY <1>1
<1>3. /\ SlotOf(b, i) = IF f + i >= c THEN f + i - c ELSE f + i
      /\ SlotOf(b, j) = IF f + j >= c THEN f + j - c ELSE f + j
  BY DEF SlotOf
<1> HIDE DEF c, f
<1> QED BY <1>1, <1>2, <1>3

\* Moving the first slot by one moves the positions by one.
LEMMA SlotsShift ==
    ASSUME NEW E, NEW b, IsShape(b, E), NEW new, IsShape(new, E),
           new.capacity = b.capacity, b.capacity > 0, new.first = NextIdx(b, b.first),
           NEW i \in 0 .. b.capacity - 2
    PROVE  SlotOf(new, i) = SlotOf(b, i + 1)
<1>1. b.capacity \in Nat /\ b.first \in Nat /\ b.first < b.capacity
  BY DEF IsShape
<1>2. CASE b.first + 1 = b.capacity
  BY <1>1, <1>2 DEF SlotOf, NextIdx
<1>3. CASE b.first + 1 # b.capacity
  <2>1. new.first = b.first + 1
    BY <1>3 DEF NextIdx
  <2> QED BY <1>1, <2>1 DEF SlotOf
<1> QED BY <1>2, <1>3

-----------------------------------------------------------------------------
\* emplace_back() on a buffer that is not full adds an element at the end.
LEMMA EmplaceBackGrows ==
    ASSUME NEW E, NEW b, IsBuffer(b, E), NEW x \in E, b.size < b.capacity,
           NEW new, new = EmplaceBack(b, x)
    PROVE  /\ IsBuffer(new, E)
           /\ new.capacity = b.capacity /\ new.size = b.size + 1
           /\ \A i \in 0 .. b.size - 1 : ElementAt(new, i) = ElementAt(b, i)
           /\ ElementAt(new, b.size) = x
<1> DEFINE slot == SlotOf(b, b.size)
           slots == [b.buffer EXCEPT ![slot] = x]
<1> HIDE DEF slot
<1>0. IsShape(b, E) /\ Holds(b, E)
  BY DEF IsBuffer
<1>1. /\ b.size \in 0 .. b.capacity - 1 /\ ~ IsFull(b)
      /\ b.capacity \in Nat /\ b.size + 1 \in Nat /\ b.size + 1 <= b.capacity /\ b.first \in Nat
      /\ b.capacity > 0 => b.first < b.capacity
      /\ b.capacity = 0 => b.first = 0
  BY <1>0 DEF IsFull, IsShape
<1>2. slot \in 0 .. b.capacity - 1
  BY <1>0, <1>1, SlotInRing DEF slot
<1>3. slots \in [0 .. b.capacity - 1 -> E \cup {Vacant}]
  BY <1>0, <1>2 DEF IsShape
<1>4. new = Ring(slots, b.first, b.size + 1, b.capacity)
  BY <1>1 DEF EmplaceBack, slot
<1> HIDE DEF slots
<1>5. /\ new.buffer = slots /\ new.first = b.first /\ new.size = b.size + 1 /\ new.capacity = b.capacity
      /\ IsShape(new, E)
  <2>1. Fits(E, slots, b.first, b.size + 1, b.capacity)
    BY <1>1, <1>3 DEF Fits
  <2> QED BY <1>4, <2>1, RingShape
<1>6. ASSUME NEW i \in 0 .. b.capacity - 1
      PROVE  /\ SlotOf(b, i) \in 0 .. b.capacity - 1
             /\ ElementAt(new, i) = IF i = b.size THEN x ELSE ElementAt(b, i)
  <2>1. SlotOf(new, i) = SlotOf(b, i)
    BY <1>5 DEF SlotOf
  <2>2. /\ SlotOf(b, i) \in 0 .. b.capacity - 1
        /\ SlotOf(b, i) = slot <=> i = b.size
    BY <1>0, <1>1, SlotInRing, SlotsDiffer DEF slot
  <2>3. slots[SlotOf(b, i)] = IF i = b.size THEN x ELSE b.buffer[SlotOf(b, i)]
    BY <1>0, <2>2 DEF slots, IsShape
  <2> QED BY <1>5, <2>1, <2>2, <2>3 DEF ElementAt
<1>7. /\ \A i \in 0 .. b.size - 1 : ElementAt(new, i) = ElementAt(b, i)
      /\ ElementAt(new, b.size) = x
  BY <1>1, <1>6
<1>8. Holds(new, E)
  <2> SUFFICES ASSUME NEW i \in 0 .. b.size PROVE ElementAt(new, i) \in E
    BY <1>5, <1>1 DEF Holds
  <2>1. CASE i = b.size
    BY <2>1, <1>7
  <2>2. CASE i # b.size
    BY <2>2, <1>7, <1>0, <1>1 DEF Holds
  <2> QED BY <2>1, <2>2
<1> QED BY <1>5, <1>7, <1>8 DEF IsBuffer

\* emplace_back() on a full buffer drops the first element.
LEMMA EmplaceBackRotates ==
    ASSUME NEW E, NEW b, IsBuffer(b, E), NEW x \in E, b.size = b.capacity, b.capacity > 0,
           NEW new, new = EmplaceBack(b, x)
    PROVE  /\ IsBuffer(new, E)
           /\ new.capacity = b.capacity /\ new.size = b.size
           /\ \A i \in 0 .. b.size - 2 : ElementAt(new, i) = ElementAt(b, i + 1)
           /\ ElementAt(new, b.size - 1) = x
<1> DEFINE slots == [b.buffer EXCEPT ![b.first] = x]
           next == NextIdx(b, b.first)
<1>0. IsShape(b, E) /\ Holds(b, E)
  BY DEF IsBuffer
<1>1. /\ b.first \in 0 .. b.capacity - 1 /\ IsFull(b)
      /\ b.capacity \in Nat /\ b.size \in Nat /\ b.size <= b.capacity
      /\ next \in Nat /\ next < b.capacity
  BY <1>0 DEF IsFull, NextIdx, IsShape
<1>2. slots \in [0 .. b.capacity - 1 -> E \cup {Vacant}]
  BY <1>0, <1>1 DEF IsShape
<1>3. new = Ring(slots, next, b.size, b.capacity)
  BY <1>1 DEF EmplaceBack
<1> HIDE DEF slots, next
<1>4. /\ new.buffer = slots /\ new.first = next /\ new.size = b.size /\ new.capacity = b.capacity
      /\ IsShape(new, E)
  <2>1. Fits(E, slots, next, b.size, b.capacity)
    BY <1>1, <1>2 DEF Fits
  <2> QED BY <1>3, <2>1, RingShape
<1>5. SlotOf(new, b.size - 1) = b.first
  BY <1>0, <1>1, <1>4 DEF SlotOf, NextIdx, next, IsShape
<1>6. ElementAt(new, b.size - 1) = x
  BY <1>0, <1>1, <1>4, <1>5 DEF ElementAt, slots, IsShape
<1>7. ASSUME NEW i \in 0 .. b.size - 2 PROVE ElementAt(new, i) = ElementAt(b, i + 1)
  <2>1. i + 1 \in 0 .. b.capacity - 1 /\ i \in 0 .. b.capacity - 2
    BY <1>1
  <2>2. SlotOf(new, i) = SlotOf(b, i + 1) /\ SlotOf(b, i + 1) \in 0 .. b.capacity - 1
    BY <1>0, <1>4, <2>1, SlotsShift, SlotInRing DEF next
  <2>3. SlotOf(b, i + 1) # b.first
    BY <1>0, <1>1, <2>1 DEF SlotOf, IsShape
  <2> QED BY <1>0, <1>1, <1>4, <2>2, <2>3 DEF ElementAt, slots, IsShape
<1>8. Holds(new, E)
  <2> SUFFICES ASSUME NEW i \in 0 .. b.size - 1 PROVE ElementAt(new, i) \in E
    BY <1>4 DEF Holds
  <2>1. CASE i = b.size - 1
    BY <2>1, <1>6
  <2>2. CASE i # b.size - 1
    <3>1. i \in 0 .. b.size - 2 /\ i + 1 \in 0 .. b.size - 1
      BY <2>2, <1>1
    <3> QED BY <3>1, <1>0, <1>7 DEF Holds
  <2> QED BY <2>1, <2>2
<1> QED BY <1>4, <1>6, <1>7, <1>8 DEF IsBuffer

-----------------------------------------------------------------------------
\* emplace_front() adds an element at the front; a full buffer loses its last one.
LEMMA EmplaceFrontShifts ==
    ASSUME NEW E, NEW b, IsBuffer(b, E), NEW x \in E, b.capacity > 0,
           NEW new, new = EmplaceFront(b, x)
    PROVE  /\ IsBuffer(new, E)
           /\ new.capacity = b.capacity
           /\ new.size = IF b.size = b.capacity THEN b.size ELSE b.size + 1
           /\ ElementAt(new, 0) = x
           /\ \A i \in 1 .. new.size - 1 : ElementAt(new, i) = ElementAt(b, i - 1)
<1> DEFINE prev == PrevIdx(b, b.first)
           slots == [b.buffer EXCEPT ![prev] = x]
           size == IF b.size = b.capacity THEN b.size ELSE b.size + 1
<1>0. IsShape(b, E) /\ Holds(b, E)
  BY DEF IsBuffer
<1>1. /\ prev \in 0 .. b.capacity - 1 /\ prev \in Nat /\ prev < b.capacity
      /\ size \in Nat /\ size <= b.capacity /\ size - 1 <= b.size
      /\ b.capacity \in Nat /\ b.size \in Nat
  BY <1>0 DEF PrevIdx, IsShape
<1>2. slots \in [0 .. b.capacity - 1 -> E \cup {Vacant}]
  BY <1>0, <1>1 DEF IsShape
<1>3. new = Ring(slots, prev, size, b.capacity)
  BY <1>1 DEF EmplaceFront, IsFull
<1> HIDE DEF slots, prev, size
<1>4. /\ new.buffer = slots /\ new.first = prev /\ new.size = size /\ new.capacity = b.capacity
      /\ IsShape(new, E)
  <2>1. Fits(E, slots, prev, size, b.capacity)
    BY <1>1, <1>2 DEF Fits
  <2> QED BY <1>3, <2>1, RingShape
<1>5. SlotOf(new, 0) = prev
  BY <1>1, <1>4 DEF SlotOf
<1>6. ElementAt(new, 0) = x
  BY <1>0, <1>1, <1>4, <1>5 DEF ElementAt, slots, IsShape
<1>7. b.first = NextIdx(new, new.first)
  BY <1>0, <1>4 DEF NextIdx, PrevIdx, prev, IsShape
<1>8. ASSUME NEW i \in 1 .. size - 1
      PROVE  ElementAt(new, i) = ElementAt(b, i - 1) /\ i - 1 \in 0 .. b.size - 1
  <2>1. /\ i - 1 \in 0 .. b.size - 1 /\ i - 1 \in 0 .. b.capacity - 2 /\ i - 1 + 1 = i
        /\ i \in 0 .. b.capacity - 1 /\ 0 \in 0 .. b.capacity - 1 /\ i # 0
    BY <1>1
  <2>2. SlotOf(b, i - 1) = SlotOf(new, i - 1 + 1)
    BY <1>0, <1>1, <1>4, <1>7, <2>1, SlotsShift
  <2>3. SlotOf(new, i) = SlotOf(b, i - 1)
    BY <2>1, <2>2
  <2>4. SlotOf(new, i) \in 0 .. b.capacity - 1 /\ SlotOf(new, i) # prev
    BY <1>4, <1>5, <2>1, SlotInRing, SlotsDiffer
  <2>5. slots[SlotOf(new, i)] = b.buffer[SlotOf(new, i)]
    BY <1>0, <2>4 DEF slots, IsShape
  <2> QED BY <1>4, <2>1, <2>3, <2>5 DEF ElementAt
<1>9. Holds(new, E)
  <2> SUFFICES ASSUME NEW i \in 0 .. size - 1 PROVE ElementAt(new, i) \in E
    BY <1>4 DEF Holds
  <2>1. CASE i = 0
    BY <2>1, <1>6
  <2>2. CASE i # 0
    <3>1. i \in 1 .. size - 1
      BY <2>2, <1>1
    <3> QED BY <3>1, <1>0, <1>8 DEF Holds
  <2> QED BY <2>1, <2>2
<1> QED BY <1>4, <1>6, <1>8, <1>9 DEF IsBuffer, size

\* pop_front() removes the first element ...
LEMMA PopFrontShifts ==
    ASSUME NEW E, NEW b, IsBuffer(b, E), b.size > 0,
           NEW new, new = PopFront(b)
    PROVE  /\ IsBuffer(new, E)
           /\ new.capacity = b.capacity /\ new.size = b.size - 1
           /\ \A i \in 0 .. b.size - 2 : ElementAt(new, i) = ElementAt(b, i + 1)
<1> DEFINE next == NextIdx(b, b.first)
           slots == [b.buffer EXCEPT ![b.first] = Vacant]
<1>0. IsShape(b, E) /\ Holds(b, E)
  BY DEF IsBuffer
<1>1. /\ b.first \in 0 .. b.capacity - 1 /\ next \in Nat /\ next < b.capacity
      /\ b.size - 1 \in Nat /\ b.size - 1 <= b.capacity /\ b.capacity \in Nat /\ b.capacity > 0
      /\ b.size <= b.capacity /\ b.size \in Nat
  BY <1>0 DEF NextIdx, IsShape
<1>2. slots \in [0 .. b.capacity - 1 -> E \cup {Vacant}]
  BY <1>0, <1>1 DEF IsShape
<1>3. new = Ring(slots, next, b.size - 1, b.capacity)
  BY DEF PopFront
<1> HIDE DEF slots, next
<1>4. /\ new.buffer = slots /\ new.first = next /\ new.size = b.size - 1 /\ new.capacity = b.capacity
      /\ IsShape(new, E)
  <2>1. Fits(E, slots, next, b.size - 1, b.capacity)
    BY <1>1, <1>2 DEF Fits
  <2> QED BY <1>3, <2>1, RingShape
<1>5. ASSUME NEW i \in 0 .. b.size - 2
      PROVE  ElementAt(new, i) = ElementAt(b, i + 1) /\ i + 1 \in 0 .. b.size - 1
  <2>1. i + 1 \in 0 .. b.size - 1 /\ i + 1 \in 0 .. b.capacity - 1 /\ i \in 0 .. b.capacity - 2
    BY <1>1
  <2>2. SlotOf(new, i) = SlotOf(b, i + 1) /\ SlotOf(b, i + 1) \in 0 .. b.capacity - 1
    BY <1>0, <1>1, <1>4, <2>1, SlotsShift, SlotInRing DEF next
  <2>3. SlotOf(b, i + 1) # b.first
    BY <1>0, <1>1, <2>1 DEF SlotOf, IsShape
  <2>4. slots[SlotOf(b, i + 1)] = b.buffer[SlotOf(b, i + 1)]
    BY <1>0, <2>2, <2>3 DEF slots, IsShape
  <2> QED BY <1>4, <2>1, <2>2, <2>4 DEF ElementAt
<1>6. Holds(new, E)
  <2> SUFFICES ASSUME NEW i \in 0 .. b.size - 2 PROVE ElementAt(new, i) \in E
    BY <1>1, <1>4 DEF Holds
  <2> QED BY <1>0, <1>5 DEF Holds
<1> QED BY <1>4, <1>5, <1>6 DEF IsBuffer

\* ... and pop_back() the last one.
LEMMA PopBackShortens ==
    ASSUME NEW E, NEW b, IsBuffer(b, E), b.size > 0,
           NEW new, new = PopBack(b)
    PROVE  /\ IsBuffer(new, E)
           /\ new.capacity = b.capacity /\ new.size = b.size - 1
           /\ \A i \in 0 .. b.size - 2 : ElementAt(new, i) = ElementAt(b, i)
<1> DEFINE last == SlotOf(b, b.size - 1)
           slots == [b.buffer EXCEPT ![last] = Vacant]
<1> HIDE DEF last
<1>0. IsShape(b, E) /\ Holds(b, E)
  BY DEF IsBuffer
<1>1. /\ b.size - 1 \in 0 .. b.capacity - 1 /\ b.size - 1 \in Nat /\ b.size - 1 <= b.capacity
      /\ b.capacity \in Nat /\ b.first \in Nat /\ b.first < b.capacity /\ b.capacity > 0
      /\ b.size \in Nat
  BY <1>0 DEF IsShape
<1>2. last \in 0 .. b.capacity - 1
  BY <1>0, <1>1, SlotInRing DEF last
<1>3. slots \in [0 .. b.capacity - 1 -> E \cup {Vacant}]
  BY <1>0, <1>2 DEF IsShape
<1>4. new = Ring(slots, b.first, b.size - 1, b.capacity)
  BY DEF PopBack, last
<1> HIDE DEF slots
<1>5. /\ new.buffer = slots /\ new.first = b.first /\ new.size = b.size - 1 /\ new.capacity = b.capacity
      /\ IsShape(new, E)
  <2>1. Fits(E, slots, b.first, b.size - 1, b.capacity)
    BY <1>1, <1>3 DEF Fits
  <2> QED BY <1>4, <2>1, RingShape
<1>6. ASSUME NEW i \in 0 .. b.size - 2
      PROVE  ElementAt(new, i) = ElementAt(b, i) /\ i \in 0 .. b.size - 1
  <2>1. i \in 0 .. b.size - 1 /\ i \in 0 .. b.capacity - 1 /\ i # b.size - 1
    BY <1>1
  <2>2. SlotOf(new, i) = SlotOf(b, i)
    BY <1>5 DEF SlotOf
  <2>3. SlotOf(b, i) # last /\ SlotOf(b, i) \in 0 .. b.capacity - 1
    BY <1>0, <1>1, <2>1, SlotInRing, SlotsDiffer DEF last
  <2>4. slots[SlotOf(b, i)] = b.buffer[SlotOf(b, i)]
    BY <1>0, <2>3 DEF slots, IsShape
  <2> QED BY <1>5, <2>1, <2>2, <2>4 DEF ElementAt
<1>7. Holds(new, E)
  <2> SUFFICES ASSUME NEW i \in 0 .. b.size - 2 PROVE ElementAt(new, i) \in E
    BY <1>1, <1>5 DEF Holds
  <2> QED BY <1>0, <1>6 DEF Holds
<1> QED BY <1>5, <1>6, <1>7 DEF IsBuffer

-----------------------------------------------------------------------------
\* An empty buffer.
LEMMA NewIsEmpty ==
    ASSUME NEW E, NEW c \in Nat, NEW new, new = NewBuffer(c)
    PROVE  IsBuffer(new, E) /\ new.size = 0 /\ new.capacity = c
<1> DEFINE slots == [i \in 0 .. c - 1 |-> Vacant]
<1>1. slots \in [0 .. c - 1 -> E \cup {Vacant}] /\ new = Ring(slots, 0, 0, c)
  BY DEF NewBuffer
<1> HIDE DEF slots
<1>2. new.size = 0 /\ new.capacity = c /\ IsShape(new, E)
  <2>1. Fits(E, slots, 0, 0, c)
    BY <1>1 DEF Fits
  <2> QED BY <1>1, <2>1, RingShape
<1> QED BY <1>2 DEF IsBuffer, Holds

\* The elements of a ring that starts at slot 0 are those of its slots.
LEMMA ElementsFromZero ==
    ASSUME NEW E, NEW b, IsShape(b, E), b.first = 0, NEW i \in 0 .. b.size - 1
    PROVE  ElementAt(b, i) = b.buffer[i] /\ i \in 0 .. b.capacity - 1
BY DEF ElementAt, SlotOf, IsShape

\* set_capacity() keeps the first elements that fit.
LEMMA SetCapacityKeepsPrefix ==
    ASSUME NEW E, NEW b, IsBuffer(b, E), NEW c \in Nat,
           NEW new, new = SetCapacity(b, c)
    PROVE  /\ IsBuffer(new, E)
           /\ new.capacity = c /\ new.size = IF c <= b.size THEN c ELSE b.size
           /\ \A i \in 0 .. new.size - 1 : ElementAt(new, i) = ElementAt(b, i)
<1> DEFINE size == IF c <= b.size THEN c ELSE b.size
           slots == [i \in 0 .. c - 1 |-> IF i < size THEN ElementAt(b, i) ELSE Vacant]
<1>0. IsShape(b, E) /\ Holds(b, E)
  BY DEF IsBuffer
<1>1. CASE c = b.capacity
  <2>1. new = b /\ b.size \in Nat /\ b.size <= c
    BY <1>0, <1>1 DEF SetCapacity, IsShape
  <2>2. size = b.size
    BY <1>1, <2>1
  <2> QED BY <1>1, <2>1, <2>2
<1>2. CASE c # b.capacity
  <2>1. size \in Nat /\ size <= c /\ size <= b.size /\ b.size \in Nat
    BY <1>0 DEF IsShape
  <2>2. new = Ring(slots, 0, size, c)
    BY <1>2 DEF SetCapacity
  <2> HIDE DEF size
  <2>3. ASSUME NEW i \in 0 .. size - 1 PROVE ElementAt(b, i) \in E
    BY <1>0, <2>1 DEF Holds
  <2>4. slots \in [0 .. c - 1 -> E \cup {Vacant}]
    BY <2>1, <2>3
  <2>5. new.buffer = slots /\ new.first = 0 /\ new.size = size /\ new.capacity = c /\ IsShape(new, E)
    <3> HIDE DEF slots
    <3>1. Fits(E, slots, 0, size, c)
      BY <2>1, <2>4 DEF Fits
    <3> QED BY <2>2, <3>1, RingShape
  <2>6. ASSUME NEW i \in 0 .. size - 1 PROVE ElementAt(new, i) = ElementAt(b, i)
    <3>1. ElementAt(new, i) = slots[i] /\ i \in 0 .. c - 1 /\ i < size
      <4> HIDE DEF slots
      <4> QED BY <2>1, <2>5, ElementsFromZero
    <3> QED BY <3>1
  <2>7. Holds(new, E)
    BY <2>3, <2>5, <2>6 DEF Holds
  <2> QED BY <2>5, <2>6, <2>7 DEF IsBuffer, size
<1> QED BY <1>1, <1>2

\* A copy has the elements of the buffer in their order, from the first slot on.
LEMMA CopyIsEqual ==
    ASSUME NEW E, NEW b, IsBuffer(b, E),
           NEW new, new = FromRange(b.capacity, Contents(b))
    PROVE  /\ IsBuffer(new, E)
           /\ new.capacity = b.capacity /\ new.size = b.size
           /\ \A i \in 0 .. b.size - 1 : ElementAt(new, i) = ElementAt(b, i)
<1> DEFINE range == Contents(b)
           size == IF b.capacity <= Len(range) THEN b.capacity ELSE Len(range)
           slots == [i \in 0 .. b.capacity - 1 |->
                       IF i < size THEN range[Len(range) - size + i + 1] ELSE Vacant]
<1>0. IsShape(b, E) /\ Holds(b, E)
  BY DEF IsBuffer
<1>1. new = Ring(slots, 0, size, b.capacity)
  BY DEF FromRange
<1>2. b.size \in Nat /\ b.capacity \in Nat /\ b.size <= b.capacity
  BY <1>0 DEF IsShape
<1>3. Len(range) = b.size /\ \A i \in 1 .. b.size : range[i] = ElementAt(b, i - 1)
  BY <1>2 DEF Contents
<1> HIDE DEF range
<1>4. size = b.size
  BY <1>2, <1>3
<1>5. ASSUME NEW i \in 0 .. b.capacity - 1
      PROVE  slots[i] = IF i < b.size THEN ElementAt(b, i) ELSE Vacant
  <2>1. CASE i < b.size
    <3>1. Len(range) - size + i + 1 \in 1 .. b.size /\ Len(range) - size + i + 1 = i + 1
      BY <1>2, <1>3, <1>4, <2>1
    <3>2. range[i + 1] = ElementAt(b, i)
      BY <1>2, <1>3, <2>1
    <3> QED BY <1>4, <2>1, <3>1, <3>2
  <2>2. CASE ~ (i < b.size)
    BY <1>4, <2>2
  <2> QED BY <2>1, <2>2
<1>6. slots = [i \in 0 .. b.capacity - 1 |-> slots[i]]
  OBVIOUS
<1> HIDE DEF slots, size
<1>7. ASSUME NEW i \in 0 .. b.size - 1 PROVE ElementAt(b, i) \in E
  BY <1>0 DEF Holds
<1>8. slots \in [0 .. b.capacity - 1 -> E \cup {Vacant}]
  <2>1. ASSUME NEW i \in 0 .. b.capacity - 1 PROVE slots[i] \in E \cup {Vacant}
    BY <1>2, <1>5, <1>7
  <2> QED BY <1>6, <2>1
<1>9. /\ new.buffer = slots /\ new.first = 0 /\ new.size = b.size /\ new.capacity = b.capacity
      /\ IsShape(new, E)
  <2>1. Fits(E, slots, 0, size, b.capacity)
    BY <1>2, <1>4, <1>8 DEF Fits
  <2> QED BY <1>1, <1>4, <2>1, RingShape
<1>10. ASSUME NEW i \in 0 .. b.size - 1 PROVE ElementAt(new, i) = ElementAt(b, i)
  <2>1. ElementAt(new, i) = slots[i] /\ i \in 0 .. b.capacity - 1 /\ i < b.size
    BY <1>2, <1>9, ElementsFromZero
  <2> QED BY <1>5, <2>1
<1>11. Holds(new, E)
  BY <1>7, <1>9, <1>10 DEF Holds
<1> QED BY <1>9, <1>10, <1>11 DEF IsBuffer

-----------------------------------------------------------------------------
(* The cache *)

\* The capacity is zero or one that reset() was called with, and a range is
\* only inserted in a cache that holds something.
CapacityIsLegal == /\ Capacity \in Capacities \cup {0}
                   /\ pending # <<>> => Capacity # 0

IInv == /\ TypeOK /\ OrderMatchesCache /\ HasFreeBucket
        /\ IsBuffer(order, Keys) /\ IsFiniteSet(Present) /\ CapacityIsLegal

-----------------------------------------------------------------------------
\* The positions of the order and the keys that are present correspond.
Matches(b, keys) ==
    /\ \A i \in 0 .. b.size - 1 : ElementAt(b, i) \in keys
    /\ \A k \in keys : \E i \in 0 .. b.size - 1 : ElementAt(b, i) = k
    /\ \A i, j \in 0 .. b.size - 1 : ElementAt(b, i) = ElementAt(b, j) => i = j

\* The same, as the invariant of the cache states it.
LEMMA MatchesAsSets ==
    ASSUME NEW b, NEW keys
    PROVE  Matches(b, keys) <=>
             /\ {ElementAt(b, i) : i \in 0 .. b.size - 1} = keys
             /\ \A i, j \in 0 .. b.size - 1 : ElementAt(b, i) = ElementAt(b, j) => i = j
BY DEF Matches

\* A new key goes to the end of the order; the key at its front leaves.
LEMMA AddToFull ==
    ASSUME NEW E, NEW b, IsBuffer(b, E), NEW k \in E, b.size = b.capacity, b.capacity > 0,
           NEW keys, Matches(b, keys), k \notin keys,
           NEW new, new = EmplaceBack(b, k)
    PROVE  Matches(new, (keys \cup {k}) \ {Front(b)})
<1>1. /\ new.size = b.size /\ b.size \in Nat /\ b.size > 0
      /\ \A i \in 0 .. b.size - 2 : ElementAt(new, i) = ElementAt(b, i + 1)
      /\ ElementAt(new, b.size - 1) = k
  BY EmplaceBackRotates DEF IsBuffer, IsShape
<1>2. Front(b) = ElementAt(b, 0)
  BY DEF Front, ElementAt, SlotOf, IsBuffer, IsShape
<1>3. /\ \A i \in 0 .. b.size - 1 : ElementAt(b, i) \in keys
      /\ \A x \in keys : \E i \in 0 .. b.size - 1 : ElementAt(b, i) = x
      /\ \A i, j \in 0 .. b.size - 1 : ElementAt(b, i) = ElementAt(b, j) => i = j
  BY DEF Matches
<1>4. ASSUME NEW i \in 0 .. b.size - 2
      PROVE  /\ i + 1 \in 0 .. b.size - 1
             /\ ElementAt(new, i) = ElementAt(b, i + 1)
             /\ ElementAt(new, i) \in keys /\ ElementAt(new, i) # Front(b)
  <2>1. i + 1 \in 0 .. b.size - 1 /\ 0 \in 0 .. b.size - 1 /\ i + 1 # 0
    BY <1>1
  <2> QED BY <1>1, <1>2, <1>3, <2>1
<1>5. Front(b) \in keys /\ Front(b) # k
  BY <1>1, <1>2, <1>3
<1>6. \A i \in 0 .. b.size - 1 : i = b.size - 1 \/ i \in 0 .. b.size - 2
  BY <1>1
<1>7. \A i \in 0 .. b.size - 1 : ElementAt(new, i) \in (keys \cup {k}) \ {Front(b)}
  BY <1>1, <1>4, <1>5, <1>6
<1>8. ASSUME NEW x \in (keys \cup {k}) \ {Front(b)}
      PROVE  \E i \in 0 .. b.size - 1 : ElementAt(new, i) = x
  <2>1. CASE x = k
    BY <1>1, <2>1
  <2>2. CASE x \in keys
    <3>1. PICK j \in 0 .. b.size - 1 : ElementAt(b, j) = x
      BY <1>3, <2>2
    <3>2. j # 0
      BY <1>2, <3>1
    <3>3. j - 1 \in 0 .. b.size - 2 /\ j - 1 \in 0 .. b.size - 1 /\ j - 1 + 1 = j
      BY <1>1, <3>2
    <3>4. ElementAt(new, j - 1) = x
      BY <1>1, <3>1, <3>3
    <3> QED BY <3>3, <3>4
  <2> QED BY <2>1, <2>2
<1>9. ASSUME NEW i \in 0 .. b.size - 1, NEW j \in 0 .. b.size - 1, ElementAt(new, i) = ElementAt(new, j)
      PROVE  i = j
  <2>1. CASE i = b.size - 1 \/ j = b.size - 1
    BY <1>1, <1>4, <1>6, <1>9, <2>1
  <2>2. CASE i # b.size - 1 /\ j # b.size - 1
    <3>1. i + 1 = j + 1
      BY <1>3, <1>4, <1>6, <1>9, <2>2
    <3> QED BY <3>1
  <2> QED BY <2>1, <2>2
<1> QED BY <1>1, <1>7, <1>8, <1>9 DEF Matches

\* A buffer with room keeps all of its keys.
LEMMA AddToRest ==
    ASSUME NEW E, NEW b, IsBuffer(b, E), NEW k \in E, b.size < b.capacity,
           NEW keys, Matches(b, keys), k \notin keys,
           NEW new, new = EmplaceBack(b, k)
    PROVE  Matches(new, keys \cup {k})
<1>1. /\ new.size = b.size + 1 /\ b.size \in Nat
      /\ \A i \in 0 .. b.size - 1 : ElementAt(new, i) = ElementAt(b, i)
      /\ ElementAt(new, b.size) = k
  BY EmplaceBackGrows DEF IsBuffer, IsShape
<1>2. /\ \A i \in 0 .. b.size - 1 : ElementAt(b, i) \in keys
      /\ \A x \in keys : \E i \in 0 .. b.size - 1 : ElementAt(b, i) = x
      /\ \A i, j \in 0 .. b.size - 1 : ElementAt(b, i) = ElementAt(b, j) => i = j
  BY DEF Matches
<1>3. 0 .. new.size - 1 = (0 .. b.size - 1) \cup {b.size}
  BY <1>1
<1> QED BY <1>1, <1>2, <1>3 DEF Matches

-----------------------------------------------------------------------------
\* A cache without storage has the invariant ...
LEMMA InitIInv == Init => IInv
<1> SUFFICES ASSUME Init PROVE IInv
  OBVIOUS
<1>1. cache = <<>> /\ buckets = 1 /\ order = NewBuffer(0) /\ pending = <<>>
  BY DEF Init
<1>2. IsBuffer(order, Keys) /\ order.size = 0 /\ order.capacity = 0
  BY <1>1, NewIsEmpty
<1>3. Present = {} /\ cache \in [Present -> Values] /\ IsFiniteSet(Present)
  BY <1>1, FS_EmptySet DEF Present
<1>4. order \in Buffers(0, Keys)
  BY <1>2, BufferIsTyped DEF IsBuffer
<1>5. pending \in Seq(Pairs)
  BY <1>1
<1>6. TypeOK
  BY <1>1, <1>3, <1>4, <1>5 DEF TypeOK
<1>7. OrderMatchesCache
  BY <1>2, <1>3 DEF OrderMatchesCache
<1> QED BY <1>1, <1>2, <1>3, <1>6, <1>7 DEF IInv, HasFreeBucket, CapacityIsLegal, Capacity

\* Adding a key that was not present keeps the invariant.
LEMMA AddNewStep ==
    ASSUME IInv, NEW k \in Keys, NEW v \in Values, k \notin Present, Capacity # 0,
           AddNew(k, v), pending' \in Seq(Pairs)
    PROVE  IInv'
<1> DEFINE added == Present \cup {k}
<1>1. /\ IsBuffer(order, Keys) /\ Matches(order, Present) /\ IsFiniteSet(Present)
      /\ cache \in [Present -> Values] /\ Present \subseteq Keys
      /\ buckets \in Nat /\ buckets >= Capacity + 1 /\ Capacity \in Capacities \cup {0}
  BY MatchesAsSets DEF OrderMatchesCache, IInv, TypeOK, HasFreeBucket, CapacityIsLegal
<1>2. /\ Capacity = order.capacity /\ Capacity \in Nat /\ Capacity > 0
      /\ order.size \in Nat /\ order.size <= Capacity
  BY <1>1 DEF IsBuffer, IsShape, Capacity
<1>3. order' = EmplaceBack(order, k) /\ buckets' = Larger(buckets, Cardinality(added))
  BY DEF AddNew
<1>4. IsFiniteSet(added) /\ Cardinality(added) \in Nat
  BY <1>1, FS_AddElement, FS_CardinalityType
<1>5. buckets' \in Nat /\ buckets' >= Capacity + 1
  BY <1>1, <1>2, <1>3, <1>4 DEF Larger
<1>6. WithEntry(k, v) \in [added -> Values]
  BY <1>1 DEF WithEntry
<1>7. /\ IsBuffer(order', Keys) /\ Capacity' = Capacity /\ Matches(order', Present')
      /\ cache' \in [Present' -> Values] /\ Present' \subseteq added
  <2>1. CASE IsFull(order)
    <3>1. cache' = Without(WithEntry(k, v), Front(order))
      BY <2>1 DEF AddNew
    <3>2. Present' = added \ {Front(order)} /\ cache' \in [Present' -> Values]
      BY <1>6, <3>1 DEF Without, Present
    <3>3. order.size = order.capacity /\ order.capacity > 0
      BY <1>2, <2>1 DEF IsFull
    <3>4. IsBuffer(order', Keys) /\ order'.capacity = order.capacity
      BY <1>1, <1>3, <3>3, EmplaceBackRotates
    <3>5. Matches(order', added \ {Front(order)})
      BY <1>1, <1>3, <3>3, AddToFull
    <3> QED BY <3>2, <3>4, <3>5 DEF Capacity
  <2>2. CASE ~ IsFull(order)
    <3>1. cache' = WithEntry(k, v)
      BY <2>2 DEF AddNew
    <3>2. Present' = added /\ cache' \in [Present' -> Values]
      BY <1>6, <3>1 DEF Present
    <3>3. order.size < order.capacity
      BY <1>2, <2>2 DEF IsFull
    <3>4. IsBuffer(order', Keys) /\ order'.capacity = order.capacity
      BY <1>1, <1>3, <3>3, EmplaceBackGrows
    <3>5. Matches(order', added)
      BY <1>1, <1>3, <3>3, AddToRest
    <3> QED BY <3>2, <3>4, <3>5 DEF Capacity
  <2> QED BY <2>1, <2>2
<1>8. Present' \subseteq Keys /\ IsFiniteSet(Present')
  BY <1>1, <1>4, <1>7, FS_Subset
<1>9. order' \in Buffers(Capacity, Keys)
  BY <1>7, BufferIsTyped DEF IsBuffer, Capacity
<1>10. TypeOK'
  BY <1>1, <1>5, <1>7, <1>8, <1>9 DEF TypeOK
<1>11. OrderMatchesCache'
  BY <1>7, MatchesAsSets DEF OrderMatchesCache
<1> QED BY <1>1, <1>2, <1>5, <1>7, <1>8, <1>10, <1>11 DEF IInv, HasFreeBucket, CapacityIsLegal

\* Assigning a key that is present leaves the order alone.
LEMMA AssignStep ==
    ASSUME IInv, NEW k \in Keys, NEW v \in Values, k \in Present, Capacity # 0,
           Assign(k, v), pending' \in Seq(Pairs)
    PROVE  IInv' /\ Present' = Present /\ order' = order
<1>1. cache' = WithEntry(k, v) /\ buckets' = buckets /\ order' = order
  BY DEF Assign
<1>2. cache \in [Present -> Values]
  BY DEF IInv, TypeOK
<1>3. Present' = Present /\ cache' \in [Present -> Values]
  BY <1>1, <1>2 DEF WithEntry, Present
<1>4. Capacity' = Capacity
  BY <1>1 DEF Capacity
<1> QED BY <1>1, <1>3, <1>4 DEF IInv, TypeOK, OrderMatchesCache, HasFreeBucket, CapacityIsLegal

\* Together: insert() of one pair.
LEMMA InsertPairStep ==
    ASSUME IInv, NEW k \in Keys, NEW v \in Values, Capacity # 0,
           InsertPair(k, v), pending' \in Seq(Pairs)
    PROVE  IInv'
BY AddNewStep, AssignStep DEF InsertPair

\* So does emptying the cache, with the same or another capacity.
LEMMA EmptyStep ==
    ASSUME IInv, NEW c \in Capacities \cup {0},
           cache' = <<>>, order' = NewBuffer(c), buckets' \in Nat, buckets' >= c + 1,
           pending = <<>>, pending' = pending
    PROVE  IInv'
<1>1. c \in Nat
  BY CacheAssumption
<1>2. IsBuffer(order', Keys) /\ order'.size = 0 /\ Capacity' = c
  BY <1>1, NewIsEmpty DEF Capacity
<1>3. Present' = {} /\ cache' \in [Present' -> Values] /\ IsFiniteSet(Present')
  BY FS_EmptySet DEF Present
<1>4. order' \in Buffers(c, Keys)
  BY <1>2, BufferIsTyped DEF IsBuffer, Capacity
<1>5. TypeOK'
  BY <1>3, <1>4 DEF TypeOK
<1>6. Matches(order', Present')
  BY <1>2, <1>3 DEF Matches
<1>7. OrderMatchesCache'
  BY <1>6, MatchesAsSets DEF OrderMatchesCache
<1> QED BY <1>2, <1>3, <1>5, <1>7 DEF IInv, HasFreeBucket, CapacityIsLegal

\* And so does a copy, whose buffer starts at its first slot.
LEMMA CopyStep ==
    ASSUME IInv, CopyAssign
    PROVE  /\ IInv'
           /\ order'.size = order.size /\ order'.capacity = order.capacity
           /\ \A i \in 0 .. order.size - 1 : ElementAt(order', i) = ElementAt(order, i)
<1>1. IsBuffer(order, Keys) /\ Matches(order, Present) /\ Capacity \in Capacities \cup {0}
  BY MatchesAsSets DEF OrderMatchesCache, IInv, CapacityIsLegal
<1>2. /\ order' = FromRange(order.capacity, Contents(order))
      /\ buckets' = Capacity + 1 /\ cache' = cache /\ pending' = pending /\ Present' = Present
  BY DEF CopyAssign, Capacity, Present
<1>3. /\ IsBuffer(order', Keys) /\ order'.capacity = order.capacity /\ order'.size = order.size
      /\ \A i \in 0 .. order.size - 1 : ElementAt(order', i) = ElementAt(order, i)
  BY <1>1, <1>2, CopyIsEqual
<1>4. Capacity' = Capacity /\ Capacity \in Nat
  BY <1>1, <1>3 DEF Capacity, IsBuffer, IsShape
<1>5. Matches(order', Present')
  BY <1>1, <1>2, <1>3 DEF Matches
<1>6. OrderMatchesCache'
  BY <1>5, MatchesAsSets DEF OrderMatchesCache
<1>7. order' \in Buffers(Capacity, Keys)
  BY <1>3, BufferIsTyped DEF IsBuffer, Capacity
<1>8. TypeOK'
  BY <1>1, <1>2, <1>4, <1>7 DEF TypeOK, IInv
<1> QED BY <1>2, <1>3, <1>4, <1>6, <1>8 DEF IInv, HasFreeBucket, CapacityIsLegal

\* ... and every operation keeps it.
LEMMA NextIInv == IInv /\ [Next]_vars => IInv'
<1> SUFFICES ASSUME IInv, [Next]_vars PROVE IInv'
  OBVIOUS
<1>0. pending \in Seq(Pairs) /\ buckets \in Nat /\ buckets >= Capacity + 1
      /\ Capacity \in Nat /\ Capacity \in Capacities \cup {0} /\ Capacity = order.capacity
  BY DEF IInv, TypeOK, HasFreeBucket, CapacityIsLegal, IsBuffer, IsShape, Capacity
<1>1. CASE \E k \in Keys, v \in Values : Insert(k, v)
  BY <1>0, <1>1, InsertPairStep DEF Insert
<1>2. CASE \E k \in Keys, v \in Values : TryInsert(k, v)
  BY <1>0, <1>2, AddNewStep DEF TryInsert
<1>3. CASE \E n \in 0 .. MaxRange : \E range \in [1 .. n -> Pairs] : InsertRange(range)
  <2>1. PICK n \in 0 .. MaxRange : \E range \in [1 .. n -> Pairs] : InsertRange(range)
    BY <1>3
  <2>2. PICK range \in [1 .. n -> Pairs] : InsertRange(range)
    BY <2>1
  <2> DEFINE m == IF Capacity <= Len(range) THEN Capacity ELSE Len(range)
  <2>3. n \in Nat /\ Len(range) = n /\ range \in Seq(Pairs)
    BY <2>2, CacheAssumption
  <2>4. m \in Nat /\ m <= n
    BY <1>0, <2>3
  <2>5. pending' = SubSeq(range, n - m + 1, n)
    BY <2>2, <2>3 DEF InsertRange, LastOf
  <2> HIDE DEF m
  <2>6. /\ n - m + 1 \in Int /\ n \in Int
        /\ \A i \in n - m + 1 .. n : range[i] \in Pairs
    BY <2>2, <2>3, <2>4
  <2>7. SubSeq(range, n - m + 1, n) \in Seq(Pairs)
    BY <2>6, SubSeqProperties
  <2>8. pending' \in Seq(Pairs)
    BY <2>5, <2>7
  <2>9. Capacity # 0 /\ cache' = cache /\ buckets' = buckets /\ order' = order
    BY <2>2 DEF InsertRange
  <2> QED BY <2>8, <2>9 DEF IInv, TypeOK, OrderMatchesCache, HasFreeBucket, CapacityIsLegal,
                            Capacity, Present
<1>4. CASE InsertNext
  <2>1. pending # <<>> /\ Head(pending) \in Pairs /\ Tail(pending) \in Seq(Pairs)
    BY <1>0, <1>4, HeadTailProperties DEF InsertNext
  <2>2. Head(pending).key \in Keys /\ Head(pending).value \in Values
    BY <2>1 DEF Pairs
  <2>3. Capacity # 0
    BY <2>1 DEF IInv, CapacityIsLegal
  <2> QED BY <1>4, <2>1, <2>2, <2>3, InsertPairStep DEF InsertNext
<1>5. CASE Clear
  BY <1>0, <1>5, EmptyStep DEF Clear, Cleared
<1>6. CASE \E c \in Capacities : Reset(c)
  <2>1. PICK c \in Capacities : Reset(c)
    BY <1>6
  <2>2. c \in Nat
    BY CacheAssumption
  <2>3. buckets' \in Nat /\ buckets' >= c + 1
    BY <1>0, <2>1, <2>2 DEF Reset, Larger
  <2> QED BY <2>1, <2>3, EmptyStep DEF Reset, ResetTo
<1>7. CASE CopyAssign
  BY <1>7, CopyStep
<1>8. CASE UNCHANGED vars
  BY <1>8 DEF vars, IInv, TypeOK, OrderMatchesCache, HasFreeBucket, CapacityIsLegal, Capacity, Present
<1> QED BY <1>1, <1>2, <1>3, <1>4, <1>5, <1>6, <1>7, <1>8 DEF Next

-----------------------------------------------------------------------------
\* The inductive invariant of the cache.
THEOREM Invariance == Spec => []IInv
BY InitIInv, NextIInv, PTL DEF Spec

\* Every state of the cache is one of its type (fifo_cache and circular_buffer).
THEOREM TypeCorrect == Spec => []TypeOK
<1>1. IInv => TypeOK
  BY DEF IInv
<1> QED BY <1>1, Invariance, PTL

\* No iterator of the order dangles, and none is missing or there twice.
THEOREM OrderIsExact == Spec => []OrderMatchesCache
<1>1. IInv => OrderMatchesCache
  BY DEF IInv
<1> QED BY <1>1, Invariance, PTL

\* The entry that is added before one is erased always finds a bucket.
THEOREM NeverRehashes == Spec => []HasFreeBucket
<1>1. IInv => HasFreeBucket
  BY DEF IInv
<1> QED BY <1>1, Invariance, PTL

-----------------------------------------------------------------------------
\* The pairs of the order, oldest first: what stands for the abstract entries.
EntriesOf(b, f) ==
    [i \in 1 .. b.size |-> [key |-> ElementAt(b, i - 1), value |-> f[ElementAt(b, i - 1)]]]

\* They are a sequence of the pairs of the map, one for every key.
LEMMA EntriesShape ==
    ASSUME NEW b, IsBuffer(b, Keys), NEW present, NEW f \in [present -> Values],
           Matches(b, present)
    PROVE  /\ EntriesOf(b, f) \in Seq(Pairs)
           /\ Len(EntriesOf(b, f)) = b.size /\ b.size \in Nat
           /\ \A i \in 1 .. b.size :
                 /\ i - 1 \in 0 .. b.size - 1
                 /\ EntriesOf(b, f)[i].key = ElementAt(b, i - 1)
                 /\ EntriesOf(b, f)[i].value = f[ElementAt(b, i - 1)]
                 /\ EntriesOf(b, f)[i] = Map!Entry(ElementAt(b, i - 1), f[ElementAt(b, i - 1)])
           /\ Map!KeysOf(EntriesOf(b, f)) = present
<1> DEFINE key(i) == ElementAt(b, i - 1)
           e == EntriesOf(b, f)
<1>1. b.size \in Nat /\ Holds(b, Keys)
  BY DEF IsBuffer, IsShape
<1>2. e = [i \in 1 .. b.size |-> [key |-> key(i), value |-> f[key(i)]]]
  BY DEF EntriesOf
<1>3. ASSUME NEW i \in 1 .. b.size
      PROVE  /\ i - 1 \in 0 .. b.size - 1
             /\ key(i) \in Keys /\ key(i) \in present /\ f[key(i)] \in Values
  <2>1. i - 1 \in 0 .. b.size - 1
    BY <1>1
  <2> QED BY <1>1, <2>1 DEF Holds, Matches
<1>4. \A k \in present : \E i \in 1 .. b.size : key(i) = k
  <2> SUFFICES ASSUME NEW k \in present PROVE \E i \in 1 .. b.size : key(i) = k
    OBVIOUS
  <2>1. PICK j \in 0 .. b.size - 1 : ElementAt(b, j) = k
    BY DEF Matches
  <2>2. j + 1 \in 1 .. b.size /\ j + 1 - 1 = j
    BY <1>1
  <2> QED BY <2>1, <2>2
<1> HIDE DEF key, e
<1>5. DOMAIN e = 1 .. b.size /\ \A i \in 1 .. b.size : e[i] = [key |-> key(i), value |-> f[key(i)]]
  BY <1>2
<1>6. ASSUME NEW i \in 1 .. b.size
      PROVE  /\ e[i] \in Pairs /\ e[i] = Map!Entry(key(i), f[key(i)])
             /\ e[i].key = key(i) /\ e[i].value = f[key(i)]
  <2>1. e[i] = [key |-> key(i), value |-> f[key(i)]]
    BY <1>5
  <2> QED BY <1>3, <2>1 DEF Pairs, Map!Entry
<1>7. e \in [1 .. b.size -> Pairs]
  BY <1>2, <1>5, <1>6
<1>8. e \in Seq(Pairs) /\ Len(e) = b.size
  BY <1>1, <1>7
<1>9. Map!KeysOf(e) = present
  <2>1. \A k \in Map!KeysOf(e) : \E i \in 1 .. b.size : k = key(i)
    BY <1>5, <1>6 DEF Map!KeysOf
  <2>2. \A i \in 1 .. b.size : key(i) \in Map!KeysOf(e)
    BY <1>5, <1>6 DEF Map!KeysOf
  <2> QED BY <1>3, <1>4, <2>1, <2>2
<1> QED BY <1>1, <1>3, <1>6, <1>8, <1>9 DEF key, e

\* The refinement mapping of the cache, unprimed and primed.
LEMMA MapEntries ==
    /\ Map!Init <=> EntriesOf(order, cache) = <<>> /\ order.capacity = 0
    /\ \A k \in Keys, v \in Values :
          /\ Map!Insert(k, v) <=>
                /\ EntriesOf(order', cache')
                      = Map!InsertEntry(EntriesOf(order, cache), order.capacity, k, v)
                /\ order'.capacity = order.capacity
          /\ Map!TryInsert(k, v) <=>
                /\ EntriesOf(order', cache')
                      = Map!TryInsertEntry(EntriesOf(order, cache), order.capacity, k, v)
                /\ order'.capacity = order.capacity
    /\ Map!Clear <=> EntriesOf(order', cache') = <<>> /\ order'.capacity = order.capacity
    /\ \A c \in Capacities : Map!Reset(c) <=> EntriesOf(order', cache') = <<>> /\ order'.capacity = c
    /\ (UNCHANGED Map!mapVars) <=>
          EntriesOf(order', cache') = EntriesOf(order, cache) /\ order'.capacity = order.capacity
BY Zenon DEF EntriesOf, Map!Init, Map!Insert, Map!TryInsert, Map!Clear, Map!Reset, Map!mapVars

\* A new key appends its entry, and costs a full map its oldest one.
LEMMA AddNewRefines ==
    ASSUME IInv, IInv', NEW k \in Keys, NEW v \in Values, k \notin Present, Capacity # 0,
           AddNew(k, v)
    PROVE  /\ EntriesOf(order', cache') = Map!AddEntry(EntriesOf(order, cache), order.capacity, k, v)
           /\ order'.capacity = order.capacity
<1> DEFINE e == EntriesOf(order, cache)
           new == EntriesOf(order', cache')
<1>1. /\ IsBuffer(order, Keys) /\ Matches(order, Present) /\ cache \in [Present -> Values]
      /\ IsBuffer(order', Keys) /\ Matches(order', Present') /\ cache' \in [Present' -> Values]
  BY MatchesAsSets DEF OrderMatchesCache, IInv, TypeOK
<1>2. /\ e \in Seq(Pairs) /\ Len(e) = order.size /\ order.size \in Nat
      /\ \A i \in 1 .. order.size :
            /\ i - 1 \in 0 .. order.size - 1
            /\ e[i] = Map!Entry(ElementAt(order, i - 1), cache[ElementAt(order, i - 1)])
  BY <1>1, EntriesShape
<1>3. /\ new \in Seq(Pairs) /\ Len(new) = order'.size
      /\ \A i \in 1 .. order'.size :
            /\ i - 1 \in 0 .. order'.size - 1
            /\ new[i] = Map!Entry(ElementAt(order', i - 1), cache'[ElementAt(order', i - 1)])
  BY <1>1, EntriesShape
<1>4. /\ order' = EmplaceBack(order, k)
      /\ order.capacity \in Nat /\ order.capacity > 0 /\ order.size <= order.capacity
  BY <1>1 DEF AddNew, Capacity, IsBuffer, IsShape
<1>5. Map!Entry(k, v) \in Pairs
  BY DEF Map!Entry, Pairs
<1>6. \A x \in Present' : cache'[x] = IF x = k THEN v ELSE cache[x]
  BY DEF AddNew, WithEntry, Without, Present
<1>7. \A i \in 0 .. order'.size - 1 : ElementAt(order', i) \in Present'
  BY <1>1 DEF Matches
<1>8. \A i \in 0 .. order.size - 1 : ElementAt(order, i) # k
  BY <1>1 DEF Matches
<1> HIDE DEF e, new
<1>9. CASE order.size = order.capacity
  <2>1. /\ order'.capacity = order.capacity /\ order'.size = order.size
        /\ \A i \in 0 .. order.size - 2 : ElementAt(order', i) = ElementAt(order, i + 1)
        /\ ElementAt(order', order.size - 1) = k
    BY <1>1, <1>4, <1>9, EmplaceBackRotates
  <2> DEFINE t == Append(Tail(e), Map!Entry(k, v))
  <2>2. e # <<>> /\ order.size > 0
    BY <1>2, <1>4, <1>9
  <2>3. /\ Tail(e) \in Seq(Pairs) /\ Len(Tail(e)) = order.size - 1
        /\ \A i \in 1 .. order.size - 1 : Tail(e)[i] = e[i + 1]
    BY <1>2, <2>2, HeadTailProperties
  <2>4. /\ t \in Seq(Pairs) /\ Len(t) = order.size
        /\ \A i \in 1 .. order.size - 1 : t[i] = e[i + 1]
        /\ t[order.size] = Map!Entry(k, v)
    BY <1>2, <1>5, <2>3, AppendProperties
  <2> HIDE DEF t
  <2>5. ASSUME NEW i \in 1 .. order.size PROVE new[i] = t[i]
    <3>1. CASE i = order.size
      <4>1. new[i] = Map!Entry(k, v)
        BY <1>2, <1>3, <1>6, <1>7, <2>1, <3>1
      <4> QED BY <2>4, <3>1, <4>1
    <3>2. CASE i # order.size
      <4>1. /\ i \in 1 .. order.size - 1 /\ i + 1 \in 1 .. order.size /\ i + 1 - 1 = i
            /\ i - 1 \in 0 .. order.size - 2 /\ i - 1 + 1 = i /\ i \in 0 .. order.size - 1
            /\ i - 1 \in 0 .. order.size - 1
        BY <1>2, <3>2
      <4>2. ElementAt(order', i - 1) = ElementAt(order, i)
        BY <2>1, <4>1
      <4>3. cache'[ElementAt(order', i - 1)] = cache[ElementAt(order, i)]
        BY <1>6, <1>7, <1>8, <2>1, <4>1, <4>2
      <4>4. new[i] = e[i + 1]
        BY <1>2, <1>3, <2>1, <4>1, <4>2, <4>3
      <4> QED BY <2>4, <4>1, <4>4
    <3> QED BY <3>1, <3>2
  <2>6. new = t
    BY <1>3, <2>1, <2>4, <2>5, SeqEqual
  <2> QED BY <1>2, <1>9, <2>1, <2>6 DEF Map!AddEntry, e, new, t
<1>10. CASE order.size < order.capacity
  <2>1. /\ order'.capacity = order.capacity /\ order'.size = order.size + 1
        /\ \A i \in 0 .. order.size - 1 : ElementAt(order', i) = ElementAt(order, i)
        /\ ElementAt(order', order.size) = k
    BY <1>1, <1>4, <1>10, EmplaceBackGrows
  <2> DEFINE t == Append(e, Map!Entry(k, v))
  <2>2. /\ t \in Seq(Pairs) /\ Len(t) = order.size + 1
        /\ \A i \in 1 .. order.size : t[i] = e[i]
        /\ t[order.size + 1] = Map!Entry(k, v)
    BY <1>2, <1>5, AppendProperties
  <2> HIDE DEF t
  <2>3. ASSUME NEW i \in 1 .. order.size + 1 PROVE new[i] = t[i]
    <3>1. CASE i = order.size + 1
      <4>1. i - 1 = order.size /\ i - 1 \in 0 .. order'.size - 1 /\ i \in 1 .. order'.size
        BY <1>2, <2>1, <3>1
      <4>2. new[i] = Map!Entry(k, v)
        BY <1>3, <1>6, <1>7, <2>1, <4>1
      <4> QED BY <2>2, <3>1, <4>2
    <3>2. CASE i # order.size + 1
      <4>1. /\ i \in 1 .. order.size /\ i \in 1 .. order'.size
            /\ i - 1 \in 0 .. order.size - 1 /\ i - 1 \in 0 .. order'.size - 1
        BY <1>2, <2>1, <3>2
      <4>2. ElementAt(order', i - 1) = ElementAt(order, i - 1)
        BY <2>1, <4>1
      <4>3. cache'[ElementAt(order', i - 1)] = cache[ElementAt(order, i - 1)]
        BY <1>6, <1>7, <1>8, <4>1, <4>2
      <4>4. new[i] = e[i]
        BY <1>2, <1>3, <4>1, <4>2, <4>3
      <4> QED BY <2>2, <4>1, <4>4
    <3> QED BY <3>1, <3>2
  <2>4. new = t
    BY <1>2, <1>3, <2>1, <2>2, <2>3, SeqEqual
  <2> QED BY <1>2, <1>10, <2>1, <2>4 DEF Map!AddEntry, e, new, t
<1> QED BY <1>2, <1>4, <1>9, <1>10

\* A key that is present keeps its place and gets the value.
LEMMA AssignRefines ==
    ASSUME IInv, NEW k \in Keys, NEW v \in Values, k \in Present, Assign(k, v)
    PROVE  /\ EntriesOf(order', cache') = Map!AssignEntry(EntriesOf(order, cache), k, v)
           /\ order'.capacity = order.capacity
<1> DEFINE e == EntriesOf(order, cache)
<1>1. order' = order /\ cache' = WithEntry(k, v)
  BY DEF Assign
<1>2. IsBuffer(order, Keys) /\ Matches(order, Present) /\ cache \in [Present -> Values]
  BY MatchesAsSets DEF OrderMatchesCache, IInv, TypeOK
<1>3. /\ e \in Seq(Pairs) /\ Len(e) = order.size /\ order.size \in Nat
      /\ \A i \in 1 .. order.size :
            /\ i - 1 \in 0 .. order.size - 1
            /\ e[i].key = ElementAt(order, i - 1)
            /\ e[i] = Map!Entry(ElementAt(order, i - 1), cache[ElementAt(order, i - 1)])
  BY <1>2, EntriesShape
<1>4. \A i \in 0 .. order.size - 1 : ElementAt(order, i) \in Present
  BY <1>2 DEF Matches
<1>5. \A x \in Present : cache'[x] = IF x = k THEN v ELSE cache[x]
  BY <1>1 DEF WithEntry
<1>6. ASSUME NEW i \in 1 .. order.size
      PROVE  [key |-> ElementAt(order, i - 1), value |-> cache'[ElementAt(order, i - 1)]]
                = IF e[i].key = k THEN Map!Entry(k, v) ELSE e[i]
  BY <1>3, <1>4, <1>5 DEF Map!Entry
<1>7. DOMAIN e = 1 .. order.size
  BY DEF EntriesOf
<1> HIDE DEF e
<1>8. EntriesOf(order', cache') = Map!AssignEntry(e, k, v)
  BY <1>1, <1>6, <1>7 DEF EntriesOf, Map!AssignEntry
<1> QED BY <1>1, <1>8 DEF e

\* The keys of the entries are those of the cache.
LEMMA EntriesKeys == IInv => Map!KeysOf(EntriesOf(order, cache)) = Present
<1> SUFFICES ASSUME IInv PROVE Map!KeysOf(EntriesOf(order, cache)) = Present
  OBVIOUS
<1>1. Matches(order, Present)
  BY MatchesAsSets DEF OrderMatchesCache, IInv
<1>2. IsBuffer(order, Keys)
  BY DEF IInv
<1>3. cache \in [Present -> Values]
  BY DEF IInv, TypeOK, Present
<1> QED BY <1>1, <1>2, <1>3, EntriesShape

\* insert() of one pair is one abstract insertion.
LEMMA InsertPairRefines ==
    ASSUME IInv, IInv', NEW k \in Keys, NEW v \in Values, Capacity # 0, InsertPair(k, v)
    PROVE  Map!Insert(k, v)
<1>1. Map!KeysOf(EntriesOf(order, cache)) = Present
  BY EntriesKeys
<1>2. CASE k \in Present
  <2>1. Assign(k, v)
    BY <1>2 DEF InsertPair
  <2> QED BY <1>1, <1>2, <2>1, AssignRefines, MapEntries DEF Map!InsertEntry, Capacity
<1>3. CASE k \notin Present
  <2>1. AddNew(k, v)
    BY <1>3 DEF InsertPair
  <2> QED BY <1>1, <1>3, <2>1, AddNewRefines, MapEntries DEF Map!InsertEntry, Capacity
<1> QED BY <1>2, <1>3

\* An empty order stands for no entries.
LEMMA EmptyEntries ==
    ASSUME NEW b, b.size = 0, NEW f
    PROVE  EntriesOf(b, f) = <<>>
BY DEF EntriesOf

\* Every step of the cache is a step of the abstract map or leaves it unchanged.
LEMMA NextRefines == IInv /\ IInv' /\ [Next]_vars => [Map!Next]_(Map!mapVars)
<1> SUFFICES ASSUME IInv, IInv', [Next]_vars
             PROVE  Map!Next \/ UNCHANGED Map!mapVars
  OBVIOUS
<1>0. order.capacity \in Nat /\ pending \in Seq(Pairs)
  BY DEF IInv, TypeOK, IsBuffer, IsShape
<1>1. ASSUME NEW k \in Keys, NEW v \in Values, Insert(k, v) PROVE Map!Next
  <2>1. Map!Insert(k, v)
    BY <1>1, InsertPairRefines DEF Insert
  <2> QED BY <2>1 DEF Map!Next
<1>2. ASSUME NEW k \in Keys, NEW v \in Values, TryInsert(k, v) PROVE Map!Next
  <2>1. Map!KeysOf(EntriesOf(order, cache)) = Present
    BY EntriesKeys
  <2>2. Map!TryInsert(k, v)
    BY <1>2, <2>1, AddNewRefines, MapEntries DEF TryInsert, Map!TryInsertEntry, Capacity
  <2> QED BY <2>2 DEF Map!Next
<1>3. ASSUME NEW n \in 0 .. MaxRange, NEW range \in [1 .. n -> Pairs], InsertRange(range)
      PROVE  UNCHANGED Map!mapVars
  BY <1>3, MapEntries DEF InsertRange
<1>4. CASE InsertNext
  <2>1. pending # <<>> /\ Head(pending) \in Pairs
    BY <1>0, <1>4, HeadTailProperties DEF InsertNext
  <2>2. Head(pending).key \in Keys /\ Head(pending).value \in Values /\ Capacity # 0
    BY <2>1 DEF Pairs, IInv, CapacityIsLegal
  <2>3. Map!Insert(Head(pending).key, Head(pending).value)
    BY <1>4, <2>2, InsertPairRefines DEF InsertNext
  <2> QED BY <2>2, <2>3 DEF Map!Next
<1>5. CASE Clear
  <2>1. order' = NewBuffer(order.capacity)
    BY <1>5 DEF Clear, Cleared
  <2>2. Map!Clear
    BY <1>0, <2>1, NewIsEmpty, EmptyEntries, MapEntries
  <2> QED BY <2>2 DEF Map!Next
<1>6. ASSUME NEW c \in Capacities, Reset(c) PROVE Map!Next
  <2>1. order' = NewBuffer(c) /\ c \in Nat
    BY <1>6, CacheAssumption DEF Reset, ResetTo
  <2>2. order'.size = 0 /\ order'.capacity = c
    BY <2>1, NewIsEmpty
  <2>3. EntriesOf(order', cache') = <<>>
    BY <2>2, EmptyEntries
  <2>4. Map!Reset(c)
    BY <2>2, <2>3, MapEntries
  <2> QED BY <2>4 DEF Map!Next
<1>7. CASE CopyAssign
  <2>1. /\ order'.size = order.size /\ order'.capacity = order.capacity /\ order.size \in Nat
        /\ \A i \in 0 .. order.size - 1 : ElementAt(order', i) = ElementAt(order, i)
    BY <1>7, CopyStep DEF IInv, IsBuffer, IsShape
  <2>2. \A i \in 1 .. order.size : ElementAt(order', i - 1) = ElementAt(order, i - 1)
    BY <2>1
  <2>3. cache' = cache
    BY <1>7 DEF CopyAssign
  <2>4. EntriesOf(order', cache') = EntriesOf(order, cache)
    BY <2>1, <2>2, <2>3 DEF EntriesOf
  <2> QED BY <2>1, <2>4, MapEntries
<1>8. CASE UNCHANGED vars
  BY <1>8, MapEntries DEF vars
<1> QED BY <1>1, <1>2, <1>3, <1>4, <1>5, <1>6, <1>7, <1>8 DEF Next

\* The cache is a bounded map that forgets its keys in the order in which they
\* were first inserted (what the comment of fifo_cache promises).
THEOREM Refinement == Spec => ImplementsFifoMap
<1>1. Init => Map!Init
  <2> SUFFICES ASSUME Init PROVE Map!Init
    OBVIOUS
  <2>1. order.size = 0 /\ order.capacity = 0
    BY NewIsEmpty DEF Init
  <2> QED BY <2>1, EmptyEntries, MapEntries
<1>2. Spec => []IInv
  BY Invariance
<1> QED BY <1>1, <1>2, NextRefines, PTL DEF Spec, ImplementsFifoMap, Map!Spec

-----------------------------------------------------------------------------
(* The bitset: positions *)

IsDivided(x, m, q, d) == q \in Nat /\ d \in 0 .. m - 1 /\ x = q * m + d

LEMMA QuotientExists ==
    ASSUME NEW m \in Nat \ {0}, NEW x \in Nat
    PROVE  IsDivided(x, m, x \div m, x % m)
BY DEF IsDivided

LEMMA QuotientIsUnique ==
    ASSUME NEW m \in Nat \ {0}, NEW q \in Nat, NEW d \in 0 .. m - 1
    PROVE  (q * m + d) \div m = q /\ (q * m + d) % m = d
<1> DEFINE x == q * m + d
<1>1. x \in Nat OBVIOUS
<1> HIDE DEF x
<1>2. PICK p \in Nat, e \in 0 .. m - 1 : p = x \div m /\ e = x % m /\ x = p * m + e
  BY <1>1
<1>3. x = q * m + d BY DEF x
<1>4. ~ (p - q >= 1)
  <2> SUFFICES ASSUME p - q >= 1 PROVE FALSE OBVIOUS
  <2>1. (p - q) * m = d - e BY <1>2, <1>3
  <2>2. (p - q) * m = m + (p - q - 1) * m OBVIOUS
  <2>3. (p - q - 1) * m >= 0 OBVIOUS
  <2> QED BY <2>1, <2>2, <2>3
<1>5. ~ (q - p >= 1)
  <2> SUFFICES ASSUME q - p >= 1 PROVE FALSE OBVIOUS
  <2>1. (q - p) * m = e - d BY <1>2, <1>3
  <2>2. (q - p) * m = m + (q - p - 1) * m OBVIOUS
  <2>3. (q - p - 1) * m >= 0 OBVIOUS
  <2> QED BY <2>1, <2>2, <2>3
<1>6. p = q BY <1>4, <1>5
<1> QED BY <1>2, <1>3, <1>6 DEF x

\* The block and the offset of a bit.
Quotient(i) == i \div BlockSize
Offset(i) == i % BlockSize
At(q, o) == q * BlockSize + o

LEMMA BitHasPlace ==
    ASSUME NEW i \in Nat
    PROVE  /\ BlockSize \in Nat \ {0}
           /\ Quotient(i) \in Nat /\ Offset(i) \in Ones /\ Offset(i) \in Nat
           /\ At(Quotient(i), Offset(i)) = i
<1>1. BlockSize \in Nat \ {0} BY DbAssumption
<1>2. IsDivided(i, BlockSize, Quotient(i), Offset(i))
  BY <1>1, QuotientExists DEF Quotient, Offset
<1> QED BY <1>1, <1>2 DEF IsDivided, At, Ones

LEMMA PlaceHasBit ==
    ASSUME NEW q \in Nat, NEW o \in Ones
    PROVE  At(q, o) \in Nat /\ Quotient(At(q, o)) = q /\ Offset(At(q, o)) = o
<1>1. BlockSize \in Nat \ {0} BY DbAssumption
<1>2. o \in 0 .. BlockSize - 1 BY DEF Ones
<1>3. q * BlockSize + o \in Nat BY <1>1, <1>2
<1> QED BY <1>1, <1>2, <1>3, QuotientIsUnique DEF Quotient, Offset, At

\* Positions are ordered by blocks, then by offsets.
LEMMA PlacesAreOrdered ==
    ASSUME NEW p \in Nat, NEW q \in Nat, NEW o \in Ones, NEW r \in Ones
    PROVE  /\ p < q => At(p, o) < At(q, r)
           /\ p = q => (At(p, o) < At(q, r) <=> o < r)
<1>1. BlockSize \in Nat \ {0} BY DbAssumption
<1>2. o \in 0 .. BlockSize - 1 /\ r \in 0 .. BlockSize - 1 BY DEF Ones
<1>3. p * BlockSize \in Nat /\ q * BlockSize \in Nat BY <1>1
<1>4. ASSUME p < q PROVE p * BlockSize + BlockSize <= q * BlockSize
  <2>1. q * BlockSize = p * BlockSize + BlockSize + (q - p - 1) * BlockSize BY <1>1
  <2>2. (q - p - 1) * BlockSize \in Nat BY <1>1, <1>4
  <2> QED BY <1>1, <1>3, <2>1, <2>2
<1>5. ASSUME p < q PROVE At(p, o) < At(q, r) BY <1>1, <1>2, <1>3, <1>4, <1>5 DEF At
<1>6. ASSUME p = q PROVE At(p, o) < At(q, r) <=> o < r BY <1>1, <1>2, <1>3, <1>6 DEF At
<1> QED BY <1>5, <1>6

\* How the bits below n are spread over the blocks.
LEMMA BitsBelow ==
    ASSUME NEW n \in Nat, NEW i \in Nat
    PROVE  i < n <=> \/ Quotient(i) < Quotient(n)
                     \/ Quotient(i) = Quotient(n) /\ Offset(i) < Offset(n)
<1>1. Quotient(i) \in Nat /\ Offset(i) \in Ones /\ Offset(i) \in Nat
      /\ At(Quotient(i), Offset(i)) = i
  BY BitHasPlace
<1>2. Quotient(n) \in Nat /\ Offset(n) \in Ones /\ Offset(n) \in Nat
      /\ At(Quotient(n), Offset(n)) = n
  BY BitHasPlace
<1>3. CASE Quotient(i) < Quotient(n) BY <1>1, <1>2, <1>3, PlacesAreOrdered
<1>4. CASE Quotient(i) = Quotient(n)
  <2>1. i < n <=> Offset(i) < Offset(n) BY <1>1, <1>2, <1>4, PlacesAreOrdered
  <2> QED BY <1>1, <1>2, <1>4, <2>1
<1>5. CASE Quotient(n) < Quotient(i)
  <2>1. n < i BY <1>1, <1>2, <1>5, PlacesAreOrdered
  <2> QED BY <1>1, <1>2, <1>5, <2>1
<1> QED BY <1>1, <1>2, <1>3, <1>4, <1>5

LEMMA BlockCounts ==
    ASSUME NEW n \in Nat
    PROVE  /\ BlocksFor(n) \in Nat
           /\ BlocksFor(n) = Quotient(n) + (IF Offset(n) = 0 THEN 0 ELSE 1)
           /\ \A i \in 0 .. n - 1 : Quotient(i) + 1 \in 1 .. BlocksFor(n)
           /\ n > 0 <=> BlocksFor(n) > 0
<1>1. Quotient(n) \in Nat /\ Offset(n) \in Nat BY BitHasPlace
<1>2. BlocksFor(n) = Quotient(n) + (IF Offset(n) = 0 THEN 0 ELSE 1)
  BY DEF BlocksFor, Quotient, Offset
<1>3. BlocksFor(n) \in Nat BY <1>1, <1>2
<1>4. ASSUME NEW i \in 0 .. n - 1 PROVE Quotient(i) + 1 \in 1 .. BlocksFor(n)
  <2>1. i \in Nat /\ i < n OBVIOUS
  <2>2. Quotient(i) \in Nat /\ Offset(i) \in Nat BY <2>1, BitHasPlace
  <2>3. \/ Quotient(i) < Quotient(n)
        \/ Quotient(i) = Quotient(n) /\ Offset(i) < Offset(n)
    BY <2>1, BitsBelow
  <2> QED BY <1>1, <1>2, <2>2, <2>3
<1>5. n > 0 => BlocksFor(n) > 0
  <2> SUFFICES ASSUME n > 0 PROVE BlocksFor(n) > 0 OBVIOUS
  <2>1. 0 \in 0 .. n - 1 OBVIOUS
  <2> QED BY <1>3, <1>4, <2>1
<1>6. n = 0 => BlocksFor(n) = 0
  <2> SUFFICES ASSUME n = 0 PROVE BlocksFor(n) = 0 OBVIOUS
  <2>1. 0 \in Ones BY DbAssumption DEF Ones
  <2>2. At(0, 0) = 0 BY DbAssumption DEF At
  <2>3. Quotient(0) = 0 /\ Offset(0) = 0 BY <2>1, <2>2, PlaceHasBit
  <2> QED BY <1>2, <2>3
<1> QED BY <1>2, <1>3, <1>4, <1>5, <1>6

-----------------------------------------------------------------------------
(* The bitset: operations *)

BitOf(blocks, i) == Offset(i) \in blocks[Quotient(i) + 1]

IsBlocks(blocks, n) == blocks \in [1 .. BlocksFor(n) -> SUBSET Ones]

\* The bits of the blocks are those of the vector, but for the unfilled ones.
Shows(blocks, n, model, unfilled) ==
    \A i \in 0 .. n - 1 : i \in unfilled \/ (BitOf(blocks, i) <=> model[i + 1])

IsBitset(blocks, n, model, unfilled) ==
    /\ n \in Nat /\ IsBlocks(blocks, n)
    /\ model \in [1 .. n -> BOOLEAN]
    /\ Shows(blocks, n, model, unfilled)

\* The inductive invariant.
DbInv == IsBitset(dbBlocks, dbSize, dbModel, dbUnfilled)

LEMMA BitsetNext ==
    ASSUME NEW blocks, NEW n, NEW model, NEW unfilled, dbBlocks' = blocks, dbSize' = n,
           dbModel' = model, dbUnfilled' = unfilled, IsBitset(blocks, n, model, unfilled)
    PROVE  DbInv'
BY DEF DbInv

LEMMA BlockOfIsBlock ==
    ASSUME NEW v \in BOOLEAN
    PROVE  BlockOf(v) \in SUBSET Ones /\ \A o \in Ones : o \in BlockOf(v) <=> v
BY DEF BlockOf

LEMMA EmptyBitset == IsBitset(<<>>, 0, <<>>, {})
<1>1. BlocksFor(0) = 0
  <2>1. BlocksFor(0) \in Nat /\ ~ (BlocksFor(0) > 0) BY BlockCounts
  <2> QED BY <2>1
<1>2. IsBlocks(<<>>, 0) BY <1>1 DEF IsBlocks
<1>3. <<>> \in [1 .. 0 -> BOOLEAN] OBVIOUS
<1>4. Shows(<<>>, 0, <<>>, {}) BY DEF Shows
<1> QED BY <1>2, <1>3, <1>4 DEF IsBitset

LEMMA UniformBitset ==
    ASSUME NEW n \in Nat, NEW v \in BOOLEAN
    PROVE  IsBitset([b \in 1 .. BlocksFor(n) |-> BlockOf(v)], n, Uniform(n, v), {})
<1> DEFINE blocks == [b \in 1 .. BlocksFor(n) |-> BlockOf(v)]
<1>1. IsBlocks(blocks, n) BY BlockOfIsBlock DEF IsBlocks
<1>2. Uniform(n, v) \in [1 .. n -> BOOLEAN] BY DEF Uniform
<1>3. ASSUME NEW i \in 0 .. n - 1 PROVE BitOf(blocks, i) <=> Uniform(n, v)[i + 1]
  <2>1. Quotient(i) + 1 \in 1 .. BlocksFor(n) BY BlockCounts
  <2>2. Offset(i) \in Ones
    <3>1. i \in Nat OBVIOUS
    <3> QED BY <3>1, BitHasPlace
  <2>3. BitOf(blocks, i) <=> v BY <2>1, <2>2, BlockOfIsBlock DEF BitOf
  <2>4. Uniform(n, v)[i + 1] = v BY DEF Uniform
  <2> QED BY <2>3, <2>4
<1> HIDE DEF blocks
<1>4. Shows(blocks, n, Uniform(n, v), {}) BY <1>3 DEF Shows
<1>5. IsBitset(blocks, n, Uniform(n, v), {}) BY <1>1, <1>2, <1>4 DEF IsBitset
<1> QED BY <1>5 DEF blocks

LEMMA ConstructStep ==
    ASSUME NEW n \in 0 .. MaxBits, NEW v \in BOOLEAN, Construct(n, v)
    PROVE  DbInv'
<1>1. n \in Nat BY DbAssumption
<1> QED BY <1>1, UniformBitset, BitsetNext DEF Construct

LEMMA FillStep ==
    ASSUME DbInv, NEW v \in BOOLEAN, Fill(v)
    PROVE  DbInv'
<1>1. dbSize \in Nat /\ DOMAIN dbBlocks = 1 .. BlocksFor(dbSize) BY DEF DbInv, IsBitset, IsBlocks
<1>2. /\ dbBlocks' = [b \in 1 .. BlocksFor(dbSize) |-> BlockOf(v)]
      /\ dbSize' = dbSize /\ dbModel' = Uniform(dbSize, v) /\ dbUnfilled' = {}
  BY <1>1 DEF Fill
<1> QED BY <1>1, <1>2, UniformBitset, BitsetNext

LEMMA ClearBitsStep ==
    ASSUME ClearBits PROVE DbInv'
BY EmptyBitset, BitsetNext DEF ClearBits

LEMMA ComplementStep ==
    ASSUME DbInv, Complement
    PROVE  DbInv'
<1> DEFINE n == dbSize
           blocks == [b \in DOMAIN dbBlocks |-> Ones \ dbBlocks[b]]
           model == [i \in DOMAIN dbModel |-> ~ dbModel[i]]
<1>1. n \in Nat /\ dbBlocks \in [1 .. BlocksFor(n) -> SUBSET Ones]
      /\ dbModel \in [1 .. n -> BOOLEAN] /\ Shows(dbBlocks, n, dbModel, dbUnfilled)
  BY DEF DbInv, IsBitset, IsBlocks
<1>2. dbBlocks' = blocks /\ dbSize' = n /\ dbModel' = model /\ dbUnfilled' = dbUnfilled
  BY DEF Complement
<1>3. IsBlocks(blocks, n) BY <1>1 DEF IsBlocks
<1>4. model \in [1 .. n -> BOOLEAN] BY <1>1
<1>5. ASSUME NEW i \in 0 .. n - 1, i \notin dbUnfilled
      PROVE  BitOf(blocks, i) <=> model[i + 1]
  <2>1. Quotient(i) + 1 \in 1 .. BlocksFor(n) BY <1>1, BlockCounts
  <2>2. Offset(i) \in Ones
    <3>1. i \in Nat BY <1>1
    <3> QED BY <3>1, BitHasPlace
  <2>3. i + 1 \in 1 .. n BY <1>1
  <2>4. BitOf(dbBlocks, i) <=> dbModel[i + 1] BY <1>1, <1>5 DEF Shows
  <2>5. BitOf(blocks, i) <=> ~ BitOf(dbBlocks, i) BY <1>1, <2>1, <2>2 DEF BitOf
  <2>6. model[i + 1] = ~ dbModel[i + 1] BY <1>1, <2>3
  <2> QED BY <2>4, <2>5, <2>6
<1> HIDE DEF blocks, model
<1>6. Shows(blocks, n, model, dbUnfilled) BY <1>5 DEF Shows
<1>7. IsBitset(blocks, n, model, dbUnfilled) BY <1>1, <1>3, <1>4, <1>6 DEF IsBitset
<1> QED BY <1>2, <1>7, BitsetNext

\* A bit that is written changes no other.
LEMMA WrittenBitset ==
    ASSUME DbInv, NEW i \in 0 .. dbSize - 1, NEW v \in BOOLEAN, NEW unfilled,
           dbUnfilled \subseteq unfilled \cup {i}
    PROVE  IsBitset(WithBit(dbBlocks, i, v), dbSize, [dbModel EXCEPT ![i + 1] = v], unfilled)
<1> DEFINE n == dbSize
           blocks == WithBit(dbBlocks, i, v)
           model == [dbModel EXCEPT ![i + 1] = v]
           q == Quotient(i) + 1
           block == IF v THEN dbBlocks[q] \cup {Offset(i)} ELSE dbBlocks[q] \ {Offset(i)}
<1>1. n \in Nat /\ dbBlocks \in [1 .. BlocksFor(n) -> SUBSET Ones]
      /\ dbModel \in [1 .. n -> BOOLEAN] /\ Shows(dbBlocks, n, dbModel, dbUnfilled)
  BY DEF DbInv, IsBitset, IsBlocks
<1>2. i \in Nat /\ q \in 1 .. BlocksFor(n) /\ Offset(i) \in Ones
  <2>1. i \in Nat BY <1>1
  <2> QED BY <1>1, <2>1, BitHasPlace, BlockCounts
<1>3. blocks = [dbBlocks EXCEPT ![q] = block] BY DEF WithBit, Quotient, Offset
<1>4. block \in SUBSET Ones BY <1>1, <1>2
<1> HIDE DEF blocks
<1>5. IsBlocks(blocks, n) BY <1>1, <1>3, <1>4 DEF IsBlocks
<1>6. model \in [1 .. n -> BOOLEAN] BY <1>1
<1>7. ASSUME NEW j \in 0 .. n - 1, j \notin unfilled
      PROVE  BitOf(blocks, j) <=> model[j + 1]
  <2>1. j \in Nat /\ j + 1 \in 1 .. n BY <1>1
  <2>2. Quotient(j) + 1 \in 1 .. BlocksFor(n) /\ Offset(j) \in Ones /\ Quotient(j) \in Nat
    BY <1>1, <2>1, BitHasPlace, BlockCounts
  <2>3. CASE j = i
    <3>1. model[j + 1] = v BY <1>1, <2>1, <2>3
    <3>2. blocks[q] = block BY <1>1, <1>2, <1>3
    <3>3. BitOf(blocks, j) <=> v BY <2>3, <3>2 DEF BitOf
    <3> QED BY <3>1, <3>3
  <2>4. CASE j # i
    <3>1. model[j + 1] = dbModel[j + 1] BY <1>1, <1>2, <2>1, <2>4
    <3>2. BitOf(dbBlocks, j) <=> dbModel[j + 1] BY <1>1, <1>7, <2>4 DEF Shows
    <3>3. BitOf(blocks, j) <=> BitOf(dbBlocks, j)
      <4>1. CASE Quotient(j) = Quotient(i)
        <5>1. Offset(j) # Offset(i)
          <6>1. At(Quotient(j), Offset(j)) = j /\ At(Quotient(i), Offset(i)) = i
            BY <1>2, <2>1, BitHasPlace
          <6> QED BY <2>4, <4>1, <6>1
        <5>2. blocks[Quotient(j) + 1] = block BY <1>1, <1>2, <1>3, <4>1
        <5> QED BY <4>1, <5>1, <5>2 DEF BitOf
      <4>2. CASE Quotient(j) # Quotient(i)
        <5>1. Quotient(i) \in Nat BY <1>2, BitHasPlace
        <5>2. Quotient(j) + 1 # q BY <2>2, <4>2, <5>1
        <5> HIDE DEF q, block
        <5>3. blocks[Quotient(j) + 1] = dbBlocks[Quotient(j) + 1] BY <1>1, <1>3, <2>2, <5>2
        <5> QED BY <5>3 DEF BitOf
      <4> QED BY <4>1, <4>2
    <3> QED BY <3>1, <3>2, <3>3
  <2> QED BY <2>3, <2>4
<1> HIDE DEF model
<1>8. Shows(blocks, n, model, unfilled) BY <1>7 DEF Shows
<1>9. IsBitset(blocks, n, model, unfilled) BY <1>1, <1>5, <1>6, <1>8 DEF IsBitset
<1> QED BY <1>9 DEF blocks, model

LEMMA AssignBitStep ==
    ASSUME DbInv, NEW i \in 0 .. MaxBits - 1, NEW v \in BOOLEAN, AssignBit(i, v)
    PROVE  DbInv'
<1>1. dbSize \in Nat BY DEF DbInv, IsBitset
<1>2. i \in 0 .. dbSize - 1 /\ dbUnfilled \subseteq (dbUnfilled \ {i}) \cup {i}
  BY <1>1, DbAssumption DEF AssignBit
<1>3. IsBitset(WithBit(dbBlocks, i, v), dbSize, [dbModel EXCEPT ![i + 1] = v], dbUnfilled \ {i})
  BY <1>2, WrittenBitset
<1> QED BY <1>3, BitsetNext DEF AssignBit

\* The bit that is flipped may be an unfilled one: it stays so.
LEMMA FlipBitStep ==
    ASSUME DbInv, NEW i \in 0 .. MaxBits - 1, FlipBit(i)
    PROVE  DbInv'
<1>1. dbSize \in Nat /\ dbModel \in [1 .. dbSize -> BOOLEAN] BY DEF DbInv, IsBitset
<1>2. i \in 0 .. dbSize - 1 /\ i + 1 \in 1 .. dbSize BY <1>1, DbAssumption DEF FlipBit
<1> DEFINE v == ~ Bit(i)
<1>3. v \in BOOLEAN OBVIOUS
<1>4. IsBitset(WithBit(dbBlocks, i, v), dbSize, [dbModel EXCEPT ![i + 1] = v], dbUnfilled)
  <2> HIDE DEF v
  <2> QED BY <1>2, <1>3, WrittenBitset
<1> DEFINE model == [dbModel EXCEPT ![i + 1] = ~ dbModel[i + 1]]
           blocks == WithBit(dbBlocks, i, v)
<1>5. dbBlocks' = blocks /\ dbSize' = dbSize /\ dbModel' = model /\ dbUnfilled' = dbUnfilled
  BY DEF FlipBit
<1>6. IsBitset(blocks, dbSize, model, dbUnfilled)
  <2>1. IsBlocks(blocks, dbSize) /\ Shows(blocks, dbSize, [dbModel EXCEPT ![i + 1] = v], dbUnfilled)
    BY <1>4 DEF IsBitset
  <2>2. model \in [1 .. dbSize -> BOOLEAN] BY <1>1, <1>2
  <2>3. Shows(dbBlocks, dbSize, dbModel, dbUnfilled) BY DEF DbInv, IsBitset
  <2>4. (BitOf(dbBlocks, i) <=> Bit(i)) BY DEF BitOf, Bit, Quotient, Offset
  <2> HIDE DEF blocks
  <2>5. ASSUME NEW j \in 0 .. dbSize - 1, j \notin dbUnfilled
        PROVE  BitOf(blocks, j) <=> model[j + 1]
    <3>0. j + 1 \in 1 .. dbSize BY <1>1
    <3>1. BitOf(blocks, j) <=> [dbModel EXCEPT ![i + 1] = v][j + 1] BY <2>1, <2>5 DEF Shows
    <3>2. CASE j = i
      <4>1. BitOf(dbBlocks, i) <=> dbModel[i + 1] BY <2>3, <2>5, <3>2 DEF Shows
      <4>2. [dbModel EXCEPT ![i + 1] = v][j + 1] = v BY <1>1, <1>2, <3>2
      <4>3. model[j + 1] = ~ dbModel[i + 1] BY <1>1, <1>2, <3>2
      <4>4. v <=> ~ dbModel[i + 1] BY <2>4, <4>1
      <4> QED BY <3>1, <4>2, <4>3, <4>4
    <3>3. CASE j # i
      <4>1. [dbModel EXCEPT ![i + 1] = v][j + 1] = dbModel[j + 1] BY <1>1, <1>2, <3>0, <3>3
      <4>2. model[j + 1] = dbModel[j + 1] BY <1>1, <1>2, <3>0, <3>3
      <4> QED BY <3>1, <4>1, <4>2
    <3> QED BY <3>2, <3>3
  <2> HIDE DEF model
  <2>6. Shows(blocks, dbSize, model, dbUnfilled) BY <2>5 DEF Shows
  <2> QED BY <1>1, <2>1, <2>2, <2>6 DEF IsBitset
<1> HIDE DEF blocks, model
<1> QED BY <1>5, <1>6, BitsetNext

\* Growing writes the bits from the old end on, but for the ones that are skipped.
LEMMA ResizeBitsStep ==
    ASSUME DbInv, NEW n \in 0 .. MaxBits, NEW v \in BOOLEAN, ResizeBits(n, v)
    PROVE  DbInv'
<1> DEFINE m == dbSize
           k == BlocksFor(n)
           resized == Resized(dbBlocks, k, v)
           blocks == IF n > m THEN Extended(resized, v) ELSE resized
           model == [i \in 1 .. n |-> IF i <= m THEN dbModel[i] ELSE v]
           unfilled == {i \in dbUnfilled \cup SkippedBits(n) : i < n}
<1>1. m \in Nat /\ dbBlocks \in [1 .. BlocksFor(m) -> SUBSET Ones]
      /\ dbModel \in [1 .. m -> BOOLEAN] /\ Shows(dbBlocks, m, dbModel, dbUnfilled)
  BY DEF DbInv, IsBitset, IsBlocks
<1>2. n \in Nat BY DbAssumption
<1>3. dbBlocks' = blocks /\ dbSize' = n /\ dbModel' = model /\ dbUnfilled' = unfilled
  BY DEF ResizeBits
<1>4. k \in Nat /\ BlocksFor(m) \in Nat /\ Len(dbBlocks) = BlocksFor(m)
  <2>1. k \in Nat /\ BlocksFor(m) \in Nat BY <1>1, <1>2, BlockCounts
  <2> QED BY <1>1, <2>1
<1> HIDE DEF k
<1>5. resized \in [1 .. k -> SUBSET Ones]
      /\ \A b \in 1 .. k : resized[b] = IF b <= BlocksFor(m) THEN dbBlocks[b] ELSE BlockOf(v)
  <2>1. resized = [b \in 1 .. k |-> IF b <= BlocksFor(m) THEN dbBlocks[b] ELSE BlockOf(v)]
    BY <1>4 DEF Resized
  <2>2. BlockOf(v) \in SUBSET Ones BY BlockOfIsBlock
  <2>3. \A b \in 1 .. k : b <= BlocksFor(m) => dbBlocks[b] \in SUBSET Ones BY <1>1, <1>4
  <2> QED BY <2>1, <2>2, <2>3
<1> HIDE DEF resized
<1> DEFINE kept == Offset(m)
           last == (resized[k] \cap MaskRightN(kept)) \cup (BlockOf(v) \ MaskRightN(kept))
<1>6. n > m => k > 0 /\ blocks = [resized EXCEPT ![k] = last]
  <2> SUFFICES ASSUME n > m PROVE k > 0 /\ blocks = [resized EXCEPT ![k] = last] OBVIOUS
  <2>1. k > 0
    <3>1. n > 0 BY <1>1, <1>2
    <3> QED BY <1>2, <3>1, BlockCounts DEF k
  <2>2. Len(resized) = k BY <1>4, <1>5
  <2>3. blocks = Extended(resized, v) OBVIOUS
  <2>4. PartialBlockMask = MaskRightN(kept) BY DEF PartialBlockMask, PartialBlockSize, Offset
  <2> QED BY <2>1, <2>2, <2>3, <2>4 DEF Extended
<1>7. n <= m => blocks = resized BY <1>1, <1>2
<1>8. kept \in Nat BY <1>1, BitHasPlace
<1>9. \A o \in Ones : o \in last <=> IF o < kept THEN o \in resized[k] ELSE v
  <2>1. \A o \in Ones : o \in MaskRightN(kept) <=> o < kept
    BY <1>8, DbAssumption DEF MaskRightN, Ones
  <2> QED BY <2>1, BlockOfIsBlock
<1>10. k > 0 => last \in SUBSET Ones
  <2> SUFFICES ASSUME k > 0 PROVE last \in SUBSET Ones OBVIOUS
  <2>1. resized[k] \in SUBSET Ones BY <1>4, <1>5
  <2> QED BY <2>1, BlockOfIsBlock
<1> HIDE DEF blocks, kept, last
<1>11. IsBlocks(blocks, n)
  <2>1. CASE n > m BY <1>4, <1>5, <1>6, <1>10, <2>1 DEF IsBlocks, k
  <2>2. CASE n <= m BY <1>5, <1>7, <2>2 DEF IsBlocks, k
  <2> QED BY <1>1, <1>2, <2>1, <2>2
<1>12. model \in [1 .. n -> BOOLEAN] BY <1>1, <1>2
<1>13. ASSUME NEW i \in 0 .. n - 1, i \notin unfilled
       PROVE  BitOf(blocks, i) <=> model[i + 1]
  <2> DEFINE q == Quotient(i)
             o == Offset(i)
  <2>1. i \in Nat /\ i < n /\ i + 1 \in 1 .. n /\ i \notin dbUnfilled /\ i \notin SkippedBits(n)
    BY <1>2, <1>13
  <2>2. q \in Nat /\ o \in Ones /\ o \in Nat BY <2>1, BitHasPlace
  <2>3. q + 1 \in 1 .. k BY <1>2, BlockCounts DEF k
  <2>4. i < m => q + 1 \in 1 .. BlocksFor(m)
    <3>1. i < m => i \in 0 .. m - 1 BY <1>1, <2>1
    <3> QED BY <1>1, <3>1, BlockCounts
  <2>5. i < m => /\ resized[q + 1] = dbBlocks[q + 1]
                 /\ (o \in resized[q + 1] <=> dbModel[i + 1])
    <3> SUFFICES ASSUME i < m PROVE /\ resized[q + 1] = dbBlocks[q + 1]
                                    /\ (o \in resized[q + 1] <=> dbModel[i + 1])
      OBVIOUS
    <3>1. i \in 0 .. m - 1 BY <1>1, <2>1
    <3>2. BitOf(dbBlocks, i) <=> dbModel[i + 1] BY <1>1, <2>1, <3>1 DEF Shows
    <3>3. q + 1 <= BlocksFor(m) BY <1>4, <2>4
    <3>4. resized[q + 1] = dbBlocks[q + 1] BY <1>5, <2>3, <3>3
    <3> QED BY <3>2, <3>4 DEF BitOf
  <2>6. model[i + 1] = IF i < m THEN dbModel[i + 1] ELSE v BY <1>1, <2>1
  <2>7. Quotient(m) \in Nat /\ BlocksFor(m) = Quotient(m) + (IF kept = 0 THEN 0 ELSE 1)
    BY <1>1, BitHasPlace, BlockCounts DEF kept
  <2>8. i < m <=> q < Quotient(m) \/ (q = Quotient(m) /\ o < kept)
    BY <1>1, <2>1, BitsBelow DEF kept
  <2>9. BitOf(blocks, i) <=> o \in blocks[q + 1] BY DEF BitOf
  <2> HIDE DEF q, o, model
  <2>10. CASE n <= m
    <3>1. i < m BY <1>1, <1>2, <2>1, <2>10
    <3> QED BY <1>7, <2>5, <2>6, <2>9, <2>10, <3>1
  <2>11. CASE n > m /\ i < m
    <3>1. CASE q + 1 # k
      <4>1. blocks[q + 1] = resized[q + 1] BY <1>5, <1>6, <2>3, <2>11, <3>1
      <4> QED BY <2>5, <2>6, <2>9, <2>11, <4>1
    <3>2. CASE q + 1 = k
      <4>1. blocks[q + 1] = last BY <1>4, <1>5, <1>6, <2>3, <2>11, <3>2
      <4>2. k >= BlocksFor(m)
        <5>1. m \in 0 .. n - 1 BY <1>1, <1>2, <2>11
        <5>2. Quotient(m) + 1 \in 1 .. k BY <1>2, <5>1, BlockCounts DEF k
        <5> QED BY <1>4, <2>7, <5>2
      <4>3. q = Quotient(m) /\ o < kept
        <5>1. ~ (q < Quotient(m))
          <6> SUFFICES ASSUME q < Quotient(m) PROVE FALSE OBVIOUS
          <6>1. m \in 0 .. n - 1 BY <1>1, <1>2, <2>11
          <6>2. Quotient(m) + 1 \in 1 .. k BY <1>2, <6>1, BlockCounts DEF k
          <6> QED BY <1>4, <2>2, <2>7, <3>2, <6>2
        <5> QED BY <2>8, <2>11, <5>1
      <4>4. o \in last <=> o \in resized[k] BY <1>9, <2>2, <4>3
      <4> QED BY <2>5, <2>6, <2>9, <2>11, <3>2, <4>1, <4>4
    <3> QED BY <3>1, <3>2
  <2>12. CASE n > m /\ ~ (i < m)
    <3>1. model[i + 1] = v BY <2>6, <2>12
    <3>2. CASE q + 1 = k
      <4>1. blocks[q + 1] = last BY <1>4, <1>5, <1>6, <2>3, <2>12, <3>2
      <4>2. CASE ~ (o < kept) BY <1>9, <2>2, <2>9, <3>1, <4>1, <4>2
      <4>3. CASE o < kept
        <5>1. q > Quotient(m) /\ kept > 0 BY <1>8, <2>2, <2>7, <2>8, <2>12, <4>3
        <5>2. k > BlocksFor(m) BY <1>4, <2>2, <2>7, <3>2, <5>1
        <5>3. resized[k] = BlockOf(v) BY <1>4, <1>5, <5>2
        <5>4. o \in last <=> v BY <1>9, <2>2, <4>3, <5>3, BlockOfIsBlock
        <5> QED BY <2>9, <3>1, <4>1, <5>4
      <4> QED BY <4>2, <4>3
    <3>3. CASE q + 1 # k
      <4>1. blocks[q + 1] = resized[q + 1] BY <1>5, <1>6, <2>3, <2>12, <3>3
      <4>2. q + 1 > BlocksFor(m)
        <5> SUFFICES ASSUME ~ (q + 1 > BlocksFor(m)) PROVE FALSE OBVIOUS
        <5>1. q = Quotient(m) /\ kept # 0 BY <1>4, <1>8, <2>2, <2>7, <2>8, <2>12
        <5>2. k > BlocksFor(m) BY <1>4, <2>2, <2>3, <2>7, <3>3, <5>1
        <5>3. i < BlocksFor(m) * BlockSize
          <6>1. At(q, o) = i BY <2>1, BitHasPlace DEF q, o
          <6>2. o \in 0 .. BlockSize - 1 /\ BlockSize \in Nat BY <2>2, DbAssumption DEF Ones
          <6>3. BlocksFor(m) = q + 1 BY <2>7, <5>1
          <6>4. (q + 1) * BlockSize = q * BlockSize + BlockSize BY <2>2, <6>2
          <6> QED BY <2>2, <6>1, <6>2, <6>3, <6>4 DEF At
        <5>4. i \in m .. BlocksFor(m) * BlockSize - 1
          <6>1. BlocksFor(m) * BlockSize \in Nat BY <1>4, DbAssumption
          <6> QED BY <1>1, <2>1, <2>12, <5>3, <6>1
        <5>5. PartialBlockSize = kept BY DEF PartialBlockSize, kept, Offset
        <5>6. SkippedBits(n) = m .. BlocksFor(m) * BlockSize - 1
          BY <1>8, <5>1, <5>2, <5>5 DEF SkippedBits, k
        <5> QED BY <2>1, <5>4, <5>6
      <4>3. resized[q + 1] = BlockOf(v) BY <1>4, <1>5, <2>2, <2>3, <4>2
      <4> QED BY <2>2, <2>9, <3>1, <4>1, <4>3, BlockOfIsBlock
    <3> QED BY <3>2, <3>3
  <2> QED BY <1>1, <1>2, <2>10, <2>11, <2>12
<1> HIDE DEF model, unfilled
<1>14. Shows(blocks, n, model, unfilled) BY <1>13 DEF Shows
<1>15. IsBitset(blocks, n, model, unfilled) BY <1>2, <1>11, <1>12, <1>14 DEF IsBitset
<1> QED BY <1>3, <1>15, BitsetNext

LEMMA DbInvStep ==
    ASSUME DbInv, [DbNext]_dbVars
    PROVE  DbInv'
<1>1. CASE \E n \in 0 .. MaxBits, v \in BOOLEAN : Construct(n, v) BY <1>1, ConstructStep
<1>2. CASE \E n \in 0 .. MaxBits, v \in BOOLEAN : ResizeBits(n, v) BY <1>2, ResizeBitsStep
<1>3. CASE \E i \in 0 .. MaxBits - 1, v \in BOOLEAN : AssignBit(i, v) BY <1>3, AssignBitStep
<1>4. CASE \E i \in 0 .. MaxBits - 1 : FlipBit(i) BY <1>4, FlipBitStep
<1>5. CASE \E v \in BOOLEAN : Fill(v) BY <1>5, FillStep
<1>6. CASE ClearBits BY <1>6, ClearBitsStep
<1>7. CASE Complement BY <1>7, ComplementStep
<1>8. CASE UNCHANGED dbVars BY <1>8 DEF DbInv, dbVars
<1> QED BY <1>1, <1>2, <1>3, <1>4, <1>5, <1>6, <1>7, <1>8 DEF DbNext

LEMMA InvMatchesVector ==
    ASSUME DbInv PROVE BitsMatchVector
<1>1. dbSize \in Nat /\ dbBlocks \in [1 .. BlocksFor(dbSize) -> SUBSET Ones]
      /\ dbModel \in [1 .. dbSize -> BOOLEAN] /\ Shows(dbBlocks, dbSize, dbModel, dbUnfilled)
  BY DEF DbInv, IsBitset, IsBlocks
<1>2. BlocksFor(dbSize) \in Nat BY <1>1, BlockCounts
<1>3. Len(dbBlocks) = BlocksFor(dbSize) /\ Len(dbModel) = dbSize BY <1>1, <1>2
<1>4. ASSUME NEW i \in 0 .. dbSize - 1 PROVE i \in dbUnfilled \/ Bit(i) = dbModel[i + 1]
  <2>1. i \in dbUnfilled \/ (BitOf(dbBlocks, i) <=> dbModel[i + 1]) BY <1>1 DEF Shows
  <2>2. Bit(i) <=> BitOf(dbBlocks, i) BY DEF Bit, BitOf, Quotient, Offset
  <2>3. dbModel[i + 1] \in BOOLEAN /\ Bit(i) \in BOOLEAN
    <3>1. i + 1 \in 1 .. dbSize BY <1>1
    <3>2. Bit(i) \in BOOLEAN BY DEF Bit
    <3> QED BY <1>1, <3>1, <3>2
  <2> QED BY <2>1, <2>2, <2>3
<1> QED BY <1>3, <1>4 DEF BitsMatchVector

-----------------------------------------------------------------------------
(* The bitset: queries *)

LEMMA LowestOf ==
    ASSUME NEW S \in SUBSET Nat, NEW d
    PROVE  /\ S = {} => Lowest(S, d) = d
           /\ S # {} => Lowest(S, d) \in S /\ \A x \in S : Lowest(S, d) <= x
<1>1. ASSUME S # {} PROVE Min(S) \in S /\ \A x \in S : Min(S) <= x
  <2>1. \E x \in S : \A y \in S : x <= y BY <1>1, LeastNatural
  <2>2. Min(S) = CHOOSE x \in S : \A y \in S : x <= y BY DEF Min
  <2> QED BY <2>1, <2>2
<1> QED BY <1>1 DEF Lowest

LEMMA LeastOfTwo ==
    ASSUME NEW a \in Nat, NEW b \in Nat
    PROVE  Min({a, b}) = IF a <= b THEN a ELSE b
<1>1. {a, b} \in SUBSET Nat /\ {a, b} # {} OBVIOUS
<1>2. \E x \in {a, b} : \A y \in {a, b} : x <= y BY <1>1, LeastNatural
<1>3. Min({a, b}) \in {a, b} /\ \A y \in {a, b} : Min({a, b}) <= y BY <1>2 DEF Min
<1> QED BY <1>3

\* The bits below n that are set in some blocks, and where a search through the
\* blocks finds the first one.
BitsIn(C, n) == {i \in 0 .. n - 1 : BitOf(C, i)}

Found(C, n) ==
    LET b == Lowest({b \in DOMAIN C : C[b] # {}}, 0)
    IN IF b = 0 THEN n ELSE Min({n, (b - 1) * BlockSize + Lowest(C[b], BlockSize)})

LEMMA FoundIsLowest ==
    ASSUME NEW n \in Nat, NEW C, IsBlocks(C, n)
    PROVE  Found(C, n) = Lowest(BitsIn(C, n), n)
<1> DEFINE k == BlocksFor(n)
           S == {b \in DOMAIN C : C[b] # {}}
           b == Lowest(S, 0)
           o == Lowest(C[b], BlockSize)
           p == (b - 1) * BlockSize + o
<1>1. k \in Nat /\ C \in [1 .. k -> SUBSET Ones] BY BlockCounts DEF IsBlocks
<1>2. S \in SUBSET Nat /\ S = {c \in 1 .. k : C[c] # {}} BY <1>1
<1>3. BitsIn(C, n) \in SUBSET Nat /\ Ones \in SUBSET Nat
  BY DbAssumption DEF BitsIn, Ones
<1>4. ASSUME NEW i \in BitsIn(C, n)
      PROVE  /\ i \in Nat /\ i < n /\ Quotient(i) \in Nat /\ Offset(i) \in Ones
             /\ Quotient(i) + 1 \in S /\ Offset(i) \in C[Quotient(i) + 1]
             /\ At(Quotient(i), Offset(i)) = i
  <2>1. i \in 0 .. n - 1 /\ i \in Nat /\ i < n /\ BitOf(C, i) BY DEF BitsIn
  <2>2. Quotient(i) + 1 \in 1 .. k BY <2>1, BlockCounts
  <2>3. Offset(i) \in C[Quotient(i) + 1] BY <2>1 DEF BitOf
  <2>4. Quotient(i) + 1 \in S BY <1>2, <2>2, <2>3
  <2>5. Quotient(i) \in Nat /\ Offset(i) \in Ones /\ At(Quotient(i), Offset(i)) = i
    BY <2>1, BitHasPlace
  <2> HIDE DEF S
  <2> QED BY <2>1, <2>3, <2>4, <2>5
<1>5. CASE S = {}
  <2>1. BitsIn(C, n) = {} BY <1>4, <1>5
  <2>2. b = 0 BY <1>2, <1>5, LowestOf
  <2>3. Found(C, n) = n BY <2>2 DEF Found
  <2> QED BY <1>3, <2>1, <2>3, LowestOf
<1>6. CASE S # {}
  <2>1. b \in S /\ \A c \in S : b <= c BY <1>2, <1>6, LowestOf
  <2>2. b \in 1 .. k /\ C[b] # {} /\ C[b] \in SUBSET Ones BY <1>1, <1>2, <2>1
  <2>3. o \in C[b] /\ \A x \in C[b] : o <= x
    <3>1. C[b] \in SUBSET Nat BY <1>3, <2>2
    <3> HIDE DEF b
    <3> QED BY <2>2, <3>1, LowestOf
  <2>4. b # 0 /\ b - 1 \in Nat /\ o \in Ones BY <1>1, <2>2, <2>3
  <2>5. Found(C, n) = Min({n, p}) BY <2>4 DEF Found
  <2> HIDE DEF b, o, S
  <2>6. p = At(b - 1, o) BY DEF At
  <2> HIDE DEF p
  <2>7. p \in Nat /\ Quotient(p) = b - 1 /\ Offset(p) = o BY <2>4, <2>6, PlaceHasBit
  <2>8. Found(C, n) = IF n <= p THEN n ELSE p BY <2>5, <2>7, LeastOfTwo
  <2>9. ASSUME NEW i \in BitsIn(C, n) PROVE p <= i
    <3>1. Quotient(i) \in Nat /\ Offset(i) \in Ones /\ i \in Nat /\ Quotient(i) + 1 >= b
          /\ At(Quotient(i), Offset(i)) = i
      BY <1>1, <1>4, <2>1, <2>2
    <3>2. CASE Quotient(i) = b - 1
      <4>1. Quotient(i) + 1 = b BY <2>2, <3>2
      <4>2. o <= Offset(i) BY <1>4, <2>3, <4>1
      <4>3. At(Quotient(i), Offset(i)) < At(b - 1, o) <=> Offset(i) < o
        BY <2>4, <3>1, <3>2, PlacesAreOrdered
      <4>4. o \in Nat /\ Offset(i) \in Nat BY <1>3, <2>4, <3>1
      <4> QED BY <2>6, <2>7, <3>1, <4>2, <4>3, <4>4
    <3>3. CASE Quotient(i) # b - 1
      <4>1. b - 1 < Quotient(i) BY <1>1, <2>2, <2>4, <3>1, <3>3
      <4>2. At(b - 1, o) < At(Quotient(i), Offset(i)) BY <2>4, <3>1, <4>1, PlacesAreOrdered
      <4> QED BY <2>6, <2>7, <3>1, <4>2
    <3> QED BY <3>2, <3>3
  <2>10. CASE n <= p
    <3>1. BitsIn(C, n) = {}
      <4> SUFFICES ASSUME NEW i \in BitsIn(C, n) PROVE FALSE OBVIOUS
      <4>1. i < n /\ i \in Nat /\ p <= i BY <1>4, <2>9
      <4> QED BY <2>7, <2>10, <4>1
    <3> QED BY <1>3, <2>8, <2>10, <3>1, LowestOf
  <2>11. CASE ~ (n <= p)
    <3>1. p \in BitsIn(C, n)
      <4>1. p \in 0 .. n - 1 BY <2>7, <2>11
      <4>2. Quotient(p) + 1 = b BY <2>2, <2>7
      <4>3. BitOf(C, p) BY <2>3, <2>7, <4>2 DEF BitOf
      <4> QED BY <4>1, <4>3 DEF BitsIn
    <3> DEFINE l == Lowest(BitsIn(C, n), n)
    <3>2. l \in BitsIn(C, n) /\ \A x \in BitsIn(C, n) : l <= x BY <1>3, <3>1, LowestOf
    <3> HIDE DEF l
    <3>3. l <= p /\ p <= l /\ l \in Nat BY <1>3, <2>9, <3>1, <3>2
    <3>4. l = p BY <2>7, <3>3
    <3> QED BY <2>8, <2>11, <3>4 DEF l
  <2> QED BY <2>10, <2>11
<1> QED BY <1>5, <1>6

\* What is known of the blocks in every state.
LEMMA BlocksOfInv ==
    ASSUME DbInv
    PROVE  /\ dbSize \in Nat /\ IsBlocks(dbBlocks, dbSize)
           /\ BlocksFor(dbSize) \in Nat /\ DOMAIN dbBlocks = 1 .. BlocksFor(dbSize)
           /\ Len(dbBlocks) = BlocksFor(dbSize)
           /\ {i \in 0 .. dbSize - 1 : Bit(i)} = BitsIn(dbBlocks, dbSize)
<1>1. dbSize \in Nat /\ IsBlocks(dbBlocks, dbSize) BY DEF DbInv, IsBitset
<1>2. BlocksFor(dbSize) \in Nat BY <1>1, BlockCounts
<1>3. \A i : Bit(i) <=> BitOf(dbBlocks, i) BY DEF Bit, BitOf, Quotient, Offset
<1>4. {i \in 0 .. dbSize - 1 : Bit(i)} = BitsIn(dbBlocks, dbSize) BY <1>3 DEF BitsIn
<1>5. dbBlocks \in [1 .. BlocksFor(dbSize) -> SUBSET Ones] BY <1>1 DEF IsBlocks
<1> HIDE <1>4
<1>6. DOMAIN dbBlocks = 1 .. BlocksFor(dbSize) /\ Len(dbBlocks) = BlocksFor(dbSize)
  BY <1>2, <1>5
<1> QED BY <1>1, <1>2, <1>4, <1>6

LEMMA FindFirstIsExact ==
    ASSUME DbInv
    PROVE  LET ones == BitsIn(dbBlocks, dbSize)
           IN  /\ FindFirst(TRUE) = Lowest(ones, dbSize)
               /\ FindFirst(FALSE) = Lowest((0 .. dbSize - 1) \ ones, dbSize)
<1> DEFINE n == dbSize
           C == [b \in DOMAIN dbBlocks |-> Ones \ dbBlocks[b]]
           ones == BitsIn(dbBlocks, n)
<1>1. n \in Nat /\ IsBlocks(dbBlocks, n) /\ DOMAIN dbBlocks = 1 .. BlocksFor(n)
      /\ dbBlocks \in [1 .. BlocksFor(n) -> SUBSET Ones]
  BY BlocksOfInv DEF IsBlocks
<1>2. FindFirst(TRUE) = Found(dbBlocks, n)
  BY DEF FindFirst, FirstIn, NotZeros, CountrZero, Found
<1>3. FindFirst(FALSE) = Found(C, n)
  <2> DEFINE S == {b \in DOMAIN dbBlocks : dbBlocks[b] # Ones}
             b == Lowest(S, 0)
  <2>1. {c \in DOMAIN C : C[c] # {}} = S BY <1>1
  <2>2. b # 0 => C[b] = Ones \ dbBlocks[b]
    <3>1. S \in SUBSET Nat BY <1>1
    <3>2. b # 0 => b \in S
      <4> HIDE DEF S
      <4> QED BY <3>1, LowestOf
    <3> HIDE DEF b
    <3> QED BY <3>2
  <2>3. FindFirst(FALSE) = IF b = 0 THEN n
                           ELSE Min({n, (b - 1) * BlockSize + Lowest(Ones \ dbBlocks[b], BlockSize)})
    BY DEF FindFirst, FirstIn, NotOnes, CountrOne
  <2>4. Found(C, n) = IF b = 0 THEN n
                      ELSE Min({n, (b - 1) * BlockSize + Lowest(C[b], BlockSize)})
    <3> HIDE DEF S, C
    <3> QED BY <2>1 DEF Found
  <2> HIDE DEF b, C
  <2> QED BY <2>2, <2>3, <2>4
<1>4. IsBlocks(C, n) BY <1>1 DEF IsBlocks
<1>5. BitsIn(C, n) = (0 .. n - 1) \ ones
  <2>1. ASSUME NEW i \in 0 .. n - 1 PROVE BitOf(C, i) <=> ~ BitOf(dbBlocks, i)
    <3>1. i \in Nat /\ Quotient(i) + 1 \in 1 .. BlocksFor(n) BY <1>1, BlockCounts
    <3>2. Offset(i) \in Ones BY <3>1, BitHasPlace
    <3> QED BY <1>1, <3>1, <3>2 DEF BitOf
  <2> HIDE DEF C
  <2> QED BY <2>1 DEF BitsIn
<1> HIDE DEF C, ones
<1>6. Found(dbBlocks, n) = Lowest(ones, n) BY <1>1, FoundIsLowest DEF ones
<1>7. Found(C, n) = Lowest((0 .. n - 1) \ ones, n) BY <1>1, <1>4, <1>5, FoundIsLowest
<1> QED BY <1>2, <1>3, <1>6, <1>7 DEF ones

\* The blocks that are full of bits below the size, and the partial one.
LEMMA BitsOfBlocks ==
    ASSUME DbInv
    PROVE  /\ FullBlockCount = Quotient(dbSize) /\ FullBlockCount \in Nat
           /\ PartialBlockSize = Offset(dbSize) /\ PartialBlockSize \in Nat
           /\ PartialBlockSize < BlockSize
           /\ \A b \in 1 .. FullBlockCount, o \in Ones :
                /\ b \in DOMAIN dbBlocks
                /\ At(b - 1, o) \in 0 .. dbSize - 1
                /\ BitOf(dbBlocks, At(b - 1, o)) <=> o \in dbBlocks[b]
           /\ PartialBlockSize > 0 => LastBlock(dbBlocks) = dbBlocks[FullBlockCount + 1]
           /\ \A o \in Ones : o < PartialBlockSize =>
                /\ FullBlockCount + 1 \in DOMAIN dbBlocks
                /\ At(FullBlockCount, o) \in 0 .. dbSize - 1
                /\ BitOf(dbBlocks, At(FullBlockCount, o)) <=> o \in PartialBlock
           /\ PartialBlock \in SUBSET Ones /\ \A o \in PartialBlock : o < PartialBlockSize
           /\ \A i \in 0 .. dbSize - 1 :
                /\ Offset(i) \in Ones /\ i = At(Quotient(i), Offset(i))
                /\ \/ Quotient(i) + 1 \in 1 .. FullBlockCount
                   \/ Quotient(i) = FullBlockCount /\ Offset(i) < PartialBlockSize
<1> DEFINE n == dbSize
           F == FullBlockCount
           P == PartialBlockSize
<1>1. n \in Nat /\ DOMAIN dbBlocks = 1 .. BlocksFor(n) /\ BlocksFor(n) \in Nat
      /\ Len(dbBlocks) = BlocksFor(n) /\ dbBlocks \in [1 .. BlocksFor(n) -> SUBSET Ones]
  BY BlocksOfInv DEF IsBlocks
<1>2. BlockSize \in Nat \ {0} BY DbAssumption
<1>3. F = Quotient(n) /\ P = Offset(n) BY DEF FullBlockCount, PartialBlockSize, Quotient, Offset
<1>4. F \in Nat /\ P \in Nat /\ P < BlockSize
  <2>1. Quotient(n) \in Nat /\ Offset(n) \in Nat /\ Offset(n) \in Ones BY <1>1, BitHasPlace
  <2> QED BY <1>2, <1>3, <2>1 DEF Ones
<1>5. BlocksFor(n) = F + (IF P = 0 THEN 0 ELSE 1) BY <1>1, <1>3, BlockCounts
<1>6. ASSUME NEW b \in 1 .. F, NEW o \in Ones
      PROVE  /\ b \in DOMAIN dbBlocks
             /\ At(b - 1, o) \in 0 .. n - 1
             /\ BitOf(dbBlocks, At(b - 1, o)) <=> o \in dbBlocks[b]
  <2>1. b - 1 \in Nat /\ b - 1 < F /\ (b - 1) + 1 = b BY <1>4
  <2>2. At(b - 1, o) \in Nat /\ Quotient(At(b - 1, o)) = b - 1 /\ Offset(At(b - 1, o)) = o
    BY <2>1, PlaceHasBit
  <2>3. At(b - 1, o) < n BY <1>1, <1>3, <2>1, <2>2, BitsBelow
  <2> QED BY <1>1, <1>4, <1>5, <2>1, <2>2, <2>3 DEF BitOf
<1>7. P > 0 => LastBlock(dbBlocks) = dbBlocks[F + 1] BY <1>1, <1>4, <1>5 DEF LastBlock
<1>8. ASSUME NEW o \in Ones, o < P
      PROVE  /\ F + 1 \in DOMAIN dbBlocks
             /\ At(F, o) \in 0 .. n - 1
             /\ BitOf(dbBlocks, At(F, o)) <=> o \in PartialBlock
  <2>1. At(F, o) \in Nat /\ Quotient(At(F, o)) = F /\ Offset(At(F, o)) = o
    BY <1>4, PlaceHasBit
  <2>2. At(F, o) < n BY <1>1, <1>3, <1>8, <2>1, BitsBelow
  <2>3. o \in Nat BY <1>2 DEF Ones
  <2>4. o \in PartialBlock <=> o \in dbBlocks[F + 1]
    BY <1>4, <1>7, <1>8, <2>3 DEF PartialBlock, PartialBlockMask, MaskRightN
  <2>5. F + 1 \in DOMAIN dbBlocks BY <1>1, <1>4, <1>5, <1>8, <2>3
  <2> QED BY <1>1, <2>1, <2>2, <2>4, <2>5 DEF BitOf
<1>9. PartialBlock \in SUBSET Ones /\ \A o \in PartialBlock : o < P
  BY <1>2, <1>4 DEF PartialBlock, PartialBlockMask, MaskRightN, Ones
<1>10. ASSUME NEW i \in 0 .. n - 1
       PROVE  /\ Offset(i) \in Ones /\ i = At(Quotient(i), Offset(i))
              /\ \/ Quotient(i) + 1 \in 1 .. F
                 \/ Quotient(i) = F /\ Offset(i) < P
  <2>1. i \in Nat /\ i < n BY <1>1
  <2>2. Quotient(i) \in Nat /\ Offset(i) \in Ones /\ i = At(Quotient(i), Offset(i))
    BY <2>1, BitHasPlace
  <2>3. Quotient(i) < F \/ (Quotient(i) = F /\ Offset(i) < P) BY <1>1, <1>3, <2>1, BitsBelow
  <2> QED BY <1>4, <2>2, <2>3
<1> QED BY <1>3, <1>4, <1>6, <1>7, <1>8, <1>9, <1>10

-----------------------------------------------------------------------------
(* The bitset: counting *)

OnesOfBlock(S, q) == {i \in S : Quotient(i) = q}
OnesOfBlocks(S, T) == {i \in S : Quotient(i) + 1 \in T}

\* A block counts the bits at its places.
LEMMA BlockIsCounted ==
    ASSUME NEW S \in SUBSET Nat, NEW q \in Nat, NEW block \in SUBSET Ones,
           \A o \in block : At(q, o) \in S,
           \A i \in S : Quotient(i) = q => Offset(i) \in block
    PROVE  /\ IsFiniteSet(OnesOfBlock(S, q))
           /\ Cardinality(OnesOfBlock(S, q)) = Cardinality(block)
           /\ Cardinality(block) \in Nat
<1> DEFINE f == [o \in block |-> At(q, o)]
           R == OnesOfBlock(S, q)
<1>1. IsFiniteSet(block) /\ Cardinality(block) \in Nat
  <2>1. IsFiniteSet(Ones) BY DbAssumption, FS_Interval DEF Ones
  <2> QED BY <2>1, FS_Subset, FS_CardinalityType
<1>2. ASSUME NEW o \in block PROVE f[o] \in R /\ Offset(f[o]) = o
  BY PlaceHasBit DEF OnesOfBlock
<1>3. ASSUME NEW i \in R PROVE \E o \in block : f[o] = i
  <2>1. i \in Nat /\ Quotient(i) = q /\ Offset(i) \in block BY DEF OnesOfBlock
  <2>2. At(q, Offset(i)) = i BY <2>1, BitHasPlace
  <2> QED BY <2>1, <2>2
<1> HIDE DEF R
<1>4. f \in [block -> R] BY <1>2
<1>5. \A o, r \in block : f[o] = f[r] => o = r
  <2> SUFFICES ASSUME NEW o \in block, NEW r \in block, f[o] = f[r] PROVE o = r OBVIOUS
  <2> HIDE DEF f
  <2> QED BY <1>2
<1> HIDE DEF f
<1>6. f \in Bijection(block, R)
  BY <1>3, <1>4, <1>5 DEF Bijection, Injection, IsInjective, Surjection
<1>7. ExistsBijection(block, R) BY <1>6 DEF ExistsBijection
<1> QED BY <1>1, <1>7, FS_Bijection DEF R

\* Two parts of a finite set without a common element.
LEMMA PartsAdd ==
    ASSUME NEW A, IsFiniteSet(A), NEW B, IsFiniteSet(B), A \cap B = {}, NEW C, C = A \cup B
    PROVE  /\ IsFiniteSet(C) /\ Cardinality(C) \in Nat
           /\ Cardinality(C) = Cardinality(A) + Cardinality(B)
<1>1. IsFiniteSet(C) /\ Cardinality(C) \in Nat /\ Cardinality(A) \in Nat /\ Cardinality(B) \in Nat
  BY FS_Union, FS_CardinalityType
<1>2. Cardinality(C) = Cardinality(A) + Cardinality(B) - Cardinality(A \cap B) BY FS_Union
<1>3. Cardinality(A \cap B) = 0 BY FS_EmptySet
<1> QED BY <1>1, <1>2, <1>3

\* The counts of the full blocks add up to the ones in them.
LEMMA FullBlocksAreCounted ==
    ASSUME DbInv
    PROVE  LET ones == BitsIn(dbBlocks, dbSize)
           IN  MapThenSumSet(LAMBDA b : Cardinality(dbBlocks[b]), 1 .. FullBlockCount)
                 = Cardinality(OnesOfBlocks(ones, 1 .. FullBlockCount))
<1> DEFINE D == 1 .. FullBlockCount
           S == BitsIn(dbBlocks, dbSize)
           size(T) == Cardinality(OnesOfBlocks(S, T))
           Defines(it) == it = [s \in SUBSET D |->
                                  IF s = {} THEN 0
                                  ELSE LET b == CHOOSE b \in s : TRUE
                                       IN  Cardinality(dbBlocks[b]) + it[s \ {b}]]
           iter == CHOOSE it : Defines(it)
           sizes == [s \in SUBSET D |-> size(s)]
<1>1. MapThenSumSet(LAMBDA b : Cardinality(dbBlocks[b]), D) = iter[D]
  BY DEF MapThenSumSet, MapThenFoldSet
<1>2. dbSize \in Nat /\ FullBlockCount \in Nat /\ dbBlocks \in [DOMAIN dbBlocks -> SUBSET Ones]
  BY BlocksOfInv, BitsOfBlocks DEF IsBlocks
<1>3. S \in SUBSET Nat /\ S \in SUBSET (0 .. dbSize - 1) BY <1>2 DEF BitsIn
<1>4. IsFiniteSet(S)
  <2>1. dbSize - 1 \in Int BY <1>2
  <2>2. IsFiniteSet(0 .. dbSize - 1) BY <2>1, FS_Interval
  <2> HIDE DEF S
  <2> QED BY <1>3, <2>2, FS_Subset
<1>5. IsFiniteSet(D)
  <2>1. FullBlockCount \in Int BY <1>2
  <2> QED BY <2>1, FS_Interval
<1>6. ASSUME NEW s \in SUBSET D, NEW b \in s
      PROVE  size(s) = Cardinality(dbBlocks[b]) + size(s \ {b})
  <2> DEFINE A == OnesOfBlock(S, b - 1)
             B == OnesOfBlocks(S, s \ {b})
             C == OnesOfBlocks(S, s)
  <2>1. b \in D /\ b - 1 \in Nat /\ b \in DOMAIN dbBlocks /\ dbBlocks[b] \in SUBSET Ones
    <3>1. b \in D /\ b - 1 \in Nat BY <1>2
    <3>2. 0 \in Ones BY DbAssumption DEF Ones
    <3>3. b \in DOMAIN dbBlocks BY <3>1, <3>2, BitsOfBlocks
    <3> QED BY <1>2, <3>1, <3>3
  <2>2. ASSUME NEW o \in dbBlocks[b] PROVE At(b - 1, o) \in S
    <3>1. o \in Ones BY <2>1
    <3>2. At(b - 1, o) \in 0 .. dbSize - 1 /\ BitOf(dbBlocks, At(b - 1, o))
      BY <2>1, <3>1, BitsOfBlocks
    <3> QED BY <3>2 DEF BitsIn
  <2>3. ASSUME NEW i \in S, Quotient(i) = b - 1 PROVE Offset(i) \in dbBlocks[b]
    <3>1. BitOf(dbBlocks, i) /\ Quotient(i) + 1 = b BY <2>1, <2>3 DEF BitsIn
    <3> QED BY <3>1 DEF BitOf
  <2>4. IsFiniteSet(A) /\ Cardinality(A) = Cardinality(dbBlocks[b])
        /\ Cardinality(dbBlocks[b]) \in Nat
    <3> DEFINE q == b - 1
               block == dbBlocks[b]
    <3>1. q \in Nat /\ block \in SUBSET Ones /\ (\A o \in block : At(q, o) \in S)
          /\ \A i \in S : Quotient(i) = q => Offset(i) \in block
      BY <2>1, <2>2, <2>3
    <3> HIDE DEF S, q, block
    <3>2. IsFiniteSet(OnesOfBlock(S, q)) /\ Cardinality(OnesOfBlock(S, q)) = Cardinality(block)
          /\ Cardinality(block) \in Nat
      BY <1>3, <3>1, BlockIsCounted
    <3> QED BY <3>2 DEF q, block
  <2>5. IsFiniteSet(B)
    <3>1. B \in SUBSET S BY DEF OnesOfBlocks
    <3> HIDE DEF S, B
    <3> QED BY <1>4, <3>1, FS_Subset
  <2>6. \A i \in S : Quotient(i) \in Nat BY <1>3, BitHasPlace
  <2>7. A \cap B = {} /\ C = A \cup B
    <3>1. \A i \in S : Quotient(i) = b - 1 <=> Quotient(i) + 1 = b BY <2>1, <2>6
    <3> HIDE DEF S
    <3> QED BY <3>1 DEF OnesOfBlock, OnesOfBlocks
  <2> HIDE DEF A, B, C, S
  <2>8. Cardinality(C) = Cardinality(A) + Cardinality(B) BY <2>4, <2>5, <2>7, PartsAdd
  <2> QED BY <2>4, <2>8 DEF B, C
<1>7. size({}) = 0
  <2>1. OnesOfBlocks(S, {}) = {} BY DEF OnesOfBlocks
  <2> QED BY <2>1, FS_EmptySet
<1>8. \A s \in SUBSET D : s # {} => (CHOOSE b \in s : TRUE) \in s OBVIOUS
<1> HIDE DEF size
<1>9. Defines(sizes)
  <2>1. ASSUME NEW s \in SUBSET D, s # {}, NEW b, b = CHOOSE x \in s : TRUE
        PROVE  size(s) = Cardinality(dbBlocks[b]) + sizes[s \ {b}]
    <3>1. b \in s /\ s \ {b} \in SUBSET D BY <1>8, <2>1
    <3>2. sizes[s \ {b}] = size(s \ {b}) BY <3>1
    <3> HIDE DEF sizes
    <3> QED BY <1>6, <3>1, <3>2
  <2> HIDE DEF D
  <2>2. ASSUME NEW s \in SUBSET D
        PROVE  size(s) = IF s = {} THEN 0 ELSE LET b == CHOOSE b \in s : TRUE
                                               IN  Cardinality(dbBlocks[b]) + sizes[s \ {b}]
    BY <1>7, <2>1
  <2>3. sizes = [s \in SUBSET D |-> size(s)] OBVIOUS
  <2> HIDE DEF sizes, size
  <2> QED BY <2>2, <2>3
<1>10. Defines(iter)
  <2> HIDE DEF Defines, sizes
  <2> QED BY <1>9
<1> DEFINE T == {s \in SUBSET D : iter[s] = size(s)}
<1> HIDE DEF iter
<1>11. {} \in T BY <1>7, <1>10
<1>12. ASSUME NEW s \in SUBSET D, s # {} PROVE \E x \in s : s \ {x} \in T => s \in T
  <2> DEFINE b == CHOOSE b \in s : TRUE
  <2>1. b \in s /\ s \ {b} \in SUBSET D BY <1>8, <1>12
  <2>2. iter[s] = Cardinality(dbBlocks[b]) + iter[s \ {b}] BY <1>10, <1>12
  <2>3. size(s) = Cardinality(dbBlocks[b]) + size(s \ {b}) BY <1>6, <2>1
  <2> HIDE DEF b, D
  <2> QED BY <2>1, <2>2, <2>3
<1>13. SUBSET D \subseteq T
  <2> HIDE DEF T, D
  <2> QED BY <1>5, <1>11, <1>12, SubsetInduction
<1>14. D \in T BY <1>13
<1> HIDE DEF D, S
<1>15. iter[D] = size(D) BY <1>14
<1> QED BY <1>1, <1>15 DEF D, S, size

LEMMA PopcountIsExact ==
    ASSUME DbInv
    PROVE  Popcount = Cardinality(BitsIn(dbBlocks, dbSize))
<1> DEFINE S == BitsIn(dbBlocks, dbSize)
           D == 1 .. FullBlockCount
           A == OnesOfBlocks(S, D)
           B == OnesOfBlock(S, FullBlockCount)
<1>1. dbSize \in Nat /\ FullBlockCount \in Nat /\ PartialBlock \in SUBSET Ones
  BY BlocksOfInv, BitsOfBlocks
<1>2. S \in SUBSET Nat /\ S \in SUBSET (0 .. dbSize - 1) BY <1>1 DEF BitsIn
<1>3. IsFiniteSet(S)
  <2>1. IsFiniteSet(0 .. dbSize - 1) BY <1>1, FS_Interval
  <2> QED BY <1>2, <2>1, FS_Subset
<1>4. ASSUME NEW o \in PartialBlock PROVE At(FullBlockCount, o) \in S
  <2>1. o \in Ones /\ o < PartialBlockSize BY <1>1, BitsOfBlocks
  <2>2. At(FullBlockCount, o) \in 0 .. dbSize - 1 /\ BitOf(dbBlocks, At(FullBlockCount, o))
    BY <2>1, BitsOfBlocks
  <2> QED BY <2>2 DEF BitsIn
<1>5. ASSUME NEW i \in S, Quotient(i) = FullBlockCount PROVE Offset(i) \in PartialBlock
  <2>1. i \in 0 .. dbSize - 1 /\ BitOf(dbBlocks, i) BY DEF BitsIn
  <2>2. Offset(i) \in Ones /\ i = At(FullBlockCount, Offset(i))
        /\ (Quotient(i) + 1 \in D \/ Offset(i) < PartialBlockSize)
    BY <1>5, <2>1, BitsOfBlocks
  <2>3. Offset(i) < PartialBlockSize BY <1>1, <1>5, <2>2
  <2> QED BY <2>1, <2>2, <2>3, BitsOfBlocks
<1>6. IsFiniteSet(B) /\ Cardinality(B) = Cardinality(PartialBlock)
  <2> HIDE DEF S
  <2> QED BY <1>1, <1>2, <1>4, <1>5, BlockIsCounted
<1>7. IsFiniteSet(A)
  <2>1. A \in SUBSET S BY DEF OnesOfBlocks
  <2> HIDE DEF A, S
  <2> QED BY <1>3, <2>1, FS_Subset
<1>8. \A i \in S : Quotient(i) + 1 \in D <=> Quotient(i) # FullBlockCount
  <2> SUFFICES ASSUME NEW i \in S PROVE Quotient(i) + 1 \in D <=> Quotient(i) # FullBlockCount
    OBVIOUS
  <2>1. Quotient(i) \in Nat BY <1>2, BitHasPlace
  <2>2. Quotient(i) + 1 \in D \/ Quotient(i) = FullBlockCount BY <1>2, BitsOfBlocks
  <2> QED BY <1>1, <2>1, <2>2
<1>9. A \cap B = {} /\ S = A \cup B
  <2> HIDE DEF S, D
  <2> QED BY <1>8 DEF OnesOfBlock, OnesOfBlocks
<1> HIDE DEF A, B, S
<1>10. Cardinality(S) = Cardinality(A) + Cardinality(B) BY <1>6, <1>7, <1>9, PartsAdd
<1>11. Popcount = Cardinality(A) + Cardinality(PartialBlock)
  BY FullBlocksAreCounted DEF Popcount, A, S
<1> QED BY <1>6, <1>10, <1>11 DEF S

-----------------------------------------------------------------------------
(* The bitset: all bits, any bit and equal sets *)

LEMMA AnySetIsExact ==
    ASSUME DbInv
    PROVE  AnySet <=> BitsIn(dbBlocks, dbSize) # {}
<1> DEFINE S == BitsIn(dbBlocks, dbSize)
<1>0. dbBlocks \in [DOMAIN dbBlocks -> SUBSET Ones] BY BlocksOfInv DEF IsBlocks
<1>1. ASSUME NEW b \in 1 .. FullBlockCount, dbBlocks[b] # {} PROVE S # {}
  <2>1. 0 \in Ones BY DbAssumption DEF Ones
  <2>2. b \in DOMAIN dbBlocks BY <2>1, BitsOfBlocks
  <2>3. PICK o \in dbBlocks[b] : o \in Ones BY <1>0, <1>1, <2>2
  <2>4. At(b - 1, o) \in 0 .. dbSize - 1 /\ BitOf(dbBlocks, At(b - 1, o)) BY <2>3, BitsOfBlocks
  <2> QED BY <2>4 DEF BitsIn
<1>2. ASSUME NEW o \in PartialBlock PROVE S # {}
  <2>1. o \in Ones /\ o < PartialBlockSize BY BitsOfBlocks
  <2>2. At(FullBlockCount, o) \in 0 .. dbSize - 1 /\ BitOf(dbBlocks, At(FullBlockCount, o))
    BY <2>1, BitsOfBlocks
  <2> QED BY <2>2 DEF BitsIn
<1>3. ASSUME NEW i \in S PROVE AnySet
  <2>1. i \in 0 .. dbSize - 1 /\ BitOf(dbBlocks, i) BY DEF BitsIn
  <2>2. Offset(i) \in Ones /\ i = At(Quotient(i), Offset(i)) BY <2>1, BitsOfBlocks
  <2>3. CASE Quotient(i) + 1 \in 1 .. FullBlockCount
    <3>1. Offset(i) \in dbBlocks[Quotient(i) + 1] BY <2>1 DEF BitOf
    <3> QED BY <2>3, <3>1 DEF AnySet
  <2>4. CASE Quotient(i) = FullBlockCount /\ Offset(i) < PartialBlockSize
    <3>1. Offset(i) \in PartialBlock BY <2>1, <2>2, <2>4, BitsOfBlocks
    <3> QED BY <3>1 DEF AnySet
  <2> QED BY <2>1, <2>3, <2>4, BitsOfBlocks
<1> QED BY <1>1, <1>2, <1>3 DEF AnySet

LEMMA AllSetIsExact ==
    ASSUME DbInv
    PROVE  AllSet <=> (0 .. dbSize - 1) \ BitsIn(dbBlocks, dbSize) = {}
<1> DEFINE S == BitsIn(dbBlocks, dbSize)
           P == PartialBlockSize
           M == 0 .. P - 1
<1>1. dbBlocks \in [DOMAIN dbBlocks -> SUBSET Ones] BY BlocksOfInv DEF IsBlocks
<1>2. P \in Nat /\ P < BlockSize /\ BlockSize \in Nat BY DbAssumption, BitsOfBlocks
<1>3. Ones \in SUBSET Nat /\ M \in SUBSET Ones BY <1>2 DEF Ones
<1>4. PartialBlock \in SUBSET M
  <2>1. ASSUME NEW o \in PartialBlock PROVE o \in Nat /\ o < P
    <3>1. o \in Ones /\ o < P BY BitsOfBlocks
    <3> QED BY <1>3, <3>1
  <2>2. ASSUME NEW o \in PartialBlock PROVE o \in M BY <1>2, <2>1
  <2> QED BY <2>2
<1>5. IsFiniteSet(M) /\ Cardinality(M) = P
  <2>1. 0 \in Int /\ P - 1 \in Int BY <1>2
  <2>2. IsFiniteSet(M) /\ Cardinality(M) = IF 0 > P - 1 THEN 0 ELSE (P - 1) - 0 + 1
    BY <2>1, FS_Interval
  <2> QED BY <1>2, <2>2
<1>6. Cardinality(PartialBlock) = P <=> PartialBlock = M
  <2> HIDE DEF M, P
  <2> QED BY <1>4, <1>5, FS_Subset
<1>7. ASSUME AllSet, NEW i \in 0 .. dbSize - 1 PROVE BitOf(dbBlocks, i)
  <2>1. Offset(i) \in Ones /\ i = At(Quotient(i), Offset(i)) BY BitsOfBlocks
  <2>2. CASE Quotient(i) + 1 \in 1 .. FullBlockCount
    <3>1. dbBlocks[Quotient(i) + 1] = Ones BY <1>7, <2>2 DEF AllSet
    <3> QED BY <2>1, <3>1 DEF BitOf
  <2>3. CASE Quotient(i) = FullBlockCount /\ Offset(i) < P
    <3>1. PartialBlock = M BY <1>6, <1>7 DEF AllSet
    <3>2. Offset(i) \in M
      <4>1. Offset(i) \in Nat BY <1>3, <2>1
      <4> QED BY <1>2, <2>3, <4>1
    <3>3. BitOf(dbBlocks, At(FullBlockCount, Offset(i))) BY <2>1, <2>3, <3>1, <3>2, BitsOfBlocks
    <3> QED BY <2>1, <2>3, <3>3
  <2> QED BY <2>2, <2>3, BitsOfBlocks
<1>8. ASSUME \A i \in 0 .. dbSize - 1 : BitOf(dbBlocks, i) PROVE AllSet
  <2>1. ASSUME NEW b \in 1 .. FullBlockCount PROVE dbBlocks[b] = Ones
    <3>1. \A o \in Ones : b \in DOMAIN dbBlocks /\ o \in dbBlocks[b] BY <1>8, BitsOfBlocks
    <3>2. 0 \in Ones BY DbAssumption DEF Ones
    <3> QED BY <1>1, <3>1, <3>2
  <2>2. ASSUME NEW o \in M PROVE o \in PartialBlock
    <3>1. o \in Ones /\ o < P BY <1>2, <1>3
    <3> QED BY <1>8, <3>1, BitsOfBlocks
  <2>3. PartialBlock = M BY <1>4, <2>2
  <2> QED BY <1>6, <2>1, <2>3 DEF AllSet
<1>9. (0 .. dbSize - 1) \ S = {} <=> \A i \in 0 .. dbSize - 1 : BitOf(dbBlocks, i)
  BY DEF BitsIn
<1> QED BY <1>7, <1>8, <1>9

LEMMA TwinsAreEqual ==
    ASSUME DbInv, NEW twin \in Twins
    PROVE  SameBits(twin)
<1> DEFINE block(b, tail) == {o \in Ones : LET i == (b - 1) * BlockSize + o
                                           IN  IF i < dbSize THEN Bit(i) ELSE tail}
<1>1. PICK tail \in BOOLEAN : twin = [b \in 1 .. BlocksFor(dbSize) |-> block(b, tail)]
  BY DEF Twins
<1>2. dbSize \in Nat /\ FullBlockCount \in Nat /\ PartialBlockSize \in Nat
      /\ DOMAIN dbBlocks = 1 .. BlocksFor(dbSize) /\ BlocksFor(dbSize) \in Nat
  BY BlocksOfInv, BitsOfBlocks
<1>3. dbBlocks \in [DOMAIN dbBlocks -> SUBSET Ones] BY BlocksOfInv DEF IsBlocks
<1>4. BlocksFor(dbSize) = FullBlockCount + (IF PartialBlockSize = 0 THEN 0 ELSE 1)
  BY <1>2, BlockCounts, BitsOfBlocks
<1>5. \A i : Bit(i) <=> BitOf(dbBlocks, i) BY DEF Bit, BitOf, Quotient, Offset
<1>6. ASSUME NEW b \in 1 .. BlocksFor(dbSize), NEW o \in Ones, At(b - 1, o) \in 0 .. dbSize - 1
      PROVE  o \in twin[b] <=> BitOf(dbBlocks, At(b - 1, o))
  <2>1. twin[b] = block(b, tail) BY <1>1
  <2>2. (b - 1) * BlockSize + o = At(b - 1, o) BY DEF At
  <2>3. At(b - 1, o) < dbSize BY <1>2, <1>6
  <2> QED BY <1>5, <2>1, <2>2, <2>3
<1>7. \A b \in 1 .. BlocksFor(dbSize) : twin[b] \in SUBSET Ones BY <1>1
<1>8. Len(twin) = BlocksFor(dbSize) BY <1>1, <1>2
<1> HIDE DEF block
<1>9. ASSUME NEW b \in 1 .. FullBlockCount PROVE dbBlocks[b] = twin[b]
  <2>1. b \in 1 .. BlocksFor(dbSize) BY <1>2, <1>4
  <2>2. ASSUME NEW o \in Ones PROVE o \in twin[b] <=> o \in dbBlocks[b]
    <3>1. At(b - 1, o) \in 0 .. dbSize - 1
          /\ (BitOf(dbBlocks, At(b - 1, o)) <=> o \in dbBlocks[b])
      BY BitsOfBlocks
    <3> QED BY <1>6, <2>1, <3>1
  <2> QED BY <1>2, <1>3, <1>7, <2>1, <2>2
<1>10. PartialBlock = LastBlock(twin) \cap PartialBlockMask
  <2>1. CASE PartialBlockSize = 0
    <3>1. PartialBlockMask = {} BY <2>1 DEF PartialBlockMask, MaskRightN
    <3> QED BY <3>1 DEF PartialBlock
  <2>2. CASE PartialBlockSize # 0
    <3>1. LastBlock(twin) = twin[FullBlockCount + 1] /\ FullBlockCount + 1 \in 1 .. BlocksFor(dbSize)
      BY <1>2, <1>4, <1>8, <2>2 DEF LastBlock
    <3>2. PartialBlockMask \in SUBSET Ones /\ \A o \in PartialBlockMask : o < PartialBlockSize
      <4>1. PartialBlockSize < BlockSize /\ BlockSize \in Nat BY DbAssumption, BitsOfBlocks
      <4> QED BY <1>2, <4>1 DEF PartialBlockMask, MaskRightN, Ones
    <3>3. ASSUME NEW o \in PartialBlockMask
          PROVE  o \in twin[FullBlockCount + 1] <=> o \in PartialBlock
      <4>1. o \in Ones /\ o < PartialBlockSize BY <3>2
      <4>2. At(FullBlockCount, o) \in 0 .. dbSize - 1
            /\ (BitOf(dbBlocks, At(FullBlockCount, o)) <=> o \in PartialBlock)
        BY <4>1, BitsOfBlocks
      <4>3. (FullBlockCount + 1) - 1 = FullBlockCount BY <1>2
      <4> QED BY <1>6, <3>1, <4>1, <4>2, <4>3
    <3>4. PartialBlock \in SUBSET PartialBlockMask BY DEF PartialBlock
    <3> QED BY <3>1, <3>3, <3>4
  <2> QED BY <2>1, <2>2
<1> QED BY <1>9, <1>10 DEF SameBits

LEMMA InvAnswersExactly ==
    ASSUME DbInv PROVE QueriesSeeBits
<1> DEFINE ones == {i \in 0 .. dbSize - 1 : Bit(i)}
           zeros == (0 .. dbSize - 1) \ ones
<1>1. ones = BitsIn(dbBlocks, dbSize) BY BlocksOfInv
<1> HIDE DEF ones
<1>2. FindFirst(TRUE) = Lowest(ones, dbSize) /\ FindFirst(FALSE) = Lowest(zeros, dbSize)
  BY <1>1, FindFirstIsExact
<1>3. Popcount = Cardinality(ones) BY <1>1, PopcountIsExact
<1>4. AnySet = (ones # {})
  <2>1. AnySet <=> ones # {} BY <1>1, AnySetIsExact
  <2> QED BY <2>1 DEF AnySet
<1>5. AllSet = (zeros = {})
  <2>1. AllSet <=> zeros = {} BY <1>1, AllSetIsExact
  <2> QED BY <2>1 DEF AllSet
<1>6. \A twin \in Twins : SameBits(twin) BY TwinsAreEqual
<1> QED BY <1>2, <1>3, <1>4, <1>5, <1>6 DEF QueriesSeeBits, ones

\* However a dynamic_bitset has been built, grown, shrunk, filled, complemented or written
\* bit by bit, for every width of a block: it shows the bits of the vector of bools it
\* stands for, but for those that resize() skips when it grows over the end of a block, and
\* find_first(), popcount(), any(), all() and operator== answer for the bits below the size,
\* whatever is left behind them in the last block.
THEOREM BitsetStaysExact == DbSpec => []BitsetIsExact
<1>1. DbInit => DbInv BY EmptyBitset DEF DbInit, DbInv
<1>2. DbInv /\ [DbNext]_dbVars => DbInv' BY DbInvStep
<1>3. DbInv => BitsetIsExact BY InvMatchesVector, InvAnswersExactly DEF BitsetIsExact
<1> QED BY <1>1, <1>2, <1>3, PTL DEF DbSpec

-----------------------------------------------------------------------------
(* The matrix: places of entries *)

\* Where operator() finds an entry of a row of length m.
Place(m, r, c) == (r - 1) * m + c

LEMMA EntryHasPlace ==
    ASSUME NEW n \in Nat, NEW m \in Nat, NEW r \in 1 .. n, NEW c \in 1 .. m
    PROVE  Place(m, r, c) \in 1 .. n * m
<1>1. (r - 1) * m \in Nat BY DEF Place
<1>2. (n - r) * m \in Nat BY DEF Place
<1>3. n * m = (r - 1) * m + m + (n - r) * m OBVIOUS
<1> QED BY <1>1, <1>2, <1>3 DEF Place

\* The row and the column of a place.
RowOf(m, i) == (i - 1) \div m + 1
ColumnOf(m, i) == ((i - 1) % m) + 1

LEMMA PlaceHasEntry ==
    ASSUME NEW n \in Nat, NEW m \in Nat, NEW i \in 1 .. n * m
    PROVE  /\ m > 0 /\ n > 0
           /\ RowOf(m, i) \in 1 .. n /\ ColumnOf(m, i) \in 1 .. m
           /\ Place(m, RowOf(m, i), ColumnOf(m, i)) = i
<1>1. m > 0 /\ n > 0
  <2>1. n * m >= 1 OBVIOUS
  <2>2. m = 0 => n * m = 0 OBVIOUS
  <2>3. n = 0 => n * m = 0 OBVIOUS
  <2> QED BY <2>1, <2>2, <2>3
<1>2. PICK q \in Nat, d \in 0 .. m - 1 :
        q = (i - 1) \div m /\ d = (i - 1) % m /\ i - 1 = q * m + d
  <2>1. i - 1 \in Nat /\ m \in Nat \ {0} BY <1>1
  <2> QED BY <2>1
<1>3. q < n
  <2> SUFFICES ASSUME q >= n PROVE FALSE BY <1>2
  <2>1. q * m = n * m + (q - n) * m OBVIOUS
  <2>2. (q - n) * m >= 0 BY <1>1
  <2> QED BY <1>2, <2>1, <2>2
<1>4. RowOf(m, i) = q + 1 /\ ColumnOf(m, i) = d + 1 BY <1>2 DEF RowOf, ColumnOf
<1>5. Place(m, q + 1, d + 1) = q * m + d + 1 BY DEF Place
<1> QED BY <1>1, <1>2, <1>3, <1>4, <1>5

LEMMA PlaceIsUnique ==
    ASSUME NEW m \in Nat, NEW r \in Nat \ {0}, NEW c \in 1 .. m
    PROVE  RowOf(m, Place(m, r, c)) = r /\ ColumnOf(m, Place(m, r, c)) = c
<1>1. m \in Nat \ {0} OBVIOUS
<1>2. r - 1 \in Nat /\ c - 1 \in 0 .. m - 1 OBVIOUS
<1>3. Place(m, r, c) - 1 = (r - 1) * m + (c - 1) BY DEF Place
<1>4. (Place(m, r, c) - 1) \div m = r - 1 /\ (Place(m, r, c) - 1) % m = c - 1
  <2> DEFINE q == r - 1
             d == c - 1
             x == Place(m, r, c) - 1
  <2>1. q \in Nat /\ d \in 0 .. m - 1 /\ x = q * m + d BY <1>2, <1>3
  <2> HIDE DEF q, d, x
  <2>2. x \div m = q /\ x % m = d BY <1>1, <2>1, QuotientIsUnique
  <2> QED BY <2>2 DEF q, d, x
<1> QED BY <1>4 DEF RowOf, ColumnOf

-----------------------------------------------------------------------------
(* The matrix: flat vectors *)

\* Rows of one length, and the first k of them one after the other.
AreRows(rows, n, m, V) == rows \in [1 .. n -> [1 .. m -> V]]
Joined(m, rows, k) == [i \in 1 .. k * m |-> rows[RowOf(m, i)][ColumnOf(m, i)]]

\* A vector of the first k rows.
Spreads(x, m, rows, k, V) ==
    /\ x \in [1 .. k * m -> V]
    /\ \A r \in 1 .. k, c \in 1 .. m : x[Place(m, r, c)] = rows[r][c]

LEMMA JoinedSpreads ==
    ASSUME NEW V, NEW m \in Nat, NEW n \in Nat, NEW rows, AreRows(rows, n, m, V),
           NEW k \in 0 .. n
    PROVE  Spreads(Joined(m, rows, k), m, rows, k, V)
<1>0. rows \in [1 .. n -> [1 .. m -> V]] BY DEF AreRows
<1>1. ASSUME NEW i \in 1 .. k * m PROVE rows[RowOf(m, i)][ColumnOf(m, i)] \in V
  <2>1. k \in Nat OBVIOUS
  <2>2. RowOf(m, i) \in 1 .. k /\ ColumnOf(m, i) \in 1 .. m BY <2>1, PlaceHasEntry
  <2>3. RowOf(m, i) \in 1 .. n BY <2>2
  <2> QED BY <1>0, <2>2, <2>3
<1>2. ASSUME NEW r \in 1 .. k, NEW c \in 1 .. m
      PROVE  Joined(m, rows, k)[Place(m, r, c)] = rows[r][c]
  <2>1. Place(m, r, c) \in 1 .. k * m
    <3>1. k \in Nat OBVIOUS
    <3> QED BY <3>1, EntryHasPlace
  <2>2. RowOf(m, Place(m, r, c)) = r /\ ColumnOf(m, Place(m, r, c)) = c BY PlaceIsUnique
  <2> QED BY <2>1, <2>2 DEF Joined
<1>3. Joined(m, rows, k) \in [1 .. k * m -> V] BY <1>1 DEF Joined
<1> QED BY <1>2, <1>3 DEF Spreads

\* The concatenation of two vectors.
IsJoint(x, a, l, s, m, V) ==
    /\ x \in [1 .. l + m -> V]
    /\ \A i \in 1 .. l : x[i] = a[i]
    /\ \A i \in 1 .. m : x[l + i] = s[i]

LEMMA VectorOfTwo ==
    ASSUME NEW V, NEW l \in Nat, NEW m \in Nat, NEW a \in [1 .. l -> V],
           NEW s \in [1 .. m -> V]
    PROVE  IsJoint(a \o s, a, l, s, m, V)
<1> DEFINE b == a \o s
<1>1. a \in Seq(V) /\ s \in Seq(V) /\ Len(a) = l /\ Len(s) = m OBVIOUS
<1>2. b \in Seq(V) /\ Len(b) = l + m BY <1>1
<1>3. \A i \in 1 .. l : b[i] = a[i] BY <1>1
<1>4. \A i \in 1 .. m : b[l + i] = s[i] BY <1>1
<1> HIDE DEF b
<1>5. b \in [1 .. l + m -> V] BY <1>2
<1>6. IsJoint(b, a, l, s, m, V) BY <1>3, <1>4, <1>5 DEF IsJoint
<1> QED BY <1>6 DEF b

LEMMA JointIsUnique ==
    ASSUME NEW V, NEW l \in Nat, NEW m \in Nat, NEW a, NEW s, NEW x, NEW y,
           IsJoint(x, a, l, s, m, V), IsJoint(y, a, l, s, m, V)
    PROVE  x = y
<1>1. x \in [1 .. l + m -> V] /\ y \in [1 .. l + m -> V] BY DEF IsJoint
<1>2. ASSUME NEW i \in 1 .. l + m PROVE x[i] = y[i]
  <2>1. CASE i <= l
    <3>1. i \in 1 .. l BY <2>1
    <3> QED BY <3>1 DEF IsJoint
  <2>2. CASE i > l
    <3>1. i - l \in 1 .. m /\ i = l + (i - l) BY <2>2
    <3>2. x[l + (i - l)] = s[i - l] /\ y[l + (i - l)] = s[i - l] BY <3>1 DEF IsJoint
    <3> QED BY <3>1, <3>2
  <2> QED BY <2>1, <2>2
<1> QED BY <1>1, <1>2

\* The first k rows are the first k - 1 and one more.
ExtendsJoined(m, rows, k) == Joined(m, rows, k) = Joined(m, rows, k - 1) \o rows[k]

LEMMA JoinedGrows ==
    ASSUME NEW V, NEW m \in Nat, NEW n \in Nat, NEW rows, AreRows(rows, n, m, V),
           NEW k \in 1 .. n
    PROVE  ExtendsJoined(m, rows, k)
<1> DEFINE a == Joined(m, rows, k - 1)
           b == Joined(m, rows, k)
           s == rows[k]
           l == (k - 1) * m
<1>1. l \in Nat /\ k * m = l + m OBVIOUS
<1>2. Spreads(a, m, rows, k - 1, V) /\ Spreads(b, m, rows, k, V)
  <2>1. k - 1 \in 0 .. n /\ k \in 0 .. n OBVIOUS
  <2> QED BY <2>1, JoinedSpreads
<1>3. \A i \in 1 .. l : b[i] = a[i] BY <1>1 DEF Joined
<1>4. s \in [1 .. m -> V] BY DEF AreRows
<1> HIDE DEF a, b, s
<1>5. a \in [1 .. l -> V] /\ b \in [1 .. l + m -> V]
  <2>1. b \in [1 .. k * m -> V] BY <1>2 DEF Spreads
  <2> QED BY <1>1, <1>2, <2>1 DEF Spreads
<1>6. ASSUME NEW c \in 1 .. m PROVE b[l + c] = s[c]
  <2>1. Place(m, k, c) = l + c BY DEF Place
  <2>2. k \in 1 .. k OBVIOUS
  <2>3. b[Place(m, k, c)] = rows[k][c] BY <1>2, <2>2 DEF Spreads
  <2> QED BY <2>1, <2>3 DEF s
<1> HIDE DEF l
<1>7. IsJoint(b, a, l, s, m, V) BY <1>3, <1>5, <1>6 DEF IsJoint
<1>8. IsJoint(a \o s, a, l, s, m, V) BY <1>1, <1>4, <1>5, VectorOfTwo
<1>9. a \o s = b BY <1>1, <1>7, <1>8, JointIsUnique
<1> QED BY <1>9 DEF a, b, s, ExtendsJoined

LEMMA FlattenSeqJoins ==
    ASSUME NEW V, NEW m \in Nat \ {0}, NEW n \in Nat \ {0}, NEW rows, AreRows(rows, n, m, V)
    PROVE  Lists!FlattenSeq(rows) = Joined(m, rows, n)
<1> DEFINE Defines(f) ==
             f = [i \in 1 .. Len(rows) |-> IF i = 1 THEN rows[i] ELSE f[i - 1] \o rows[i]]
           flatten == CHOOSE f : Defines(f)
           J(k) == Joined(m, rows, k)
           S == {k \in 0 .. n : k > 0 => flatten[k] = J(k)}
<1>0. rows \in [1 .. n -> [1 .. m -> V]] BY DEF AreRows
<1>1. Len(rows) = n BY <1>0
<1>2. Lists!FlattenSeq(rows) = flatten[n]
  BY <1>1 DEF Lists!FlattenSeq
<1>3. J(0) = <<>> BY DEF Joined
<1>4. rows[1] \in Seq(V) BY <1>0
<1> HIDE DEF S, flatten, Defines
<1>5. \A k \in 1 .. n : J(k) = J(k - 1) \o rows[k]
  <2>1. m \in Nat /\ n \in Nat OBVIOUS
  <2>2. ASSUME NEW k \in 1 .. n PROVE ExtendsJoined(m, rows, k)
    BY <2>1, JoinedGrows
  <2> QED BY <2>2 DEF ExtendsJoined
<1> HIDE DEF J
<1>6. J(1) = rows[1]
  <2>1. 1 \in 1 .. n OBVIOUS
  <2>2. J(1) = J(1 - 1) \o rows[1] BY <1>5, <2>1
  <2>3. <<>> \o rows[1] = rows[1] BY <1>4
  <2>4. 1 - 1 = 0 OBVIOUS
  <2> QED BY <1>3, <2>2, <2>3, <2>4
<1>7. Defines([k \in 1 .. n |-> J(k)])
  <2>1. \A k \in 1 .. n : J(k) = IF k = 1 THEN rows[k]
                                 ELSE [i \in 1 .. n |-> J(i)][k - 1] \o rows[k]
    <3> TAKE k \in 1 .. n
    <3>1. k # 1 => [i \in 1 .. n |-> J(i)][k - 1] = J(k - 1) OBVIOUS
    <3> QED BY <1>5, <1>6, <3>1
  <2> QED BY <1>1, <2>1 DEF Defines
<1>8. Defines(flatten) BY <1>7 DEF flatten
<1>9. \A i \in 1 .. n : flatten[i] = IF i = 1 THEN rows[i] ELSE flatten[i - 1] \o rows[i]
  BY <1>1, <1>8 DEF Defines
<1>10. 0 .. n \subseteq S
  <2>1. 0 \in S BY DEF S
  <2>2. ASSUME NEW i \in 0 .. n - 1, i \in S PROVE i + 1 \in S
    <3>1. CASE i = 0 BY <1>6, <1>9, <3>1 DEF S
    <3>2. CASE i > 0
      <4>1. i + 1 \in 1 .. n /\ (i + 1) - 1 = i /\ i + 1 # 1 BY <3>2
      <4>2. flatten[i + 1] = flatten[(i + 1) - 1] \o rows[i + 1] BY <1>9, <4>1
      <4>3. J(i + 1) = J((i + 1) - 1) \o rows[i + 1] BY <1>5, <4>1
      <4>4. flatten[i] = J(i) BY <2>2, <3>2 DEF S
      <4>5. flatten[i + 1] = J(i + 1) BY <4>1, <4>2, <4>3, <4>4
      <4> QED BY <4>1, <4>5 DEF S
    <3> QED BY <3>1, <3>2
  <2> QED BY <2>1, <2>2, IntervalInduction
<1>11. flatten[n] = J(n) BY <1>10 DEF S
<1> QED BY <1>2, <1>11 DEF J

LEMMA SpreadIsUnique ==
    ASSUME NEW V, NEW m \in Nat, NEW n \in Nat, NEW rows, NEW x, NEW y,
           Spreads(x, m, rows, n, V), Spreads(y, m, rows, n, V)
    PROVE  x = y
<1>1. x \in [1 .. n * m -> V] /\ y \in [1 .. n * m -> V] BY DEF Spreads
<1>2. ASSUME NEW i \in 1 .. n * m PROVE x[i] = y[i]
  <2>1. /\ RowOf(m, i) \in 1 .. n /\ ColumnOf(m, i) \in 1 .. m
        /\ Place(m, RowOf(m, i), ColumnOf(m, i)) = i
    BY PlaceHasEntry
  <2>2. x[Place(m, RowOf(m, i), ColumnOf(m, i))] = y[Place(m, RowOf(m, i), ColumnOf(m, i))]
    BY <2>1 DEF Spreads
  <2> QED BY <2>1, <2>2
<1> QED BY <1>1, <1>2

\* A vector and a length of rows that stand for n rows.
IsTable(x, m, rows, n) ==
    /\ m \in Nat /\ n \in Nat /\ (n > 0 => m > 0)
    /\ AreRows(rows, n, m, MxValues)
    /\ Spreads(x, m, rows, n, MxValues)

\* The inductive invariant: the matrix holds its rows.
MxInv == IsTable(mxData, mxCols, mxRows, Len(mxRows))

LEMMA TableSizes ==
    ASSUME NEW x, NEW m, NEW rows, NEW n, IsTable(x, m, rows, n)
    PROVE  /\ Len(rows) = n
           /\ x \in Seq(MxValues) /\ Len(x) = n * m /\ n * m \in Nat
           /\ x = <<>> <=> n = 0
           /\ n > 0 => Len(x) \div m = n
<1>1. m \in Nat /\ n \in Nat /\ (n > 0 => m > 0) BY DEF IsTable
<1>2. Len(rows) = n
  <2>1. rows \in [1 .. n -> [1 .. m -> MxValues]] BY DEF IsTable, AreRows
  <2> QED BY <1>1, <2>1
<1>3. x \in [1 .. n * m -> MxValues] BY DEF IsTable, Spreads
<1>4. n * m \in Nat BY <1>1
<1>5. n > 0 => n * m > 0 BY <1>1
<1>6. n = 0 => n * m = 0 BY <1>1
<1>7. n > 0 => (n * m) \div m = n BY <1>1
<1> DEFINE l == n * m
<1> HIDE DEF l
<1>8. x \in Seq(MxValues) /\ Len(x) = l BY <1>3, <1>4 DEF l
<1>9. x = <<>> <=> l = 0 BY <1>8
<1> QED BY <1>1, <1>2, <1>4, <1>5, <1>6, <1>7, <1>8, <1>9 DEF l

LEMMA EmptyTable ==
    ASSUME NEW m \in Nat PROVE IsTable(<<>>, m, <<>>, 0)
<1>1. <<>> \in [1 .. 0 * m -> MxValues] /\ <<>> \in [1 .. 0 -> [1 .. m -> MxValues]]
  <2>1. 0 * m = 0 OBVIOUS
  <2> QED BY <2>1
<1> QED BY <1>1 DEF IsTable, AreRows, Spreads

LEMMA FlattenedTable ==
    ASSUME NEW x, NEW m, NEW rows, NEW n, IsTable(x, m, rows, n)
    PROVE  Lists!FlattenSeq(rows) = x
<1>1. m \in Nat /\ n \in Nat /\ (n > 0 => m > 0) BY DEF IsTable
<1>2. CASE n = 0
  <2>1. rows = <<>> BY <1>2 DEF IsTable, AreRows
  <2>2. x = <<>> BY <1>2, TableSizes
  <2>3. Lists!FlattenSeq(<<>>) = <<>> BY DEF Lists!FlattenSeq
  <2> QED BY <2>1, <2>2, <2>3
<1>3. CASE n > 0
  <2>1. AreRows(rows, n, m, MxValues) /\ Spreads(x, m, rows, n, MxValues) BY DEF IsTable
  <2>2. n \in Nat \ {0} /\ m \in Nat \ {0} /\ n \in 0 .. n BY <1>1, <1>3
  <2>3. Spreads(Joined(m, rows, n), m, rows, n, MxValues) BY <1>1, <2>1, <2>2, JoinedSpreads
  <2>4. x = Joined(m, rows, n) BY <1>1, <2>1, <2>3, SpreadIsUnique
  <2>5. Lists!FlattenSeq(rows) = Joined(m, rows, n) BY <2>1, <2>2, FlattenSeqJoins
  <2> QED BY <2>4, <2>5
<1> QED BY <1>1, <1>2, <1>3

-----------------------------------------------------------------------------
(* The matrix: operations *)

LEMMA RowsAreVectors ==
    ASSUME NEW row \in Rows
    PROVE  Len(row) \in Nat \ {0} /\ row \in [1 .. Len(row) -> MxValues]
<1>1. PICK k \in 1 .. MxMaxCols : row \in [1 .. k -> MxValues] BY DEF Rows
<1>2. k \in Nat \ {0} BY MxAssumption
<1>3. Len(row) = k BY <1>1, <1>2
<1> QED BY <1>1, <1>2, <1>3

\* The accessors find the rows.
LEMMA TableIsRead ==
    ASSUME MxInv
    PROVE  /\ NRows = Len(mxRows) /\ (IsEmpty <=> Len(mxRows) = 0)
           /\ \A r \in 1 .. NRows : RowRef(r) = mxRows[r]
           /\ \A r \in 1 .. NRows, c \in 1 .. mxCols : Entry(r, c) = mxRows[r][c]
<1> DEFINE n == Len(mxRows)
<1>1. n \in Nat /\ mxCols \in Nat BY DEF MxInv, IsTable
<1>2. (IsEmpty <=> n = 0) /\ NRows = n
  <2>1. (mxData = <<>> <=> n = 0) /\ (n > 0 => Len(mxData) \div mxCols = n)
    BY TableSizes DEF MxInv
  <2> HIDE DEF n
  <2> QED BY <1>1, <2>1 DEF IsEmpty, NRows
<1>3. Spreads(mxData, mxCols, mxRows, n, MxValues) /\ AreRows(mxRows, n, mxCols, MxValues)
  BY DEF MxInv, IsTable
<1> HIDE DEF n
<1>4. \A r \in 1 .. n, c \in 1 .. mxCols : Entry(r, c) = mxRows[r][c]
  BY <1>3 DEF Spreads, Entry, Place
<1>5. ASSUME NEW r \in 1 .. n PROVE RowRef(r) = mxRows[r]
  <2>1. mxRows[r] \in [1 .. mxCols -> MxValues] BY <1>3 DEF AreRows
  <2>2. \A c \in 1 .. mxCols : Entry(r, c) = mxRows[r][c] BY <1>4
  <2> HIDE DEF Entry
  <2> QED BY <2>1, <2>2 DEF RowRef
<1> QED BY <1>2, <1>4, <1>5 DEF n

\* Whatever table the next state is, it satisfies the invariant.
LEMMA TableNext ==
    ASSUME NEW m, NEW rows, NEW x, NEW n, mxData' = x, mxCols' = m, mxRows' = rows,
           IsTable(x, m, rows, n)
    PROVE  MxInv'
<1>1. Len(rows) = n BY TableSizes
<1> QED BY <1>1 DEF MxInv

LEMMA ConstantTable ==
    ASSUME NEW n \in Nat, NEW m \in Nat \ {0}, NEW v \in MxValues
    PROVE  IsTable(Constant(n * m, v), m, Constant(n, Constant(m, v)), n)
<1> DEFINE x == Constant(n * m, v)
           rows == Constant(n, Constant(m, v))
<1>1. AreRows(rows, n, m, MxValues) BY DEF AreRows, Constant
<1>2. x \in [1 .. n * m -> MxValues] BY DEF Constant
<1>3. ASSUME NEW r \in 1 .. n, NEW c \in 1 .. m PROVE x[Place(m, r, c)] = rows[r][c]
  <2>1. Place(m, r, c) \in 1 .. n * m BY EntryHasPlace
  <2>2. x[Place(m, r, c)] = v BY <2>1 DEF Constant
  <2>3. rows[r][c] = v BY DEF Constant
  <2> QED BY <2>2, <2>3
<1> HIDE DEF x, rows
<1>4. Spreads(x, m, rows, n, MxValues) BY <1>2, <1>3 DEF Spreads
<1>5. IsTable(x, m, rows, n) BY <1>1, <1>4 DEF IsTable
<1> QED BY <1>5 DEF x, rows

LEMMA ConstructConstantStep ==
    ASSUME NEW n \in 0 .. MxMaxRows, NEW m \in 1 .. MxMaxCols, NEW v \in MxValues,
           ConstructConstant(n, m, v)
    PROVE  MxInv'
<1>1. n \in Nat /\ m \in Nat \ {0} BY MxAssumption
<1>2. IsTable(Constant(n * m, v), m, Constant(n, Constant(m, v)), n) BY <1>1, ConstantTable
<1>3. /\ mxData' = Constant(n * m, v) /\ mxCols' = m /\ mxRows' = Constant(n, Constant(m, v))
  BY DEF ConstructConstant
<1> QED BY <1>2, <1>3, TableNext

LEMMA ConstructListStep ==
    ASSUME NEW list \in Tables, ConstructList(list)
    PROVE  MxInv'
<1>1. PICK r \in Rows, s \in Rows : list = <<r, s>> BY DEF Tables
<1> DEFINE m == Len(r)
<1>2. m \in Nat \ {0} /\ r \in [1 .. m -> MxValues] BY RowsAreVectors
<1>3. s \in [1 .. Len(s) -> MxValues] BY RowsAreVectors
<1>4. Len(s) = m /\ Len(list[1]) = m /\ mxCols' = m /\ mxRows' = list
      /\ mxData' = Lists!FlattenSeq(list)
  <2>1. 1 \in DOMAIN list /\ 2 \in DOMAIN list /\ list[1] = r /\ list[2] = s BY <1>1
  <2> QED BY <2>1 DEF ConstructList
<1> HIDE DEF m
<1>5. AreRows(list, 2, m, MxValues)
  <2>1. s \in [1 .. m -> MxValues] BY <1>3, <1>4
  <2>2. list \in [1 .. 2 -> {r, s}] BY <1>1
  <2> QED BY <1>2, <2>1, <2>2 DEF AreRows
<1>6. Lists!FlattenSeq(list) = Joined(m, list, 2) BY <1>2, <1>5, FlattenSeqJoins
<1>7. Spreads(Joined(m, list, 2), m, list, 2, MxValues) BY <1>2, <1>5, JoinedSpreads
<1>8. IsTable(Joined(m, list, 2), m, list, 2) BY <1>2, <1>5, <1>7 DEF IsTable
<1> QED BY <1>4, <1>6, <1>8, TableNext

LEMMA ClearRowsStep ==
    ASSUME ClearRows PROVE MxInv'
<1>1. IsTable(<<>>, 0, <<>>, 0) BY EmptyTable
<1> QED BY <1>1, TableNext DEF ClearRows

\* The elements from one place to another.
IsPart(y, x, begin, l, V) ==
    y \in [1 .. l -> V] /\ \A i \in 1 .. l : y[i] = x[begin + i]

LEMMA PartOfVector ==
    ASSUME NEW V, NEW x \in Seq(V), NEW begin \in Nat, NEW l \in Nat, begin + l <= Len(x)
    PROVE  IsPart(SubSeq(x, begin + 1, begin + l), x, begin, l, V)
<1> DEFINE y == SubSeq(x, begin + 1, begin + l)
<1>1. y = [i \in 1 .. l |-> x[begin + i]] OBVIOUS
<1>2. \A i \in 1 .. l : begin + i \in 1 .. Len(x) OBVIOUS
<1>3. \A i \in 1 .. l : x[begin + i] \in V BY <1>2
<1> HIDE DEF y
<1>4. IsPart(y, x, begin, l, V) BY <1>1, <1>3 DEF IsPart
<1> QED BY <1>4 DEF y

\* Rows of a table, from one to another.
LEMMA PartOfTable ==
    ASSUME NEW x, NEW m, NEW rows, NEW n, IsTable(x, m, rows, n),
           NEW first \in Nat, NEW k \in Nat \ {0}, first + k <= n
    PROVE  IsTable(SubSeq(x, first * m + 1, first * m + k * m), m,
                   SubSeq(rows, first + 1, first + k), k)
<1> DEFINE begin == first * m
           l == k * m
           y == SubSeq(x, begin + 1, begin + l)
           part == SubSeq(rows, first + 1, first + k)
           Row == [1 .. m -> MxValues]
<1>1. m \in Nat \ {0} /\ n \in Nat /\ AreRows(rows, n, m, MxValues)
      /\ Spreads(x, m, rows, n, MxValues)
  BY DEF IsTable
<1>2. begin \in Nat /\ l \in Nat /\ begin + l <= n * m
  <2>1. n * m = first * m + k * m + (n - first - k) * m BY <1>1
  <2>2. (n - first - k) * m \in Nat BY <1>1
  <2> QED BY <1>1, <2>1, <2>2
<1>3. x \in Seq(MxValues) /\ Len(x) = n * m BY TableSizes
<1>4. rows \in Seq(Row) /\ Len(rows) = n BY <1>1, TableSizes DEF AreRows
<1> HIDE DEF begin, l, Row
<1>5. IsPart(y, x, begin, l, MxValues) BY <1>2, <1>3, PartOfVector
<1>6. IsPart(part, rows, first, k, Row) BY <1>1, <1>4, PartOfVector
<1> HIDE DEF y, part
<1>7. ASSUME NEW r \in 1 .. k, NEW c \in 1 .. m PROVE y[Place(m, r, c)] = part[r][c]
  <2>1. Place(m, r, c) \in 1 .. l BY <1>1, EntryHasPlace DEF l
  <2>2. Place(m, first + r, c) = begin + Place(m, r, c)
    <3>1. (first + r - 1) * m = first * m + (r - 1) * m BY <1>1
    <3> QED BY <1>1, <3>1 DEF Place, begin
  <2>3. first + r \in 1 .. n BY <1>1
  <2>4. x[Place(m, first + r, c)] = rows[first + r][c] BY <1>1, <2>3 DEF Spreads
  <2> QED BY <1>5, <1>6, <2>1, <2>2, <2>4 DEF IsPart
<1>8. Spreads(y, m, part, k, MxValues) BY <1>5, <1>7 DEF Spreads, l, IsPart
<1>9. AreRows(part, k, m, MxValues) BY <1>6 DEF AreRows, Row, IsPart
<1>10. IsTable(y, m, part, k) BY <1>1, <1>8, <1>9 DEF IsTable
<1> QED BY <1>10 DEF y, part, begin, l

LEMMA PartOfNone ==
    ASSUME NEW V, NEW x \in Seq(V), NEW begin \in Nat, begin <= Len(x)
    PROVE  SubSeq(x, begin + 1, begin) = <<>>
<1> DEFINE y == SubSeq(x, begin + 1, begin)
<1>1. begin + 0 = begin OBVIOUS
<1>2. IsPart(SubSeq(x, begin + 1, begin + 0), x, begin, 0, V) BY <1>1, PartOfVector
<1>3. IsPart(y, x, begin, 0, V) BY <1>1, <1>2
<1> HIDE DEF y
<1>4. y = <<>> BY <1>3 DEF IsPart
<1> QED BY <1>4 DEF y

LEMMA CopyRowsStep ==
    ASSUME MxInv, NEW first \in 1 .. MxMaxRows + 1, NEW last \in 1 .. MxMaxRows + 1,
           CopyRows(first, last)
    PROVE  MxInv'
<1> DEFINE n == Len(mxRows)
           m == mxCols
           k == last - first
<1>0. MxMaxRows \in Nat BY MxAssumption
<1>1. n \in Nat /\ m \in Nat /\ NRows = n /\ IsTable(mxData, m, mxRows, n)
  BY TableIsRead DEF MxInv, IsTable
<1>2. /\ first <= last /\ last <= n + 1
      /\ mxData' = SubSeq(mxData, (first - 1) * m + 1, (first - 1) * m + k * m)
      /\ mxCols' = IF first = last THEN 0 ELSE m
      /\ mxRows' = SubSeq(mxRows, first, last - 1)
  BY <1>1 DEF CopyRows
<1> HIDE DEF n, m
<1>3. first \in Nat \ {0} /\ last \in Nat BY <1>0
<1>4. CASE first = last
  <2>1. mxData' = <<>>
    <3> DEFINE b == (first - 1) * m
    <3>1. b \in Nat /\ b + k * m = b BY <1>1, <1>3, <1>4
    <3>2. b <= n * m
      <4>1. n * m = (first - 1) * m + (n - (first - 1)) * m BY <1>1, <1>3
      <4>2. (n - (first - 1)) * m \in Nat BY <1>1, <1>2, <1>3, <1>4
      <4> QED BY <3>1, <4>1, <4>2
    <3>3. mxData \in Seq(MxValues) /\ Len(mxData) = n * m BY <1>1, TableSizes
    <3> HIDE DEF b
    <3>4. SubSeq(mxData, b + 1, b) = <<>> BY <3>1, <3>2, <3>3, PartOfNone
    <3> QED BY <1>2, <3>1, <3>4 DEF b
  <2>2. mxRows' = <<>>
    <3>1. mxRows \in Seq([1 .. m -> MxValues]) /\ Len(mxRows) = n
      BY <1>1 DEF IsTable, AreRows, n
    <3>2. first - 1 \in Nat /\ first - 1 <= n /\ (first - 1) + 1 = first /\ last - 1 = first - 1
      BY <1>1, <1>2, <1>3, <1>4
    <3>3. SubSeq(mxRows, (first - 1) + 1, first - 1) = <<>> BY <3>1, <3>2, PartOfNone
    <3> QED BY <1>2, <3>2, <3>3
  <2>3. mxCols' = 0 BY <1>2, <1>4
  <2>4. IsTable(<<>>, 0, <<>>, 0) BY EmptyTable
  <2> QED BY <2>1, <2>2, <2>3, <2>4, TableNext
<1>5. CASE first # last
  <2>1. k \in Nat \ {0} /\ first - 1 \in Nat /\ (first - 1) + k <= n
        /\ (first - 1) + 1 = first /\ (first - 1) + k = last - 1
    BY <1>1, <1>2, <1>3, <1>5
  <2> HIDE DEF k
  <2>2. IsTable(SubSeq(mxData, (first - 1) * m + 1, (first - 1) * m + k * m), m,
                SubSeq(mxRows, (first - 1) + 1, (first - 1) + k), k)
    BY <1>1, <2>1, PartOfTable
  <2>3. mxCols' = m /\ mxRows' = SubSeq(mxRows, (first - 1) + 1, (first - 1) + k)
    BY <1>2, <1>5, <2>1
  <2> QED BY <1>2, <2>2, <2>3, TableNext
<1> QED BY <1>4, <1>5

LEMMA TableWithRow ==
    ASSUME NEW x, NEW m \in Nat \ {0}, NEW rows, NEW n, IsTable(x, m, rows, n),
           NEW row \in [1 .. m -> MxValues]
    PROVE  IsTable(x \o row, m, Append(rows, row), n + 1)
<1> DEFINE l == n * m
           y == x \o row
           all == Append(rows, row)
           Row == [1 .. m -> MxValues]
<1>1. n \in Nat /\ AreRows(rows, n, m, MxValues) /\ Spreads(x, m, rows, n, MxValues)
  BY DEF IsTable
<1>2. l \in Nat /\ x \in [1 .. l -> MxValues] /\ (n + 1) * m = l + m
  BY <1>1 DEF Spreads
<1> HIDE DEF l
<1>3. IsJoint(y, x, l, row, m, MxValues) BY <1>2, VectorOfTwo
<1>4. rows \in Seq(Row) /\ Len(rows) = n BY <1>1, TableSizes DEF AreRows
<1>5. row \in Row OBVIOUS
<1> HIDE DEF Row, y
<1>6. /\ all \in [1 .. n + 1 -> Row]
      /\ \A r \in 1 .. n : all[r] = rows[r]
      /\ all[n + 1] = row
  <2>1. all \in Seq(Row) /\ Len(all) = n + 1 BY <1>1, <1>4, <1>5
  <2>2. (\A r \in 1 .. n : all[r] = rows[r]) /\ all[n + 1] = row BY <1>1, <1>4, <1>5
  <2> HIDE DEF all
  <2> QED BY <1>1, <2>1, <2>2
<1> HIDE DEF all
<1>7. ASSUME NEW r \in 1 .. n + 1, NEW c \in 1 .. m PROVE y[Place(m, r, c)] = all[r][c]
  <2>1. CASE r \in 1 .. n
    <3>1. Place(m, r, c) \in 1 .. l BY <1>1, <2>1, EntryHasPlace DEF l
    <3>2. x[Place(m, r, c)] = rows[r][c] BY <1>1, <2>1 DEF Spreads
    <3> QED BY <1>3, <1>6, <2>1, <3>1, <3>2 DEF IsJoint
  <2>2. CASE r = n + 1
    <3>1. Place(m, r, c) = l + c BY <1>1, <2>2 DEF Place, l
    <3> QED BY <1>3, <1>6, <2>2, <3>1 DEF IsJoint
  <2> QED BY <1>1, <2>1, <2>2
<1>8. Spreads(y, m, all, n + 1, MxValues)
  <2>1. y \in [1 .. (n + 1) * m -> MxValues] BY <1>2, <1>3 DEF IsJoint
  <2> QED BY <1>7, <2>1 DEF Spreads
<1>9. AreRows(all, n + 1, m, MxValues) BY <1>6 DEF AreRows, Row
<1>10. IsTable(y, m, all, n + 1) BY <1>1, <1>8, <1>9 DEF IsTable
<1> QED BY <1>10 DEF y, all

LEMMA AppendRowStep ==
    ASSUME MxInv, NEW row \in Rows, AppendRow(row)
    PROVE  MxInv'
<1> DEFINE n == Len(mxRows)
           m == Len(row)
<1>1. m \in Nat \ {0} /\ row \in [1 .. m -> MxValues] BY RowsAreVectors
<1>2. /\ NRows = 0 \/ m = mxCols
      /\ mxData' = mxData \o row /\ mxCols' = m /\ mxRows' = Append(mxRows, row)
  BY DEF AppendRow
<1>3. IsTable(mxData, mxCols, mxRows, n) /\ NRows = n BY TableIsRead DEF MxInv
<1> HIDE DEF n, m
<1>4. IsTable(mxData, m, mxRows, n)
  <2>1. CASE n = 0
    <3>1. mxData = <<>> BY <1>3, <2>1, TableSizes
    <3>2. mxRows = <<>> BY <1>3, <2>1 DEF IsTable, AreRows
    <3>3. IsTable(<<>>, m, <<>>, 0) BY <1>1, EmptyTable
    <3> QED BY <2>1, <3>1, <3>2, <3>3
  <2>2. CASE n # 0 BY <1>2, <1>3, <2>2
  <2> QED BY <2>1, <2>2
<1>5. IsTable(mxData \o row, m, Append(mxRows, row), n + 1) BY <1>1, <1>4, TableWithRow
<1> QED BY <1>2, <1>5, TableNext

LEMMA PopRowStep ==
    ASSUME MxInv, PopRow
    PROVE  MxInv'
<1> DEFINE n == Len(mxRows)
           m == mxCols
           k == n - 1
           y == ResizedData(k * m, MxDefault)
           rows == SubSeq(mxRows, 1, k)
           Row == [1 .. m -> MxValues]
<1>1. IsTable(mxData, m, mxRows, n) /\ NRows = n /\ n > 0
  <2>1. IsTable(mxData, m, mxRows, n) /\ NRows = n /\ (IsEmpty <=> n = 0) /\ n \in Nat
    BY TableIsRead DEF MxInv, IsTable
  <2>2. ~ IsEmpty BY DEF PopRow
  <2> HIDE DEF n, m
  <2> QED BY <2>1, <2>2
<1>2. mxData' = y /\ mxCols' = m /\ mxRows' = rows BY <1>1 DEF PopRow
<1>3. n \in Nat \ {0} /\ m \in Nat \ {0} /\ AreRows(mxRows, n, m, MxValues)
      /\ Spreads(mxData, m, mxRows, n, MxValues)
  BY <1>1 DEF IsTable
<1>4. mxData \in Seq(MxValues) /\ Len(mxData) = n * m BY <1>1, TableSizes
<1>5. mxRows \in Seq(Row) /\ Len(mxRows) = n BY <1>3 DEF AreRows
<1> HIDE DEF n, m, Row
<1>6. k \in Nat /\ k * m \in Nat /\ n * m = k * m + m BY <1>3
<1>7. y \in [1 .. k * m -> MxValues] /\ \A i \in 1 .. k * m : y[i] = mxData[i]
  <2> DEFINE l == k * m
  <2> HIDE DEF l
  <2>1. \A i \in 1 .. l : i <= Len(mxData) /\ mxData[i] \in MxValues BY <1>3, <1>4, <1>6 DEF l
  <2>2. ResizedData(l, MxDefault) = [i \in 1 .. l |-> mxData[i]] BY <2>1 DEF ResizedData
  <2> QED BY <2>1, <2>2 DEF l
<1>8. rows \in [1 .. k -> Row] /\ \A r \in 1 .. k : rows[r] = mxRows[r]
  <2>1. \A r \in 1 .. k : mxRows[r] \in Row BY <1>3, <1>5
  <2>2. rows = [r \in 1 .. k |-> mxRows[r]] BY <1>3, <1>5
  <2> HIDE DEF rows, k
  <2> QED BY <2>1, <2>2
<1> HIDE DEF y, rows, k
<1>9. ASSUME NEW r \in 1 .. k, NEW c \in 1 .. m PROVE y[Place(m, r, c)] = rows[r][c]
  <2>1. Place(m, r, c) \in 1 .. k * m BY <1>3, <1>6, EntryHasPlace
  <2>2. r \in 1 .. n BY <1>3 DEF k
  <2>3. mxData[Place(m, r, c)] = mxRows[r][c] BY <1>3, <2>2 DEF Spreads
  <2> QED BY <1>7, <1>8, <2>1, <2>3
<1>10. Spreads(y, m, rows, k, MxValues) BY <1>7, <1>9 DEF Spreads
<1>11. AreRows(rows, k, m, MxValues) BY <1>8 DEF AreRows, Row
<1>12. IsTable(y, m, rows, k) BY <1>3, <1>6, <1>10, <1>11 DEF IsTable
<1> QED BY <1>2, <1>12, TableNext

LEMMA ResizeRowsStep ==
    ASSUME MxInv, NEW n \in 0 .. MxMaxRows, NEW m \in 1 .. MxMaxCols, NEW v \in MxValues,
           ResizeRows(n, m, v)
    PROVE  MxInv'
<1> DEFINE Padded(i) == IF i <= Len(mxData) THEN mxData[i] ELSE v
           y == [i \in 1 .. n * m |-> Padded(i)]
           rows == [r \in 1 .. n |-> [c \in 1 .. m |-> Padded(Place(m, r, c))]]
<1>1. n \in Nat /\ m \in Nat \ {0} BY MxAssumption
<1>2. Lists!FlattenSeq(mxRows) = mxData BY FlattenedTable DEF MxInv
<1>3. mxData' = y /\ mxCols' = m /\ mxRows' = rows
  BY <1>2 DEF ResizeRows, ResizedData, Place
<1>4. \A i \in Nat \ {0} : Padded(i) \in MxValues
  <2>1. mxData \in Seq(MxValues) BY TableSizes DEF MxInv
  <2> QED BY <2>1
<1>5. n * m \in Nat BY <1>1
<1> HIDE DEF Padded
<1>6. y \in [1 .. n * m -> MxValues] BY <1>4, <1>5
<1>7. \A r \in 1 .. n, c \in 1 .. m : Place(m, r, c) \in 1 .. n * m BY <1>1, EntryHasPlace
<1>8. AreRows(rows, n, m, MxValues)
  <2>1. ASSUME NEW r \in 1 .. n, NEW c \in 1 .. m PROVE Padded(Place(m, r, c)) \in MxValues
    BY <1>4, <1>5, <1>7
  <2> QED BY <2>1 DEF AreRows
<1>9. \A r \in 1 .. n, c \in 1 .. m : y[Place(m, r, c)] = rows[r][c] BY <1>7
<1> HIDE DEF y, rows
<1>10. Spreads(y, m, rows, n, MxValues) BY <1>6, <1>9 DEF Spreads
<1>11. IsTable(y, m, rows, n) BY <1>1, <1>8, <1>10 DEF IsTable
<1> QED BY <1>3, <1>11, TableNext

\* The elements of one row are replaced in place.
LEMMA AssignedTable ==
    ASSUME mxCols \in Nat \ {0}, NEW x, NEW rows, NEW n, IsTable(x, mxCols, rows, n),
           NEW r \in 1 .. n, NEW row \in [1 .. mxCols -> MxValues]
    PROVE  IsTable(WithRow(x, r, row), mxCols, [rows EXCEPT ![r] = row], n)
<1> DEFINE m == mxCols
           y == WithRow(x, r, row)
           all == [rows EXCEPT ![r] = row]
<1>1. n \in Nat /\ AreRows(rows, n, m, MxValues) /\ Spreads(x, m, rows, n, MxValues)
  BY DEF IsTable
<1>2. x \in [1 .. n * m -> MxValues] BY <1>1 DEF Spreads
<1>3. y = [i \in 1 .. n * m |-> IF RowOf(m, i) = r THEN row[ColumnOf(m, i)] ELSE x[i]]
  BY <1>2 DEF WithRow, RowOf, ColumnOf
<1> HIDE DEF y
<1>4. ASSUME NEW i \in 1 .. n * m PROVE y[i] \in MxValues
  <2>1. ColumnOf(m, i) \in 1 .. m BY <1>1, PlaceHasEntry
  <2> QED BY <1>2, <1>3, <2>1
<1>5. y \in [1 .. n * m -> MxValues] BY <1>3, <1>4
<1>6. /\ AreRows(all, n, m, MxValues)
      /\ \A s \in 1 .. n : all[s] = IF s = r THEN row ELSE rows[s]
  BY <1>1 DEF AreRows
<1> HIDE DEF all
<1>7. ASSUME NEW s \in 1 .. n, NEW c \in 1 .. m PROVE y[Place(m, s, c)] = all[s][c]
  <2>1. Place(m, s, c) \in 1 .. n * m BY <1>1, EntryHasPlace
  <2>2. RowOf(m, Place(m, s, c)) = s /\ ColumnOf(m, Place(m, s, c)) = c
    <3>1. s \in Nat \ {0} OBVIOUS
    <3> QED BY <3>1, PlaceIsUnique
  <2>3. x[Place(m, s, c)] = rows[s][c] BY <1>1 DEF Spreads
  <2> QED BY <1>3, <1>6, <2>1, <2>2, <2>3
<1>8. Spreads(y, m, all, n, MxValues) BY <1>5, <1>7 DEF Spreads
<1>9. IsTable(y, m, all, n) BY <1>1, <1>6, <1>8 DEF IsTable
<1> QED BY <1>9 DEF y, all

LEMMA AssignRowStep ==
    ASSUME MxInv, NEW r \in 1 .. MxMaxRows, NEW row \in Rows, AssignRow(r, row)
    PROVE  MxInv'
<1>1. IsTable(mxData, mxCols, mxRows, Len(mxRows)) /\ NRows = Len(mxRows)
  BY TableIsRead DEF MxInv
<1>2. /\ r \in 1 .. Len(mxRows) /\ Len(row) = mxCols
      /\ mxData' = WithRow(mxData, r, row) /\ mxCols' = mxCols
      /\ mxRows' = [mxRows EXCEPT ![r] = row]
  BY <1>1 DEF AssignRow
<1>3. mxCols \in Nat \ {0} /\ row \in [1 .. mxCols -> MxValues] BY <1>2, RowsAreVectors
<1>4. IsTable(WithRow(mxData, r, row), mxCols, [mxRows EXCEPT ![r] = row], Len(mxRows))
  BY <1>1, <1>2, <1>3, AssignedTable
<1> QED BY <1>2, <1>4, TableNext

LEMMA SwapRowsStep ==
    ASSUME MxInv, NEW r \in 1 .. MxMaxRows, NEW s \in 1 .. MxMaxRows, SwapRows(r, s)
    PROVE  MxInv'
<1> DEFINE n == Len(mxRows)
           once == [mxRows EXCEPT ![r] = mxRows[s]]
           twice == [once EXCEPT ![s] = mxRows[r]]
           x == WithRow(mxData, r, RowRef(s))
           y == WithRow(x, s, RowRef(r))
<1>1. IsTable(mxData, mxCols, mxRows, n) /\ NRows = n
      /\ \A i \in 1 .. n : RowRef(i) = mxRows[i]
  BY TableIsRead DEF MxInv
<1>2. /\ r \in 1 .. n /\ s \in 1 .. n /\ mxData' = y /\ mxCols' = mxCols
      /\ mxRows' = [mxRows EXCEPT ![r] = mxRows[s], ![s] = mxRows[r]]
  BY <1>1 DEF SwapRows
<1>3. mxCols \in Nat \ {0} /\ AreRows(mxRows, n, mxCols, MxValues)
  BY <1>1, <1>2 DEF IsTable
<1>4. RowRef(r) = mxRows[r] /\ RowRef(s) = mxRows[s]
      /\ mxRows[r] \in [1 .. mxCols -> MxValues] /\ mxRows[s] \in [1 .. mxCols -> MxValues]
  BY <1>1, <1>2, <1>3 DEF AreRows
<1>5. mxRows' = twice BY <1>2, <1>3 DEF AreRows
<1> HIDE DEF n
<1>6. IsTable(x, mxCols, once, n) BY <1>1, <1>2, <1>3, <1>4, AssignedTable
<1> HIDE DEF x, once
<1>7. IsTable(y, mxCols, twice, n) BY <1>2, <1>3, <1>4, <1>6, AssignedTable
<1> QED BY <1>2, <1>5, <1>7, TableNext

LEMMA MxInvInit ==
    ASSUME MxInit PROVE MxInv
<1>1. IsTable(<<>>, 0, <<>>, 0) BY EmptyTable
<1>2. Len(<<>>) = 0 OBVIOUS
<1> QED BY <1>1, <1>2 DEF MxInit, MxInv

LEMMA MxInvStep ==
    ASSUME MxInv, [MxNext]_mxVars
    PROVE  MxInv'
<1>1. CASE \E n \in 0 .. MxMaxRows, m \in 1 .. MxMaxCols, v \in MxValues :
             ConstructConstant(n, m, v) \/ ResizeRows(n, m, v)
  BY <1>1, ConstructConstantStep, ResizeRowsStep
<1>2. CASE \E list \in Tables : ConstructList(list) BY <1>2, ConstructListStep
<1>3. CASE \E i, j \in 1 .. MxMaxRows + 1 : CopyRows(i, j) BY <1>3, CopyRowsStep
<1>4. CASE \E row \in Rows : AppendRow(row) BY <1>4, AppendRowStep
<1>5. CASE \E row \in Rows, r \in 1 .. MxMaxRows : AssignRow(r, row) BY <1>5, AssignRowStep
<1>6. CASE \E r, s \in 1 .. MxMaxRows : SwapRows(r, s) BY <1>6, SwapRowsStep
<1>7. CASE PopRow BY <1>7, PopRowStep
<1>8. CASE ClearRows BY <1>8, ClearRowsStep
<1>9. CASE UNCHANGED mxVars BY <1>9 DEF MxInv, mxVars
<1> QED BY <1>1, <1>2, <1>3, <1>4, <1>5, <1>6, <1>7, <1>8, <1>9 DEF MxNext

LEMMA InvShowsRows ==
    ASSUME MxInv PROVE MatrixIsRows
<1> DEFINE n == Len(mxRows)
<1>1. IsTable(mxData, mxCols, mxRows, n) /\ n \in Nat BY DEF MxInv, IsTable
<1>2. /\ NRows = n /\ (IsEmpty <=> n = 0)
      /\ \A r \in 1 .. n : RowRef(r) = mxRows[r]
      /\ \A r \in 1 .. n, c \in 1 .. mxCols : Entry(r, c) = mxRows[r][c]
  BY TableIsRead
<1>3. AreRows(mxRows, n, mxCols, MxValues) /\ mxCols \in Nat BY <1>1 DEF IsTable
<1>4. Lists!FlattenSeq(mxRows) = mxData BY <1>1, FlattenedTable
<1> HIDE DEF n
<1>5. ~ IsEmpty => FrontRow = mxRows[1] /\ BackRow = mxRows[n]
  BY <1>1, <1>2 DEF FrontRow, BackRow
<1>6. ~ IsEmpty => \A c \in 1 .. mxCols : Column(c) = [r \in 1 .. n |-> mxRows[r][c]]
  BY <1>2 DEF Column
<1>7. SameRows(mxData, IF mxRows = <<>> THEN 0 ELSE Len(mxRows[1]))
  <2>1. CASE IsEmpty BY <2>1 DEF SameRows, IsEmpty
  <2>2. CASE ~ IsEmpty
    <3>1. 1 \in 1 .. n BY <1>1, <1>2, <2>2
    <3>2. mxRows[1] \in [1 .. mxCols -> MxValues] BY <1>3, <3>1 DEF AreRows
    <3>3. Len(mxRows[1]) = mxCols BY <1>3, <3>2
    <3>4. mxRows # <<>>
      <4>1. Len(mxRows) # Len(<<>>) BY <3>1 DEF n
      <4> QED BY <4>1
    <3> QED BY <3>3, <3>4 DEF SameRows
  <2> QED BY <2>1, <2>2
<1> QED BY <1>2, <1>4, <1>5, <1>6, <1>7 DEF MatrixIsRows, n

(* The flat vector and the length of a row of a Matrix are the rows that   *)
(* were put into it, after any calls of its constructors and modifiers and *)
(* of the proxies of its rows, for any sizes and values.                   *)
THEOREM MatrixHoldsRows == MxSpec => []MatrixIsRows
<1>1. MxInit => MxInv BY MxInvInit
<1>2. MxInv /\ [MxNext]_mxVars => MxInv' BY MxInvStep
<1>3. MxInv => MatrixIsRows BY InvShowsRows
<1> QED BY <1>1, <1>2, <1>3, PTL DEF MxSpec
=============================================================================
