------------------------------ MODULE FifoCache ------------------------------
(***************************************************************************)
(* detail::fifo_cache: a hash map and a circular buffer with an iterator   *)
(* to every entry of the map, in the order of insertion.  An iterator is   *)
(* the key it points to; it dangles when the key is not in the map, and    *)
(* when the map had to rehash, which the reserved buckets rule out.        *)
(* The GA looks candidates up from many threads, but only between the      *)
(* updates, which one thread does.                                         *)
(***************************************************************************)
EXTENDS Integers, Sequences, FiniteSets, CircularBuffer

CONSTANTS Keys, Values,
          Capacities,   \* the capacities that reset() is called with
          MaxRange      \* bound on the length of an inserted range

ASSUME CacheAssumption == /\ Capacities \subseteq Nat /\ MaxRange \in Nat
                          /\ Vacant \notin Keys

VARIABLES cache,     \* cache_: a function from the keys that are present
          buckets,   \* cache_.bucket_count()
          order,     \* order_: the circular buffer of iterators
          pending    \* what the running insert(first, last, f) has yet to insert

vars == <<cache, buckets, order, pending>>

Present == DOMAIN cache
Pairs == [key : Keys, value : Values]
Capacity == order.capacity

Larger(m, n) == IF m >= n THEN m ELSE n

\* insert_or_assign, or emplacing a new key.
WithEntry(k, v) == [x \in Present \cup {k} |-> IF x = k THEN v ELSE cache[x]]
Without(f, k) == [x \in DOMAIN f \ {k} |-> f[x]]

-----------------------------------------------------------------------------
Init == /\ cache = <<>>
        /\ buckets = 1
        /\ order = NewBuffer(0)
        /\ pending = <<>>

\* Variant: the front of the order is read after the new key was pushed.
AddNewPushFirst(k, v) ==
    /\ order' = EmplaceBack(order, k)
    /\ cache' = IF IsFull(order) THEN Without(WithEntry(k, v), Front(order'))
                                      ELSE WithEntry(k, v)
    /\ buckets' = Larger(buckets, Cardinality(Present \cup {k}))

\* A key that was not present: the entry is added first, then the oldest one
\* is erased, so that the map holds one entry too many for a moment.
AddNew(k, v) ==
    /\ cache' = IF IsFull(order) THEN Without(WithEntry(k, v), Front(order))
                                      ELSE WithEntry(k, v)
    /\ buckets' = Larger(buckets, Cardinality(Present \cup {k}))
    /\ order' = EmplaceBack(order, k)

Assign(k, v) == cache' = WithEntry(k, v) /\ UNCHANGED <<buckets, order>>

InsertPair(k, v) == IF k \in Present THEN Assign(k, v) ELSE AddNew(k, v)

Insert(k, v) == /\ pending = <<>> /\ Capacity # 0
                /\ InsertPair(k, v)
                /\ UNCHANGED pending

TryInsert(k, v) == /\ pending = <<>> /\ Capacity # 0
                   /\ k \notin Present
                   /\ AddNew(k, v)
                   /\ UNCHANGED pending

\* insert(first, last, f): only as many as fit, from the end of the range.
LastOf(range, n) == SubSeq(range, Len(range) - n + 1, Len(range))

InsertRange(range) ==
    /\ pending = <<>> /\ Capacity # 0
    /\ pending' = LastOf(range, IF Capacity <= Len(range) THEN Capacity ELSE Len(range))
    /\ UNCHANGED <<cache, buckets, order>>

InsertNext == /\ pending # <<>>
              /\ InsertPair(Head(pending).key, Head(pending).value)
              /\ pending' = Tail(pending)

Clear == /\ pending = <<>>
         /\ cache' = <<>> /\ order' = Cleared(order)
         /\ UNCHANGED <<buckets, pending>>

\* Variant: no bucket for the entry that is there for a moment.
ResetTight(c) == /\ pending = <<>>
                 /\ cache' = <<>>
                 /\ buckets' = Larger(buckets, c)
                 /\ order' = ResetTo(c)
                 /\ UNCHANGED pending

\* reset() and, with a new map, the constructor from a capacity.
Reset(c) == /\ pending = <<>>
            /\ cache' = <<>>
            /\ buckets' = Larger(buckets, c + 1)
            /\ order' = ResetTo(c)
            /\ UNCHANGED pending

\* Copy construction and assignment of the copy.
CopyAssign == /\ pending = <<>>
              /\ order' = FromRange(Capacity, Contents(order))
              /\ buckets' = Capacity + 1
              /\ UNCHANGED <<cache, pending>>

Next == \/ \E k \in Keys, v \in Values : Insert(k, v) \/ TryInsert(k, v)
        \/ \E n \in 0 .. MaxRange : \E range \in [1 .. n -> Pairs] : InsertRange(range)
        \/ InsertNext \/ Clear \/ CopyAssign
        \/ \E c \in Capacities : Reset(c)

Spec == Init /\ [][Next]_vars

-----------------------------------------------------------------------------
TypeOK == /\ Present \subseteq Keys /\ cache \in [Present -> Values]
          /\ buckets \in Nat
          /\ \E c \in Capacities \cup {0} : order \in Buffers(c, Keys)
          /\ pending \in Seq(Pairs)

\* The order holds one iterator to every entry of the map and no dangling one,
\* and the map is not larger than its capacity.
OrderMatchesCache ==
    /\ {ElementAt(order, i) : i \in 0 .. order.size - 1} = Present
    /\ \A i, j \in 0 .. order.size - 1 :
          ElementAt(order, i) = ElementAt(order, j) => i = j

\* There is a bucket for the entry that insert adds before it erases one (the
\* assertion on free_capacity()): the map never rehashes, which would invalidate
\* every iterator of the order.
HasFreeBucket == buckets >= Capacity + 1

\* The cache is a map that forgets the keys in the order of insertion.
Map == INSTANCE FifoMap WITH
         entries <- [i \in 1 .. order.size |->
                       [key |-> ElementAt(order, i - 1),
                        value |-> cache[ElementAt(order, i - 1)]]],
         capacity <- order.capacity

ImplementsFifoMap == Map!Spec
=============================================================================
