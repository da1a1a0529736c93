------------------------------- MODULE FifoMap -------------------------------
(***************************************************************************)
(* What detail::fifo_cache promises: a map of bounded size that forgets    *)
(* the keys in the order in which they were first inserted.  Inserting a   *)
(* key that is present replaces its value and leaves its age alone.        *)
(***************************************************************************)
EXTENDS Integers, Sequences, FiniteSets

CONSTANTS Keys, Values, Capacities

VARIABLES entries,   \* the pairs [key, value], oldest first
          capacity

mapVars == <<entries, capacity>>

KeysOf(s) == {s[i].key : i \in DOMAIN s}
Entry(k, v) == [key |-> k, value |-> v]

\* A new key at the end, at the cost of the oldest one when the map is full.
AddEntry(s, cap, k, v) == IF Len(s) = cap THEN Append(Tail(s), Entry(k, v))
                                          ELSE Append(s, Entry(k, v))

AssignEntry(s, k, v) == [i \in DOMAIN s |-> IF s[i].key = k THEN Entry(k, v) ELSE s[i]]

InsertEntry(s, cap, k, v) == IF cap = 0 THEN s
                             ELSE IF k \in KeysOf(s) THEN AssignEntry(s, k, v)
                             ELSE AddEntry(s, cap, k, v)

TryInsertEntry(s, cap, k, v) == IF cap = 0 \/ k \in KeysOf(s) THEN s ELSE AddEntry(s, cap, k, v)

-----------------------------------------------------------------------------
Init == entries = <<>> /\ capacity = 0

Insert(k, v) == entries' = InsertEntry(entries, capacity, k, v) /\ UNCHANGED capacity
TryInsert(k, v) == entries' = TryInsertEntry(entries, capacity, k, v) /\ UNCHANGED capacity
Clear == entries' = <<>> /\ UNCHANGED capacity
Reset(c) == entries' = <<>> /\ capacity' = c

Next == \/ \E k \in Keys, v \in Values : Insert(k, v) \/ TryInsert(k, v)
        \/ Clear
        \/ \E c \in Capacities : Reset(c)

Spec == Init /\ [][Next]_mapVars
=============================================================================
