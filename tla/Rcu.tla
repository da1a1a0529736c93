-------------------------------- MODULE Rcu --------------------------------
(***************************************************************************)
(* detail::rcu_domain and one rcu_obj: threads that read the object in     *)
(* read sections, replace it, and register and unregister themselves with  *)
(* the list of readers, under the shared spinlock.  A store to the epoch   *)
(* of a reader becomes visible to the others later, but before any         *)
(* compare-exchange or the like of the same thread.  The thread itself may *)
(* go on reading before it is visible only if StoresAreDelayed: then the   *)
(* machine has store buffers.                                              *)
(***************************************************************************)
EXTENDS SharedSpinlock, Sequences

CONSTANTS MaxUpdates,        \* bound on the number of assignments
          StoresAreDelayed

ASSUME RcuAssumption == MaxUpdates \in Nat /\ StoresAreDelayed \in BOOLEAN

VARIABLES writer_epoch,
          epoch,      \* reader.epoch of every thread, as the other threads see it
          pending,    \* the stores to it that are not visible yet
          list,       \* tls_readers->list
          data,       \* data_: the objects are numbered in the order of their allocation
          updates,    \* the last object that was allocated
          freed,
          pc,
          seen,       \* reader: the epoch it has loaded
          holding,    \* reader: the object it has a reference to
          old,        \* writer: old_ptr
          target,     \* writer: the epoch it waits for
          unchecked   \* writer: the readers it has yet to check

rcuVars == <<writer_epoch, epoch, pending, list, data, updates, freed, pc, seen, holding, old,
             target, unchecked>>
vars == <<lockVars, rcuVars>>

\* Larger than every epoch that is reached.
NOT_READING == MaxUpdates + 1
Nothing == -1

readVars == <<seen, holding>>
writeVars == <<old, target, unchecked>>

Goto(t, from, to) == pc[t] = from /\ pc' = [pc EXCEPT ![t] = to]

\* The next load of the thread may not overtake its stores, and neither may a
\* read-modify-write operation on any machine.
Ordered(t) == StoresAreDelayed \/ pending[t] = <<>>
Drained(t) == pending[t] = <<>>
Store(t, value) == pending' = [pending EXCEPT ![t] = Append(@, value)]

Init == /\ LockInit
        /\ writer_epoch = 0
        /\ epoch = [t \in Threads |-> NOT_READING]
        /\ pending = [t \in Threads |-> <<>>]
        /\ list = {}
        /\ data = 0 /\ updates = 0 /\ freed = {}
        /\ pc = [t \in Threads |-> "new"]
        /\ seen = [t \in Threads |-> 0]
        /\ holding = [t \in Threads |-> Nothing]
        /\ old = [t \in Threads |-> Nothing]
        /\ target = [t \in Threads |-> 0]
        /\ unchecked = [t \in Threads |-> {}]

\* A store of the thread becomes visible.
Flush(t) ==
    /\ pending[t] # <<>>
    /\ epoch' = [epoch EXCEPT ![t] = Head(pending[t])]
    /\ pending' = [pending EXCEPT ![t] = Tail(@)]
    /\ UNCHANGED <<lockVars, writer_epoch, list, data, updates, freed, pc, readVars, writeVars>>

-----------------------------------------------------------------------------
\* The thread_local reader is constructed at its first use and destroyed when
\* the thread ends; both change the list while they own the lock.
Register(t) ==
    /\ Goto(t, "new", "push") /\ Lock(t)
    /\ UNCHANGED <<writer_epoch, epoch, pending, list, data, updates, freed, readVars, writeVars>>

Push(t) ==
    /\ Goto(t, "push", "idle") /\ Unlock(t)
    /\ list' = list \cup {t}
    /\ UNCHANGED <<writer_epoch, epoch, pending, data, updates, freed, readVars, writeVars>>

EndThread(t) ==
    /\ Goto(t, "idle", "erase") /\ Drained(t) /\ Lock(t)
    /\ UNCHANGED <<writer_epoch, epoch, pending, list, data, updates, freed, readVars, writeVars>>

Erase(t) ==
    /\ Goto(t, "erase", "new") /\ Unlock(t)
    /\ list' = list \ {t}
    /\ UNCHANGED <<writer_epoch, epoch, pending, data, updates, freed, readVars, writeVars>>

\* read_lock(): a load and a store.  Loading the stored value back is answered
\* by the thread's own store and has no further effect.
ReadLock(t) ==
    /\ Goto(t, "idle", "store") /\ Ordered(t)
    /\ seen' = [seen EXCEPT ![t] = writer_epoch]
    /\ UNCHANGED <<lockVars, writer_epoch, epoch, pending, list, data, updates, freed, holding, writeVars>>

StoreEpoch(t) ==
    /\ Goto(t, "store", "get") /\ Store(t, seen[t])
    /\ seen' = [seen EXCEPT ![t] = 0]
    /\ UNCHANGED <<lockVars, writer_epoch, epoch, list, data, updates, freed, holding, writeVars>>

\* get()
Get(t) ==
    /\ Goto(t, "get", "read") /\ Ordered(t)
    /\ holding' = [holding EXCEPT ![t] = data]
    /\ UNCHANGED <<lockVars, writer_epoch, epoch, pending, list, data, updates, freed, seen, writeVars>>

ReadUnlock(t) ==
    /\ Goto(t, "read", "idle") /\ Store(t, NOT_READING)
    /\ holding' = [holding EXCEPT ![t] = Nothing]
    /\ UNCHANGED <<lockVars, writer_epoch, epoch, list, data, updates, freed, seen, writeVars>>

-----------------------------------------------------------------------------
\* operator=: the new object is published, ...
Exchange(t) ==
    /\ pc[t] \in {"new", "idle"} /\ Drained(t) /\ updates < MaxUpdates
    /\ updates' = updates + 1 /\ data' = updates'
    /\ old' = [old EXCEPT ![t] = data]
    /\ pc' = [pc EXCEPT ![t] = "epoch"]
    /\ UNCHANGED <<lockVars, writer_epoch, epoch, pending, list, freed, readVars, target, unchecked>>

\* ... synchronize() waits for everyone who may have a reference to the old one,
LoadEpoch(t) ==
    /\ Goto(t, "epoch", "advance")
    /\ target' = [target EXCEPT ![t] = writer_epoch + 1]
    /\ UNCHANGED <<lockVars, writer_epoch, epoch, pending, list, data, updates, freed, readVars, old, unchecked>>

\* Variant: the epoch stays, so that new sections look like old ones.
NoAdvance(t) ==
    /\ Goto(t, "advance", "lock")
    /\ UNCHANGED <<lockVars, writer_epoch, epoch, pending, list, data, updates, freed, readVars, writeVars>>

AdvanceEpoch(t) ==
    /\ Goto(t, "advance", "lock")
    /\ writer_epoch' = IF writer_epoch = target[t] - 1 THEN target[t] ELSE writer_epoch
    /\ UNCHANGED <<lockVars, epoch, pending, list, data, updates, freed, readVars, writeVars>>

LockList(t) ==
    /\ Goto(t, "lock", "wait") /\ LockShared(t)
    /\ UNCHANGED <<writer_epoch, epoch, pending, list, data, updates, freed, readVars, writeVars>>

StartScan(t) ==
    /\ Goto(t, "wait", "scan") /\ EnterShared(t)
    /\ unchecked' = [unchecked EXCEPT ![t] = list]
    /\ UNCHANGED <<writer_epoch, epoch, pending, list, data, updates, freed, readVars, old, target>>

\* Variant: a reader that entered in the epoch before may still have the object.
CheckReaderLax(t, r) ==
    /\ pc[t] = "scan" /\ r \in unchecked[t]
    /\ epoch[r] >= target[t] - 1
    /\ unchecked' = [unchecked EXCEPT ![t] = @ \ {r}]
    /\ UNCHANGED <<lockVars, writer_epoch, epoch, pending, list, data, updates, freed, pc, readVars, old, target>>

\* The end of the loop that waits for one reader.
CheckReader(t, r) ==
    /\ pc[t] = "scan" /\ r \in unchecked[t]
    /\ epoch[r] >= target[t]
    /\ unchecked' = [unchecked EXCEPT ![t] = @ \ {r}]
    /\ UNCHANGED <<lockVars, writer_epoch, epoch, pending, list, data, updates, freed, pc, readVars, old, target>>

EndScan(t) ==
    /\ Goto(t, "scan", "delete") /\ unchecked[t] = {} /\ UnlockShared(t)
    /\ UNCHANGED <<writer_epoch, epoch, pending, list, data, updates, freed, readVars, writeVars>>

\* ... and the old object is deleted.
Delete(t) ==
    /\ pc[t] = "delete"
    /\ freed' = freed \cup {old[t]}
    /\ old' = [old EXCEPT ![t] = Nothing] /\ target' = [target EXCEPT ![t] = 0]
    /\ pc' = [pc EXCEPT ![t] = IF t \in list THEN "idle" ELSE "new"]
    /\ UNCHANGED <<lockVars, writer_epoch, epoch, pending, list, data, updates, readVars, unchecked>>

\* What a thread does of its own accord, and what it does once it has begun.
Begin(t) == Register(t) \/ EndThread(t) \/ ReadLock(t) \/ Exchange(t)

Continue(t) ==
    \/ Flush(t) \/ Push(t) \/ Erase(t)
    \/ StoreEpoch(t) \/ Get(t) \/ ReadUnlock(t)
    \/ LoadEpoch(t) \/ AdvanceEpoch(t) \/ LockList(t) \/ StartScan(t)
    \/ (\E r \in Threads : CheckReader(t, r))
    \/ EndScan(t) \/ Delete(t)

Next == \E t \in Threads : Begin(t) \/ Continue(t)

Spec == Init /\ [][Next]_vars
FairSpec == Spec /\ \A t \in Threads : WF_vars(Flush(t)) /\ WF_vars(Continue(t))

-----------------------------------------------------------------------------
TypeOK ==
    /\ LockTypeOK
    /\ writer_epoch \in 0 .. MaxUpdates
    /\ epoch \in [Threads -> 0 .. NOT_READING]
    /\ \A t \in Threads : pending[t] \in Seq(0 .. NOT_READING)
    /\ list \subseteq Threads
    /\ data \in 0 .. MaxUpdates /\ updates \in 0 .. MaxUpdates /\ freed \subseteq 0 .. MaxUpdates
    /\ pc \in [Threads -> {"new", "push", "erase", "idle", "store", "get", "read", "epoch",
                           "advance", "lock", "wait", "scan", "delete"}]
    /\ holding \in [Threads -> 0 .. MaxUpdates \cup {Nothing}]
    /\ unchecked \in [Threads -> SUBSET Threads]

\* An object that a reader has a reference to is not deleted while its read
\* section lasts, also if it was replaced and two writers wait at a time.
ReadersSeeLiveData == \A t \in Threads : holding[t] \notin freed

\* A writer does not look at a reader whose thread has ended: the list stays as
\* it is while it goes through it.
ScansSeeLiveReaders == \A t \in Threads : unchecked[t] \subseteq list

\* A writer does not wait for ever, although readers enter new sections all the
\* time: those take an epoch that it does not wait for.
SynchronizeEnds == \A t \in Threads : pc[t] = "epoch" ~> pc[t] \in {"idle", "new"}
=============================================================================
