----------------------------- MODULE RcuProofs -----------------------------
(***************************************************************************)
(* The two structures that threads share, for any number of threads.       *)
(*                                                                         *)
(* The shared spinlock excludes its writer from everyone else, and its     *)
(* counter does not leave its range, for any number of threads below the   *)
(* value that stands for the writer.                                       *)
(*                                                                         *)
(* The read sections protect what they read, for any number of threads and *)
(* updates, if a thread does not go on reading before its stores are       *)
(* visible.  The order of the arguments: the threads use the lock as they  *)
(* should, so nobody changes the list during a scan; the objects of two    *)
(* writers are different; a reader that has a reference is marked with an  *)
(* epoch, and every writer that has the same object waits for that mark.   *)
(*                                                                         *)
(* The generators of the threads have different streams that follow the    *)
(* last seed, for any seeds and calls of seed(), and without the bounds of *)
(* the runs.  The order of the arguments: the spinlock admits one thread,  *)
(* so the global generator is what a thread that registers has read of it; *)
(* the list leads to the generators that exist, once to each; and every    *)
(* listed generator is at an earlier jump of the global one, no two of     *)
(* them at the same.                                                       *)
(***************************************************************************)
EXTENDS Rcu, Generators, Induction, SequenceTheorems

(* The lock *)

\* The threads that are part of the counter, and the owner.
Counted == {t \in Threads : hold[t] \in {"waiting", "failed", "shared"}}
Owners == {t \in Threads : hold[t] = "exclusive"}

\* What the counter says is exact in every state: the readers that have counted
\* themselves, entitled or not, and the writer.
CounterIsExact == cntr = Cardinality(Counted) + (IF Owners = {} THEN 0 ELSE WRITER)

HoldType == hold \in [Threads -> Holds]

LockInv == HoldType /\ CounterIsExact /\ MutualExclusion

-----------------------------------------------------------------------------
\* There are fewer readers than the value of the writer.
LEMMA CountedIsFinite ==
    IsFiniteSet(Counted) /\ Cardinality(Counted) \in Nat /\ Cardinality(Counted) < WRITER
<1>1. Counted \subseteq Threads BY DEF Counted
<1>2. IsFiniteSet(Counted) /\ Cardinality(Counted) <= Cardinality(Threads)
  BY <1>1, FS_Subset, LockAssumption
<1>3. Cardinality(Counted) \in Nat /\ Cardinality(Threads) \in Nat
  BY <1>2, FS_CardinalityType, LockAssumption
<1> QED BY <1>2, <1>3, LockAssumption

LEMMA LockInitInv == LockInit => LockInv
<1> SUFFICES ASSUME LockInit PROVE LockInv OBVIOUS
<1>1. Counted = {} /\ Owners = {} BY DEF LockInit, Counted, Owners
<1>2. CounterIsExact BY <1>1, FS_EmptySet DEF LockInit, CounterIsExact
<1> QED BY <1>2 DEF LockInit, LockInv, HoldType, MutualExclusion, Holds

-----------------------------------------------------------------------------
\* The three things that a step does to the counted threads.
LEMMA ThreadIsAdded ==
    ASSUME NEW t \in Threads, HoldType, HoldType',
           hold[t] \in {"none", "exclusive"}, hold'[t] \in {"waiting", "failed", "shared"},
           \A u \in Threads \ {t} : hold'[u] = hold[u]
    PROVE  Cardinality(Counted') = Cardinality(Counted) + 1
<1>1. t \notin Counted /\ Counted' = Counted \cup {t} BY DEF Counted
<1> QED BY <1>1, CountedIsFinite, FS_AddElement

LEMMA ThreadIsRemoved ==
    ASSUME NEW t \in Threads, HoldType, HoldType',
           hold[t] \in {"waiting", "failed", "shared"}, hold'[t] \in {"none", "exclusive"},
           \A u \in Threads \ {t} : hold'[u] = hold[u]
    PROVE  Cardinality(Counted') = Cardinality(Counted) - 1
<1>1. t \in Counted /\ Counted' = Counted \ {t} BY DEF Counted
<1> QED BY <1>1, CountedIsFinite, FS_RemoveElement

\* The counter tells whether there is an owner, and whether there is anyone at all.
LEMMA CounterTells ==
    ASSUME LockInv
    PROVE  /\ cntr \in Int
           /\ cntr < WRITER => Owners = {}
           /\ cntr = 0 => Counted = {} /\ Owners = {}
<1>1. cntr = 0 => Cardinality(Counted) = 0 /\ Owners = {}
  BY CountedIsFinite, LockAssumption DEF LockInv, CounterIsExact
<1>2. Cardinality(Counted) = 0 => Counted = {} BY CountedIsFinite, FS_EmptySet
<1> QED BY <1>1, <1>2, CountedIsFinite, LockAssumption DEF LockInv, CounterIsExact

-----------------------------------------------------------------------------
LEMMA ChangeOfHold ==
    ASSUME NEW t \in Threads, NEW from \in Holds, NEW to \in Holds, HoldType, Change(t, from, to)
    PROVE  /\ HoldType' /\ hold[t] = from /\ hold'[t] = to
           /\ \A u \in Threads \ {t} : hold'[u] = hold[u]
BY DEF HoldType, Change

LEMMA LockKeepsInv == ASSUME NEW t \in Threads, LockInv, Lock(t) PROVE LockInv'
<1>1. /\ HoldType' /\ hold[t] = "none" /\ hold'[t] = "exclusive"
      /\ \A u \in Threads \ {t} : hold'[u] = hold[u]
  BY ChangeOfHold DEF Lock, LockInv, Holds
<1>2. Counted = {} /\ Owners = {} /\ cntr' = WRITER BY CounterTells DEF Lock
<1>3. Counted' = {} /\ Owners' # {} BY <1>1, <1>2 DEF Counted, Owners
<1>4. CounterIsExact' BY <1>2, <1>3, FS_EmptySet, LockAssumption DEF CounterIsExact
<1>5. MutualExclusion' BY <1>1, <1>2 DEF Counted, Owners, MutualExclusion
<1> QED BY <1>1, <1>4, <1>5 DEF LockInv

LEMMA UnlockKeepsInv == ASSUME NEW t \in Threads, LockInv, Unlock(t) PROVE LockInv'
<1>1. /\ HoldType' /\ hold[t] = "exclusive" /\ hold'[t] = "none"
      /\ \A u \in Threads \ {t} : hold'[u] = hold[u]
  BY ChangeOfHold DEF Unlock, LockInv, Holds
<1>2. Owners # {} /\ Owners' = {} BY <1>1 DEF Owners, LockInv, MutualExclusion
<1>3. Counted' = Counted BY <1>1 DEF Counted
<1>4. cntr' = cntr - WRITER BY DEF Unlock
<1>5. CounterIsExact'
  BY <1>2, <1>3, <1>4, CountedIsFinite, LockAssumption DEF LockInv, CounterIsExact
<1>6. MutualExclusion' BY <1>2 DEF Owners, MutualExclusion
<1> QED BY <1>1, <1>5, <1>6 DEF LockInv

LEMMA LockSharedKeepsInv == ASSUME NEW t \in Threads, LockInv, LockShared(t) PROVE LockInv'
<1>1. /\ HoldType /\ HoldType' /\ hold[t] = "none" /\ hold'[t] = "waiting"
      /\ \A u \in Threads \ {t} : hold'[u] = hold[u]
  BY ChangeOfHold DEF LockShared, LockInv, Holds
<1>2. Cardinality(Counted') = Cardinality(Counted) + 1 BY <1>1, ThreadIsAdded
<1>3. Owners' = Owners BY <1>1 DEF Owners
<1>4. cntr' = cntr + 1 BY DEF LockShared
<1>5. CounterIsExact'
  BY <1>2, <1>3, <1>4, CountedIsFinite, LockAssumption DEF LockInv, CounterIsExact
<1>6. MutualExclusion' BY <1>1 DEF LockInv, MutualExclusion
<1> QED BY <1>1, <1>5, <1>6 DEF LockInv

LEMMA EnterSharedKeepsInv == ASSUME NEW t \in Threads, LockInv, EnterShared(t) PROVE LockInv'
<1>1. /\ HoldType' /\ hold[t] = "waiting" /\ hold'[t] = "shared"
      /\ \A u \in Threads \ {t} : hold'[u] = hold[u]
  BY ChangeOfHold DEF EnterShared, LockInv, Holds
<1>2. Owners = {} /\ Owners' = {} BY <1>1, CounterTells DEF EnterShared, Owners
<1>3. Counted' = Counted BY <1>1 DEF Counted
<1>4. CounterIsExact' BY <1>2, <1>3 DEF EnterShared, LockInv, CounterIsExact
<1>5. MutualExclusion' BY <1>2 DEF Owners, MutualExclusion
<1> QED BY <1>1, <1>4, <1>5 DEF LockInv

LEMMA TryLockSharedKeepsInv == ASSUME NEW t \in Threads, LockInv, TryLockShared(t) PROVE LockInv'
<1> DEFINE to == IF cntr < WRITER THEN "shared" ELSE "failed"
<1>1. /\ HoldType /\ HoldType' /\ hold[t] = "none" /\ hold'[t] = to
      /\ \A u \in Threads \ {t} : hold'[u] = hold[u]
  BY ChangeOfHold DEF TryLockShared, LockInv, Holds
<1>2. Cardinality(Counted') = Cardinality(Counted) + 1 BY <1>1, ThreadIsAdded
<1>3. Owners' = Owners BY <1>1 DEF Owners
<1>4. cntr' = cntr + 1 BY DEF TryLockShared
<1>5. CounterIsExact'
  BY <1>2, <1>3, <1>4, CountedIsFinite, LockAssumption DEF LockInv, CounterIsExact
<1>6. MutualExclusion'
  <2>1. CASE cntr < WRITER
    <3>1. Owners' = {} BY <2>1, <1>3, CounterTells
    <3> QED BY <3>1 DEF Owners, MutualExclusion
  <2>2. CASE ~(cntr < WRITER)
    BY <2>2, <1>1 DEF LockInv, MutualExclusion
  <2> QED BY <2>1, <2>2
<1> QED BY <1>1, <1>5, <1>6 DEF LockInv

\* A reader that leaves, entitled or not.
LEMMA LeavingKeepsInv ==
    ASSUME NEW t \in Threads, NEW from \in {"failed", "shared"}, LockInv,
           Change(t, from, "none"), cntr' = cntr - 1
    PROVE  LockInv'
<1>1. /\ HoldType /\ HoldType' /\ hold[t] = from /\ hold'[t] = "none"
      /\ \A u \in Threads \ {t} : hold'[u] = hold[u]
  BY ChangeOfHold DEF LockInv, Holds
<1>2. Cardinality(Counted') = Cardinality(Counted) - 1 BY <1>1, ThreadIsRemoved
<1>3. Owners' = Owners BY <1>1 DEF Owners
<1>4. CounterIsExact'
  BY <1>2, <1>3, CountedIsFinite, LockAssumption DEF LockInv, CounterIsExact
<1>5. MutualExclusion' BY <1>1 DEF LockInv, MutualExclusion
<1> QED BY <1>1, <1>4, <1>5 DEF LockInv

-----------------------------------------------------------------------------
LEMMA LockStepKeepsInv == LockInv /\ [LockNext]_lockVars => LockInv'
<1> SUFFICES ASSUME LockInv, [LockNext]_lockVars PROVE LockInv' OBVIOUS
<1>1. CASE UNCHANGED lockVars
  BY <1>1 DEF lockVars, LockInv, HoldType, CounterIsExact, Counted, Owners, MutualExclusion
<1>2. CASE LockNext
  <2>1. PICK t \in Threads :
          Lock(t) \/ Unlock(t) \/ LockShared(t) \/ EnterShared(t) \/ UnlockShared(t)
          \/ TryLockShared(t) \/ BackOff(t)
    BY <1>2 DEF LockNext
  <2>2. CASE UnlockShared(t) BY <2>2, LeavingKeepsInv DEF UnlockShared
  <2>3. CASE BackOff(t) BY <2>3, LeavingKeepsInv DEF BackOff
  <2> QED BY <2>1, <2>2, <2>3, LockKeepsInv, UnlockKeepsInv, LockSharedKeepsInv,
             EnterSharedKeepsInv, TryLockSharedKeepsInv
<1> QED BY <1>1, <1>2

\* The counter never wraps around, for any number of threads below WRITER.
LEMMA InvGivesType == LockInv => LockTypeOK
BY CountedIsFinite, LockAssumption DEF LockInv, LockTypeOK, HoldType, CounterIsExact

\* Type correctness of the lock.
THEOREM LockTypeCorrect == LockSpec => []LockTypeOK
BY LockInitInv, LockStepKeepsInv, InvGivesType, PTL DEF LockSpec

\* lock() excludes everyone else, although readers count themselves at any time.
THEOREM LockExcludes == LockSpec => []MutualExclusion
<1>1. LockInv => MutualExclusion BY DEF LockInv
<1> QED BY <1>1, LockInitInv, LockStepKeepsInv, PTL DEF LockSpec

-----------------------------------------------------------------------------
(* Read-copy-update *)

Labels == {"new", "push", "erase", "idle", "store", "get", "read", "epoch",
           "advance", "lock", "wait", "scan", "delete"}
Epochs == 0 .. NOT_READING

RcuType ==
    /\ writer_epoch \in Nat /\ updates \in 0 .. MaxUpdates /\ data = updates
    /\ epoch \in [Threads -> Epochs] /\ pending \in [Threads -> Seq(Epochs)]
    /\ list \subseteq Threads
    /\ freed \subseteq 0 .. updates - 1
    /\ pc \in [Threads -> Labels]
    /\ seen \in [Threads -> 0 .. MaxUpdates]
    /\ holding \in [Threads -> 0 .. updates \cup {Nothing}]
    /\ old \in [Threads -> 0 .. updates \cup {Nothing}]
    /\ target \in [Threads -> Nat]
    /\ unchecked \in [Threads -> SUBSET Threads]

\* What a thread has of the lock follows from what it does.
HoldAt(label) == CASE label \in {"push", "erase"} -> "exclusive"
                   [] label = "wait" -> "waiting"
                   [] label = "scan" -> "shared"
                   [] OTHER -> "none"
LockIsUsed == \A t \in Threads : hold[t] = HoldAt(pc[t])

\* Every step of the epoch belongs to an update: those that are still to come
\* are not counted yet.
Late == {t \in Threads : pc[t] \in {"epoch", "advance"}}
EpochsAreCounted == writer_epoch + Cardinality(Late) <= updates

TargetIsNext == \A t \in Threads : pc[t] = "advance" => target[t] \in 1 .. writer_epoch + 1

ScansAreGuarded ==
    \A t \in Threads : unchecked[t] \subseteq list /\ (pc[t] # "scan" => unchecked[t] = {})

\* A writer has an object from the exchange until it deletes it, and no two have the same.
Writing == {"epoch", "advance", "lock", "wait", "scan", "delete"}
OwnsOld(t) == IF pc[t] \in Writing THEN old[t] \in 0 .. updates - 1 /\ old[t] \notin freed
                                   ELSE old[t] = Nothing
ObjectsAreDistinct ==
    /\ \A t \in Threads : OwnsOld(t)
    /\ \A t, u \in Threads : old[t] = old[u] /\ old[t] # Nothing => t = u

RcuInv == LockInv /\ RcuType /\ LockIsUsed /\ EpochsAreCounted /\ TargetIsNext
          /\ ScansAreGuarded /\ ObjectsAreDistinct

-----------------------------------------------------------------------------
LEMMA LateIsFinite == IsFiniteSet(Late) /\ Cardinality(Late) \in Nat
<1>1. Late \subseteq Threads BY DEF Late
<1>2. IsFiniteSet(Late) BY <1>1, FS_Subset, LockAssumption
<1> QED BY <1>2, FS_CardinalityType

LEMMA EpochBounded == ASSUME RcuInv PROVE writer_epoch \in 0 .. updates
BY LateIsFinite, RcuAssumption DEF RcuInv, RcuType, EpochsAreCounted

-----------------------------------------------------------------------------
LEMMA ConstantTypes ==
    MaxUpdates \in Nat /\ NOT_READING \in Nat /\ NOT_READING = MaxUpdates + 1 /\ Nothing = -1
BY RcuAssumption DEF NOT_READING, Nothing

LEMMA StoreType ==
    ASSUME NEW t \in Threads, NEW x \in Epochs, pending \in [Threads -> Seq(Epochs)], Store(t, x)
    PROVE  pending' \in [Threads -> Seq(Epochs)]
BY DEF Store

LEMMA FlushType ==
    ASSUME NEW t \in Threads, pending \in [Threads -> Seq(Epochs)], pending[t] # <<>>
    PROVE  Head(pending[t]) \in Epochs /\ Tail(pending[t]) \in Seq(Epochs)
<1>1. pending[t] \in Seq(Epochs) OBVIOUS
<1> QED BY <1>1

LEMMA TypeKept == ASSUME NEW t \in Threads, RcuInv, Begin(t) \/ Continue(t) PROVE RcuType'
<1> USE ConstantTypes DEF RcuInv, RcuType
<1>1. CASE Flush(t)
  <2>1. Head(pending[t]) \in Epochs /\ Tail(pending[t]) \in Seq(Epochs) BY <1>1, FlushType DEF Flush
  <2> QED BY <1>1, <2>1 DEF Flush, readVars, writeVars
<1>2. CASE Register(t) \/ Push(t) \/ EndThread(t) \/ Erase(t)
  <2>1. CASE Register(t) BY <2>1 DEF Register, Goto, Labels, readVars, writeVars
  <2>2. CASE Push(t) BY <2>2 DEF Push, Goto, Labels, readVars, writeVars
  <2>3. CASE EndThread(t) BY <2>3 DEF EndThread, Goto, Labels, readVars, writeVars
  <2>4. CASE Erase(t) BY <2>4 DEF Erase, Goto, Labels, readVars, writeVars
  <2> QED BY <1>2, <2>1, <2>2, <2>3, <2>4
<1>3. CASE ReadLock(t)
  <2>1. writer_epoch \in 0 .. MaxUpdates
    BY EpochBounded
  <2> QED BY <2>1, <1>3 DEF ReadLock, Goto, Labels, writeVars
<1>4. CASE StoreEpoch(t)
  <2>1. seen[t] \in Epochs BY DEF Epochs
  <2> QED BY <1>4, <2>1, StoreType DEF StoreEpoch, Goto, Labels, writeVars
<1>5. CASE Get(t) BY <1>5 DEF Get, Goto, Labels, writeVars
<1>6. CASE ReadUnlock(t)
  <2>1. NOT_READING \in Epochs BY DEF Epochs
  <2> QED BY <1>6, <2>1, StoreType DEF ReadUnlock, Goto, Labels, writeVars
<1>7. CASE Exchange(t) BY <1>7 DEF Exchange, Labels, readVars
<1>8. CASE LoadEpoch(t) BY <1>8 DEF LoadEpoch, Goto, Labels, readVars
<1>9. CASE AdvanceEpoch(t)
  <2>1. writer_epoch' \in Nat BY <1>9 DEF AdvanceEpoch
  <2> QED BY <1>9, <2>1 DEF AdvanceEpoch, Goto, Labels, readVars, writeVars
<1>10. CASE LockList(t) \/ StartScan(t) \/ EndScan(t)
  <2>1. CASE LockList(t) BY <2>1 DEF LockList, Goto, Labels, readVars, writeVars
  <2>2. CASE StartScan(t) BY <2>2 DEF StartScan, Goto, Labels, readVars, writeVars
  <2>3. CASE EndScan(t) BY <2>3 DEF EndScan, Goto, Labels, readVars, writeVars
  <2> QED BY <1>10, <2>1, <2>2, <2>3
<1>11. CASE \E r \in Threads : CheckReader(t, r) BY <1>11 DEF CheckReader, readVars
<1>12. CASE Delete(t)
  <2>1. old[t] \in 0 .. updates - 1 BY <1>12 DEF Delete, ObjectsAreDistinct, OwnsOld, Writing
  <2> QED BY <1>12, <2>1 DEF Delete, Labels, readVars
<1> QED BY <1>1, <1>2, <1>3, <1>4, <1>5, <1>6, <1>7, <1>8, <1>9, <1>10, <1>11, <1>12
        DEF Begin, Continue

-----------------------------------------------------------------------------
\* Every step uses the lock as its interface allows.
LEMMA StepUsesLock ==
    ASSUME NEW t \in Threads, Begin(t) \/ Continue(t)
    PROVE  [LockNext]_lockVars
<1>1. CASE Register(t) \/ Push(t) \/ EndThread(t) \/ Erase(t)
  <2>1. CASE Register(t) BY <2>1 DEF Register, LockNext
  <2>2. CASE Push(t) BY <2>2 DEF Push, LockNext
  <2>3. CASE EndThread(t) BY <2>3 DEF EndThread, LockNext
  <2>4. CASE Erase(t) BY <2>4 DEF Erase, LockNext
  <2> QED BY <1>1, <2>1, <2>2, <2>3, <2>4
<1>2. CASE Flush(t) \/ ReadLock(t) \/ StoreEpoch(t) \/ Get(t) \/ ReadUnlock(t)
  <2>1. CASE Flush(t) BY <2>1 DEF Flush
  <2>2. CASE ReadLock(t) BY <2>2 DEF ReadLock
  <2>3. CASE StoreEpoch(t) BY <2>3 DEF StoreEpoch
  <2>4. CASE Get(t) BY <2>4 DEF Get
  <2>5. CASE ReadUnlock(t) BY <2>5 DEF ReadUnlock
  <2> QED BY <1>2, <2>1, <2>2, <2>3, <2>4, <2>5
<1>3. CASE Exchange(t) \/ LoadEpoch(t) \/ AdvanceEpoch(t) \/ Delete(t)
  <2>1. CASE Exchange(t) BY <2>1 DEF Exchange
  <2>2. CASE LoadEpoch(t) BY <2>2 DEF LoadEpoch
  <2>3. CASE AdvanceEpoch(t) BY <2>3 DEF AdvanceEpoch
  <2>4. CASE Delete(t) BY <2>4 DEF Delete
  <2> QED BY <1>3, <2>1, <2>2, <2>3, <2>4
<1>4. CASE LockList(t) \/ StartScan(t) \/ EndScan(t)
  <2>1. CASE LockList(t) BY <2>1 DEF LockList, LockNext
  <2>2. CASE StartScan(t) BY <2>2 DEF StartScan, LockNext
  <2>3. CASE EndScan(t) BY <2>3 DEF EndScan, LockNext
  <2> QED BY <1>4, <2>1, <2>2, <2>3
<1>5. CASE \E r \in Threads : CheckReader(t, r) BY <1>5 DEF CheckReader
<1> QED BY <1>1, <1>2, <1>3, <1>4, <1>5 DEF Begin, Continue

LEMMA LockIsUsedKept == ASSUME NEW t \in Threads, RcuInv, Begin(t) \/ Continue(t) PROVE LockIsUsed'
<1> USE DEF RcuInv, RcuType, LockInv, HoldType, LockIsUsed, HoldAt
<1>1. CASE Register(t) \/ Push(t) \/ EndThread(t) \/ Erase(t)
  <2>1. CASE Register(t) BY <2>1 DEF Register, Goto, Lock, Unlock, Change
  <2>2. CASE Push(t) BY <2>2 DEF Push, Goto, Lock, Unlock, Change
  <2>3. CASE EndThread(t) BY <2>3 DEF EndThread, Goto, Lock, Unlock, Change
  <2>4. CASE Erase(t) BY <2>4 DEF Erase, Goto, Lock, Unlock, Change
  <2> QED BY <1>1, <2>1, <2>2, <2>3, <2>4
<1>2. CASE Flush(t) \/ ReadLock(t) \/ StoreEpoch(t) \/ Get(t) \/ ReadUnlock(t)
  <2>1. CASE Flush(t) BY <2>1 DEF Flush, Goto, lockVars
  <2>2. CASE ReadLock(t) BY <2>2 DEF ReadLock, Goto, lockVars
  <2>3. CASE StoreEpoch(t) BY <2>3 DEF StoreEpoch, Goto, lockVars
  <2>4. CASE Get(t) BY <2>4 DEF Get, Goto, lockVars
  <2>5. CASE ReadUnlock(t) BY <2>5 DEF ReadUnlock, Goto, lockVars
  <2> QED BY <1>2, <2>1, <2>2, <2>3, <2>4, <2>5
<1>3. CASE Exchange(t) \/ LoadEpoch(t) \/ AdvanceEpoch(t) \/ Delete(t)
  <2>1. CASE Exchange(t) BY <2>1 DEF Exchange, Goto, lockVars
  <2>2. CASE LoadEpoch(t) BY <2>2 DEF LoadEpoch, Goto, lockVars
  <2>3. CASE AdvanceEpoch(t) BY <2>3 DEF AdvanceEpoch, Goto, lockVars
  <2>4. CASE Delete(t) BY <2>4 DEF Delete, Goto, lockVars
  <2> QED BY <1>3, <2>1, <2>2, <2>3, <2>4
<1>4. CASE LockList(t) \/ StartScan(t) \/ EndScan(t)
  <2>1. CASE LockList(t) BY <2>1 DEF LockList, Goto, LockShared, EnterShared, UnlockShared, Change
  <2>2. CASE StartScan(t) BY <2>2 DEF StartScan, Goto, LockShared, EnterShared, UnlockShared, Change
  <2>3. CASE EndScan(t) BY <2>3 DEF EndScan, Goto, LockShared, EnterShared, UnlockShared, Change
  <2> QED BY <1>4, <2>1, <2>2, <2>3
<1>5. CASE \E r \in Threads : CheckReader(t, r) BY <1>5 DEF CheckReader, lockVars
<1> QED BY <1>1, <1>2, <1>3, <1>4, <1>5 DEF Begin, Continue

LEMMA EpochsKept ==
    ASSUME NEW t \in Threads, RcuInv, Begin(t) \/ Continue(t)
    PROVE  EpochsAreCounted'
<1> USE DEF RcuInv, RcuType, EpochsAreCounted
<1>1. CASE Exchange(t)
  <2>1. t \notin Late /\ Late' = Late \cup {t} BY <1>1 DEF Exchange, Late
  <2>2. Cardinality(Late') = Cardinality(Late) + 1 BY <2>1, LateIsFinite, FS_AddElement
  <2> QED BY <1>1, <2>2, LateIsFinite DEF Exchange
<1>2. CASE AdvanceEpoch(t)
  <2>1. t \in Late /\ Late' = Late \ {t} BY <1>2 DEF AdvanceEpoch, Goto, Late
  <2>2. Cardinality(Late') = Cardinality(Late) - 1 BY <2>1, LateIsFinite, FS_RemoveElement
  <2>3. writer_epoch' \in Nat /\ writer_epoch' <= writer_epoch + 1 BY <1>2 DEF AdvanceEpoch
  <2> QED BY <1>2, <2>2, <2>3, LateIsFinite DEF AdvanceEpoch
<1>3. ASSUME ~Exchange(t), ~AdvanceEpoch(t)
      PROVE  Late' = Late /\ UNCHANGED <<writer_epoch, updates>>
  <2>1. CASE Register(t) \/ Push(t) \/ EndThread(t) \/ Erase(t)
    BY <2>1 DEF Register, Push, EndThread, Erase, Goto, Late
  <2>2. CASE Flush(t) \/ ReadLock(t) \/ StoreEpoch(t) \/ Get(t) \/ ReadUnlock(t)
    BY <2>2 DEF Flush, ReadLock, StoreEpoch, Get, ReadUnlock, Goto, Late
  <2>3. CASE LoadEpoch(t) \/ Delete(t) BY <2>3 DEF LoadEpoch, Delete, Goto, Late
  <2>4. CASE LockList(t) \/ StartScan(t) \/ EndScan(t)
    BY <2>4 DEF LockList, StartScan, EndScan, Goto, Late
  <2>5. CASE \E r \in Threads : CheckReader(t, r) BY <2>5 DEF CheckReader, Late
  <2> QED BY <1>3, <2>1, <2>2, <2>3, <2>4, <2>5 DEF Begin, Continue
<1> QED BY <1>1, <1>2, <1>3, LateIsFinite

LEMMA TargetKept == ASSUME NEW t \in Threads, RcuInv, Begin(t) \/ Continue(t) PROVE TargetIsNext'
<1> USE DEF RcuInv, RcuType, TargetIsNext
<1>1. CASE Register(t) \/ Push(t) \/ EndThread(t) \/ Erase(t)
  <2>1. CASE Register(t) BY <2>1 DEF Register, Goto, writeVars
  <2>2. CASE Push(t) BY <2>2 DEF Push, Goto, writeVars
  <2>3. CASE EndThread(t) BY <2>3 DEF EndThread, Goto, writeVars
  <2>4. CASE Erase(t) BY <2>4 DEF Erase, Goto, writeVars
  <2> QED BY <1>1, <2>1, <2>2, <2>3, <2>4
<1>2. CASE Flush(t) \/ ReadLock(t) \/ StoreEpoch(t) \/ Get(t) \/ ReadUnlock(t)
  <2>1. CASE Flush(t) BY <2>1 DEF Flush, Goto, writeVars
  <2>2. CASE ReadLock(t) BY <2>2 DEF ReadLock, Goto, writeVars
  <2>3. CASE StoreEpoch(t) BY <2>3 DEF StoreEpoch, Goto, writeVars
  <2>4. CASE Get(t) BY <2>4 DEF Get, Goto, writeVars
  <2>5. CASE ReadUnlock(t) BY <2>5 DEF ReadUnlock, Goto, writeVars
  <2> QED BY <1>2, <2>1, <2>2, <2>3, <2>4, <2>5
<1>3. CASE Exchange(t) \/ LoadEpoch(t) \/ Delete(t) BY <1>3 DEF Exchange, LoadEpoch, Delete, Goto
<1>4. CASE AdvanceEpoch(t)
  <2>1. writer_epoch' \in Nat /\ writer_epoch <= writer_epoch' BY <1>4 DEF AdvanceEpoch, Goto
  <2> QED BY <1>4, <2>1 DEF AdvanceEpoch, Goto, writeVars
<1>5. CASE LockList(t) \/ StartScan(t) \/ EndScan(t)
  <2>1. CASE LockList(t) BY <2>1 DEF LockList, Goto, writeVars
  <2>2. CASE StartScan(t) BY <2>2 DEF StartScan, Goto, writeVars
  <2>3. CASE EndScan(t) BY <2>3 DEF EndScan, Goto, writeVars
  <2> QED BY <1>5, <2>1, <2>2, <2>3
<1>6. CASE \E r \in Threads : CheckReader(t, r) BY <1>6 DEF CheckReader
<1> QED BY <1>1, <1>2, <1>3, <1>4, <1>5, <1>6 DEF Begin, Continue

\* The owner of the lock is alone, so nobody scans the list when it changes.
LEMMA ScansKept == ASSUME NEW t \in Threads, RcuInv, Begin(t) \/ Continue(t) PROVE ScansAreGuarded'
<1> USE DEF RcuInv, RcuType, ScansAreGuarded
<1>1. CASE Erase(t)
  <2>1. \A u \in Threads : pc[u] # "scan"
    BY <1>1 DEF Erase, Goto, LockIsUsed, HoldAt, LockInv, MutualExclusion
  <2> QED BY <1>1, <2>1 DEF Erase, Goto, writeVars
<1>2. CASE Register(t) \/ Push(t) \/ EndThread(t)
  <2>1. CASE Register(t) BY <2>1 DEF Register, Goto, writeVars
  <2>2. CASE Push(t) BY <2>2 DEF Push, Goto, writeVars
  <2>3. CASE EndThread(t) BY <2>3 DEF EndThread, Goto, writeVars
  <2> QED BY <1>2, <2>1, <2>2, <2>3
<1>3. CASE Flush(t) \/ ReadLock(t) \/ StoreEpoch(t) \/ Get(t) \/ ReadUnlock(t)
  <2>1. CASE Flush(t) BY <2>1 DEF Flush, Goto, writeVars
  <2>2. CASE ReadLock(t) BY <2>2 DEF ReadLock, Goto, writeVars
  <2>3. CASE StoreEpoch(t) BY <2>3 DEF StoreEpoch, Goto, writeVars
  <2>4. CASE Get(t) BY <2>4 DEF Get, Goto, writeVars
  <2>5. CASE ReadUnlock(t) BY <2>5 DEF ReadUnlock, Goto, writeVars
  <2> QED BY <1>3, <2>1, <2>2, <2>3, <2>4, <2>5
<1>4. CASE Exchange(t) \/ LoadEpoch(t) \/ AdvanceEpoch(t) \/ Delete(t)
  <2>1. CASE Exchange(t) BY <2>1 DEF Exchange, Goto, writeVars
  <2>2. CASE LoadEpoch(t) BY <2>2 DEF LoadEpoch, Goto, writeVars
  <2>3. CASE AdvanceEpoch(t) BY <2>3 DEF AdvanceEpoch, Goto, writeVars
  <2>4. CASE Delete(t) BY <2>4 DEF Delete, Goto, writeVars
  <2> QED BY <1>4, <2>1, <2>2, <2>3, <2>4
<1>5. CASE LockList(t) \/ StartScan(t) \/ EndScan(t)
  <2>1. CASE LockList(t) BY <2>1 DEF LockList, Goto, writeVars
  <2>2. CASE StartScan(t) BY <2>2 DEF StartScan, Goto, writeVars
  <2>3. CASE EndScan(t) BY <2>3 DEF EndScan, Goto, writeVars
  <2> QED BY <1>5, <2>1, <2>2, <2>3
<1>6. CASE \E r \in Threads : CheckReader(t, r) BY <1>6 DEF CheckReader
<1> QED BY <1>1, <1>2, <1>3, <1>4, <1>5, <1>6 DEF Begin, Continue

-----------------------------------------------------------------------------
\* The current object is nobody's old one.
LEMMA DataIsNotOld == ASSUME RcuInv, NEW t \in Threads PROVE old[t] # data
<1>1. data = updates /\ updates \in Nat BY ConstantTypes DEF RcuInv, RcuType
<1>2. OwnsOld(t) BY DEF RcuInv, ObjectsAreDistinct
<1> QED BY <1>1, <1>2, ConstantTypes DEF OwnsOld

LEMMA ObjectsKept ==
    ASSUME NEW t \in Threads, RcuInv, Begin(t) \/ Continue(t)
    PROVE  ObjectsAreDistinct'
<1> USE ConstantTypes DEF RcuInv, RcuType, ObjectsAreDistinct, OwnsOld, Writing
<1>1. CASE Exchange(t)
  <2>1. \A u \in Threads : old[u] # data BY DataIsNotOld
  <2>2. old[t] = Nothing BY <1>1 DEF Exchange
  <2>3. \A u \in Threads : OwnsOld(u)' BY <1>1, <2>1 DEF Exchange
  <2>4. \A u, v \in Threads : old'[u] = old'[v] /\ old'[u] # Nothing => u = v
    BY <1>1, <2>1 DEF Exchange
  <2> QED BY <2>3, <2>4
<1>2. CASE Delete(t)
  <2>1. \A u \in Threads \ {t} : old[u] # Nothing => old[u] # old[t] BY <1>2 DEF Delete
  <2>2. \A u \in Threads : OwnsOld(u)' BY <1>2, <2>1 DEF Delete
  <2>3. \A u, v \in Threads : old'[u] = old'[v] /\ old'[u] # Nothing => u = v BY <1>2 DEF Delete
  <2> QED BY <2>2, <2>3
<1>3. CASE Register(t) \/ Push(t) \/ EndThread(t) \/ Erase(t)
  <2>1. CASE Register(t) BY <2>1 DEF Register, Goto, writeVars
  <2>2. CASE Push(t) BY <2>2 DEF Push, Goto, writeVars
  <2>3. CASE EndThread(t) BY <2>3 DEF EndThread, Goto, writeVars
  <2>4. CASE Erase(t) BY <2>4 DEF Erase, Goto, writeVars
  <2> QED BY <1>3, <2>1, <2>2, <2>3, <2>4
<1>4. CASE Flush(t) \/ ReadLock(t) \/ StoreEpoch(t) \/ Get(t) \/ ReadUnlock(t)
  <2>1. CASE Flush(t) \/ ReadLock(t) BY <2>1 DEF Flush, ReadLock, Goto, writeVars
  <2>2. CASE StoreEpoch(t) \/ Get(t) BY <2>2 DEF StoreEpoch, Get, Goto, writeVars
  <2>3. CASE ReadUnlock(t) BY <2>3 DEF ReadUnlock, Goto, writeVars
  <2> QED BY <1>4, <2>1, <2>2, <2>3
<1>5. CASE LoadEpoch(t) \/ AdvanceEpoch(t)
  BY <1>5 DEF LoadEpoch, AdvanceEpoch, Goto, writeVars
<1>6. CASE LockList(t) \/ StartScan(t) \/ EndScan(t)
  <2>1. CASE LockList(t) BY <2>1 DEF LockList, Goto, writeVars
  <2>2. CASE StartScan(t) BY <2>2 DEF StartScan, Goto, writeVars
  <2>3. CASE EndScan(t) BY <2>3 DEF EndScan, Goto, writeVars
  <2> QED BY <1>6, <2>1, <2>2, <2>3
<1>7. CASE \E r \in Threads : CheckReader(t, r) BY <1>7 DEF CheckReader
<1> QED BY <1>1, <1>2, <1>3, <1>4, <1>5, <1>6, <1>7 DEF Begin, Continue

-----------------------------------------------------------------------------
\* A thread in a read section is in the list, and its epoch is marked, or will
\* be before it has read anything.
Marked(t) ==
    /\ pc[t] \in {"idle", "store", "get", "read"} => t \in list
    /\ pc[t] = "store" => pending[t] = <<>> /\ seen[t] <= writer_epoch
    /\ pc[t] = "get" => \/ pending[t] = <<>> /\ epoch[t] <= writer_epoch
                        \/ Len(pending[t]) = 1 /\ pending[t][1] <= writer_epoch
    /\ pc[t] = "read" => pending[t] = <<>> /\ epoch[t] <= writer_epoch
    /\ holding[t] # Nothing => pc[t] = "read"
SectionsAreMarked == \A t \in Threads : Marked(t)

\* Whoever has a reference to an object that was replaced is waited for.
WaitsFor(w, r) ==
    /\ pc[w] # "delete"
    /\ pc[w] \in {"advance", "lock", "wait", "scan"} => epoch[r] < target[w]
    /\ pc[w] = "scan" => r \in unchecked[w]
HoldersAreWaitedFor ==
    \A r, w \in Threads : holding[r] # Nothing /\ holding[r] = old[w] => WaitsFor(w, r)

ReadInv == RcuInv /\ SectionsAreMarked /\ HoldersAreWaitedFor /\ ReadersSeeLiveData

LEMMA LastOfSequence ==
    ASSUME NEW s \in Seq(Epochs), Len(s) = 1
    PROVE  s # <<>> /\ Head(s) = s[1] /\ s[1] \in Epochs /\ Tail(s) = <<>>
<1>1. Head(s) = s[1] /\ s # <<>> /\ s[1] \in Epochs OBVIOUS
<1>2. Len(Tail(s)) = 0 /\ Tail(s) \in Seq(Epochs) BY <1>1
<1> QED BY <1>1, <1>2, EmptySeq

LEMMA MarksKept ==
    ASSUME ~StoresAreDelayed, NEW t \in Threads, ReadInv, Begin(t) \/ Continue(t)
    PROVE  SectionsAreMarked'
<1> USE ConstantTypes DEF ReadInv, RcuInv, RcuType, SectionsAreMarked, Marked
<1>1. CASE Flush(t)
  <2>1. Len(pending[t]) = 1 => Head(pending[t]) = pending[t][1] /\ Tail(pending[t]) = <<>>
    BY LastOfSequence
  <2>2. Marked(t)' BY <1>1, <2>1 DEF Flush, readVars
  <2> QED BY <1>1, <2>2 DEF Flush, readVars
<1>2. CASE Register(t) \/ Push(t) \/ EndThread(t) \/ Erase(t)
  <2>1. CASE Register(t) BY <2>1 DEF Register, Goto, readVars
  <2>2. CASE Push(t) BY <2>2 DEF Push, Goto, readVars
  <2>3. CASE EndThread(t) BY <2>3 DEF EndThread, Goto, readVars
  <2>4. CASE Erase(t) BY <2>4 DEF Erase, Goto, readVars
  <2> QED BY <1>2, <2>1, <2>2, <2>3, <2>4
<1>3. CASE ReadLock(t) BY <1>3 DEF ReadLock, Goto, Ordered
<1>4. CASE StoreEpoch(t)
  <2>1. pending[t] = <<>> /\ pending'[t] = Append(pending[t], seen[t])
    BY <1>4 DEF StoreEpoch, Goto, Store
  <2>2. Len(pending'[t]) = 1 /\ pending'[t][1] = seen[t] BY <2>1
  <2>3. Marked(t)' BY <1>4, <2>2 DEF StoreEpoch, Goto
  <2> QED BY <1>4, <2>3 DEF StoreEpoch, Goto, Store
<1>5. CASE Get(t) BY <1>5 DEF Get, Goto, Ordered
<1>6. CASE ReadUnlock(t) BY <1>6 DEF ReadUnlock, Goto, Store
<1>7. CASE Exchange(t) \/ LoadEpoch(t) \/ Delete(t)
  <2>1. CASE Exchange(t) BY <2>1 DEF Exchange, Goto, readVars
  <2>2. CASE LoadEpoch(t) BY <2>2 DEF LoadEpoch, Goto, readVars
  <2>3. CASE Delete(t) BY <2>3 DEF Delete, Goto, readVars
  <2> QED BY <1>7, <2>1, <2>2, <2>3
<1>8. CASE AdvanceEpoch(t)
  <2>1. writer_epoch' \in Nat /\ writer_epoch <= writer_epoch'
    BY <1>8 DEF AdvanceEpoch, Goto, TargetIsNext
  <2>2. ASSUME NEW e \in Epochs, e <= writer_epoch PROVE e <= writer_epoch'
    BY <2>1, <2>2 DEF Epochs
  <2>3. \A u \in Threads : epoch[u] \in Epochs /\ seen[u] \in Epochs
                           /\ (Len(pending[u]) = 1 => pending[u][1] \in Epochs)
    BY LastOfSequence DEF Epochs
  <2> QED BY <1>8, <2>2, <2>3 DEF AdvanceEpoch, Goto, readVars
<1>9. CASE LockList(t) \/ StartScan(t) \/ EndScan(t)
  <2>1. CASE LockList(t) BY <2>1 DEF LockList, Goto, readVars
  <2>2. CASE StartScan(t) BY <2>2 DEF StartScan, Goto, readVars
  <2>3. CASE EndScan(t) BY <2>3 DEF EndScan, Goto, readVars
  <2> QED BY <1>9, <2>1, <2>2, <2>3
<1>10. CASE \E r \in Threads : CheckReader(t, r) BY <1>10 DEF CheckReader, readVars
<1> QED BY <1>1, <1>2, <1>3, <1>4, <1>5, <1>6, <1>7, <1>8, <1>9, <1>10 DEF Begin, Continue

LEMMA HoldersKept ==
    ASSUME NEW t \in Threads, ReadInv, Begin(t) \/ Continue(t)
    PROVE  HoldersAreWaitedFor'
<1> USE ConstantTypes DEF ReadInv, RcuInv, RcuType, HoldersAreWaitedFor, WaitsFor
<1>1. CASE Flush(t)
  <2>1. holding[t] = Nothing BY <1>1 DEF Flush, SectionsAreMarked, Marked
  <2> QED BY <1>1, <2>1 DEF Flush, readVars, writeVars
<1>2. CASE Register(t) \/ Push(t) \/ EndThread(t) \/ Erase(t)
  <2>1. CASE Register(t) BY <2>1 DEF Register, Goto, readVars, writeVars
  <2>2. CASE Push(t) BY <2>2 DEF Push, Goto, readVars, writeVars
  <2>3. CASE EndThread(t) BY <2>3 DEF EndThread, Goto, readVars, writeVars
  <2>4. CASE Erase(t) BY <2>4 DEF Erase, Goto, readVars, writeVars
  <2> QED BY <1>2, <2>1, <2>2, <2>3, <2>4
<1>3. CASE ReadLock(t) \/ StoreEpoch(t) BY <1>3 DEF ReadLock, StoreEpoch, Goto, writeVars
<1>4. CASE ReadUnlock(t)
  <2>1. holding'[t] = Nothing /\ \A r \in Threads \ {t} : holding'[r] = holding[r]
    BY <1>4 DEF ReadUnlock
  <2>2. \A w \in Threads : pc[w] \in Writing => pc'[w] = pc[w]
    BY <1>4 DEF ReadUnlock, Goto, Writing
  <2>3. \A w \in Threads : pc[w] \notin Writing => pc'[w] \notin Writing
    BY <1>4 DEF ReadUnlock, Goto, Writing
  <2> QED BY <1>4, <2>1, <2>2, <2>3 DEF ReadUnlock, writeVars, Writing
<1>5. CASE Get(t)
  <2>1. \A w \in Threads : old[w] # data BY DataIsNotOld
  <2> QED BY <1>5, <2>1 DEF Get, Goto, writeVars
<1>6. CASE Exchange(t) BY <1>6 DEF Exchange, readVars
<1>7. CASE LoadEpoch(t)
  <2>1. \A r \in Threads : holding[r] # Nothing => epoch[r] < writer_epoch + 1
    BY DEF SectionsAreMarked, Marked, Epochs
  <2> QED BY <1>7, <2>1 DEF LoadEpoch, Goto, readVars
<1>8. CASE AdvanceEpoch(t) \/ LockList(t)
  BY <1>8 DEF AdvanceEpoch, LockList, Goto, readVars, writeVars
<1>9. CASE StartScan(t)
  <2>1. \A r \in Threads : holding[r] # Nothing => r \in list BY DEF SectionsAreMarked, Marked
  <2> QED BY <1>9, <2>1 DEF StartScan, Goto, readVars
<1>10. CASE EndScan(t) BY <1>10 DEF EndScan, Goto, readVars, writeVars
<1>11. CASE \E r \in Threads : CheckReader(t, r)
  <2>1. PICK r \in Threads : CheckReader(t, r) BY <1>11
  <2>2. ~(epoch[r] < target[t]) BY <2>1 DEF CheckReader, Epochs
  <2>3. holding[r] # Nothing => holding[r] # old[t] BY <2>1, <2>2 DEF CheckReader
  <2> QED BY <2>1, <2>3 DEF CheckReader, readVars
<1>12. CASE Delete(t) BY <1>12 DEF Delete, readVars
<1> QED BY <1>1, <1>2, <1>3, <1>4, <1>5, <1>6, <1>7, <1>8, <1>9, <1>10, <1>11, <1>12
        DEF Begin, Continue

LEMMA LiveDataKept ==
    ASSUME NEW t \in Threads, ReadInv, Begin(t) \/ Continue(t)
    PROVE  ReadersSeeLiveData'
<1> USE ConstantTypes DEF ReadInv, RcuInv, RcuType, ReadersSeeLiveData
<1>1. CASE Get(t)
  <2>1. data \notin freed OBVIOUS
  <2> QED BY <1>1, <2>1 DEF Get
<1>2. CASE Delete(t)
  <2>1. \A r \in Threads : holding[r] # Nothing => holding[r] # old[t]
    BY <1>2 DEF Delete, HoldersAreWaitedFor, WaitsFor
  <2>2. old[t] # Nothing BY <1>2 DEF Delete, ObjectsAreDistinct, OwnsOld, Writing
  <2> QED BY <1>2, <2>1, <2>2 DEF Delete, readVars
<1>3. CASE Register(t) \/ Push(t) \/ EndThread(t) \/ Erase(t)
  <2>1. CASE Register(t) BY <2>1 DEF Register, readVars
  <2>2. CASE Push(t) BY <2>2 DEF Push, readVars
  <2>3. CASE EndThread(t) BY <2>3 DEF EndThread, readVars
  <2>4. CASE Erase(t) BY <2>4 DEF Erase, readVars
  <2> QED BY <1>3, <2>1, <2>2, <2>3, <2>4
<1>4. CASE Flush(t) \/ ReadLock(t) \/ StoreEpoch(t)
  <2>1. CASE Flush(t) BY <2>1 DEF Flush, readVars
  <2>2. CASE ReadLock(t) BY <2>2 DEF ReadLock, readVars
  <2>3. CASE StoreEpoch(t) BY <2>3 DEF StoreEpoch, readVars
  <2> QED BY <1>4, <2>1, <2>2, <2>3
<1>5. CASE ReadUnlock(t)
  <2>1. Nothing \notin freed OBVIOUS
  <2> QED BY <1>5, <2>1 DEF ReadUnlock
<1>6. CASE Exchange(t) \/ LoadEpoch(t) \/ AdvanceEpoch(t)
  <2>1. CASE Exchange(t) BY <2>1 DEF Exchange, readVars
  <2>2. CASE LoadEpoch(t) BY <2>2 DEF LoadEpoch, readVars
  <2>3. CASE AdvanceEpoch(t) BY <2>3 DEF AdvanceEpoch, readVars
  <2> QED BY <1>6, <2>1, <2>2, <2>3
<1>7. CASE LockList(t) \/ StartScan(t) \/ EndScan(t)
  <2>1. CASE LockList(t) BY <2>1 DEF LockList, readVars
  <2>2. CASE StartScan(t) BY <2>2 DEF StartScan, readVars
  <2>3. CASE EndScan(t) BY <2>3 DEF EndScan, readVars
  <2> QED BY <1>7, <2>1, <2>2, <2>3
<1>8. CASE \E r \in Threads : CheckReader(t, r) BY <1>8 DEF CheckReader, readVars
<1> QED BY <1>1, <1>2, <1>3, <1>4, <1>5, <1>6, <1>7, <1>8 DEF Begin, Continue

-----------------------------------------------------------------------------
LEMMA InitInv == Init => ReadInv
<1> SUFFICES ASSUME Init PROVE ReadInv OBVIOUS
<1> USE ConstantTypes DEF Init
<1>1. LockInv BY LockInitInv
<1>2. RcuType BY DEF RcuType, Labels, Epochs
<1>3. LockIsUsed BY DEF LockInit, LockIsUsed, HoldAt
<1>4. EpochsAreCounted
  <2>1. Late = {} BY DEF Late
  <2> QED BY <2>1, FS_EmptySet DEF EpochsAreCounted
<1>5. TargetIsNext /\ ScansAreGuarded BY DEF TargetIsNext, ScansAreGuarded
<1>6. ObjectsAreDistinct BY DEF ObjectsAreDistinct, OwnsOld, Writing
<1>7. SectionsAreMarked /\ HoldersAreWaitedFor /\ ReadersSeeLiveData
  BY DEF SectionsAreMarked, Marked, HoldersAreWaitedFor, ReadersSeeLiveData
<1> QED BY <1>1, <1>2, <1>3, <1>4, <1>5, <1>6, <1>7 DEF ReadInv, RcuInv

LEMMA StutterKeeps == ASSUME UNCHANGED vars PROVE (RcuInv => RcuInv') /\ (ReadInv => ReadInv')
<1> USE DEF vars, lockVars, rcuVars
<1>1. LockInv => LockInv' BY LockStepKeepsInv DEF lockVars
<1>2. RcuType => RcuType' BY DEF RcuType
<1>3. LockIsUsed => LockIsUsed' BY DEF LockIsUsed
<1>4. EpochsAreCounted => EpochsAreCounted' BY DEF EpochsAreCounted, Late
<1>5. (TargetIsNext => TargetIsNext') /\ (ScansAreGuarded => ScansAreGuarded')
  BY DEF TargetIsNext, ScansAreGuarded
<1>6. ObjectsAreDistinct => ObjectsAreDistinct' BY DEF ObjectsAreDistinct, OwnsOld
<1>7. (SectionsAreMarked => SectionsAreMarked') /\ (ReadersSeeLiveData => ReadersSeeLiveData')
  BY DEF SectionsAreMarked, Marked, ReadersSeeLiveData
<1>8. HoldersAreWaitedFor => HoldersAreWaitedFor' BY DEF HoldersAreWaitedFor, WaitsFor
<1> QED BY <1>1, <1>2, <1>3, <1>4, <1>5, <1>6, <1>7, <1>8 DEF RcuInv, ReadInv

LEMMA NextKeeps == RcuInv /\ [Next]_vars => RcuInv'
<1> SUFFICES ASSUME RcuInv, Next PROVE RcuInv' BY StutterKeeps
<1>1. PICK t \in Threads : Begin(t) \/ Continue(t) BY DEF Next
<1>2. LockInv' BY <1>1, StepUsesLock, LockStepKeepsInv DEF RcuInv
<1> QED BY <1>1, <1>2, TypeKept, LockIsUsedKept, EpochsKept, TargetKept, ScansKept, ObjectsKept
        DEF RcuInv

LEMMA NextKeepsSections == ~StoresAreDelayed /\ ReadInv /\ [Next]_vars => ReadInv'
<1> SUFFICES ASSUME ~StoresAreDelayed, ReadInv, Next PROVE ReadInv' BY StutterKeeps
<1>1. PICK t \in Threads : Begin(t) \/ Continue(t) BY DEF Next
<1>2. RcuInv' BY NextKeeps DEF ReadInv
<1> QED BY <1>1, <1>2, MarksKept, HoldersKept, LiveDataKept DEF ReadInv

\* Type correctness, with or without store buffers: the epoch in particular
\* stays below NOT_READING.
THEOREM TypeCorrect == Spec => []TypeOK
<1>1. RcuInv => TypeOK
  BY ConstantTypes, EpochBounded, InvGivesType DEF RcuInv, RcuType, TypeOK, Epochs, Labels
<1>2. Init => RcuInv BY InitInv DEF ReadInv
<1> QED BY <1>1, <1>2, NextKeeps, PTL DEF Spec

\* The lock keeps its promise to the threads that use it here.
THEOREM ListIsProtected == Spec => []MutualExclusion
<1>1. RcuInv => MutualExclusion BY DEF RcuInv, LockInv
<1>2. Init => RcuInv BY InitInv DEF ReadInv
<1> QED BY <1>1, <1>2, NextKeeps, PTL DEF Spec

\* Nobody looks at a reader that is gone.
THEOREM ScansAreSafe == Spec => []ScansSeeLiveReaders
<1>1. RcuInv => ScansSeeLiveReaders BY DEF RcuInv, ScansAreGuarded, ScansSeeLiveReaders
<1>2. Init => RcuInv BY InitInv DEF ReadInv
<1> QED BY <1>1, <1>2, NextKeeps, PTL DEF Spec

\* Without store buffers no object is deleted while a read section refers to it.
THEOREM ReadSectionsProtect == ~StoresAreDelayed /\ Spec => []ReadersSeeLiveData
<1>1. ReadInv => ReadersSeeLiveData BY DEF ReadInv
<1>2. SUFFICES ASSUME ~StoresAreDelayed PROVE Spec => []ReadersSeeLiveData OBVIOUS
<1>3. ReadInv /\ [Next]_vars => ReadInv' BY <1>2, NextKeepsSections
<1> QED BY <1>1, <1>3, InitInv, PTL DEF Spec

-----------------------------------------------------------------------------
(* What std::erase leaves of a list *)

Occurring(seq) == {seq[i] : i \in DOMAIN seq}
OccurOnce(seq) == \A i, j \in DOMAIN seq : seq[i] = seq[j] => i = j

LEMMA AppendOccurring ==
    ASSUME NEW S, NEW s \in Seq(S), NEW e \in S
    PROVE  /\ Append(s, e) \in Seq(S)
           /\ Occurring(Append(s, e)) = Occurring(s) \cup {e}
           /\ OccurOnce(s) /\ e \notin Occurring(s) => OccurOnce(Append(s, e))
<1>1. /\ Append(s, e) \in Seq(S) /\ DOMAIN s = 1 .. Len(s)
      /\ DOMAIN Append(s, e) = 1 .. Len(s) + 1 /\ Len(s) \in Nat
      /\ \A i \in 1 .. Len(s) : Append(s, e)[i] = s[i]
      /\ Append(s, e)[Len(s) + 1] = e
  OBVIOUS
<1>2. 1 .. Len(s) + 1 = (1 .. Len(s)) \cup {Len(s) + 1} BY <1>1
<1>3. Occurring(Append(s, e)) = Occurring(s) \cup {e} BY <1>1, <1>2 DEF Occurring
<1>4. ASSUME OccurOnce(s), e \notin Occurring(s) PROVE OccurOnce(Append(s, e))
  <2> SUFFICES ASSUME NEW i \in 1 .. Len(s) + 1, NEW j \in 1 .. Len(s) + 1,
                      Append(s, e)[i] = Append(s, e)[j]
               PROVE  i = j
    BY <1>1 DEF OccurOnce
  <2>1. CASE i \in 1 .. Len(s) /\ j \in 1 .. Len(s) BY <1>1, <1>4, <2>1 DEF OccurOnce
  <2>2. CASE i \in 1 .. Len(s) /\ j = Len(s) + 1 BY <1>1, <1>4, <2>2 DEF Occurring
  <2>3. CASE i = Len(s) + 1 /\ j \in 1 .. Len(s) BY <1>1, <1>4, <2>3 DEF Occurring
  <2>4. CASE i = Len(s) + 1 /\ j = Len(s) + 1 BY <2>4
  <2> QED BY <1>2, <2>1, <2>2, <2>3, <2>4
<1> QED BY <1>1, <1>3, <1>4

LEMMA ErasedTakesOut ==
    ASSUME NEW S, NEW seq \in Seq(S), NEW t
    PROVE  /\ Erased(seq, t) \in Seq(S)
           /\ Occurring(Erased(seq, t)) = Occurring(seq) \ {t}
           /\ OccurOnce(seq) => OccurOnce(Erased(seq, t))
<1> DEFINE n == Len(seq)
           Next1(e, i) == IF seq[i] = t THEN e ELSE Append(e, seq[i])
           Defines(f, m) == f = [i \in 0 .. m |-> IF i = 0 THEN <<>> ELSE Next1(f[i - 1], i)]
           S1 == {m \in 0 .. n : \E f : Defines(f, m)}
           kept == CHOOSE f : Defines(f, n)
<1>1. n \in Nat /\ DOMAIN seq = 1 .. n /\ \A i \in 1 .. n : seq[i] \in S OBVIOUS
<1>2. Erased(seq, t) = kept[n] BY DEF Erased
<1> HIDE DEF n, Next1
<1>3. 0 \in S1
  <2>1. Defines([i \in 0 .. 0 |-> <<>>], 0) OBVIOUS
  <2>2. 0 \in 0 .. n BY <1>1
  <2> HIDE DEF Defines
  <2> QED BY <2>1, <2>2
<1>4. ASSUME NEW m \in 0 .. n - 1, m \in S1 PROVE m + 1 \in S1
  <2>1. PICK f : Defines(f, m) BY <1>4
  <2> DEFINE g == [i \in 0 .. m + 1 |-> IF i <= m THEN f[i] ELSE Next1(f[m], m + 1)]
             h == [i \in 0 .. m + 1 |-> IF i = 0 THEN <<>> ELSE Next1(g[i - 1], i)]
  <2>2. ASSUME NEW i \in 0 .. m + 1 PROVE g[i] = h[i]
    <3>1. CASE i = 0 BY <2>1, <3>1, <1>1
    <3>2. CASE i \in 1 .. m
      <4>1. i \in 0 .. m /\ i - 1 \in 0 .. m /\ i # 0 BY <3>2
      <4>2. g[i] = f[i] /\ g[i - 1] = f[i - 1] BY <4>1
      <4>3. f[i] = Next1(f[i - 1], i) BY <2>1, <4>1
      <4> QED BY <4>1, <4>2, <4>3
    <3>3. CASE i = m + 1
      <4>1. m + 1 # 0 /\ ~ (m + 1 <= m) /\ m \in 0 .. m + 1 /\ (m + 1) - 1 = m BY <1>1
      <4>2. g[m + 1] = Next1(f[m], m + 1) /\ g[m] = f[m] BY <4>1
      <4> QED BY <3>3, <4>1, <4>2
    <3> QED BY <3>1, <3>2, <3>3, <1>1
  <2>3. g = h BY <2>2
  <2>4. Defines(g, m + 1) BY <2>3
  <2>5. m + 1 \in 0 .. n BY <1>1
  <2> HIDE DEF Defines, g
  <2> QED BY <2>4, <2>5
<1>5. n \in S1
  <2> HIDE DEF S1
  <2>1. 0 .. n \subseteq S1 BY <1>1, <1>3, <1>4, IntervalInduction
  <2> QED BY <1>1, <2>1
<1>6. Defines(kept, n)
  <2> HIDE DEF Defines
  <2> QED BY <1>5
<1> DEFINE Until(m) == {seq[i] : i \in 1 .. m} \ {t}
           Right(m) == /\ kept[m] \in Seq(S) /\ Occurring(kept[m]) = Until(m)
                       /\ OccurOnce(seq) => OccurOnce(kept[m])
           S2 == {m \in 0 .. n : Right(m)}
<1>7. kept[0] = <<>> /\ \A i \in 1 .. n : kept[i] = Next1(kept[i - 1], i)
  <2> HIDE DEF kept
  <2> QED BY <1>1, <1>6
<1> HIDE DEF kept
<1>8. 0 \in S2
  <2>1. <<>> \in Seq(S) /\ Occurring(<<>>) = {} /\ OccurOnce(<<>>) BY DEF Occurring, OccurOnce
  <2>2. Until(0) = {} /\ 0 \in 0 .. n BY <1>1
  <2> QED BY <1>7, <2>1, <2>2
<1>9. ASSUME NEW m \in 0 .. n - 1, m \in S2 PROVE m + 1 \in S2
  <2>1. m + 1 \in 1 .. n /\ m + 1 \in 0 .. n /\ (m + 1) - 1 = m BY <1>1
  <2>2. kept[m + 1] = Next1(kept[m], m + 1) BY <1>7, <2>1
  <2>3. 1 .. m + 1 = (1 .. m) \cup {m + 1} BY <1>1
  <2>4. Until(m + 1) = Until(m) \cup ({seq[m + 1]} \ {t}) BY <2>3
  <2>5. seq[m + 1] \in S BY <1>1, <2>1
  <2>6. Right(m) BY <1>9
  <2>7. CASE seq[m + 1] = t
    <3>1. kept[m + 1] = kept[m] /\ Until(m + 1) = Until(m) BY <2>2, <2>4, <2>7 DEF Next1
    <3> QED BY <2>1, <2>6, <3>1
  <2>8. CASE seq[m + 1] # t
    <3>1. kept[m + 1] = Append(kept[m], seq[m + 1]) BY <2>2, <2>8 DEF Next1
    <3>2. Until(m + 1) = Until(m) \cup {seq[m + 1]} BY <2>4, <2>8
    <3>3. OccurOnce(seq) => seq[m + 1] \notin Until(m)
      <4> SUFFICES ASSUME OccurOnce(seq), NEW i \in 1 .. m, seq[i] = seq[m + 1] PROVE FALSE
        OBVIOUS
      <4>1. i \in 1 .. n /\ i # m + 1 BY <1>1
      <4> QED BY <1>1, <2>1, <4>1 DEF OccurOnce
    <3>4. /\ kept[m + 1] \in Seq(S)
          /\ Occurring(kept[m + 1]) = Occurring(kept[m]) \cup {seq[m + 1]}
          /\ OccurOnce(kept[m]) /\ seq[m + 1] \notin Occurring(kept[m]) => OccurOnce(kept[m + 1])
      <4>1. kept[m] \in Seq(S) BY <2>6
      <4> QED BY <2>5, <3>1, <4>1, AppendOccurring
    <3>5. Right(m + 1) BY <2>6, <3>2, <3>3, <3>4
    <3> QED BY <2>1, <3>5
  <2> QED BY <2>7, <2>8
<1>10. Right(n)
  <2> HIDE DEF S2
  <2>1. 0 .. n \subseteq S2 BY <1>1, <1>8, <1>9, IntervalInduction
  <2>2. n \in S2 BY <1>1, <2>1
  <2> QED BY <2>2 DEF S2
<1>11. Until(n) = Occurring(seq) \ {t} BY <1>1 DEF Occurring
<1> QED BY <1>2, <1>10, <1>11

\* A list without repetitions is as long as the set of its elements is large.
LEMMA OnceIsCounted ==
    ASSUME NEW S, NEW seq \in Seq(S), OccurOnce(seq)
    PROVE  Len(seq) = Cardinality(Occurring(seq))
<1>1. Len(seq) \in Nat /\ DOMAIN seq = 1 .. Len(seq) OBVIOUS
<1>2. IsFiniteSet(1 .. Len(seq)) /\ Cardinality(1 .. Len(seq)) = Len(seq) BY <1>1, FS_Interval
<1>3. seq \in Surjection(1 .. Len(seq), Occurring(seq))
  BY <1>1 DEF Surjection, Occurring
<1>4. seq \in Injection(1 .. Len(seq), Occurring(seq))
  <2>1. seq \in [1 .. Len(seq) -> Occurring(seq)] BY <1>1 DEF Occurring
  <2> QED BY <1>1, <2>1 DEF Injection, IsInjective, OccurOnce
<1> QED BY <1>2, <1>3, <1>4, FS_Surjection

-----------------------------------------------------------------------------
(* Types, and the spinlock *)

GnLabels == {"new", "live", "ended", "lock", "test", "register", "jump", "list", "remove",
           "seed", "seeding"}
Jobs == {"none", "register", "remove", "seed"}
GnStates == [seed : Nat, jumps : Nat]

GnType ==
    /\ gnLocked \in BOOLEAN /\ gnGlobal \in GnStates /\ gnList \in Seq(GnThreads)
    /\ gnGen \in [GnThreads -> [state : GnStates, draws : Nat, pool : [left : Nat, of : GnStates]]]
    /\ gnPc \in [GnThreads -> GnLabels] /\ gnJob \in [GnThreads -> Jobs]
    /\ gnRead \in [GnThreads -> GnStates] /\ gnAt \in Nat

\* The labels between lock() and unlock().
Inside == {"register", "jump", "list", "remove", "seed", "seeding"}

LockAdmitsOne == \A t \in GnThreads : gnPc[t] \in Inside =>
                   gnLocked /\ \A u \in GnThreads : gnPc[u] \in Inside => u = t

JobsMatch == \A t \in GnThreads :
    /\ gnPc[t] \in {"new", "live", "ended"} <=> gnJob[t] = "none"
    /\ gnPc[t] \in {"register", "jump", "list"} => gnJob[t] = "register"
    /\ gnPc[t] = "remove" => gnJob[t] = "remove"
    /\ gnPc[t] \in {"seed", "seeding"} => gnJob[t] = "seed"

GnControl == GnType /\ LockAdmitsOne /\ JobsMatch

LEMMA StateTypes ==
    /\ \A seed, jumps \in Nat : State(seed, jumps) \in GnStates
    /\ \A s \in GnStates : Jumped(s) \in GnStates /\ Jumped(s) = State(s.seed, s.jumps + 1)
    /\ \A s \in GnStates : Generator(s) \in [state : GnStates, draws : Nat,
                                             pool : [left : Nat, of : GnStates]]
    /\ NoGenerator \in [state : GnStates, draws : Nat, pool : [left : Nat, of : GnStates]]
BY DEF State, Jumped, GnStates, Generator, EmptyPool, NoGenerator

LEMMA GeneratorRecord ==
    ASSUME NEW g \in [state : GnStates, draws : Nat, pool : [left : Nat, of : GnStates]], NEW d, NEW p
    PROVE  [[g EXCEPT !.draws = d] EXCEPT !.pool = p] = [state |-> g.state, draws |-> d, pool |-> p]
<1>1. [g EXCEPT !.draws = d] = [state |-> g.state, draws |-> d, pool |-> g.pool] OBVIOUS
<1>2. [[state |-> g.state, draws |-> d, pool |-> g.pool] EXCEPT !.pool = p]
        = [state |-> g.state, draws |-> d, pool |-> p]
  OBVIOUS
<1> QED BY <1>1, <1>2

\* Numbers and bools leave the place of a generator among the streams alone; the
\* bools that are left over are from its own stream.
LEMMA DrawsChangeNoState ==
    ASSUME GnType, NEW t \in GnThreads, Draw(t) \/ RandomBool(t)
    PROVE  \E d \in Nat, p \in [left : Nat, of : GnStates] :
             /\ gnGen' = [gnGen EXCEPT ![t] = [state |-> gnGen[t].state, draws |-> d, pool |-> p]]
             /\ p.left > 0 => \/ p.of = gnGen[t].state
                              \/ gnGen[t].pool.left > 0 /\ p.of = gnGen[t].pool.of
<1> DEFINE g == gnGen[t]
           With(d, p) == gnGen' = [gnGen EXCEPT ![t] = [state |-> g.state, draws |-> d, pool |-> p]]
<1>1. /\ g \in [state : GnStates, draws : Nat, pool : [left : Nat, of : GnStates]]
      /\ g.draws \in Nat /\ g.pool \in [left : Nat, of : GnStates] /\ g.state \in GnStates
      /\ g.draws + 1 \in Nat /\ DOMAIN gnGen = GnThreads
  BY DEF GnType
<1>2. ASSUME Draw(t) PROVE With(g.draws + 1, g.pool)
  <2>1. gnGen' = [gnGen EXCEPT ![t] = [g EXCEPT !.draws = g.draws + 1]] BY <1>2 DEF Draw
  <2>2. [g EXCEPT !.draws = g.draws + 1] = [state |-> g.state, draws |-> g.draws + 1, pool |-> g.pool]
    BY <1>1
  <2> QED BY <2>1, <2>2
<1>3. ASSUME RandomBool(t), g.pool.left > 0
      PROVE  With(g.draws, [left |-> g.pool.left - 1, of |-> g.pool.of])
  <2>1. gnGen' = [gnGen EXCEPT ![t] = [g EXCEPT !.pool = [g.pool EXCEPT !.left = g.pool.left - 1]]]
    BY <1>3 DEF RandomBool
  <2>2. [g EXCEPT !.pool = [g.pool EXCEPT !.left = g.pool.left - 1]]
          = [state |-> g.state, draws |-> g.draws, pool |-> [left |-> g.pool.left - 1, of |-> g.pool.of]]
    BY <1>1
  <2> QED BY <2>1, <2>2
<1>4. ASSUME RandomBool(t), ~ g.pool.left > 0
      PROVE  With(g.draws + 1, [left |-> GnPoolBits - 1, of |-> g.state])
  <2> DEFINE p == [left |-> GnPoolBits - 1, of |-> g.state]
  <2>1. gnGen' = [gnGen EXCEPT ![t] = [[g EXCEPT !.draws = g.draws + 1] EXCEPT !.pool = p]]
    BY <1>1, <1>4 DEF RandomBool
  <2>2. [[g EXCEPT !.draws = g.draws + 1] EXCEPT !.pool = p]
          = [state |-> g.state, draws |-> g.draws + 1, pool |-> p]
    BY <1>1, GeneratorRecord
  <2> QED BY <2>1, <2>2
<1> HIDE DEF g
<1>5. [left |-> GnPoolBits - 1, of |-> g.state] \in [left : Nat, of : GnStates] BY <1>1, GnAssumption
<1>6. g.pool.left > 0 => [left |-> g.pool.left - 1, of |-> g.pool.of] \in [left : Nat, of : GnStates]
  BY <1>1
<1>7. CASE Draw(t)
  <2>1. With(g.draws + 1, g.pool) BY <1>2, <1>7
  <2> QED BY <1>1, <2>1 DEF g
<1>8. CASE RandomBool(t) /\ g.pool.left > 0
  <2>1. With(g.draws, [left |-> g.pool.left - 1, of |-> g.pool.of]) BY <1>3, <1>8
  <2> QED BY <1>1, <1>6, <1>8, <2>1 DEF g
<1>9. CASE RandomBool(t) /\ ~ g.pool.left > 0
  <2> DEFINE p == [left |-> GnPoolBits - 1, of |-> g.state]
  <2>1. With(g.draws + 1, p) /\ p.of = g.state /\ p \in [left : Nat, of : GnStates]
    BY <1>4, <1>5, <1>9
  <2>2. gnGen' = [gnGen EXCEPT ![t] = [state |-> gnGen[t].state, draws |-> g.draws + 1, pool |-> p]]
    BY <2>1 DEF g
  <2>3. p.of = gnGen[t].state BY <2>1 DEF g
  <2>4. g.draws + 1 \in Nat /\ p \in [left : Nat, of : GnStates] BY <1>1, <2>1
  <2> HIDE DEF p, With
  <2> QED BY <2>2, <2>3, <2>4, Zenon
<1> QED BY <1>7, <1>8, <1>9

LEMMA InitControl == GnInit => GnControl
<1> SUFFICES ASSUME GnInit PROVE GnControl OBVIOUS
<1>1. State(0, 0) \in GnStates BY StateTypes
<1>2. gnLocked \in BOOLEAN BY Zenon DEF GnInit
<1>3. GnType BY <1>1, <1>2, StateTypes DEF GnInit, GnType, GnLabels, Jobs
<1>4. LockAdmitsOne /\ JobsMatch BY DEF GnInit, LockAdmitsOne, JobsMatch, Inside
<1> QED BY <1>3, <1>4 DEF GnControl

LEMMA TypeStep == ASSUME GnControl, [GnNext]_gnVars PROVE GnType'
<1> USE DEF GnControl, GnType, GnGoto, StartJob, Finish
<1>1. CASE UNCHANGED gnVars BY <1>1 DEF gnVars
<1>2. ASSUME NEW t \in GnThreads, FirstDraw(t) \/ Exit(t) \/ Test(t) PROVE GnType'
  BY <1>2 DEF FirstDraw, Exit, Test, GnLabels, Jobs
<1>3. ASSUME NEW t \in GnThreads, TestAndSet(t) PROVE GnType'
  <2>1. gnJob[t] \in GnLabels \cup {"none"} BY DEF GnLabels, Jobs
  <2>2. gnJob[t] # "none" BY <1>3 DEF TestAndSet, JobsMatch
  <2>3. gnPc' \in [GnThreads -> GnLabels] BY <1>3, <2>1, <2>2 DEF TestAndSet, GnLabels
  <2>4. gnLocked' \in BOOLEAN BY <1>3, Zenon DEF TestAndSet
  <2> QED BY <1>3, <2>3, <2>4 DEF TestAndSet
<1>4. ASSUME NEW t \in GnThreads, NEW seed \in GnSeeds, CallSeed(t, seed) PROVE GnType'
  <2>1. State(seed, 0) \in GnStates BY GnAssumption, StateTypes
  <2> QED BY <1>4, <2>1 DEF CallSeed, GnLabels, Jobs
<1>5. ASSUME NEW t \in GnThreads, ReadGlobal(t) PROVE GnType'
  BY <1>5 DEF ReadGlobal, GnLabels
<1>6. ASSUME NEW t \in GnThreads, Jump(t) PROVE GnType'
  <2>1. Jumped(gnRead[t]) \in GnStates BY StateTypes
  <2> QED BY <1>6, <2>1, StateTypes DEF Jump, GnLabels
<1>7. ASSUME NEW t \in GnThreads, List(t) PROVE GnType'
  <2>1. gnLocked' \in BOOLEAN BY <1>7, Zenon DEF List
  <2> QED BY <1>7, <2>1 DEF List, GnLabels, Jobs
<1>8. ASSUME NEW t \in GnThreads, Remove(t) PROVE GnType'
  <2>1. gnLocked' \in BOOLEAN BY <1>8, Zenon DEF Remove
  <2>2. gnList' \in Seq(GnThreads) BY <1>8, ErasedTakesOut DEF Remove
  <2> QED BY <1>8, <2>1, <2>2, StateTypes DEF Remove, GnLabels, Jobs
<1>9. ASSUME NEW t \in GnThreads, SeedGlobal(t) PROVE GnType'
  BY <1>9 DEF SeedGlobal, GnLabels
<1>10. ASSUME NEW t \in GnThreads, SeedNext(t) PROVE GnType'
  <2>1. Jumped(gnGlobal) \in GnStates BY StateTypes
  <2>2. gnGen' = [gnGen EXCEPT ![gnList[gnAt]] = Generator(Jumped(gnGlobal))]
    BY <1>10 DEF SeedNext, Reseeded
  <2>3. gnGen' \in [GnThreads -> [state : GnStates, draws : Nat, pool : [left : Nat, of : GnStates]]]
    BY <2>1, <2>2, StateTypes
  <2> QED BY <1>10, <2>1, <2>3 DEF SeedNext
<1>11. ASSUME NEW t \in GnThreads, SeedReturns(t) PROVE GnType'
  <2>1. gnLocked' \in BOOLEAN BY <1>11, Zenon DEF SeedReturns
  <2> QED BY <1>11, <2>1 DEF SeedReturns, GnLabels, Jobs
<1>12. ASSUME NEW t \in GnThreads, Draw(t) \/ RandomBool(t) PROVE GnType'
  <2>1. PICK d \in Nat, p \in [left : Nat, of : GnStates] :
          gnGen' = [gnGen EXCEPT ![t] = [state |-> gnGen[t].state, draws |-> d, pool |-> p]]
    BY <1>12, DrawsChangeNoState
  <2>2. gnGen' \in [GnThreads -> [state : GnStates, draws : Nat, pool : [left : Nat, of : GnStates]]]
    BY <2>1
  <2> QED BY <1>12, <2>2 DEF Draw, RandomBool
<1> QED BY <1>1, <1>2, <1>3, <1>4, <1>5, <1>6, <1>7, <1>8, <1>9, <1>10, <1>11, <1>12 DEF GnNext

LEMMA GnControlStep == ASSUME GnControl, [GnNext]_gnVars PROVE GnControl'
<1> USE DEF GnControl, GnType, GnGoto, StartJob, Finish, LockAdmitsOne, JobsMatch, Inside
<1>1. CASE UNCHANGED gnVars BY <1>1 DEF gnVars
<1>2. ASSUME NEW t \in GnThreads, FirstDraw(t) \/ Exit(t) \/ Test(t)
      PROVE  LockAdmitsOne' /\ JobsMatch'
  <2>1. CASE FirstDraw(t) BY <2>1 DEF FirstDraw
  <2>2. CASE Exit(t) BY <2>2 DEF Exit
  <2>3. CASE Test(t) BY <2>3 DEF Test
  <2> QED BY <1>2, <2>1, <2>2, <2>3
<1>3. ASSUME NEW t \in GnThreads, TestAndSet(t) PROVE LockAdmitsOne' /\ JobsMatch'
  <2>1. gnJob[t] \in {"register", "remove", "seed"} BY <1>3 DEF TestAndSet, Jobs
  <2> QED BY <1>3, <2>1 DEF TestAndSet
<1>4. ASSUME NEW t \in GnThreads, NEW seed \in GnSeeds, CallSeed(t, seed)
      PROVE  LockAdmitsOne' /\ JobsMatch'
  BY <1>4 DEF CallSeed
<1>5. ASSUME NEW t \in GnThreads, ReadGlobal(t) \/ Jump(t) \/ SeedGlobal(t)
      PROVE  LockAdmitsOne' /\ JobsMatch'
  <2>1. CASE ReadGlobal(t) BY <2>1 DEF ReadGlobal
  <2>2. CASE Jump(t) BY <2>2 DEF Jump
  <2>3. CASE SeedGlobal(t) BY <2>3 DEF SeedGlobal
  <2> QED BY <1>5, <2>1, <2>2, <2>3
<1>6. ASSUME NEW t \in GnThreads, List(t) \/ Remove(t) \/ SeedReturns(t)
      PROVE  LockAdmitsOne' /\ JobsMatch'
  <2>1. CASE List(t) BY <2>1 DEF List
  <2>2. CASE Remove(t) BY <2>2 DEF Remove
  <2>3. CASE SeedReturns(t) BY <2>3 DEF SeedReturns
  <2> QED BY <1>6, <2>1, <2>2, <2>3
<1>7. ASSUME NEW t \in GnThreads, SeedNext(t) \/ Draw(t) \/ RandomBool(t)
      PROVE  LockAdmitsOne' /\ JobsMatch'
  <2>1. CASE SeedNext(t) BY <2>1 DEF SeedNext
  <2>2. CASE Draw(t) \/ RandomBool(t) BY <2>2 DEF Draw, RandomBool
  <2> QED BY <1>7, <2>1, <2>2
<1> QED BY <1>1, <1>2, <1>3, <1>4, <1>5, <1>6, <1>7, TypeStep DEF GnNext

-----------------------------------------------------------------------------
(* The list leads to the generators that exist *)

\* A thread is listed from the end of the construction of its generator to that of
\* the destruction; seed() may be called with and without one.
ListIsExact ==
    /\ OccurOnce(gnList)
    /\ \A t \in Elements : gnPc[t] \notin {"new", "ended"} /\ gnJob[t] # "register"
    /\ \A t \in GnThreads : gnPc[t] = "live" \/ gnJob[t] = "remove" => t \in Elements

LEMMA ElementsOccur == Elements = Occurring(gnList) BY DEF Elements, Occurring

LEMMA ListedThreads == ASSUME GnType PROVE Elements \subseteq GnThreads
BY DEF GnType, Elements

LEMMA ListStep ==
    ASSUME GnControl, ListIsExact, [GnNext]_gnVars PROVE ListIsExact'
<1> USE DEF GnControl, GnType, GnGoto, StartJob, Finish, JobsMatch
<1>1. ASSUME UNCHANGED gnList,
             \A t \in Elements : gnPc'[t] \notin {"new", "ended"} /\ gnJob'[t] # "register",
             \A t \in GnThreads : gnPc'[t] = "live" \/ gnJob'[t] = "remove" => t \in Elements
      PROVE  ListIsExact'
  BY <1>1 DEF ListIsExact, Elements, OccurOnce
<1>2. CASE UNCHANGED gnVars BY <1>1, <1>2 DEF gnVars, ListIsExact
<1>3. ASSUME NEW t \in GnThreads, FirstDraw(t) PROVE ListIsExact'
  BY <1>1, <1>3, ListedThreads DEF FirstDraw, ListIsExact
<1>4. ASSUME NEW t \in GnThreads, Exit(t) PROVE ListIsExact'
  BY <1>1, <1>4, ListedThreads DEF Exit, ListIsExact
<1>5. ASSUME NEW t \in GnThreads, Test(t) PROVE ListIsExact'
  BY <1>1, <1>5, ListedThreads DEF Test, ListIsExact
<1>6. ASSUME NEW t \in GnThreads, TestAndSet(t) PROVE ListIsExact'
  <2>1. gnJob[t] \in {"register", "remove", "seed"} BY <1>6 DEF TestAndSet, Jobs
  <2> QED BY <1>1, <1>6, <2>1, ListedThreads DEF TestAndSet, ListIsExact
<1>7. ASSUME NEW t \in GnThreads, NEW seed \in GnSeeds, CallSeed(t, seed) PROVE ListIsExact'
  BY <1>1, <1>7, ListedThreads DEF CallSeed, ListIsExact
<1>8. ASSUME NEW t \in GnThreads, ReadGlobal(t) PROVE ListIsExact'
  BY <1>1, <1>8, ListedThreads DEF ReadGlobal, ListIsExact
<1>9. ASSUME NEW t \in GnThreads, Jump(t) PROVE ListIsExact'
  BY <1>1, <1>9, ListedThreads DEF Jump, ListIsExact
<1>10. ASSUME NEW t \in GnThreads, SeedGlobal(t) PROVE ListIsExact'
  BY <1>1, <1>10, ListedThreads DEF SeedGlobal, ListIsExact
<1>11. ASSUME NEW t \in GnThreads, SeedNext(t) PROVE ListIsExact'
  BY <1>1, <1>11 DEF SeedNext, ListIsExact
<1>12. ASSUME NEW t \in GnThreads, Draw(t) \/ RandomBool(t) PROVE ListIsExact'
  BY <1>1, <1>12 DEF Draw, RandomBool, ListIsExact
<1>13. ASSUME NEW t \in GnThreads, SeedReturns(t) PROVE ListIsExact'
  BY <1>1, <1>13, ListedThreads DEF SeedReturns, ListIsExact
<1>14. ASSUME NEW t \in GnThreads, List(t) PROVE ListIsExact'
  <2>1. gnList' = Append(gnList, t) /\ gnPc[t] = "list" /\ gnJob[t] = "register" BY <1>14 DEF List
  <2>2. t \notin Elements BY <2>1 DEF ListIsExact
  <2>3. OccurOnce(gnList') /\ Occurring(gnList') = Occurring(gnList) \cup {t}
    BY <2>1, <2>2, AppendOccurring, ElementsOccur DEF ListIsExact
  <2>4. Elements' = Elements \cup {t} BY <2>3, ElementsOccur DEF Elements, Occurring
  <2> QED BY <1>14, <2>3, <2>4, ListedThreads DEF List, ListIsExact, OccurOnce
<1>15. ASSUME NEW t \in GnThreads, Remove(t) PROVE ListIsExact'
  <2>1. gnList' = Erased(gnList, t) /\ gnPc[t] = "remove" BY <1>15 DEF Remove
  <2>2. OccurOnce(gnList') /\ Occurring(gnList') = Occurring(gnList) \ {t}
    BY <2>1, ErasedTakesOut DEF ListIsExact
  <2>3. Elements' = Elements \ {t} BY <2>2, ElementsOccur DEF Elements, Occurring
  <2> QED BY <1>15, <2>2, <2>3, ListedThreads DEF Remove, ListIsExact, OccurOnce
<1> QED BY <1>2, <1>3, <1>4, <1>5, <1>6, <1>7, <1>8, <1>9, <1>10, <1>11, <1>12, <1>13, <1>14, <1>15
        DEF GnNext

-----------------------------------------------------------------------------
(* The streams *)

JumpsOf(t) == gnGen[t].state.jumps
NobodySeeds == \A t \in GnThreads : gnPc[t] # "seeding"

\* A listed generator has jumped, and its left-over bools are from its own stream.
NumbersAreOwn == \A t \in Elements :
    JumpsOf(t) > 0 /\ (gnGen[t].pool.left > 0 => gnGen[t].pool.of = gnGen[t].state)

\* Outside of the loop of seed(), the generators are at different jumps of the seed
\* of the global one, none ahead of it.
StreamsAreSettled == NobodySeeds => \A t \in Elements :
    /\ gnGen[t].state.seed = gnGlobal.seed /\ JumpsOf(t) <= gnGlobal.jumps
    /\ \A u \in Elements : JumpsOf(u) = JumpsOf(t) => u = t

\* A generator that is being registered is the furthest.
NewIsFurthest == \A t \in GnThreads :
    /\ gnPc[t] = "jump" => gnRead[t] = gnGlobal
    /\ gnPc[t] = "list" => /\ gnGen[t] = Generator(gnGlobal) /\ gnGlobal.jumps > 0
                           /\ \A u \in Elements : JumpsOf(u) < gnGlobal.jumps

\* In the loop of seed(), the generators it has passed are at the jump of their
\* place in the list.
PassedAreSeeded == \A t \in GnThreads :
    /\ gnPc[t] = "seeding" =>
         /\ gnAt \in 1 .. Len(gnList) + 1 /\ gnGlobal.jumps = gnAt - 1
         /\ \A i \in 1 .. gnAt - 1 : gnGen[gnList[i]].state = State(gnGlobal.seed, i)
    /\ gnJob[t] = "seed" /\ gnPc[t] # "seeding" => gnRead[t].jumps = 0

StreamsInv == NumbersAreOwn /\ StreamsAreSettled /\ NewIsFurthest /\ PassedAreSeeded

\* Steps that leave the generators alone.
LEMMA StreamsFrame ==
    ASSUME StreamsInv, UNCHANGED <<gnGlobal, gnList, gnGen, gnAt>>,
           \A t \in GnThreads :
              /\ gnPc'[t] = "seeding" <=> gnPc[t] = "seeding"
              /\ gnPc'[t] = "list" => gnPc[t] = "list"
              /\ gnPc'[t] = "jump" => gnRead'[t] = gnGlobal
              /\ gnJob'[t] = "seed" /\ gnPc'[t] # "seeding" => gnRead'[t].jumps = 0
    PROVE  StreamsInv'
<1>1. Elements' = Elements /\ \A t : JumpsOf(t)' = JumpsOf(t) BY DEF Elements, JumpsOf
<1>2. NobodySeeds' <=> NobodySeeds BY DEF NobodySeeds
<1>3. NumbersAreOwn' BY <1>1 DEF StreamsInv, NumbersAreOwn
<1>4. StreamsAreSettled' BY <1>1, <1>2 DEF StreamsInv, StreamsAreSettled
<1>5. NewIsFurthest' BY <1>1 DEF StreamsInv, NewIsFurthest
<1>6. PassedAreSeeded' BY <1>1 DEF StreamsInv, PassedAreSeeded
<1> QED BY <1>3, <1>4, <1>5, <1>6 DEF StreamsInv

\* The steps up to the lock.
LEMMA WaitingStep ==
    ASSUME GnControl, StreamsInv, NEW t \in GnThreads,
           \/ FirstDraw(t) \/ Exit(t) \/ Test(t) \/ TestAndSet(t) \/ ReadGlobal(t)
           \/ \E seed \in GnSeeds : CallSeed(t, seed)
    PROVE  StreamsInv'
<1> USE DEF GnControl, GnType, GnGoto, StartJob, JobsMatch, StreamsInv, NewIsFurthest, PassedAreSeeded
<1>1. CASE FirstDraw(t) BY <1>1, StreamsFrame DEF FirstDraw
<1>2. CASE Exit(t) BY <1>2, StreamsFrame DEF Exit
<1>3. CASE Test(t) BY <1>3, StreamsFrame DEF Test
<1>4. CASE TestAndSet(t)
  <2>1. gnJob[t] \in {"register", "remove", "seed"} BY <1>4 DEF TestAndSet, Jobs
  <2> QED BY <1>4, <2>1, StreamsFrame DEF TestAndSet
<1>5. CASE ReadGlobal(t) BY <1>5, StreamsFrame DEF ReadGlobal
<1>6. ASSUME NEW seed \in GnSeeds, CallSeed(t, seed) PROVE StreamsInv'
  <2>1. State(seed, 0).jumps = 0 BY DEF State
  <2> QED BY <1>6, <2>1, StreamsFrame DEF CallSeed
<1> QED BY <1>1, <1>2, <1>3, <1>4, <1>5, <1>6

\* A new generator is one jump further than every other one.
LEMMA JumpStep ==
    ASSUME GnControl, ListIsExact, StreamsInv, NEW t \in GnThreads, Jump(t)
    PROVE  StreamsInv'
<1>1. /\ gnPc[t] = "jump" /\ gnGlobal' = Jumped(gnRead[t])
      /\ gnGen' = [gnGen EXCEPT ![t] = Generator(Jumped(gnRead[t]))]
      /\ gnPc' = [gnPc EXCEPT ![t] = "list"]
      /\ UNCHANGED <<gnLocked, gnList, gnJob, gnRead, gnAt, gnSeedings>>
  BY DEF Jump, GnGoto
<1>2. gnRead[t] = gnGlobal /\ gnGlobal \in GnStates BY <1>1 DEF StreamsInv, NewIsFurthest, GnControl, GnType
<1>3. gnGlobal' = State(gnGlobal.seed, gnGlobal.jumps + 1) BY <1>1, <1>2, StateTypes
<1>4. gnGlobal'.seed = gnGlobal.seed /\ gnGlobal'.jumps = gnGlobal.jumps + 1 /\ gnGlobal.jumps \in Nat
  BY <1>2, <1>3 DEF State, GnStates
<1>5. gnGen \in [GnThreads -> [state : GnStates, draws : Nat, pool : [left : Nat, of : GnStates]]]
      /\ gnPc \in [GnThreads -> GnLabels]
  BY DEF GnControl, GnType
<1>6. t \notin Elements BY <1>1 DEF ListIsExact, GnControl, JobsMatch
<1>7. Elements \subseteq GnThreads /\ Elements' = Elements
  BY <1>1, ListedThreads DEF Elements, GnControl
<1>8. \A u \in Elements : gnGen'[u] = gnGen[u] /\ JumpsOf(u)' = JumpsOf(u) /\ JumpsOf(u) \in Nat
  BY <1>1, <1>5, <1>6, <1>7 DEF JumpsOf, GnStates
<1>9. \A u \in GnThreads \ {t} : gnPc[u] \notin Inside
  BY <1>1 DEF GnControl, LockAdmitsOne, Inside
<1>10. NobodySeeds /\ \A u \in GnThreads \ {t} : gnPc'[u] \notin Inside /\ gnPc'[u] = gnPc[u]
  BY <1>1, <1>5, <1>9 DEF NobodySeeds, Inside
<1>11. gnPc'[t] = "list" /\ gnGen'[t] = Generator(gnGlobal') BY <1>1, <1>5
<1>12. NumbersAreOwn' BY <1>7, <1>8 DEF StreamsInv, NumbersAreOwn
<1>13. \A u \in Elements : JumpsOf(u) <= gnGlobal.jumps BY <1>10 DEF StreamsInv, StreamsAreSettled
<1>14. StreamsAreSettled' BY <1>4, <1>7, <1>8, <1>10, <1>13 DEF StreamsInv, StreamsAreSettled
<1>15. NewIsFurthest' BY <1>4, <1>7, <1>8, <1>10, <1>11, <1>13 DEF NewIsFurthest, Inside
<1>16. PassedAreSeeded' BY <1>1, <1>10, <1>11 DEF StreamsInv, PassedAreSeeded, Inside
<1> QED BY <1>12, <1>14, <1>15, <1>16 DEF StreamsInv

LEMMA ListAddsFurthest ==
    ASSUME GnControl, ListIsExact, StreamsInv, NEW t \in GnThreads, List(t)
    PROVE  StreamsInv'
<1>1. /\ gnPc[t] = "list" /\ gnList' = Append(gnList, t) /\ gnPc' = [gnPc EXCEPT ![t] = "live"]
      /\ gnJob' = [gnJob EXCEPT ![t] = "none"]
      /\ UNCHANGED <<gnGlobal, gnGen, gnRead, gnAt, gnSeedings>>
  BY DEF List, Finish, GnGoto
<1>2. /\ gnGen[t] = Generator(gnGlobal) /\ gnGlobal.jumps > 0
      /\ \A u \in Elements : JumpsOf(u) < gnGlobal.jumps
  BY <1>1 DEF StreamsInv, NewIsFurthest
<1>3. gnGlobal \in GnStates /\ gnList \in Seq(GnThreads) /\ gnPc \in [GnThreads -> GnLabels]
      /\ gnJob \in [GnThreads -> Jobs]
  BY DEF GnControl, GnType
<1>4. Elements' = Elements \cup {t} BY <1>1, <1>3, AppendOccurring DEF Elements, Occurring
<1>5. \A u \in GnThreads \ {t} : gnPc[u] \notin Inside
  BY <1>1 DEF GnControl, LockAdmitsOne, Inside
<1>6. NobodySeeds /\ \A u \in GnThreads : gnPc'[u] \notin Inside
  BY <1>1, <1>3, <1>5 DEF NobodySeeds, Inside
<1>7. \A u : JumpsOf(u)' = JumpsOf(u) BY <1>1 DEF JumpsOf
<1>8. gnGen[t].state = gnGlobal /\ gnGen[t].pool.left = 0 /\ JumpsOf(t) = gnGlobal.jumps
      /\ gnGlobal.jumps \in Nat
  BY <1>2, <1>3 DEF Generator, EmptyPool, JumpsOf, GnStates
<1>9. NumbersAreOwn' BY <1>1, <1>2, <1>4, <1>7, <1>8 DEF StreamsInv, NumbersAreOwn
<1>10. \A u \in Elements : JumpsOf(u) \in Nat
  BY ListedThreads DEF JumpsOf, GnStates, GnControl, GnType
<1>11. StreamsAreSettled'
  BY <1>1, <1>2, <1>4, <1>6, <1>7, <1>8, <1>10 DEF StreamsInv, StreamsAreSettled
<1>12. NewIsFurthest' BY <1>6 DEF NewIsFurthest, Inside
<1>13. PassedAreSeeded' BY <1>1, <1>3, <1>6 DEF StreamsInv, PassedAreSeeded, Inside
<1> QED BY <1>9, <1>11, <1>12, <1>13 DEF StreamsInv

LEMMA RemoveStep ==
    ASSUME GnControl, ListIsExact, StreamsInv, NEW t \in GnThreads, Remove(t)
    PROVE  StreamsInv'
<1>1. /\ gnPc[t] = "remove" /\ gnList' = Erased(gnList, t) /\ gnPc' = [gnPc EXCEPT ![t] = "ended"]
      /\ gnJob' = [gnJob EXCEPT ![t] = "none"] /\ gnGen' = [gnGen EXCEPT ![t] = NoGenerator]
      /\ UNCHANGED <<gnGlobal, gnRead, gnAt, gnSeedings>>
  BY DEF Remove, Finish, GnGoto
<1>2. /\ gnList \in Seq(GnThreads) /\ gnPc \in [GnThreads -> GnLabels] /\ gnJob \in [GnThreads -> Jobs]
      /\ gnGen \in [GnThreads -> [state : GnStates, draws : Nat, pool : [left : Nat, of : GnStates]]]
  BY DEF GnControl, GnType
<1>3. Elements' = Elements \ {t}
  <2>1. Occurring(gnList') = Occurring(gnList) \ {t} BY <1>1, <1>2, ErasedTakesOut
  <2> QED BY <2>1 DEF Elements, Occurring
<1>4. \A u \in GnThreads \ {t} : gnPc[u] \notin Inside
  BY <1>1 DEF GnControl, LockAdmitsOne, Inside
<1>5. NobodySeeds /\ \A u \in GnThreads : gnPc'[u] \notin Inside
  BY <1>1, <1>2, <1>4 DEF NobodySeeds, Inside
<1>6. \A u \in Elements' : u \in Elements /\ gnGen'[u] = gnGen[u] /\ JumpsOf(u)' = JumpsOf(u)
  BY <1>1, <1>2, <1>3, ListedThreads DEF JumpsOf, GnControl
<1>7. NumbersAreOwn' BY <1>6 DEF StreamsInv, NumbersAreOwn
<1>8. StreamsAreSettled' BY <1>1, <1>5, <1>6 DEF StreamsInv, StreamsAreSettled
<1>9. NewIsFurthest' BY <1>5 DEF NewIsFurthest, Inside
<1>10. PassedAreSeeded' BY <1>1, <1>2, <1>5 DEF StreamsInv, PassedAreSeeded, Inside
<1> QED BY <1>7, <1>8, <1>9, <1>10 DEF StreamsInv

LEMMA SeedGlobalStep ==
    ASSUME GnControl, ListIsExact, StreamsInv, NEW t \in GnThreads, SeedGlobal(t)
    PROVE  StreamsInv'
<1>1. /\ gnPc[t] = "seed" /\ gnGlobal' = gnRead[t] /\ gnAt' = 1
      /\ gnPc' = [gnPc EXCEPT ![t] = "seeding"]
      /\ UNCHANGED <<gnList, gnGen, gnJob, gnRead>>
  BY DEF SeedGlobal, GnGoto
<1>2. gnRead[t].jumps = 0
  BY <1>1 DEF StreamsInv, PassedAreSeeded, GnControl, JobsMatch
<1>3. gnPc \in [GnThreads -> GnLabels] /\ gnList \in Seq(GnThreads) BY DEF GnControl, GnType
<1>4. \A u \in GnThreads \ {t} : gnPc[u] \notin Inside
  BY <1>1 DEF GnControl, LockAdmitsOne, Inside
<1>5. gnPc'[t] = "seeding" /\ ~ NobodySeeds' /\ \A u \in GnThreads \ {t} : gnPc'[u] = gnPc[u]
  BY <1>1, <1>3 DEF NobodySeeds
<1>6. NumbersAreOwn' BY <1>1 DEF StreamsInv, NumbersAreOwn, JumpsOf, Elements
<1>7. StreamsAreSettled' BY <1>5 DEF StreamsAreSettled
<1>8. NewIsFurthest' BY <1>4, <1>5 DEF NewIsFurthest, Inside
<1>9. ASSUME NEW u \in GnThreads, gnPc'[u] = "seeding"
      PROVE  /\ gnAt' \in 1 .. Len(gnList') + 1 /\ gnGlobal'.jumps = gnAt' - 1
             /\ \A i \in 1 .. gnAt' - 1 : gnGen'[gnList'[i]].state = State(gnGlobal'.seed, i)
  BY <1>1, <1>2, <1>3
<1>10. ASSUME NEW u \in GnThreads, gnJob'[u] = "seed", gnPc'[u] # "seeding" PROVE gnRead'[u].jumps = 0
  BY <1>1, <1>5, <1>10, <1>4 DEF StreamsInv, PassedAreSeeded, Inside
<1>11. PassedAreSeeded' BY <1>9, <1>10 DEF PassedAreSeeded
<1> QED BY <1>6, <1>7, <1>8, <1>11 DEF StreamsInv

LEMMA SeedNextStep ==
    ASSUME GnControl, ListIsExact, StreamsInv, NEW t \in GnThreads, SeedNext(t)
    PROVE  StreamsInv'
<1> DEFINE v == gnList[gnAt]
<1>1. /\ gnPc[t] = "seeding" /\ gnAt <= Len(gnList)
      /\ gnGlobal' = Jumped(gnGlobal) /\ gnGen' = [gnGen EXCEPT ![v] = Generator(Jumped(gnGlobal))]
      /\ gnAt' = gnAt + 1
      /\ UNCHANGED <<gnList, gnPc, gnJob, gnRead>>
  BY DEF SeedNext, Reseeded
<1>2. /\ gnGlobal \in GnStates /\ gnList \in Seq(GnThreads) /\ gnAt \in Nat
      /\ gnGen \in [GnThreads -> [state : GnStates, draws : Nat, pool : [left : Nat, of : GnStates]]]
  BY DEF GnControl, GnType
<1>3. /\ gnAt \in 1 .. Len(gnList) + 1 /\ gnGlobal.jumps = gnAt - 1
      /\ \A i \in 1 .. gnAt - 1 : gnGen[gnList[i]].state = State(gnGlobal.seed, i)
  BY <1>1 DEF StreamsInv, PassedAreSeeded
<1>4. Len(gnList) \in Nat /\ DOMAIN gnList = 1 .. Len(gnList) /\ gnAt \in 1 .. Len(gnList)
      /\ \A i \in 1 .. Len(gnList) : gnList[i] \in GnThreads
  <2>1. gnAt <= Len(gnList) /\ gnList \in Seq(GnThreads) BY <1>1, <1>2
  <2>2. gnAt \in 1 .. Len(gnList) + 1 BY <1>3
  <2> QED BY <2>1, <2>2
<1>5. gnGlobal' = State(gnGlobal.seed, gnAt) /\ gnGlobal'.seed = gnGlobal.seed /\ gnGlobal'.jumps = gnAt
  <2>1. gnGlobal' = State(gnGlobal.seed, gnGlobal.jumps + 1) BY <1>1, <1>2, StateTypes
  <2> QED BY <1>2, <1>3, <2>1 DEF State
<1>6. /\ gnGen'[v] = Generator(State(gnGlobal.seed, gnAt))
      /\ \A u \in GnThreads \ {v} : gnGen'[u] = gnGen[u]
  BY <1>1, <1>2, <1>4, <1>5
<1>7. \A u \in GnThreads \ {t} : gnPc[u] \notin Inside
  BY <1>1 DEF GnControl, LockAdmitsOne, Inside
<1>8. Elements' = Elements BY <1>1 DEF Elements
<1>9. NumbersAreOwn'
  <2> SUFFICES ASSUME NEW u \in Elements
               PROVE  JumpsOf(u)' > 0 /\ (gnGen'[u].pool.left > 0 => gnGen'[u].pool.of = gnGen'[u].state)
    BY <1>8 DEF NumbersAreOwn
  <2>1. CASE u = v BY <1>4, <1>6, <2>1 DEF JumpsOf, Generator, EmptyPool, State
  <2>2. CASE u # v BY <1>6, <2>2, ListedThreads DEF StreamsInv, NumbersAreOwn, JumpsOf, GnControl
  <2> QED BY <2>1, <2>2
<1>10. StreamsAreSettled' BY <1>1 DEF StreamsAreSettled, NobodySeeds
<1>11. NewIsFurthest' BY <1>1, <1>7 DEF NewIsFurthest, Inside
<1>12. ASSUME NEW i \in 1 .. gnAt PROVE gnGen'[gnList[i]].state = State(gnGlobal.seed, i)
  <2>1. CASE i = gnAt BY <1>6, <2>1 DEF Generator
  <2>2. CASE i # gnAt
    <3>1. i \in 1 .. gnAt - 1 /\ i \in 1 .. Len(gnList) BY <1>4, <2>2
    <3>2. gnList[i] # v BY <1>4, <2>2, <3>1 DEF ListIsExact, OccurOnce
    <3> QED BY <1>3, <1>4, <1>6, <3>1, <3>2
  <2> QED BY <2>1, <2>2
<1>13. gnAt' \in 1 .. Len(gnList') + 1 /\ gnGlobal'.jumps = gnAt' - 1 BY <1>1, <1>4, <1>5
<1>14. \A i \in 1 .. gnAt' - 1 : gnGen'[gnList'[i]].state = State(gnGlobal'.seed, i)
  <2>1. gnAt' - 1 = gnAt /\ gnList' = gnList /\ gnGlobal'.seed = gnGlobal.seed BY <1>1, <1>2, <1>5
  <2> HIDE DEF v
  <2> QED BY <1>12, <2>1
<1>15. PassedAreSeeded' BY <1>1, <1>13, <1>14 DEF StreamsInv, PassedAreSeeded
<1> QED BY <1>9, <1>10, <1>11, <1>15 DEF StreamsInv

LEMMA SeedReturnsStep ==
    ASSUME GnControl, ListIsExact, StreamsInv, NEW t \in GnThreads, SeedReturns(t)
    PROVE  StreamsInv'
<1>1. /\ gnPc[t] = "seeding" /\ gnAt > Len(gnList)
      /\ gnPc' = [gnPc EXCEPT ![t] = IF t \in Elements THEN "live" ELSE "new"]
      /\ gnJob' = [gnJob EXCEPT ![t] = "none"]
      /\ UNCHANGED <<gnGlobal, gnList, gnGen, gnRead, gnAt>>
  BY DEF SeedReturns, Finish, GnGoto
<1>2. /\ gnPc \in [GnThreads -> GnLabels] /\ gnJob \in [GnThreads -> Jobs] /\ gnList \in Seq(GnThreads)
  BY DEF GnControl, GnType
<1>3. /\ gnAt \in 1 .. Len(gnList) + 1 /\ gnGlobal.jumps = gnAt - 1
      /\ \A i \in 1 .. gnAt - 1 : gnGen[gnList[i]].state = State(gnGlobal.seed, i)
  BY <1>1 DEF StreamsInv, PassedAreSeeded
<1>4. \A i \in DOMAIN gnList : gnGen[gnList[i]].state.seed = gnGlobal.seed /\ JumpsOf(gnList[i]) = i
      /\ i <= gnGlobal.jumps
  <2> SUFFICES ASSUME NEW i \in 1 .. Len(gnList)
               PROVE  /\ gnGen[gnList[i]].state.seed = gnGlobal.seed /\ JumpsOf(gnList[i]) = i
                      /\ i <= gnGlobal.jumps
    BY <1>2
  <2>1. Len(gnList) \in Nat BY <1>2
  <2>2. i \in 1 .. gnAt - 1 /\ i <= gnGlobal.jumps BY <1>1, <1>3, <2>1
  <2>3. gnGen[gnList[i]].state = State(gnGlobal.seed, i) BY <1>3, <2>2
  <2> QED BY <2>2, <2>3 DEF State, JumpsOf
<1>5. \A u \in GnThreads \ {t} : gnPc[u] \notin Inside
  BY <1>1 DEF GnControl, LockAdmitsOne, Inside
<1>6. \A u \in GnThreads : gnPc'[u] \notin Inside
  BY <1>1, <1>2, <1>5 DEF Inside
<1>7. Elements' = Elements /\ \A u : JumpsOf(u)' = JumpsOf(u) BY <1>1 DEF Elements, JumpsOf
<1>8. NumbersAreOwn' BY <1>1, <1>7 DEF StreamsInv, NumbersAreOwn
<1>9. \A u \in Elements : /\ gnGen[u].state.seed = gnGlobal.seed /\ JumpsOf(u) <= gnGlobal.jumps
                          /\ \A w \in Elements : JumpsOf(w) = JumpsOf(u) => w = u
  BY <1>4 DEF Elements
<1>10. StreamsAreSettled' BY <1>1, <1>7, <1>9 DEF StreamsAreSettled
<1>11. NewIsFurthest' BY <1>6 DEF NewIsFurthest, Inside
<1>12. PassedAreSeeded' BY <1>1, <1>2, <1>5, <1>6 DEF StreamsInv, PassedAreSeeded, Inside
<1> QED BY <1>8, <1>10, <1>11, <1>12 DEF StreamsInv

LEMMA DrawStep ==
    ASSUME GnControl, ListIsExact, StreamsInv, NEW t \in GnThreads, Draw(t) \/ RandomBool(t)
    PROVE  StreamsInv'
<1>1. PICK d \in Nat, p \in [left : Nat, of : GnStates] :
         /\ gnGen' = [gnGen EXCEPT ![t] = [state |-> gnGen[t].state, draws |-> d, pool |-> p]]
         /\ p.left > 0 => \/ p.of = gnGen[t].state
                          \/ gnGen[t].pool.left > 0 /\ p.of = gnGen[t].pool.of
  BY DrawsChangeNoState DEF GnControl
<1>2. gnPc[t] = "live" /\ UNCHANGED <<gnGlobal, gnList, gnPc, gnJob, gnRead, gnAt>>
  BY DEF Draw, RandomBool
<1>3. gnGen \in [GnThreads -> [state : GnStates, draws : Nat, pool : [left : Nat, of : GnStates]]]
      /\ gnList \in Seq(GnThreads)
  BY DEF GnControl, GnType
<1>4. \A u \in GnThreads : gnGen'[u].state = gnGen[u].state /\ (u # t => gnGen'[u] = gnGen[u])
  BY <1>1, <1>3
<1>5. gnGen'[t].pool = p BY <1>1, <1>3
<1>6. Elements' = Elements /\ Elements \subseteq GnThreads
  BY <1>2, ListedThreads DEF Elements, GnControl
<1>7. \A u \in GnThreads : JumpsOf(u)' = JumpsOf(u) BY <1>4 DEF JumpsOf
<1>8. NumbersAreOwn' BY <1>1, <1>4, <1>5, <1>6, <1>7 DEF StreamsInv, NumbersAreOwn
<1>9. StreamsAreSettled' BY <1>2, <1>4, <1>6, <1>7 DEF StreamsInv, StreamsAreSettled, NobodySeeds
<1>10. NewIsFurthest' BY <1>2, <1>4, <1>6, <1>7 DEF StreamsInv, NewIsFurthest
<1>11. PassedAreSeeded'
  <2>1. \A i \in 1 .. Len(gnList) : gnGen'[gnList[i]].state = gnGen[gnList[i]].state BY <1>3, <1>4
  <2>2. Len(gnList) \in Nat BY <1>3
  <2>3. ASSUME NEW u \in GnThreads, gnPc[u] = "seeding"
        PROVE  /\ gnAt \in 1 .. Len(gnList) + 1 /\ gnGlobal.jumps = gnAt - 1
               /\ \A i \in 1 .. gnAt - 1 : gnGen'[gnList[i]].state = State(gnGlobal.seed, i)
    <3>1. /\ gnAt \in 1 .. Len(gnList) + 1 /\ gnGlobal.jumps = gnAt - 1
          /\ \A i \in 1 .. gnAt - 1 : gnGen[gnList[i]].state = State(gnGlobal.seed, i)
      BY <2>3 DEF StreamsInv, PassedAreSeeded
    <3>2. \A i \in 1 .. gnAt - 1 : i \in 1 .. Len(gnList) BY <2>2, <3>1
    <3> QED BY <2>1, <3>1, <3>2
  <2> QED BY <1>2, <2>3 DEF StreamsInv, PassedAreSeeded
<1> QED BY <1>8, <1>9, <1>10, <1>11 DEF StreamsInv

-----------------------------------------------------------------------------
GnInv == GnControl /\ ListIsExact /\ StreamsInv

LEMMA GnInvHolds == GnSpec => []GnInv
<1>1. GnInit => GnInv
  <2> SUFFICES ASSUME GnInit PROVE ListIsExact /\ StreamsInv BY InitControl DEF GnInv
  <2>1. Elements = {} BY DEF GnInit, Elements
  <2>2. ListIsExact BY <2>1 DEF GnInit, ListIsExact, OccurOnce
  <2>3. StreamsInv
    BY <2>1 DEF GnInit, StreamsInv, NumbersAreOwn, StreamsAreSettled, NewIsFurthest, PassedAreSeeded
  <2> QED BY <2>2, <2>3
<1>2. GnInv /\ [GnNext]_gnVars => GnInv'
  <2> SUFFICES ASSUME GnInv, [GnNext]_gnVars PROVE StreamsInv' BY GnControlStep, ListStep DEF GnInv
  <2>1. CASE UNCHANGED gnVars
    BY <2>1, StreamsFrame DEF gnVars, GnInv, StreamsInv, NewIsFurthest, PassedAreSeeded
  <2> QED BY <2>1, WaitingStep, JumpStep, ListAddsFurthest, RemoveStep, SeedGlobalStep, SeedNextStep,
             SeedReturnsStep, DrawStep DEF GnNext, GnInv
<1> QED BY <1>1, <1>2, PTL DEF GnSpec

\* No two threads ever draw from the same stream outside of seed(), and the list leads
\* to the generators that exist, once to each, so that seed() writes to no other.
THEOREM StreamsStayDistinct == GnSpec => []StreamsAreDistinct
<1>1. GnInv => StreamsAreDistinct
  <2> SUFFICES ASSUME GnInv PROVE StreamsAreDistinct OBVIOUS
  <2>1. ASSUME NEW t \in Elements, NEW u \in Elements, t # u, gnGen[t].state = gnGen[u].state
        PROVE  Seeding
    <3>1. ~ NobodySeeds BY <2>1 DEF GnInv, StreamsInv, StreamsAreSettled, JumpsOf
    <3> QED BY <3>1 DEF NobodySeeds, Seeding, GnInv, GnControl, JobsMatch
  <2>2. Len(gnList) = Cardinality(Elements)
    BY OnceIsCounted, ElementsOccur DEF GnInv, GnControl, GnType, ListIsExact
  <2>3. \A t \in Elements : gnGen[t] # NoGenerator
    BY DEF GnInv, StreamsInv, NumbersAreOwn, JumpsOf, NoGenerator, State
  <2> QED BY <2>1, <2>2, <2>3 DEF GnInv, ListIsExact, StreamsAreDistinct
<1> QED BY <1>1, GnInvHolds, PTL

\* After seed() has returned, every number and every bool that a thread may get
\* depends on the last seed alone.
THEOREM NumbersStayWithSeed == GnSpec => []NumbersFollowSeed
<1>1. GnInv => NumbersFollowSeed
  <2> SUFFICES ASSUME GnInv, ~ Seeding, NEW t \in Elements
               PROVE  /\ gnGen[t].state.seed = gnGlobal.seed
                      /\ gnGen[t].pool.left > 0 => gnGen[t].pool.of = gnGen[t].state
    BY DEF NumbersFollowSeed
  <2>1. NobodySeeds BY DEF NobodySeeds, Seeding, GnInv, GnControl, JobsMatch
  <2> QED BY <2>1 DEF GnInv, StreamsInv, StreamsAreSettled, NumbersAreOwn
<1> QED BY <1>1, GnInvHolds, PTL
=============================================================================
