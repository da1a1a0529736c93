--------------------------- MODULE SharedSpinlock ---------------------------
(***************************************************************************)
(* detail::shared_spinlock: one counter for the readers and the writer.    *)
(* A reader counts itself before it knows whether it may enter, also when  *)
(* it only tries to, so the counter passes through values that belong to   *)
(* no holder.  A failed compare-exchange and a turn of a waiting loop      *)
(* change nothing and are no steps.                                        *)
(***************************************************************************)
EXTENDS Integers, FiniteSets

CONSTANTS Threads,
          WRITER     \* half of the range of the counter

ASSUME LockAssumption == IsFiniteSet(Threads) /\ WRITER \in Nat /\ Cardinality(Threads) < WRITER

VARIABLES cntr,   \* cntr_
          hold    \* per thread: what it has of the lock

lockVars == <<cntr, hold>>

\* "waiting" is a reader in the loop of lock_shared(), "failed" one in
\* try_lock_shared() before it takes itself out of the count again.
Holds == {"none", "waiting", "failed", "shared", "exclusive"}

LockInit == cntr = 0 /\ hold = [t \in Threads |-> "none"]

Change(t, from, to) == hold[t] = from /\ hold' = [hold EXCEPT ![t] = to]

-----------------------------------------------------------------------------
\* try_lock() that succeeds, and with it lock().
Lock(t) == Change(t, "none", "exclusive") /\ cntr = 0 /\ cntr' = WRITER

Unlock(t) == Change(t, "exclusive", "none") /\ cntr' = cntr - WRITER

LockShared(t) == Change(t, "none", "waiting") /\ cntr' = cntr + 1

\* Variant: a reader that has counted itself enters at once.
EnterSharedAtOnce(t) == Change(t, "waiting", "shared") /\ UNCHANGED cntr

\* The end of the loop in lock_shared().
EnterShared(t) == Change(t, "waiting", "shared") /\ cntr < WRITER /\ UNCHANGED cntr

TryLockShared(t) == /\ Change(t, "none", IF cntr < WRITER THEN "shared" ELSE "failed")
                    /\ cntr' = cntr + 1

BackOff(t) == Change(t, "failed", "none") /\ cntr' = cntr - 1

UnlockShared(t) == Change(t, "shared", "none") /\ cntr' = cntr - 1

LockNext == \E t \in Threads :
               \/ Lock(t) \/ Unlock(t)
               \/ LockShared(t) \/ EnterShared(t) \/ UnlockShared(t)
               \/ TryLockShared(t) \/ BackOff(t)

LockSpec == LockInit /\ [][LockNext]_lockVars

-----------------------------------------------------------------------------
\* The counter stays in its range: it never wraps around.
LockTypeOK == cntr \in 0 .. 2 * WRITER + 1 /\ hold \in [Threads -> Holds]

\* The owner of the lock is alone in it, whatever the readers that have counted
\* themselves too early do to the counter (the promise of lock()).
MutualExclusion ==
    \A t, u \in Threads :
       hold[t] = "exclusive" /\ t # u => hold[u] \notin {"shared", "exclusive"}
=============================================================================
