--------------------------- MODULE ReadWriteLock --------------------------
(***************************************************************************)
(* ReadWriteLock (src/src/ReadWriteLock.cpp): a count of holders, a flag   *)
(* for a writer, and one condition variable on which both kinds wait.  The *)
(* module holds the state of several locks at once; each section the code  *)
(* runs under ReadWriteLock::mMutex is one action.                         *)
(*                                                                         *)
(* No caller gives lock() a time limit or calls tryLock(); no thread takes *)
(* a lock it already holds.                                                *)
(***************************************************************************)
EXTENDS Naturals, FiniteSets

CONSTANTS Threads, Locks

ASSUME ThreadsAssumption == IsFiniteSet(Threads)

VARIABLES mCount,     \* how many threads hold each lock
          mWrite,     \* is the holder a writer?
          asleep,     \* in mCond.wait(), and what for
          holds       \* ghost: how each thread holds each lock

lockVars == <<mCount, mWrite, asleep, holds>>

Types == {"Read", "Write"}
Holdings == Types \cup {"none"}

Holders(l) == {t \in Threads : holds[l][t] # "none"}
Awake(t) == \A l \in Locks : asleep[l][t] = "none"

LockInit ==
    /\ mCount = [l \in Locks |-> 0]
    /\ mWrite = [l \in Locks |-> FALSE]
    /\ asleep = [l \in Locks |-> [t \in Threads |-> "none"]]
    /\ holds = [l \in Locks |-> [t \in Threads |-> "none"]]

IgnoreWriter(l, type) == type = "Read" \/ mCount[l] = 0          \* a mutant

\* The condition of the while loop, negated.
Free(l, type) == IF type = "Read" THEN ~mWrite[l] ELSE mCount[l] = 0

\* lock() gets through its loop.
Take(l, t, type) ==
    /\ Awake(t) /\ holds[l][t] = "none"
    /\ Free(l, type)
    /\ mCount' = [mCount EXCEPT ![l] = IF type = "Read" THEN @ + 1 ELSE 1]
    /\ mWrite' = [mWrite EXCEPT ![l] = @ \/ type = "Write"]
    /\ holds' = [holds EXCEPT ![l][t] = type]
    /\ UNCHANGED asleep

\* lock() waits; when it is woken it looks again.
Sleep(l, t, type) ==
    /\ Awake(t) /\ holds[l][t] = "none"
    /\ ~Free(l, type)
    /\ asleep' = [asleep EXCEPT ![l][t] = type]
    /\ UNCHANGED <<mCount, mWrite, holds>>

WakeNobody(l) == asleep                                           \* a mutant

\* mCond.wakeAll()
WakeAll(l) == [asleep EXCEPT ![l] = [t \in Threads |-> "none"]]

ResetWrite(l) == [mWrite EXCEPT ![l] = FALSE]

\* Only the last of several holders resets mWrite and wakes the waiting.
Unlock(l, t) ==
    /\ Awake(t) /\ holds[l][t] # "none"
    /\ mCount' = [mCount EXCEPT ![l] = @ - 1]
    /\ IF mCount[l] > 1
       THEN UNCHANGED <<mWrite, asleep>>
       ELSE mWrite' = ResetWrite(l) /\ asleep' = WakeAll(l)
    /\ holds' = [holds EXCEPT ![l][t] = "none"]

\* pthread_cond_wait() may return without a signal.
SpuriousWakeup(l, t) ==
    /\ asleep[l][t] # "none"
    /\ asleep' = [asleep EXCEPT ![l][t] = "none"]
    /\ UNCHANGED <<mCount, mWrite, holds>>

LockNext ==
    \E l \in Locks, t \in Threads :
        \/ \E type \in Types : Take(l, t, type) \/ Sleep(l, t, type)
        \/ Unlock(l, t)
        \/ SpuriousWakeup(l, t)

LockSpec == LockInit /\ [][LockNext]_lockVars

---------------------------------------------------------------------------

LockType ==
    /\ mCount \in [Locks -> Nat]
    /\ mWrite \in [Locks -> BOOLEAN]
    /\ asleep \in [Locks -> [Threads -> Holdings]]
    /\ holds \in [Locks -> [Threads -> Holdings]]

\* A writer holds a lock alone, although unlock() does not know who calls it and
\* the lock keeps nothing but a count and a flag.
MutualExclusion ==
    \A l \in Locks : \A t, u \in Threads :
        holds[l][t] = "Write" /\ t # u => holds[l][u] = "none"

\* No lost wakeup: nobody sleeps on a lock that would let it in.  A reader waits
\* for a writer only, although wakeAll() is called when the count reaches zero.
SleepersAreBlocked ==
    \A l \in Locks, t \in Threads, type \in Types :
        asleep[l][t] = type => ~Free(l, type)

\* The count and the flag are those of the threads that hold the lock, so that
\* the assertions of lock() and unlock() hold.
CountIsExact ==
    \A l \in Locks :
        /\ mCount[l] = Cardinality(Holders(l))
        /\ mWrite[l] <=> \E t \in Threads : holds[l][t] = "Write"

Abstract == INSTANCE SharedLock

\* A reader is never let in beside a writer and a writer only alone.
ImplementsSharedLock == Abstract!Spec
===========================================================================
