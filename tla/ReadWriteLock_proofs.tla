----------------------- MODULE ReadWriteLock_proofs -----------------------
(***************************************************************************)
(* What ReadWriteLock keeps for any threads and any locks, and that it     *)
(* implements SharedLock.                                                  *)
(*                                                                         *)
(* Mutual exclusion is not inductive alone: lock() decides by mCount and   *)
(* mWrite, so the proof has to know that they are those of the holders.    *)
(* Of the assumptions these proofs cite only that the threads are finitely *)
(* many.                                                                   *)
(*                                                                         *)
(* The second part is about the threads of rdm (SymbolLocks): they keep    *)
(* the order of the locks, and with room in the event pipe never all wait. *)
(***************************************************************************)
EXTENDS SymbolLocks, FiniteSetTheorems, SequenceTheorems, TLAPS

IInv == LockType /\ CountIsExact /\ MutualExclusion /\ SleepersAreBlocked

LEMMA InitIInv == LockInit => IInv
<1> SUFFICES ASSUME LockInit PROVE IInv
  OBVIOUS
<1>1. LockType
  BY DEF LockInit, LockType, Holdings, Types
<1>2. \A l \in Locks : Holders(l) = {}
  BY DEF LockInit, Holders
<1>3. CountIsExact
  <2>1. \A l \in Locks : mCount[l] = Cardinality(Holders(l))
    BY <1>2, FS_EmptySet DEF LockInit
  <2>2. \A l \in Locks : ~mWrite[l] /\ \A t \in Threads : holds[l][t] # "Write"
    BY DEF LockInit
  <2> QED  BY <2>1, <2>2 DEF CountIsExact
<1>4. MutualExclusion
  BY DEF LockInit, MutualExclusion
<1>5. SleepersAreBlocked
  BY DEF LockInit, SleepersAreBlocked, Types
<1> QED  BY <1>1, <1>3, <1>4, <1>5 DEF IInv

\* The holders of a lock are finitely many, so that their number tells whether
\* there are any.
LEMMA HoldersFinite ==
    ASSUME NEW l \in Locks
    PROVE  IsFiniteSet(Holders(l)) /\ Cardinality(Holders(l)) \in Nat
<1>1. Holders(l) \in SUBSET Threads
  BY DEF Holders
<1>2. IsFiniteSet(Holders(l))
  BY <1>1, FS_Subset, ThreadsAssumption
<1> QED  BY <1>2, FS_CardinalityType

\* A lock whose count is 0 is held by nobody, one whose flag is not set by no
\* writer, and a writer is the only holder.
LEMMA WhatTheCountSays ==
    ASSUME IInv, NEW l \in Locks
    PROVE  /\ mCount[l] = 0 => \A u \in Threads : holds[l][u] = "none"
           /\ ~mWrite[l] => \A u \in Threads : holds[l][u] # "Write"
           /\ mWrite[l] => mCount[l] = 1
<1>1. mCount[l] = 0 => \A u \in Threads : holds[l][u] = "none"
  <2>1. mCount[l] = 0 => Holders(l) = {}
    BY HoldersFinite, FS_EmptySet DEF IInv, CountIsExact
  <2> QED  BY <2>1 DEF Holders
<1>2. ~mWrite[l] => \A u \in Threads : holds[l][u] # "Write"
  BY DEF IInv, CountIsExact
<1>3. ASSUME mWrite[l] PROVE mCount[l] = 1
  <2>1. PICK t \in Threads : holds[l][t] = "Write"
    BY <1>3 DEF IInv, CountIsExact
  <2>2. Holders(l) = {t}
    BY <2>1 DEF IInv, MutualExclusion, Holders
  <2> QED  BY <2>2, FS_Singleton DEF IInv, CountIsExact
<1> QED  BY <1>1, <1>2, <1>3

---------------------------------------------------------------------------

LEMMA TakeKeepsIInv ==
    ASSUME IInv, NEW l \in Locks, NEW t \in Threads, NEW type \in Types,
           Take(l, t, type)
    PROVE  IInv'
<1> USE DEF IInv
<1>1. LockType'
  BY DEF LockType, Take, Types, Holdings
<1>2. \A m \in Locks : m # l => /\ mCount'[m] = mCount[m] /\ mWrite'[m] = mWrite[m]
                                /\ holds'[m] = holds[m]
  BY DEF LockType, Take
<1>3. /\ holds'[l][t] = type
      /\ \A u \in Threads : u # t => holds'[l][u] = holds[l][u]
  BY DEF LockType, Take
<1>4. /\ type = "Read" => ~mWrite[l] /\ mCount'[l] = mCount[l] + 1 /\ mWrite'[l] = mWrite[l]
      /\ type = "Write" => mCount[l] = 0 /\ mCount'[l] = 1 /\ mWrite'[l]
  BY DEF LockType, Take, Free, Types
<1>5. CountIsExact'
  <2>1. \A m \in Locks : m # l => Holders(m)' = Holders(m)
    BY <1>2 DEF Holders
  <2>2. Holders(l)' = Holders(l) \cup {t} /\ t \notin Holders(l)
    BY <1>3 DEF Holders, Take, Types
  <2>3. Cardinality(Holders(l)') = Cardinality(Holders(l)) + 1
    BY <2>2, HoldersFinite, FS_AddElement
  <2>4. mCount'[l] = mCount[l] + 1
    BY <1>4 DEF Types
  <2>5. \A m \in Locks : mCount'[m] = Cardinality(Holders(m)')
    BY <1>2, <2>1, <2>3, <2>4 DEF CountIsExact
  <2>6. mWrite'[l] <=> \E u \in Threads : holds'[l][u] = "Write"
    BY <1>3, <1>4, WhatTheCountSays DEF Types
  <2>7. \A m \in Locks : mWrite'[m] <=> \E u \in Threads : holds'[m][u] = "Write"
    BY <1>2, <2>6 DEF CountIsExact
  <2> QED  BY <2>5, <2>7 DEF CountIsExact
<1>6. MutualExclusion'
  <2>1. \A u, v \in Threads : holds'[l][u] = "Write" /\ u # v => holds'[l][v] = "none"
    BY <1>3, <1>4, WhatTheCountSays DEF Types
  <2> QED  BY <1>2, <2>1 DEF MutualExclusion
<1>7. SleepersAreBlocked'
  <2>1. asleep' = asleep
    BY DEF Take
  <2>2. \A ty \in Types : ~Free(l, ty)' \/ Free(l, ty)
    BY <1>4 DEF Free, Types, LockType
  <2>3. \A m \in Locks, ty \in Types : ~Free(m, ty)' \/ Free(m, ty)
    BY <1>2, <2>2 DEF Free
  <2> QED  BY <2>1, <2>3 DEF SleepersAreBlocked
<1> QED  BY <1>1, <1>5, <1>6, <1>7

LEMMA UnlockKeepsIInv ==
    ASSUME IInv, NEW l \in Locks, NEW t \in Threads, Unlock(l, t)
    PROVE  IInv'
<1> USE DEF IInv
<1>1. Holders(l)' = Holders(l) \ {t} /\ t \in Holders(l)
  BY DEF Holders, Unlock, LockType
<1>2. mCount[l] \in Nat /\ mCount[l] # 0
  <2>1. mCount[l] # 0
    BY WhatTheCountSays DEF Unlock
  <2> QED  BY <2>1 DEF LockType
<1>3. LockType'
  <2>1. mCount' \in [Locks -> Nat]
    <3>1. mCount[l] - 1 \in Nat
      BY <1>2
    <3> QED  BY <3>1 DEF LockType, Unlock
  <2>2. holds' \in [Locks -> [Threads -> Holdings]]
    BY DEF LockType, Unlock, Holdings
  <2>3. mWrite' \in [Locks -> BOOLEAN] /\ asleep' \in [Locks -> [Threads -> Holdings]]
    <3>1. CASE mCount[l] > 1
      BY <3>1 DEF LockType, Unlock
    <3>2. CASE ~(mCount[l] > 1)
      <4>1. mWrite' = [mWrite EXCEPT ![l] = FALSE]
        BY <3>2 DEF Unlock, ResetWrite
      <4>2. asleep' = [asleep EXCEPT ![l] = [u \in Threads |-> "none"]]
        BY <3>2 DEF Unlock, WakeAll
      <4>3. [u \in Threads |-> "none"] \in [Threads -> Holdings]
        BY DEF Holdings
      <4> QED  BY <4>1, <4>2, <4>3 DEF LockType
    <3> QED  BY <3>1, <3>2
  <2> QED  BY <2>1, <2>2, <2>3 DEF LockType
<1>4. \A m \in Locks : m # l => /\ mCount'[m] = mCount[m] /\ mWrite'[m] = mWrite[m]
                                /\ holds'[m] = holds[m] /\ asleep'[m] = asleep[m]
  BY DEF LockType, Unlock, ResetWrite, WakeAll
<1>5. /\ holds'[l][t] = "none"
      /\ \A u \in Threads : u # t => holds'[l][u] = holds[l][u]
  BY DEF LockType, Unlock
<1>6. /\ mCount'[l] = mCount[l] - 1
      /\ mCount[l] > 1 => mWrite'[l] = mWrite[l] /\ asleep'[l] = asleep[l]
      /\ mCount[l] <= 1 => ~mWrite'[l] /\ \A u \in Threads : asleep'[l][u] = "none"
  BY DEF LockType, Unlock, ResetWrite, WakeAll
<1>7. CountIsExact'
  <2>1. Cardinality(Holders(l)') = Cardinality(Holders(l)) - 1
    BY <1>1, HoldersFinite, FS_RemoveElement
  <2>2. \A m \in Locks : m # l => Holders(m)' = Holders(m)
    BY <1>4 DEF Holders
  <2>3. \A m \in Locks : mCount'[m] = Cardinality(Holders(m)')
    BY <1>4, <1>6, <2>1, <2>2 DEF CountIsExact
  <2>4. mWrite'[l] <=> \E u \in Threads : holds'[l][u] = "Write"
    <3>1. CASE mCount[l] > 1
      BY <3>1, <1>5, <1>6, WhatTheCountSays DEF LockType
    <3>2. CASE mCount[l] <= 1
      <4>1. mCount'[l] = 0
        BY <3>2, <1>2, <1>6
      <4>2. Cardinality(Holders(l)') = 0 /\ IsFiniteSet(Holders(l)')
        BY <4>1, <2>3, <1>1, HoldersFinite, FS_RemoveElement
      <4>3. Holders(l)' = {}
        BY <4>2, FS_EmptySet
      <4> QED  BY <4>3, <3>2, <1>6 DEF Holders
    <3> QED  BY <3>1, <3>2 DEF LockType
  <2>5. \A m \in Locks : mWrite'[m] <=> \E u \in Threads : holds'[m][u] = "Write"
    BY <1>4, <2>4 DEF CountIsExact
  <2> QED  BY <2>3, <2>5 DEF CountIsExact
<1>8. MutualExclusion'
  <2>1. \A u, v \in Threads : holds'[l][u] = "Write" /\ u # v => holds'[l][v] = "none"
    BY <1>5 DEF MutualExclusion
  <2> QED  BY <1>4, <2>1 DEF MutualExclusion
<1>9. SleepersAreBlocked'
  <2>1. \A u \in Threads, ty \in Types : asleep'[l][u] = ty => ~Free(l, ty)'
    BY <1>6 DEF SleepersAreBlocked, Free, Types, LockType
  <2>2. \A m \in Locks : m # l => \A u \in Threads, ty \in Types : asleep'[m][u] = ty => ~Free(m, ty)'
    BY <1>4 DEF SleepersAreBlocked, Free
  <2> QED  BY <2>1, <2>2 DEF SleepersAreBlocked
<1> QED  BY <1>3, <1>7, <1>8, <1>9

\* lock() begins to wait, or is woken without a signal: the holders stay.
LEMMA WaitingKeepsIInv ==
    ASSUME IInv, NEW l \in Locks, NEW t \in Threads,
           \/ \E type \in Types : Sleep(l, t, type)
           \/ SpuriousWakeup(l, t)
    PROVE  IInv'
<1> USE DEF IInv
<1>1. UNCHANGED <<mCount, mWrite, holds>>
  BY DEF Sleep, SpuriousWakeup
<1>2. LockType'
  <2>1. PICK h \in Holdings : asleep' = [asleep EXCEPT ![l][t] = h]
    BY DEF Sleep, SpuriousWakeup, Holdings
  <2>2. asleep' \in [Locks -> [Threads -> Holdings]]
    BY <2>1 DEF LockType
  <2> QED  BY <1>1, <2>2 DEF LockType
<1>3. CountIsExact' /\ MutualExclusion'
  BY <1>1 DEF CountIsExact, MutualExclusion, Holders
<1>4. \A m \in Locks, ty \in Types : Free(m, ty)' = Free(m, ty)
  BY <1>1 DEF Free
<1>5. SleepersAreBlocked'
  <2> SUFFICES ASSUME NEW m \in Locks, NEW u \in Threads, NEW ty \in Types,
                      asleep'[m][u] = ty
               PROVE  ~Free(m, ty)
    BY <1>4 DEF SleepersAreBlocked
  <2>1. CASE asleep[m][u] = ty
    BY <2>1 DEF SleepersAreBlocked
  <2>2. CASE asleep[m][u] # ty
    <3>1. PICK type \in Types : Sleep(l, t, type)
      BY <2>2 DEF SpuriousWakeup, LockType, Types
    <3>2. m = l /\ ty = type
      BY <2>2, <3>1 DEF Sleep, LockType
    <3> QED  BY <3>1, <3>2 DEF Sleep
  <2> QED  BY <2>1, <2>2
<1> QED  BY <1>2, <1>3, <1>5

LEMMA NextIInv == IInv /\ [LockNext]_lockVars => IInv'
<1> SUFFICES ASSUME IInv, [LockNext]_lockVars PROVE IInv'
  OBVIOUS
<1>1. CASE UNCHANGED lockVars
  <2>1. UNCHANGED <<mCount, mWrite, asleep, holds>>
    BY <1>1 DEF lockVars
  <2>2. LockType'
    BY <2>1 DEF IInv, LockType
  <2>3. CountIsExact' /\ MutualExclusion'
    BY <2>1 DEF IInv, CountIsExact, MutualExclusion, Holders
  <2>4. SleepersAreBlocked'
    BY <2>1 DEF IInv, SleepersAreBlocked, Free
  <2> QED  BY <2>2, <2>3, <2>4 DEF IInv
<1>2. ASSUME NEW l \in Locks, NEW t \in Threads, NEW type \in Types, Take(l, t, type)
      PROVE  IInv'
  BY <1>2, TakeKeepsIInv
<1>3. ASSUME NEW l \in Locks, NEW t \in Threads, Unlock(l, t)
      PROVE  IInv'
  BY <1>3, UnlockKeepsIInv
<1>4. ASSUME NEW l \in Locks, NEW t \in Threads,
             \/ \E type \in Types : Sleep(l, t, type)
             \/ SpuriousWakeup(l, t)
      PROVE  IInv'
  BY <1>4, WaitingKeepsIInv
<1> QED  BY <1>1, <1>2, <1>3, <1>4 DEF LockNext

LEMMA Invariance == LockSpec => []IInv
BY InitIInv, NextIInv, PTL DEF LockSpec

---------------------------------------------------------------------------

\* lock() and unlock() of ReadWriteLock.cpp keep a writer alone, for any number
\* of threads and locks.
THEOREM WritersAreAlone == LockSpec => []MutualExclusion
<1>1. IInv => MutualExclusion
  BY DEF IInv
<1> QED  BY <1>1, Invariance, PTL

\* Nobody sleeps in mCond.wait() on a lock that would let him in, although only
\* the last holder's unlock() wakes the sleepers.
THEOREM NoLostWakeup == LockSpec => []SleepersAreBlocked
<1>1. IInv => SleepersAreBlocked
  BY DEF IInv
<1> QED  BY <1>1, Invariance, PTL

\* The count and the flag are exact; the assertions of lock() and unlock() follow.
THEOREM CountsAreExact == LockSpec => []CountIsExact
<1>1. IInv => CountIsExact
  BY DEF IInv
<1> QED  BY <1>1, Invariance, PTL

LEMMA InitRefines == LockInit => Abstract!Init
BY DEF LockInit, Abstract!Init

LEMMA StepRefines == IInv /\ [LockNext]_lockVars => [Abstract!Next]_holds
<1> SUFFICES ASSUME IInv, [LockNext]_lockVars PROVE [Abstract!Next]_holds
  OBVIOUS
<1>1. CASE UNCHANGED lockVars
  BY <1>1 DEF lockVars
<1>2. ASSUME NEW l \in Locks, NEW t \in Threads, NEW type \in Types, Take(l, t, type)
      PROVE  Abstract!Next
  <2>1. Abstract!Compatible(l, t, type)
    BY <1>2, WhatTheCountSays DEF Take, Free, Types, Abstract!Compatible
  <2>2. Abstract!Grant(l, t, type)
    BY <1>2, <2>1 DEF Take, Abstract!Grant
  <2> QED  BY <2>2 DEF Abstract!Next, Types
<1>3. ASSUME NEW l \in Locks, NEW t \in Threads, Unlock(l, t)
      PROVE  Abstract!Next
  BY <1>3 DEF Unlock, Abstract!Next, Abstract!Release
<1>4. ASSUME NEW l \in Locks, NEW t \in Threads,
             \/ \E type \in Types : Sleep(l, t, type)
             \/ SpuriousWakeup(l, t)
      PROVE  UNCHANGED holds
  BY <1>4 DEF Sleep, SpuriousWakeup
<1> QED  BY <1>1, <1>2, <1>3, <1>4 DEF LockNext

\* Every step of the lock is a grant or a release of the abstract lock, or no
\* step of it at all.
THEOREM LockImplementsSharedLock == LockSpec => ImplementsSharedLock
<1>1. LockSpec => []IInv
  BY Invariance
<1> QED  BY <1>1, InitRefines, StepRefines, PTL DEF LockSpec, ImplementsSharedLock, Abstract!Spec
---------------------------------------------------------------------------
(***************************************************************************)
(* The threads of a project.  What a thread holds at some operation of its *)
(* program is told by the operations before it: HeldAt.  An activity built *)
(* by \o and by taking a lock around what takes later locks only is        *)
(* disciplined, and what is left of it after a step is so too.             *)
(***************************************************************************)
Lockable == {"project", "symbols", "names", "usr", "events"}
Ops == [op : {"lock", "unlock"}, on : Mutexes]
       \cup [op : {"Read", "Write", "release"}, on : Locks]
       \cup [op : {"put", "get"}, on : {"pipe"}]

Takes(p, i, m) == p[i].op \in {"lock", "Read", "Write"} /\ p[i].on = m
Gives(p, i, m) == p[i].op \in {"unlock", "release"} /\ p[i].on = m

\* A thread that holds H and has p to do holds m when it comes to p[i].
HeldAt(H, p, i, m) ==
    \/ m \in H /\ \A k \in 1..(i - 1) : ~Gives(p, k, m)
    \/ \E k \in 1..(i - 1) : Takes(p, k, m) /\ \A n \in (k + 1)..(i - 1) : ~Gives(p, n, m)

\* It asks for locks in their order, lets go of what it holds, of all of it.
InOrder(H, p) ==
    \A i \in 1..Len(p), m \in Lockable :
        Takes(p, i, m) => \A x \in Lockable : HeldAt(H, p, i, x) => Rank[x] < Rank[m]
LetsGoOfItsOwn(H, p) ==
    \A i \in 1..Len(p), m \in Lockable : Gives(p, i, m) => HeldAt(H, p, i, m)
EndsFree(H, p) == \A m \in Lockable : ~HeldAt(H, p, Len(p) + 1, m)

Disciplined(H, p) == InOrder(H, p) /\ LetsGoOfItsOwn(H, p) /\ EndsFree(H, p)

\* What a thread holds after its first operation.
After(H, p) ==
    IF p[1].op \in {"lock", "Read", "Write"} THEN H \cup {p[1].on}
    ELSE IF p[1].op \in {"unlock", "release"} THEN H \ {p[1].on} ELSE H

LEMMA RankType == \A m \in Lockable : Rank[m] \in Nat
  BY DEF Lockable, Rank

LEMMA OneStep ==
  ASSUME NEW p \in Seq(Ops), p # <<>>, NEW H, Disciplined(H, p)
  PROVE  Disciplined(After(H, p), Tail(p)) /\ Tail(p) \in Seq(Ops)
<1> DEFINE q == Tail(p)
           H1 == After(H, p)
<1>1. /\ q \in Seq(Ops) /\ Len(q) \in Nat /\ Len(p) \in Nat /\ Len(q) = Len(p) - 1
      /\ \A i \in 1..Len(q) : q[i] = p[i + 1]
  OBVIOUS
<1>2. ASSUME NEW i \in 1..Len(p), NEW m \in Lockable
      PROVE  HeldAt(H1, q, i, m) <=> HeldAt(H, p, i + 1, m)
  <2>1. \A k \in 1..(i - 1) : q[k] = p[k + 1]
    BY <1>1
  <2>2. \A k \in 1..(i - 1) : (Gives(q, k, m) <=> Gives(p, k + 1, m)) /\ (Takes(q, k, m) <=> Takes(p, k + 1, m))
    BY <2>1 DEF Gives, Takes
  <2> HIDE DEF q
  <2>3. (\A k \in 1..(i - 1) : ~Gives(q, k, m)) <=> (\A k \in 2..i : ~Gives(p, k, m))
    <3>1. ASSUME \A k \in 1..(i - 1) : ~Gives(q, k, m), NEW k \in 2..i PROVE ~Gives(p, k, m)
      <4>1. k - 1 \in 1..(i - 1) /\ k = (k - 1) + 1
        OBVIOUS
      <4> QED  BY <4>1, <2>2, <3>1
    <3>2. ASSUME \A k \in 2..i : ~Gives(p, k, m), NEW k \in 1..(i - 1) PROVE ~Gives(q, k, m)
      BY <2>2, <3>2
    <3> QED  BY <3>1, <3>2
  <2>4. (\E k \in 1..(i - 1) : Takes(q, k, m) /\ \A n \in (k + 1)..(i - 1) : ~Gives(q, n, m))
        <=> (\E k \in 2..i : Takes(p, k, m) /\ \A n \in (k + 1)..i : ~Gives(p, n, m))
    <3>1. ASSUME NEW k \in 1..(i - 1), Takes(q, k, m) /\ \A n \in (k + 1)..(i - 1) : ~Gives(q, n, m)
          PROVE  \E j \in 2..i : Takes(p, j, m) /\ \A n \in (j + 1)..i : ~Gives(p, n, m)
      <4>1. k + 1 \in 2..i /\ Takes(p, k + 1, m)
        BY <3>1, <2>2
      <4>2. ASSUME NEW n \in (k + 1 + 1)..i PROVE ~Gives(p, n, m)
        <5>1. n - 1 \in 1..(i - 1) /\ n - 1 \in (k + 1)..(i - 1) /\ n = (n - 1) + 1
          OBVIOUS
        <5> QED  BY <5>1, <2>2, <3>1
      <4> QED  BY <4>1, <4>2
    <3>2. ASSUME NEW j \in 2..i, Takes(p, j, m) /\ \A n \in (j + 1)..i : ~Gives(p, n, m)
          PROVE  \E k \in 1..(i - 1) : Takes(q, k, m) /\ \A n \in (k + 1)..(i - 1) : ~Gives(q, n, m)
      <4>1. j - 1 \in 1..(i - 1) /\ j = (j - 1) + 1
        OBVIOUS
      <4>2. Takes(q, j - 1, m)
        BY <4>1, <2>2, <3>2
      <4>3. ASSUME NEW n \in (j - 1 + 1)..(i - 1) PROVE ~Gives(q, n, m)
        BY <4>3, <2>2, <3>2
      <4> QED  BY <4>1, <4>2, <4>3
    <3> QED  BY <3>1, <3>2
  <2>5. HeldAt(H1, q, i, m) <=> \/ m \in H1 /\ \A k \in 2..i : ~Gives(p, k, m)
                                \/ \E k \in 2..i : Takes(p, k, m) /\ \A n \in (k + 1)..i : ~Gives(p, n, m)
    BY <2>3, <2>4 DEF HeldAt
  <2>6. (\A k \in 1..i : ~Gives(p, k, m)) <=> ~Gives(p, 1, m) /\ \A k \in 2..i : ~Gives(p, k, m)
    OBVIOUS
  <2>7. (\E k \in 1..i : Takes(p, k, m) /\ \A n \in (k + 1)..i : ~Gives(p, n, m))
        <=> \/ Takes(p, 1, m) /\ \A n \in 2..i : ~Gives(p, n, m)
            \/ \E k \in 2..i : Takes(p, k, m) /\ \A n \in (k + 1)..i : ~Gives(p, n, m)
    <3>1. 1..i = {1} \cup (2..i)
      OBVIOUS
    <3> QED  BY <3>1
  <2>8. HeldAt(H, p, i + 1, m) <=>
           \/ m \in H /\ ~Gives(p, 1, m) /\ \A k \in 2..i : ~Gives(p, k, m)
           \/ Takes(p, 1, m) /\ \A n \in 2..i : ~Gives(p, n, m)
           \/ \E k \in 2..i : Takes(p, k, m) /\ \A n \in (k + 1)..i : ~Gives(p, n, m)
    BY <2>6, <2>7 DEF HeldAt
  <2>9. m \in H1 <=> (m \in H /\ ~Gives(p, 1, m)) \/ Takes(p, 1, m)
    BY DEF After, Gives, Takes
  <2> QED  BY <2>5, <2>8, <2>9
<1> HIDE DEF q, H1
<1>3. \A i \in 1..Len(q) : i + 1 \in 1..Len(p) /\ i \in 1..Len(p)
  BY <1>1
<1>4. \A i \in 1..Len(q), m \in Lockable :
        (Takes(q, i, m) <=> Takes(p, i + 1, m)) /\ (Gives(q, i, m) <=> Gives(p, i + 1, m))
  BY <1>1 DEF Takes, Gives
<1>5. InOrder(H1, q)
  BY <1>2, <1>3, <1>4 DEF InOrder, Disciplined
<1>6. LetsGoOfItsOwn(H1, q)
  BY <1>2, <1>3, <1>4 DEF LetsGoOfItsOwn, Disciplined
<1>7. EndsFree(H1, q)
  <2>1. Len(q) + 1 \in 1..Len(p) /\ Len(p) = Len(q) + 1
    BY <1>1
  <2> QED  BY <2>1, <1>2 DEF EndsFree, Disciplined
<1> QED  BY <1>1, <1>5, <1>6, <1>7 DEF Disciplined, q, H1

---------------------------------------------------------------------------
\* An activity, or a part of one, that takes only locks that come after rank r.
Ordered(r, p) ==
    /\ p \in Seq(Ops)
    /\ Disciplined({}, p)
    /\ \A i \in 1..Len(p), m \in Lockable : Takes(p, i, m) => r < Rank[m]

\* It does not read the pipe, either.
Good(r, p) == Ordered(r, p) /\ \A i \in 1..Len(p) : p[i].op # "get"

LEMMA HeldFromNothing ==
  ASSUME NEW p, NEW i \in Int, NEW m
  PROVE  HeldAt({}, p, i, m) <=>
           \E k \in 1..(i - 1) : Takes(p, k, m) /\ \A n \in (k + 1)..(i - 1) : ~Gives(p, n, m)
  BY Zenon DEF HeldAt

LEMMA NothingIsGood == ASSUME NEW r \in Nat PROVE Good(r, <<>>)
<1>1. <<>> \in Seq(Ops) /\ Len(<<>>) = 0
  BY EmptySeq
<1> QED
  BY <1>1 DEF Good, Ordered, Disciplined, InOrder, LetsGoOfItsOwn, EndsFree, HeldAt

LEMMA GoodBelow ==
  ASSUME NEW r \in Nat, NEW s \in Nat, s <= r, NEW p, Good(r, p)
  PROVE  Good(s, p)
  BY RankType DEF Good, Ordered

LEMMA OrderedInTurn ==
  ASSUME NEW r \in Nat, NEW p, NEW q, Ordered(r, p), Ordered(r, q)
  PROVE  Ordered(r, p \o q)
<1> DEFINE w == p \o q
           n == Len(p)
<1>1. /\ w \in Seq(Ops) /\ n \in Nat /\ Len(q) \in Nat /\ Len(w) = n + Len(q)
      /\ \A i \in 1..Len(w) : w[i] = IF i <= n THEN p[i] ELSE q[i - n]
  BY ConcatProperties, LenProperties DEF Ordered
<1> HIDE DEF w, n
<1>2. \A i \in 1..n : i \in 1..Len(w) /\ w[i] = p[i]
  BY <1>1
<1>3. \A i \in 1..Len(q) : n + i \in 1..Len(w) /\ w[n + i] = q[i]
  BY <1>1
<1>4. \A i \in 1..n, m \in Lockable : (Takes(w, i, m) <=> Takes(p, i, m)) /\ (Gives(w, i, m) <=> Gives(p, i, m))
  BY <1>2 DEF Takes, Gives
<1>5. \A i \in 1..Len(q), m \in Lockable :
        (Takes(w, n + i, m) <=> Takes(q, i, m)) /\ (Gives(w, n + i, m) <=> Gives(q, i, m))
  BY <1>3 DEF Takes, Gives
<1>6. ASSUME NEW i \in 1..(n + 1), NEW m \in Lockable
      PROVE  HeldAt({}, w, i, m) <=> HeldAt({}, p, i, m)
  <2>1. \A k \in 1..(i - 1) : k \in 1..n /\ \A j \in (k + 1)..(i - 1) : j \in 1..n
    BY <1>1
  <2> QED  BY <2>1, <1>4, HeldFromNothing
<1>7. \A m \in Lockable : ~HeldAt({}, p, n + 1, m)
  BY DEF Ordered, Disciplined, EndsFree, n
<1>8. ASSUME NEW i \in 1..(Len(q) + 1), NEW m \in Lockable
      PROVE  HeldAt({}, w, n + i, m) <=> HeldAt({}, q, i, m)
  <2>1. ASSUME HeldAt({}, w, n + i, m) PROVE HeldAt({}, q, i, m)
    <3>1. PICK k \in 1..(n + i - 1) : Takes(w, k, m) /\ \A j \in (k + 1)..(n + i - 1) : ~Gives(w, j, m)
      BY <2>1, <1>1, HeldFromNothing
    <3>2. CASE k <= n
      <4>1. k \in 1..n /\ k \in 1..(n + 1 - 1) /\ Takes(p, k, m)
        BY <3>1, <3>2, <1>1, <1>4
      <4>2. \A j \in (k + 1)..(n + 1 - 1) : j \in 1..n /\ j \in (k + 1)..(n + i - 1)
        BY <1>1
      <4>3. \A j \in (k + 1)..(n + 1 - 1) : ~Gives(p, j, m)
        BY <4>2, <3>1, <1>4
      <4>4. HeldAt({}, p, n + 1, m)
        BY <4>1, <4>3, <1>1, HeldFromNothing
      <4> QED  BY <4>4, <1>7
    <3>3. CASE k > n
      <4>1. k - n \in 1..(i - 1) /\ k - n \in 1..Len(q) /\ k = n + (k - n)
        BY <3>3, <1>1
      <4>2. Takes(q, k - n, m)
        BY <4>1, <3>1, <1>5
      <4>3. ASSUME NEW j \in (k - n + 1)..(i - 1) PROVE ~Gives(q, j, m)
        <5>1. j \in 1..Len(q) /\ n + j \in (k + 1)..(n + i - 1)
          BY <4>1, <3>3, <1>1
        <5> QED  BY <5>1, <3>1, <1>5
      <4> QED  BY <4>1, <4>2, <4>3, HeldFromNothing
    <3> QED  BY <3>2, <3>3, <1>1
  <2>2. ASSUME HeldAt({}, q, i, m) PROVE HeldAt({}, w, n + i, m)
    <3>1. PICK k \in 1..(i - 1) : Takes(q, k, m) /\ \A j \in (k + 1)..(i - 1) : ~Gives(q, j, m)
      BY <2>2, HeldFromNothing
    <3>2. n + k \in 1..(n + i - 1) /\ k \in 1..Len(q)
      BY <1>1
    <3>3. Takes(w, n + k, m)
      BY <3>1, <3>2, <1>5
    <3>4. ASSUME NEW j \in (n + k + 1)..(n + i - 1) PROVE ~Gives(w, j, m)
      <4>1. j - n \in (k + 1)..(i - 1) /\ j - n \in 1..Len(q) /\ j = n + (j - n)
        BY <1>1
      <4> QED  BY <4>1, <3>1, <1>5
    <3> QED  BY <3>2, <3>3, <3>4, <1>1, HeldFromNothing
  <2> QED  BY <2>1, <2>2
<1>9. \A i \in 1..Len(w) : i \in 1..n \/ (i - n \in 1..Len(q) /\ i = n + (i - n))
  BY <1>1
<1>10. \A i \in 1..n : i \in 1..(n + 1) /\ i \in 1..Len(p)
  BY <1>1 DEF n
<1>11. \A i \in 1..Len(q) : i \in 1..(Len(q) + 1)
  BY <1>1
<1>12. InOrder({}, w)
  <2> SUFFICES ASSUME NEW i \in 1..Len(w), NEW m \in Lockable, Takes(w, i, m),
                      NEW x \in Lockable, HeldAt({}, w, i, x)
               PROVE  Rank[x] < Rank[m]
    BY DEF InOrder
  <2>1. CASE i \in 1..n
    BY <2>1, <1>10, <1>6, <1>4 DEF Ordered, Disciplined, InOrder
  <2>2. CASE i - n \in 1..Len(q) /\ i = n + (i - n)
    <3>1. Takes(q, i - n, m) /\ HeldAt({}, q, i - n, x)
      BY <2>2, <1>11, <1>8, <1>5
    <3> QED  BY <3>1, <2>2 DEF Ordered, Disciplined, InOrder
  <2> QED  BY <2>1, <2>2, <1>9
<1>13. LetsGoOfItsOwn({}, w)
  <2> SUFFICES ASSUME NEW i \in 1..Len(w), NEW m \in Lockable, Gives(w, i, m)
               PROVE  HeldAt({}, w, i, m)
    BY DEF LetsGoOfItsOwn
  <2>1. CASE i \in 1..n
    BY <2>1, <1>10, <1>6, <1>4 DEF Ordered, Disciplined, LetsGoOfItsOwn
  <2>2. CASE i - n \in 1..Len(q) /\ i = n + (i - n)
    <3>1. Gives(q, i - n, m)
      BY <2>2, <1>5
    <3>2. HeldAt({}, q, i - n, m)
      BY <3>1, <2>2 DEF Ordered, Disciplined, LetsGoOfItsOwn
    <3> QED  BY <3>2, <2>2, <1>11, <1>8
  <2> QED  BY <2>1, <2>2, <1>9
<1>14. EndsFree({}, w)
  <2>1. Len(w) + 1 = n + (Len(q) + 1) /\ Len(q) + 1 \in 1..(Len(q) + 1)
    BY <1>1
  <2>2. \A m \in Lockable : HeldAt({}, w, Len(w) + 1, m) <=> HeldAt({}, q, Len(q) + 1, m)
    BY <2>1, <1>8
  <2> QED  BY <2>2 DEF EndsFree, Ordered, Disciplined
<1>15. \A i \in 1..Len(w), m \in Lockable : Takes(w, i, m) => r < Rank[m]
  BY <1>9, <1>4, <1>5, <1>10 DEF Ordered
<1> QED  BY <1>1, <1>12, <1>13, <1>14, <1>15 DEF Ordered, Disciplined, w

LEMMA OneAfterTheOther ==
  ASSUME NEW r \in Nat, NEW p, NEW q, Good(r, p), Good(r, q)
  PROVE  Good(r, p \o q)
<1>1. Ordered(r, p \o q)
  BY OrderedInTurn DEF Good
<1>2. /\ Len(p) \in Nat /\ Len(q) \in Nat /\ Len(p \o q) = Len(p) + Len(q)
      /\ \A i \in 1..(Len(p) + Len(q)) : (p \o q)[i] = IF i <= Len(p) THEN p[i] ELSE q[i - Len(p)]
  BY ConcatProperties, LenProperties DEF Good, Ordered
<1>3. ASSUME NEW i \in 1..Len(p \o q) PROVE (p \o q)[i].op # "get"
  <2>1. CASE i \in 1..Len(p)
    BY <2>1, <1>2 DEF Good
  <2>2. CASE i - Len(p) \in 1..Len(q)
    BY <2>2, <1>2 DEF Good
  <2> QED  BY <2>1, <2>2, <1>2
<1> QED
  BY <1>1, <1>3 DEF Good

\* p between taking m and giving it back.
LEMMA Within ==
  ASSUME NEW m \in Lockable, NEW p, Good(Rank[m], p), NEW r \in Nat, r < Rank[m],
         NEW a \in Ops, a.op \in {"lock", "Read", "Write"}, a.on = m,
         NEW b \in Ops, b.op \in {"unlock", "release"}, b.on = m
  PROVE  Good(r, <<a>> \o p \o <<b>>)
<1> DEFINE w == <<a>> \o p \o <<b>>
           n == Len(p)
<1>1. p \in Seq(Ops) /\ n \in Nat
  BY LenProperties DEF Good, Ordered
<1>2. /\ w \in Seq(Ops) /\ Len(w) = n + 2 /\ w[1] = a /\ w[n + 2] = b
      /\ \A i \in 1..n : w[i + 1] = p[i]
  <2>1. <<a>> \in Seq(Ops) /\ Len(<<a>>) = 1 /\ <<b>> \in Seq(Ops) /\ Len(<<b>>) = 1
        /\ <<a>>[1] = a /\ <<b>>[1] = b
    OBVIOUS
  <2>2. /\ <<a>> \o p \in Seq(Ops) /\ Len(<<a>> \o p) = n + 1
        /\ \A i \in 1..(n + 1) : (<<a>> \o p)[i] = IF i <= 1 THEN a ELSE p[i - 1]
    BY <2>1, <1>1, ConcatProperties
  <2>3. /\ w \in Seq(Ops) /\ Len(w) = n + 2
        /\ \A i \in 1..(n + 2) : w[i] = IF i <= n + 1 THEN (<<a>> \o p)[i] ELSE <<b>>[i - (n + 1)]
    BY <2>1, <2>2, <1>1, ConcatProperties
  <2>4. w[1] = a /\ w[n + 2] = b
    BY <2>1, <2>2, <2>3, <1>1
  <2>5. ASSUME NEW i \in 1..n PROVE w[i + 1] = p[i]
    BY <2>2, <2>3, <1>1
  <2> QED  BY <2>3, <2>4, <2>5
<1> HIDE DEF w, n
<1>3. \A i \in 1..n, x \in Lockable :
        (Takes(w, i + 1, x) <=> Takes(p, i, x)) /\ (Gives(w, i + 1, x) <=> Gives(p, i, x))
  BY <1>2 DEF Takes, Gives
<1>4. /\ \A x \in Lockable : (Takes(w, 1, x) <=> x = m) /\ ~Gives(w, 1, x)
      /\ \A x \in Lockable : (Gives(w, n + 2, x) <=> x = m) /\ ~Takes(w, n + 2, x)
  BY <1>2 DEF Takes, Gives
<1>5. \A i \in 1..n, x \in Lockable : Takes(p, i, x) => Rank[m] < Rank[x]
  BY DEF Good, Ordered, n
<1>6. \A i \in 1..n : ~Gives(p, i, m) /\ ~Takes(p, i, m)
  <2> SUFFICES ASSUME NEW i \in 1..n, Gives(p, i, m) PROVE FALSE
    BY <1>5, RankType
  <2>1. HeldAt({}, p, i, m)
    BY DEF Good, Ordered, Disciplined, LetsGoOfItsOwn, n
  <2>2. PICK k \in 1..(i - 1) : Takes(p, k, m)
    BY <2>1, HeldFromNothing
  <2>3. k \in 1..n
    BY <1>1
  <2> QED  BY <2>2, <2>3, <1>5, RankType
<1>7. \A i \in 1..(n + 2) : i = 1 \/ i = n + 2 \/ (i - 1 \in 1..n /\ i = (i - 1) + 1)
  BY <1>1
<1>8. ASSUME NEW i \in 2..(n + 2) PROVE HeldAt({}, w, i, m)
  <2>1. ASSUME NEW k \in 2..(i - 1) PROVE ~Gives(w, k, m)
    <3>1. k - 1 \in 1..n /\ k = (k - 1) + 1
      BY <1>1
    <3> QED  BY <3>1, <1>3, <1>6
  <2>2. 1 \in 1..(i - 1) /\ Takes(w, 1, m)
    BY <1>4
  <2> QED  BY <2>1, <2>2, HeldFromNothing
<1>9. ASSUME NEW i \in 1..(n + 1), NEW x \in Lockable, x # m
      PROVE  HeldAt({}, w, i + 1, x) <=> HeldAt({}, p, i, x)
  <2>1. ASSUME HeldAt({}, w, i + 1, x) PROVE HeldAt({}, p, i, x)
    <3>0. i + 1 \in Int /\ (i + 1) - 1 = i
      BY <1>1
    <3>1. PICK k \in 1..i : Takes(w, k, x) /\ \A j \in (k + 1)..i : ~Gives(w, j, x)
      BY <2>1, <3>0, HeldFromNothing
    <3>2. k # 1
      BY <3>1, <1>4, <1>9
    <3>3. k - 1 \in 1..(i - 1) /\ k - 1 \in 1..n /\ k = (k - 1) + 1
      BY <3>2, <1>1
    <3>4. Takes(p, k - 1, x)
      BY <3>1, <3>3, <1>3
    <3>5. ASSUME NEW j \in (k - 1 + 1)..(i - 1) PROVE ~Gives(p, j, x)
      <4>1. j \in 1..n /\ j + 1 \in (k + 1)..i
        BY <3>3, <1>1
      <4> QED  BY <4>1, <3>1, <1>3
    <3> QED  BY <3>3, <3>4, <3>5, <1>1, HeldFromNothing
  <2>2. ASSUME HeldAt({}, p, i, x) PROVE HeldAt({}, w, i + 1, x)
    <3>1. PICK k \in 1..(i - 1) : Takes(p, k, x) /\ \A j \in (k + 1)..(i - 1) : ~Gives(p, j, x)
      BY <2>2, <1>1, HeldFromNothing
    <3>2. k + 1 \in 1..i /\ k \in 1..n
      BY <1>1
    <3>3. Takes(w, k + 1, x)
      BY <3>1, <3>2, <1>3
    <3>4. ASSUME NEW j \in (k + 1 + 1)..i PROVE ~Gives(w, j, x)
      <4>1. j - 1 \in 1..n /\ j - 1 \in (k + 1)..(i - 1) /\ j = (j - 1) + 1
        BY <3>2, <1>1
      <4> QED  BY <4>1, <3>1, <1>3
    <3>5. i + 1 \in Int /\ (i + 1) - 1 = i
      BY <1>1
    <3> QED  BY <3>2, <3>3, <3>4, <3>5, HeldFromNothing
  <2> QED  BY <2>1, <2>2
<1>10. \A x \in Lockable : ~HeldAt({}, w, 1, x)
  BY HeldFromNothing
<1>11. \A x \in Lockable : x # m => ~HeldAt({}, w, n + 2, x)
  <2>1. n + 1 \in 1..(n + 1) /\ n + 2 = (n + 1) + 1
    BY <1>1
  <2>2. \A x \in Lockable : ~HeldAt({}, p, n + 1, x)
    BY DEF Good, Ordered, Disciplined, EndsFree, n
  <2> QED  BY <2>1, <2>2, <1>9
<1>12. InOrder({}, w)
  <2> SUFFICES ASSUME NEW i \in 1..(n + 2), NEW y \in Lockable, Takes(w, i, y),
                      NEW x \in Lockable, HeldAt({}, w, i, x)
               PROVE  Rank[x] < Rank[y]
    BY <1>2 DEF InOrder
  <2>1. i # 1 /\ i # n + 2
    BY <1>10, <1>4
  <2>2. i - 1 \in 1..n /\ i = (i - 1) + 1 /\ i - 1 \in 1..(n + 1)
    BY <2>1, <1>1
  <2>3. Takes(p, i - 1, y)
    BY <2>2, <1>3
  <2>4. CASE x = m
    BY <2>2, <2>3, <2>4, <1>5
  <2>5. CASE x # m
    <3>1. HeldAt({}, p, i - 1, x)
      BY <2>2, <2>5, <1>9
    <3>2. i - 1 \in 1..Len(p)
      BY <2>2 DEF n
    <3> QED  BY <3>1, <3>2, <2>3 DEF Good, Ordered, Disciplined, InOrder
  <2> QED  BY <2>4, <2>5
<1>13. LetsGoOfItsOwn({}, w)
  <2> SUFFICES ASSUME NEW i \in 1..(n + 2), NEW x \in Lockable, Gives(w, i, x)
               PROVE  HeldAt({}, w, i, x)
    BY <1>2 DEF LetsGoOfItsOwn
  <2>1. CASE x = m
    <3>1. i \in 2..(n + 2)
      BY <1>1, <1>4
    <3> QED  BY <2>1, <3>1, <1>8
  <2>2. CASE x # m
    <3>1. i - 1 \in 1..n /\ i = (i - 1) + 1 /\ i - 1 \in 1..(n + 1)
      BY <2>2, <1>1, <1>4
    <3>2. Gives(p, i - 1, x)
      BY <3>1, <1>3
    <3>3. i - 1 \in 1..Len(p)
      BY <3>1 DEF n
    <3>4. HeldAt({}, p, i - 1, x)
      BY <3>2, <3>3 DEF Good, Ordered, Disciplined, LetsGoOfItsOwn
    <3> QED  BY <3>1, <3>4, <2>2, <1>9
  <2> QED  BY <2>1, <2>2
<1>14. EndsFree({}, w)
  <2> SUFFICES ASSUME NEW x \in Lockable, HeldAt({}, w, n + 3, x) PROVE FALSE
    BY <1>1, <1>2 DEF EndsFree
  <2>1. PICK k \in 1..(n + 2) : Takes(w, k, x) /\ \A j \in (k + 1)..(n + 2) : ~Gives(w, j, x)
    BY <1>1, HeldFromNothing
  <2>2. k # n + 2
    BY <2>1, <1>4
  <2>3. x # m
    BY <2>1, <2>2, <1>4, <1>1
  <2>4. k \in 1..(n + 2 - 1) /\ \A j \in (k + 1)..(n + 2 - 1) : j \in (k + 1)..(n + 2)
    BY <2>2, <1>1
  <2>5. HeldAt({}, w, n + 2, x)
    BY <2>1, <2>4, <1>1, HeldFromNothing
  <2> QED  BY <2>3, <2>5, <1>11
<1>15. \A i \in 1..(n + 2), x \in Lockable : Takes(w, i, x) => r < Rank[x]
  <2> SUFFICES ASSUME NEW i \in 1..(n + 2), NEW x \in Lockable, Takes(w, i, x) PROVE r < Rank[x]
    OBVIOUS
  <2>1. CASE i = 1
    BY <2>1, <1>4
  <2>2. CASE i # 1
    <3>1. i - 1 \in 1..n /\ Takes(p, i - 1, x)
      BY <2>2, <1>7, <1>4, <1>3
    <3> QED  BY <3>1, <1>5, RankType
  <2> QED  BY <2>1, <2>2
<1>16. \A i \in 1..(n + 2) : w[i].op # "get"
  <2>1. \A i \in 1..n : p[i].op # "get"
    BY DEF Good, Ordered, n
  <2> QED  BY <2>1, <1>7, <1>2
<1> QED  BY <1>2, <1>12, <1>13, <1>14, <1>15, <1>16 DEF Good, Ordered, Disciplined, w

LEMMA UnderIsGood ==
  ASSUME NEW m \in Mutexes, NEW p, Good(Rank[m], p), NEW r \in Nat, r < Rank[m]
  PROVE  Good(r, Under(m, p))
<1>1. m \in Lockable
  BY DEF Mutexes, Lockable
<1>2. [op |-> "lock", on |-> m] \in Ops /\ [op |-> "unlock", on |-> m] \in Ops
  BY DEF Ops
<1> QED
  BY <1>1, <1>2, Within DEF Under, lock, unlock

LEMMA ReadingIsGood ==
  ASSUME NEW l \in Locks, NEW p, Good(Rank[l], p), NEW r \in Nat, r < Rank[l]
  PROVE  Good(r, Reading(l, p))
<1>1. l \in Lockable
  BY RolesAssumption DEF Lockable
<1>2. [op |-> "Read", on |-> l] \in Ops /\ [op |-> "release", on |-> l] \in Ops
  BY DEF Ops
<1> QED
  BY <1>1, <1>2, Within DEF Reading, read, release

LEMMA WritingIsGood ==
  ASSUME NEW l \in Locks, NEW p, Good(Rank[l], p), NEW r \in Nat, r < Rank[l]
  PROVE  Good(r, Writing(l, p))
<1>1. l \in Lockable
  BY RolesAssumption DEF Lockable
<1>2. [op |-> "Write", on |-> l] \in Ops /\ [op |-> "release", on |-> l] \in Ops
  BY DEF Ops
<1> QED
  BY <1>1, <1>2, Within DEF Writing, write, release

LEMMA ByteIsGood == ASSUME NEW r \in Nat PROVE Good(r, writeByte)
<1>1. writeByte \in Seq(Ops) /\ Len(writeByte) = 1 /\ writeByte[1] = [op |-> "put", on |-> "pipe"]
  BY DEF writeByte, Ops
<1>2. \A m \in Lockable : ~Takes(writeByte, 1, m) /\ ~Gives(writeByte, 1, m)
  BY <1>1 DEF Takes, Gives
<1>3. \A i \in 1..Len(writeByte) : i = 1
  BY <1>1
<1>4. EndsFree({}, writeByte)
  <2>1. \A m \in Lockable : ~HeldAt({}, writeByte, 2, m)
    BY <1>2, HeldFromNothing
  <2> QED  BY <1>1, <2>1 DEF EndsFree
<1> QED
  BY <1>1, <1>2, <1>3, <1>4 DEF Good, Ordered, Disciplined, InOrder, LetsGoOfItsOwn

\* However many rows a query posts, each takes the event loop's mutex alone.
LEMMA RowsAreGood == ASSUME NEW rows \in Nat PROVE Good(4, Times(rows, PostEvent))
<1> DEFINE w == Times(rows, PostEvent)
           n == rows * 3
           a == [op |-> "lock", on |-> "events"]
           b == [op |-> "unlock", on |-> "events"]
           c == [op |-> "put", on |-> "pipe"]
<1>1. a \in Ops /\ b \in Ops /\ c \in Ops
  BY DEF Ops, Mutexes
<1>2. PostEvent = <<a, b, c>>
  <2>1. PostEvent = ((<<a>> \o <<>>) \o <<b>>) \o <<c>>
    BY DEF PostEvent, Under, lock, unlock, writeByte
  <2> HIDE DEF a, b, c
  <2>2. <<a>> \o <<>> = <<a>>
    OBVIOUS
  <2>s. <<a>> \in Seq(Ops) /\ <<b>> \in Seq(Ops) /\ <<c>> \in Seq(Ops)
        /\ <<a, b>> \in Seq(Ops) /\ <<a, b, c>> \in Seq(Ops)
    BY <1>1
  <2>l. Len(<<a>>) = 1 /\ Len(<<b>>) = 1 /\ Len(<<c>>) = 1 /\ Len(<<a, b>>) = 2
        /\ Len(<<a, b, c>>) = 3
    OBVIOUS
  <2>3. <<a>> \o <<b>> = <<a, b>>
    <3>1. /\ <<a>> \o <<b>> \in Seq(Ops) /\ Len(<<a>> \o <<b>>) = 2
          /\ \A i \in 1..2 : (<<a>> \o <<b>>)[i] = IF i <= 1 THEN <<a>>[i] ELSE <<b>>[i - 1]
      BY <2>s, <2>l, ConcatProperties
    <3>2. \A i \in 1..2 : (<<a>> \o <<b>>)[i] = <<a, b>>[i]
      BY <3>1
    <3> QED  BY <3>1, <3>2, <2>s, <2>l, SeqEqual
  <2>4. <<a, b>> \o <<c>> = <<a, b, c>>
    <3>1. /\ <<a, b>> \o <<c>> \in Seq(Ops) /\ Len(<<a, b>> \o <<c>>) = 3
          /\ \A i \in 1..3 : (<<a, b>> \o <<c>>)[i] = IF i <= 2 THEN <<a, b>>[i] ELSE <<c>>[i - 2]
      BY <2>s, <2>l, ConcatProperties
    <3>2. \A i \in 1..3 : (<<a, b>> \o <<c>>)[i] = <<a, b, c>>[i]
      BY <3>1
    <3> QED  BY <3>1, <3>2, <2>s, <2>l, SeqEqual
  <2> QED  BY <2>1, <2>2, <2>3, <2>4
<1>3. n \in Nat
  OBVIOUS
<1>4. w = [i \in 1..n |-> <<a, b, c>>[((i - 1) % 3) + 1]]
  BY <1>2 DEF Times
<1> HIDE DEF n
<1>5. \A i \in 1..n : (i - 1) % 3 \in 0..2 /\ i - 1 \in Nat
  BY <1>3
<1>6. \A i \in 1..n : /\ (i - 1) % 3 = 0 => w[i] = a
                      /\ (i - 1) % 3 = 1 => w[i] = b
                      /\ (i - 1) % 3 = 2 => w[i] = c
  <2> SUFFICES ASSUME NEW i \in 1..n
               PROVE  /\ (i - 1) % 3 = 0 => w[i] = a
                      /\ (i - 1) % 3 = 1 => w[i] = b
                      /\ (i - 1) % 3 = 2 => w[i] = c
    OBVIOUS
  <2> HIDE DEF a, b, c
  <2>1. w[i] = <<a, b, c>>[((i - 1) % 3) + 1]
    BY <1>4
  <2> HIDE DEF w
  <2> DEFINE k == (i - 1) % 3
  <2>2. w[i] = <<a, b, c>>[k + 1]
    BY <2>1
  <2> HIDE DEF k
  <2>3. /\ k = 0 => w[i] = a
        /\ k = 1 => w[i] = b
        /\ k = 2 => w[i] = c
    BY <2>2
  <2> QED  BY <2>3 DEF k
<1>7. w \in Seq(Ops) /\ Len(w) = n
  <2>1. \A i \in 1..n : w[i] \in Ops
    BY <1>1, <1>5, <1>6
  <2>2. w \in [1..n -> Ops]
    BY <1>4, <2>1
  <2> HIDE DEF w
  <2> QED  BY <2>2, <1>3, SeqDef, LenProperties
<1> HIDE DEF w
<1>8. \A i \in 1..n, m \in Lockable :
        /\ Takes(w, i, m) <=> m = "events" /\ (i - 1) % 3 = 0
        /\ Gives(w, i, m) <=> m = "events" /\ (i - 1) % 3 = 1
  <2> SUFFICES ASSUME NEW i \in 1..n, NEW m \in Lockable
               PROVE  /\ Takes(w, i, m) <=> m = "events" /\ (i - 1) % 3 = 0
                      /\ Gives(w, i, m) <=> m = "events" /\ (i - 1) % 3 = 1
    OBVIOUS
  <2>1. CASE (i - 1) % 3 = 0
    BY <2>1, <1>6 DEF Takes, Gives
  <2>2. CASE (i - 1) % 3 = 1
    BY <2>2, <1>6 DEF Takes, Gives
  <2>3. CASE (i - 1) % 3 = 2
    BY <2>3, <1>6 DEF Takes, Gives
  <2> QED  BY <2>1, <2>2, <2>3, <1>5
\* Before a row nothing is held.
<1>9. ASSUME NEW i \in 1..(n + 1), (i - 1) % 3 = 0, NEW m \in Lockable
      PROVE  ~HeldAt({}, w, i, m)
  <2> SUFFICES ASSUME NEW k \in 1..(i - 1), Takes(w, k, m),
                      \A j \in (k + 1)..(i - 1) : ~Gives(w, j, m)
               PROVE  FALSE
    BY <1>3, HeldFromNothing
  <2>1. k \in 1..n /\ m = "events" /\ (k - 1) % 3 = 0
    BY <1>3, <1>8
  <2>2. k + 1 \in (k + 1)..(i - 1) /\ k + 1 \in 1..n /\ (k + 1 - 1) % 3 = 1
    BY <1>3, <1>9, <2>1
  <2> QED  BY <2>1, <2>2, <1>8
<1>10. InOrder({}, w)
  <2>1. \A i \in 1..n : i \in 1..(n + 1)
    BY <1>3
  <2> QED  BY <2>1, <1>7, <1>8, <1>9 DEF InOrder
<1>11. LetsGoOfItsOwn({}, w)
  <2> SUFFICES ASSUME NEW i \in 1..n, NEW m \in Lockable, Gives(w, i, m)
               PROVE  HeldAt({}, w, i, m)
    BY <1>7 DEF LetsGoOfItsOwn
  <2>1. m = "events" /\ (i - 1) % 3 = 1
    BY <1>8
  <2>2. i - 1 \in 1..(i - 1) /\ i - 1 \in 1..n /\ (i - 1 - 1) % 3 = 0
    BY <2>1, <1>3
  <2>3. Takes(w, i - 1, m)
    BY <2>1, <2>2, <1>8
  <2> QED  BY <2>2, <2>3, <1>3, HeldFromNothing
<1>12. EndsFree({}, w)
  <2>1. n + 1 \in 1..(n + 1) /\ (n + 1 - 1) % 3 = 0
    BY <1>3 DEF n
  <2> QED  BY <2>1, <1>7, <1>9 DEF EndsFree
<1>13. \A i \in 1..n, m \in Lockable : Takes(w, i, m) => 4 < Rank[m]
  BY <1>8 DEF Rank
<1>14. \A i \in 1..n : w[i].op # "get"
  BY <1>5, <1>6
<1> QED
  BY <1>7, <1>10, <1>11, <1>12, <1>13, <1>14 DEF Good, Ordered, Disciplined, w

LEMMA ActivitiesAreGood ==
  /\ \A p \in LoopActivities \cup WorkerActivities \cup QueryActivities : Good(0, p)
  /\ Ordered(0, HandlePipe)
  /\ \A i \in 1..Len(HandlePipe) : HandlePipe[i].op = "get" => i = 1
<1>0. /\ 0 \in Nat /\ \A m \in Lockable : Rank[m] \in Nat /\ 0 < Rank[m]
      /\ Rank["project"] = 1 /\ Rank["symbols"] = 2 /\ Rank["names"] = 3
      /\ Rank["usr"] = 4 /\ Rank["events"] = 5
  BY DEF Rank, Lockable
<1>m. "project" \in Mutexes /\ "events" \in Mutexes
  BY DEF Mutexes
<1>l. "symbols" \in Locks /\ "names" \in Locks /\ "usr" \in Locks
  BY RolesAssumption
<1>1. \A r \in Nat : Good(r, <<>>)
  BY NothingIsGood
<1>2. Good(0, Under("project", <<>>)) /\ Good(4, Under("events", <<>>))
  BY <1>0, <1>1, <1>m, UnderIsGood
<1>3. \A l \in {"symbols", "names", "usr"} : Good(1, Reading(l, <<>>)) /\ Good(1, Writing(l, <<>>))
  BY <1>0, <1>1, <1>l, ReadingIsGood, WritingIsGood
<1>4. \A l \in {"symbols", "names", "usr"} : Good(0, Reading(l, <<>>)) /\ Good(0, Writing(l, <<>>))
  BY <1>0, <1>1, <1>l, ReadingIsGood, WritingIsGood
<1>5. Good(1, Write)
  <2>1. Good(3, Writing("usr", <<>>))
    BY <1>0, <1>1, <1>l, WritingIsGood
  <2>2. Good(2, Writing("names", Writing("usr", <<>>)))
    BY <2>1, <1>0, <1>l, WritingIsGood
  <2> QED  BY <2>2, <1>0, <1>l, WritingIsGood DEF Write
<1>6. Good(0, Save)
  <2>1. Good(1, Reading("symbols", <<>>) \o Reading("names", <<>>))
    BY <1>3, OneAfterTheOther
  <2>2. Good(1, Reading("symbols", <<>>) \o Reading("names", <<>>) \o Reading("usr", <<>>))
    BY <2>1, <1>3, OneAfterTheOther
  <2> QED  BY <2>2, <1>0, <1>m, UnderIsGood DEF Save
<1>7. Good(0, FinishEarly) /\ Good(0, Finish)
  <2>1. Good(0, Under("project", Write))
    BY <1>5, <1>0, <1>m, UnderIsGood
  <2> QED  BY <2>1, <1>2, <1>6, <1>0, OneAfterTheOther DEF FinishEarly, Finish
<1>8. Good(0, DirtySymbols)
  <2>1. Good(0, Under("project", <<>>) \o Writing("symbols", <<>>))
    BY <1>2, <1>4, OneAfterTheOther
  <2>2. Good(0, Under("project", <<>>) \o Writing("symbols", <<>>) \o Writing("names", <<>>))
    BY <2>1, <1>4, OneAfterTheOther
  <2> QED  BY <2>2, <1>4, OneAfterTheOther DEF DirtySymbols
<1>9. Good(1, AddTimer)
  <2>1. Good(5, writeByte)
    BY ByteIsGood
  <2> QED  BY <2>1, <1>0, <1>m, UnderIsGood DEF AddTimer
<1>10. Good(0, Under("project", AddTimer)) /\ Good(0, Index)
  BY <1>9, <1>0, <1>m, UnderIsGood DEF Index
<1>11. Good(0, FindSymbols)
  BY <1>4, OneAfterTheOther DEF FindSymbols
<1>12. Good(0, Under("events", <<>>)) /\ Good(0, CopyTimers)
  BY <1>2, <1>0, <1>1, <1>m, UnderIsGood DEF CopyTimers
<1>13. Good(0, PostEvent)
  BY <1>12, ByteIsGood, OneAfterTheOther DEF PostEvent
<1>14. \A s \in Nat : /\ Good(0, Reading("symbols", Times(s, PostEvent)))
                      /\ Good(0, Reading("names", Times(s, PostEvent)))
  <2> SUFFICES ASSUME NEW s \in Nat
               PROVE  /\ Good(0, Reading("symbols", Times(s, PostEvent)))
                      /\ Good(0, Reading("names", Times(s, PostEvent)))
    OBVIOUS
  <2>1. Good(2, Times(s, PostEvent)) /\ Good(3, Times(s, PostEvent))
    BY RowsAreGood, GoodBelow
  <2> QED  BY <2>1, <1>0, <1>l, ReadingIsGood
<1>15. \A s, n \in Nat : Good(0, StatusJob(s, n))
  <2> SUFFICES ASSUME NEW s \in Nat, NEW n \in Nat PROVE Good(0, StatusJob(s, n))
    OBVIOUS
  <2>1. Good(0, Reading("symbols", Times(s, PostEvent)) \o Reading("names", Times(n, PostEvent)))
    BY <1>14, OneAfterTheOther
  <2> QED  BY <2>1, <1>13, OneAfterTheOther DEF StatusJob
<1>16. \A s \in Nat : Good(0, AbortedStatusJob(s))
  BY <1>13, <1>14, OneAfterTheOther DEF AbortedStatusJob
<1>17. Good(0, ValidateDBJob)
  BY <1>2, <1>4, OneAfterTheOther DEF ValidateDBJob
<1>18. \A p \in LoopActivities : Good(0, p)
  BY <1>7, <1>8, <1>10, <1>11, <1>12 DEF LoopActivities
<1>19. \A p \in WorkerActivities : Good(0, p)
  BY <1>2, <1>10 DEF WorkerActivities
<1>20. \A p \in QueryActivities : Good(0, p)
  <2>1. \A s \in 1..MaxRows : s \in Nat
    BY SizesAssumption
  <2> QED  BY <2>1, <1>15, <1>16, <1>17 DEF QueryActivities
<1>21. /\ Ordered(0, HandlePipe)
       /\ \A i \in 1..Len(HandlePipe) : HandlePipe[i].op = "get" => i = 1
  <2>1. Ordered(0, readByte)
    <3>1. readByte \in Seq(Ops) /\ Len(readByte) = 1 /\ readByte[1] = [op |-> "get", on |-> "pipe"]
      BY DEF readByte, Ops
    <3>2. \A m \in Lockable : ~Takes(readByte, 1, m) /\ ~Gives(readByte, 1, m)
      BY <3>1 DEF Takes, Gives
    <3>3. \A i \in 1..Len(readByte) : i = 1
      BY <3>1
    <3>4. EndsFree({}, readByte)
      <4>1. \A m \in Lockable : ~HeldAt({}, readByte, 2, m)
        BY <3>2, HeldFromNothing
      <4> QED  BY <3>1, <4>1 DEF EndsFree
    <3> QED
      BY <3>1, <3>2, <3>3, <3>4 DEF Ordered, Disciplined, InOrder, LetsGoOfItsOwn
  <2>2. Ordered(0, HandlePipe)
    BY <2>1, <1>12, OrderedInTurn DEF HandlePipe, Good
  <2>3. ASSUME NEW i \in 1..Len(HandlePipe), i # 1 PROVE HandlePipe[i].op # "get"
    <3> DEFINE q == Under("events", <<>>)
    <3>1. q \in Seq(Ops) /\ Len(q) \in Nat /\ readByte \in Seq(Ops) /\ Len(readByte) = 1
      BY <1>12, <2>1, LenProperties DEF Good, Ordered, readByte
    <3>2. \A j \in 1..Len(q) : q[j].op # "get"
      BY <1>12 DEF Good
    <3>3. HandlePipe = readByte \o q
      BY DEF HandlePipe
    <3> HIDE DEF q
    <3>4. /\ Len(HandlePipe) = 1 + Len(q)
          /\ \A j \in 1..(1 + Len(q)) : HandlePipe[j] = IF j <= 1 THEN readByte[j] ELSE q[j - 1]
      <4>1. /\ Len(readByte \o q) = Len(readByte) + Len(q)
            /\ \A j \in 1..(Len(readByte) + Len(q)) :
                 (readByte \o q)[j] = IF j <= Len(readByte) THEN readByte[j] ELSE q[j - Len(readByte)]
        BY <3>1, ConcatProperties
      <4> QED  BY <4>1, <3>1, <3>3
    <3>5. i - 1 \in 1..Len(q) /\ HandlePipe[i] = q[i - 1]
      BY <2>3, <3>1, <3>4
    <3> QED  BY <3>2, <3>5
  <2> QED  BY <2>2, <2>3
<1> QED
  BY <1>18, <1>19, <1>20, <1>21

---------------------------------------------------------------------------
ProgramType == program \in [Threads -> Seq(Ops)]
MutexType == owner \in [Mutexes -> Threads \cup {Nobody}]
Discipline == \A t \in Threads : Disciplined(Held(t), program[t])

\* Who sleeps is at the operation that he sleeps in.
SleepersAsk ==
    \A t \in Threads, l \in Locks : asleep[l][t] # "none" =>
        program[t] # <<>> /\ program[t][1] = [op |-> asleep[l][t], on |-> l]

\* Only the event loop reads the pipe, first of all, and finds a byte.
PipeIsRead ==
    /\ pipe \in 0..PipeSize
    /\ \A t \in Threads : \A i \in 1..Len(program[t]) :
         program[t][i].op = "get" => t = Loop /\ i = 1 /\ pipe > 0

ThreadsInv == ProgramType /\ MutexType /\ Discipline /\ SleepersAsk /\ PipeIsRead
SLInv == IInv /\ ThreadsInv

LEMMA HeldIsLockable == \A t \in Threads : Held(t) \subseteq Lockable
  BY RolesAssumption DEF Held, Lockable, Mutexes

\* What is true of the first operation of a disciplined thread.
LEMMA FirstOperation ==
  ASSUME NEW H, NEW p \in Seq(Ops), Disciplined(H, p)
  PROVE  /\ p = <<>> => \A m \in Lockable : m \notin H
         /\ p # <<>> =>
              /\ p[1] \in Ops
              /\ p[1].op \in {"unlock", "release"} => p[1].on \in H
              /\ p[1].op \in {"lock", "Read", "Write"} =>
                   \A x \in Lockable : x \in H => Rank[x] < Rank[p[1].on]
<1>1. \A m \in Lockable : m \in H => HeldAt(H, p, 1, m)
  BY DEF HeldAt
<1>2. ASSUME p = <<>> PROVE \A m \in Lockable : m \notin H
  <2>1. Len(p) + 1 = 1
    BY <1>2, EmptySeq
  <2> QED  BY <2>1, <1>1 DEF Disciplined, EndsFree
<1>3. ASSUME p # <<>>
      PROVE  /\ p[1] \in Ops
             /\ p[1].op \in {"unlock", "release"} => p[1].on \in H
             /\ p[1].op \in {"lock", "Read", "Write"} =>
                  \A x \in Lockable : x \in H => Rank[x] < Rank[p[1].on]
  <2>1. 1 \in 1..Len(p) /\ p[1] \in Ops
    BY <1>3, LenProperties, EmptySeq
  <2>2. p[1].op \in {"lock", "unlock", "Read", "Write", "release"} => p[1].on \in Lockable
    BY <2>1, RolesAssumption DEF Ops, Mutexes, Lockable
  <2>3. ASSUME p[1].op \in {"unlock", "release"} PROVE p[1].on \in H
    <3>1. Gives(p, 1, p[1].on) /\ p[1].on \in Lockable
      BY <2>3, <2>2 DEF Gives
    <3>2. HeldAt(H, p, 1, p[1].on)
      BY <3>1, <2>1 DEF Disciplined, LetsGoOfItsOwn
    <3> QED  BY <3>2 DEF HeldAt
  <2>4. ASSUME p[1].op \in {"lock", "Read", "Write"}, NEW x \in Lockable, x \in H
        PROVE  Rank[x] < Rank[p[1].on]
    <3>1. Takes(p, 1, p[1].on) /\ p[1].on \in Lockable
      BY <2>4, <2>2 DEF Takes
    <3> QED  BY <3>1, <2>4, <2>1, <1>1 DEF Disciplined, InOrder
  <2> QED  BY <2>1, <2>3, <2>4
<1> QED
  BY <1>2, <1>3

LEMMA InitSLInv == Init => SLInv
<1> SUFFICES ASSUME Init PROVE SLInv
  OBVIOUS
<1>1. IInv
  BY InitIInv DEF Init
<1>2. ProgramType /\ MutexType /\ \A t \in Threads : program[t] = <<>>
  BY EmptySeq DEF Init, ProgramType, MutexType
<1>3. \A t \in Threads : Held(t) = {}
  BY NobodyAssumption DEF Init, LockInit, Held, Mutexes
<1>4. Disciplined({}, <<>>)
  BY NothingIsGood DEF Good, Ordered
<1>5. Discipline
  BY <1>2, <1>3, <1>4 DEF Discipline
<1>6. SleepersAsk
  BY DEF Init, LockInit, SleepersAsk
<1>7. PipeIsRead
  BY <1>2, EmptySeq, SizesAssumption DEF Init, PipeIsRead
<1> QED
  BY <1>1, <1>2, <1>5, <1>6, <1>7 DEF SLInv, ThreadsInv

LEMMA BeginKeeps ==
  ASSUME SLInv, NEW t \in Threads, NEW p, Start(t, p), Ordered(0, p),
         \A i \in 1..Len(p) : p[i].op = "get" => t = Loop /\ i = 1 /\ pipe > 0
  PROVE  ThreadsInv'
<1> USE DEF SLInv, ThreadsInv
<1>0. UNCHANGED <<mCount, mWrite, asleep, holds, owner, pipe>>
  BY DEF Start, lockVars
<1>1. p \in Seq(Ops) /\ Disciplined({}, p)
  BY DEF Ordered
<1>2. ProgramType' /\ program'[t] = p /\ \A u \in Threads : u # t => program'[u] = program[u]
  BY <1>1 DEF Start, ProgramType
<1>3. MutexType'
  BY <1>0 DEF MutexType
<1>4. \A u \in Threads : Held(u)' = Held(u)
  BY <1>0 DEF Held
<1>5. Held(t) = {}
  <2>1. program[t] = <<>> /\ program[t] \in Seq(Ops) /\ Disciplined(Held(t), program[t])
    BY DEF Start, ProgramType, Discipline
  <2> QED  BY <2>1, FirstOperation, HeldIsLockable
<1>6. Discipline'
  BY <1>1, <1>2, <1>4, <1>5 DEF Discipline
<1>7. SleepersAsk'
  BY <1>0, <1>2 DEF SleepersAsk, Start
<1>8. PipeIsRead'
  BY <1>0, <1>2 DEF PipeIsRead
<1> QED
  BY <1>2, <1>3, <1>6, <1>7, <1>8

\* Thread t has done its first operation.
LEMMA AdvanceKeeps ==
  ASSUME SLInv, NEW t \in Threads, program[t] # <<>>, Awake(t), Done(t),
         Held(t)' = After(Held(t), program[t]),
         \A u \in Threads : u # t => Held(u)' = Held(u),
         \A u \in Threads, l \in Locks : asleep'[l][u] # "none" => asleep'[l][u] = asleep[l][u]
  PROVE  ProgramType' /\ Discipline' /\ SleepersAsk'
<1> USE DEF SLInv, ThreadsInv
<1>1. program[t] \in Seq(Ops) /\ Disciplined(Held(t), program[t])
  BY DEF ProgramType, Discipline
<1>2. Disciplined(After(Held(t), program[t]), Tail(program[t])) /\ Tail(program[t]) \in Seq(Ops)
  BY <1>1, OneStep
<1>3. /\ program'[t] = Tail(program[t])
      /\ \A u \in Threads : u # t => program'[u] = program[u]
      /\ ProgramType'
  BY <1>2 DEF Done, ProgramType
<1>4. Discipline'
  BY <1>2, <1>3 DEF Discipline
<1>5. SleepersAsk'
  BY <1>3 DEF SleepersAsk, Awake
<1> QED
  BY <1>3, <1>4, <1>5

\* The pipe stays as it is, or a byte is put.
LEMMA PipeKeeps ==
  ASSUME SLInv, NEW t \in Threads, program[t] # <<>>, Done(t),
         \/ pipe' = pipe
         \/ pipe < PipeSize /\ pipe' = pipe + 1
         \/ program[t][1].op = "get" /\ pipe' = pipe - 1
  PROVE  PipeIsRead'
<1> USE DEF SLInv, ThreadsInv
<1>1. program[t] \in Seq(Ops) /\ Len(program[t]) \in Nat \ {0}
  BY EmptySeq DEF ProgramType
<1>2. /\ program'[t] = Tail(program[t])
      /\ \A u \in Threads : u # t => program'[u] = program[u]
  BY DEF Done, ProgramType
<1>3. /\ Len(program'[t]) = Len(program[t]) - 1
      /\ \A i \in 1..Len(program'[t]) : i + 1 \in 1..Len(program[t]) /\ program'[t][i] = program[t][i + 1]
  BY <1>1, <1>2
<1>4. \A i \in 1..Len(program'[t]) : program'[t][i].op # "get"
  <2> SUFFICES ASSUME NEW i \in 1..Len(program'[t]), program'[t][i].op = "get" PROVE FALSE
    OBVIOUS
  <2>1. i + 1 = 1
    BY <1>3 DEF PipeIsRead
  <2> QED  BY <2>1, <1>1, <1>3
<1>5. program[t][1].op = "get" => pipe > 0 /\ t = Loop
  BY <1>1 DEF PipeIsRead
<1>6. pipe' \in 0..PipeSize
  BY <1>5, SizesAssumption DEF PipeIsRead
<1>7. \A u \in Threads : u # t => \A i \in 1..Len(program'[u]) :
         program'[u][i].op = "get" => u = Loop /\ i = 1 /\ pipe' > 0
  BY <1>2, <1>5, SizesAssumption DEF PipeIsRead
<1> QED
  BY <1>4, <1>6, <1>7 DEF PipeIsRead

\* A step of the threads is a step of the locks, or leaves them as they are.
LEMMA StepOfTheLocks == ASSUME ProgramType, [Next]_vars PROVE [LockNext]_lockVars
<1>1. ASSUME NEW t \in Threads, program[t] # <<>>, program[t][1].op \in {"Read", "Write", "release"}
      PROVE  On(t) \in Locks
  <2>1. program[t][1] \in Ops
    BY <1>1, LenProperties, EmptySeq DEF ProgramType
  <2> QED  BY <1>1, <2>1 DEF Ops, On
<1>2. ASSUME NEW t \in Threads, Acquire(t) PROVE LockNext
  BY <1>1, <1>2 DEF Acquire, At, LockNext, Types
<1>3. ASSUME NEW t \in Threads, ReleaseLock(t) PROVE LockNext
  BY <1>1, <1>3 DEF ReleaseLock, At, LockNext
<1>4. ASSUME NEW t \in Threads, WakeSpuriously(t) PROVE LockNext
  BY <1>4 DEF WakeSpuriously, LockNext
<1>5. ASSUME NEW t \in Threads,
             LockMutex(t) \/ UnlockMutex(t) \/ WriteByte(t) \/ ReadByte(t) \/ Begin(t) \/ TurnToPipe
      PROVE  UNCHANGED lockVars
  BY <1>5 DEF LockMutex, UnlockMutex, WriteByte, ReadByte, Begin, TurnToPipe, Start
<1>6. CASE TurnToPipe
  BY <1>6 DEF TurnToPipe, Start
<1>7. CASE UNCHANGED vars
  BY <1>7 DEF vars
<1> QED
  BY <1>2, <1>3, <1>4, <1>5, <1>6, <1>7 DEF Next, Step

LEMMA NextSLInv == SLInv /\ [Next]_vars => SLInv'
<1> SUFFICES ASSUME SLInv, [Next]_vars PROVE SLInv'
  OBVIOUS
<1> USE DEF SLInv, ThreadsInv
<1>1. IInv'
  BY StepOfTheLocks, NextIInv
<1>2. ASSUME NEW t \in Threads, program[t] # <<>>
      PROVE  /\ program[t] \in Seq(Ops) /\ Disciplined(Held(t), program[t])
             /\ program[t][1] \in Ops
             /\ program[t][1].op \in {"unlock", "release"} => On(t) \in Held(t)
  <2>1. program[t] \in Seq(Ops) /\ Disciplined(Held(t), program[t])
    BY DEF ProgramType, Discipline
  <2> QED  BY <1>2, <2>1, FirstOperation DEF On
<1>3. ASSUME NEW t \in Threads, Begin(t) PROVE ThreadsInv'
  <2>1. PICK p \in LoopActivities \cup WorkerActivities \cup QueryActivities : Start(t, p)
    BY <1>3 DEF Begin
  <2> QED  BY <2>1, BeginKeeps, ActivitiesAreGood DEF Good
<1>4. ASSUME TurnToPipe PROVE ThreadsInv'
  <2>1. Loop \in Threads /\ pipe > 0 /\ Start(Loop, HandlePipe)
    BY <1>4, RolesAssumption DEF TurnToPipe
  <2> QED  BY <2>1, BeginKeeps, ActivitiesAreGood
<1>5. ASSUME NEW t \in Threads, LockMutex(t) PROVE ThreadsInv'
  <2>1. /\ program[t] # <<>> /\ program[t][1].op = "lock" /\ Awake(t) /\ Done(t)
        /\ owner[On(t)] = Nobody /\ owner' = [owner EXCEPT ![On(t)] = t]
        /\ UNCHANGED <<mCount, mWrite, asleep, holds, pipe>>
    BY <1>5 DEF LockMutex, At, lockVars
  <2>2. On(t) \in Mutexes
    BY <1>2, <2>1 DEF Ops, On
  <2>3. MutexType'
    BY <2>1, <2>2 DEF MutexType
  <2>4. owner'[On(t)] = t /\ \A m \in Mutexes : m # On(t) => owner'[m] = owner[m]
    BY <2>1, <2>2 DEF MutexType
  <2>5. Held(t)' = After(Held(t), program[t])
    BY <2>1, <2>2, <2>4 DEF Held, After, On
  <2>6. \A u \in Threads : u # t => Held(u)' = Held(u)
    BY <2>1, <2>2, <2>4, NobodyAssumption DEF Held
  <2>7. ProgramType' /\ Discipline' /\ SleepersAsk'
    BY <2>1, <2>5, <2>6, AdvanceKeeps
  <2>8. PipeIsRead'
    BY <2>1, PipeKeeps
  <2> QED  BY <2>3, <2>7, <2>8
<1>6. ASSUME NEW t \in Threads, UnlockMutex(t) PROVE ThreadsInv'
  <2>1. /\ program[t] # <<>> /\ program[t][1].op = "unlock" /\ Awake(t) /\ Done(t)
        /\ owner' = [owner EXCEPT ![On(t)] = Nobody]
        /\ UNCHANGED <<mCount, mWrite, asleep, holds, pipe>>
    BY <1>6 DEF UnlockMutex, At, lockVars
  <2>2. On(t) \in Mutexes /\ On(t) \notin Locks
    BY <1>2, <2>1, RolesAssumption DEF Ops, On, Mutexes
  <2>3. MutexType'
    BY <2>1, <2>2 DEF MutexType
  <2>4. owner'[On(t)] = Nobody /\ \A m \in Mutexes : m # On(t) => owner'[m] = owner[m]
    BY <2>1, <2>2 DEF MutexType
  <2>5. owner[On(t)] = t
    BY <1>2, <2>1, <2>2 DEF Held
  <2>6. Held(t)' = After(Held(t), program[t])
    BY <2>1, <2>2, <2>4, NobodyAssumption DEF Held, After, On
  <2>7. \A u \in Threads : u # t => Held(u)' = Held(u)
    BY <2>1, <2>2, <2>4, <2>5, NobodyAssumption DEF Held
  <2>8. ProgramType' /\ Discipline' /\ SleepersAsk'
    BY <2>1, <2>6, <2>7, AdvanceKeeps
  <2>9. PipeIsRead'
    BY <2>1, PipeKeeps
  <2> QED  BY <2>3, <2>8, <2>9
<1>7. ASSUME NEW t \in Threads, Acquire(t) PROVE ThreadsInv'
  <2>1. PICK type \in Types :
          /\ At(t, type)
          /\ (Take(On(t), t, type) /\ Done(t)) \/ (Sleep(On(t), t, type) /\ UNCHANGED program)
          /\ UNCHANGED <<owner, pipe>>
    BY <1>7 DEF Acquire
  <2>2. program[t] # <<>> /\ program[t][1].op = type /\ Awake(t)
    BY <2>1 DEF At
  <2>3. On(t) \in Locks /\ On(t) \notin Mutexes /\ program[t][1] = [op |-> type, on |-> On(t)]
    BY <1>2, <2>2, RolesAssumption DEF Ops, On, Types, Mutexes
  <2>4. MutexType'
    BY <2>1 DEF MutexType
  <2>5. CASE Take(On(t), t, type) /\ Done(t)
    <3>1. UNCHANGED <<owner, pipe, asleep>> /\ holds' = [holds EXCEPT ![On(t)][t] = type]
      BY <2>1, <2>5 DEF Take
    <3>2. /\ holds'[On(t)][t] # "none"
          /\ \A l \in Locks : l # On(t) => holds'[l][t] = holds[l][t]
          /\ \A l \in Locks, u \in Threads : u # t => holds'[l][u] = holds[l][u]
      BY <3>1, <2>3 DEF IInv, LockType, Types
    <3>3. Held(t)' = After(Held(t), program[t])
      BY <3>1, <3>2, <2>2, <2>3 DEF Held, After, On, Types
    <3>4. \A u \in Threads : u # t => Held(u)' = Held(u)
      BY <3>1, <3>2 DEF Held
    <3>5. ProgramType' /\ Discipline' /\ SleepersAsk'
      BY <2>2, <2>5, <3>1, <3>3, <3>4, AdvanceKeeps
    <3>6. PipeIsRead'
      BY <2>2, <2>5, <3>1, PipeKeeps
    <3> QED  BY <2>4, <3>5, <3>6
  <2>6. CASE Sleep(On(t), t, type) /\ UNCHANGED program
    <3>1. UNCHANGED <<owner, pipe, holds, program>> /\ asleep' = [asleep EXCEPT ![On(t)][t] = type]
      BY <2>1, <2>6 DEF Sleep
    <3>2. ProgramType' /\ PipeIsRead' /\ Discipline'
      BY <3>1 DEF ProgramType, PipeIsRead, Discipline, Held
    <3>3. /\ asleep'[On(t)][t] = type
          /\ \A l \in Locks, u \in Threads : ~(l = On(t) /\ u = t) => asleep'[l][u] = asleep[l][u]
      BY <3>1, <2>3 DEF IInv, LockType
    <3>4. SleepersAsk'
      BY <3>1, <3>3, <2>2, <2>3 DEF SleepersAsk
    <3> QED  BY <2>4, <3>2, <3>4
  <2> QED  BY <2>1, <2>5, <2>6
<1>8. ASSUME NEW t \in Threads, ReleaseLock(t) PROVE ThreadsInv'
  <2>1. /\ program[t] # <<>> /\ program[t][1].op = "release" /\ Awake(t) /\ Done(t)
        /\ Unlock(On(t), t) /\ UNCHANGED <<owner, pipe>>
    BY <1>8 DEF ReleaseLock, At
  <2>2. On(t) \in Locks /\ On(t) \notin Mutexes
    BY <1>2, <2>1, RolesAssumption DEF Ops, On, Mutexes
  <2>3. MutexType'
    BY <2>1 DEF MutexType
  <2>4. holds' = [holds EXCEPT ![On(t)][t] = "none"]
    BY <2>1 DEF Unlock
  <2>5. /\ holds'[On(t)][t] = "none"
        /\ \A l \in Locks : l # On(t) => holds'[l][t] = holds[l][t]
        /\ \A l \in Locks, u \in Threads : u # t => holds'[l][u] = holds[l][u]
    BY <2>2, <2>4 DEF IInv, LockType
  <2>6. Held(t)' = After(Held(t), program[t])
    BY <2>1, <2>2, <2>5 DEF Held, After, On
  <2>7. \A u \in Threads : u # t => Held(u)' = Held(u)
    BY <2>1, <2>5 DEF Held
  <2>8. \A u \in Threads, l \in Locks : asleep'[l][u] # "none" => asleep'[l][u] = asleep[l][u]
    <3>1. CASE mCount[On(t)] > 1
      BY <3>1, <2>1 DEF Unlock
    <3>2. CASE ~(mCount[On(t)] > 1)
      <4>1. asleep' = [asleep EXCEPT ![On(t)] = [u \in Threads |-> "none"]]
        BY <3>2, <2>1 DEF Unlock, WakeAll
      <4> QED  BY <4>1, <2>2 DEF IInv, LockType
    <3> QED  BY <3>1, <3>2
  <2>9. ProgramType' /\ Discipline' /\ SleepersAsk'
    BY <2>1, <2>6, <2>7, <2>8, AdvanceKeeps
  <2>10. PipeIsRead'
    BY <2>1, PipeKeeps
  <2> QED  BY <2>3, <2>9, <2>10
<1>9. ASSUME NEW t \in Threads, WriteByte(t) \/ ReadByte(t) PROVE ThreadsInv'
  <2>1. /\ program[t] # <<>> /\ program[t][1].op \in {"put", "get"} /\ Awake(t) /\ Done(t)
        /\ UNCHANGED <<mCount, mWrite, asleep, holds, owner>>
    BY <1>9 DEF WriteByte, ReadByte, At, lockVars
  <2>2. MutexType' /\ \A u \in Threads : Held(u)' = Held(u)
    BY <2>1 DEF MutexType, Held
  <2>3. After(Held(t), program[t]) = Held(t)
    BY <2>1 DEF After
  <2>4. ProgramType' /\ Discipline' /\ SleepersAsk'
    BY <2>1, <2>2, <2>3, AdvanceKeeps
  <2>5. PipeIsRead'
    BY <2>1, <1>9, PipeKeeps DEF WriteByte, ReadByte, At
  <2> QED  BY <2>2, <2>4, <2>5
<1>10. ASSUME NEW t \in Threads, WakeSpuriously(t) PROVE ThreadsInv'
  <2>1. PICK l \in Locks : SpuriousWakeup(l, t)
    BY <1>10 DEF WakeSpuriously
  <2>2. UNCHANGED <<owner, pipe, program, holds>> /\ asleep' = [asleep EXCEPT ![l][t] = "none"]
    BY <1>10, <2>1 DEF WakeSpuriously, SpuriousWakeup
  <2>3. ProgramType' /\ MutexType' /\ PipeIsRead' /\ Discipline'
    BY <2>2 DEF ProgramType, MutexType, PipeIsRead, Discipline, Held
  <2>4. \A k \in Locks, u \in Threads : asleep'[k][u] # "none" => asleep'[k][u] = asleep[k][u]
    BY <2>2 DEF IInv, LockType
  <2>5. SleepersAsk'
    BY <2>2, <2>4 DEF SleepersAsk
  <2> QED  BY <2>3, <2>5
<1>11. ASSUME UNCHANGED vars PROVE ThreadsInv'
  <2>1. UNCHANGED <<asleep, holds, owner, pipe, program>>
    BY <1>11 DEF vars, lockVars
  <2>2. ProgramType' /\ MutexType' /\ SleepersAsk' /\ PipeIsRead'
    BY <2>1 DEF ProgramType, MutexType, SleepersAsk, PipeIsRead
  <2>3. Discipline'
    BY <2>1 DEF Discipline, Held
  <2> QED  BY <2>2, <2>3
<1>12. ThreadsInv'
  <2> HIDE DEF SLInv, ThreadsInv
  <2> QED  BY <1>3, <1>4, <1>5, <1>6, <1>7, <1>8, <1>9, <1>10, <1>11 DEF Next, Step
<1> QED
  BY <1>1, <1>12

LEMMA ThreadsInvariance == Spec => []SLInv
BY InitSLInv, NextSLInv, PTL DEF Spec

\* A project whose threads take its locks in the activities of the code uses the
\* read-write locks as ReadWriteLock allows.
THEOREM ProjectLocksAreLocks == Spec => LockSpec
<1>1. SLInv => ProgramType
  BY DEF SLInv, ThreadsInv
<1>2. Init => LockInit
  BY DEF Init
<1>3. ProgramType /\ [Next]_vars => [LockNext]_lockVars
  BY StepOfTheLocks
<1> QED
  BY <1>1, <1>2, <1>3, ThreadsInvariance, PTL DEF Spec, LockSpec

\* So a writer of the symbol tables is alone, nobody sleeps on a lock that is
\* free for him, and the locks are those of SharedLock.
THEOREM ProjectLocksKeepTheirPromise ==
  Spec => []MutualExclusion /\ []SleepersAreBlocked /\ ImplementsSharedLock
  BY ProjectLocksAreLocks, WritersAreAlone, NoLostWakeup, LockImplementsSharedLock, PTL

\* The locks and what the threads have to do keep their types; the event loop finds
\* a byte whenever it reads its pipe.
THEOREM LocksTypeCorrect == Spec => []TypeOK
<1>1. SLInv => TypeOK
  <2> SUFFICES ASSUME SLInv PROVE TypeOK
    OBVIOUS
  <2>1. LockType /\ owner \in [Mutexes -> Threads \cup {Nobody}] /\ pipe \in 0..PipeSize
    BY DEF SLInv, IInv, ThreadsInv, MutexType, PipeIsRead
  <2>2. ASSUME NEW t \in Threads, NEW i \in DOMAIN program[t]
        PROVE  program[t][i].on \in Mutexes \cup Locks \cup {"pipe"}
    <3>1. program[t] \in Seq(Ops)
      BY DEF SLInv, ThreadsInv, ProgramType
    <3>2. program[t][i] \in Ops
      BY <3>1, LenProperties
    <3> QED  BY <3>2 DEF Ops
  <2> QED  BY <2>1, <2>2 DEF TypeOK
<1> QED  BY <1>1, ThreadsInvariance, PTL

\* Every thread takes mMutex, symbols, names, usr and the event loop's mutex in
\* this order.
THEOREM LocksAreOrdered == Spec => []LockOrder
<1>1. SLInv => LockOrder
  <2> SUFFICES ASSUME SLInv, NEW t \in Threads,
                      program[t] # <<>>, program[t][1].op \in {"lock", "Read", "Write"},
                      NEW m \in Held(t)
               PROVE  Rank[m] < Rank[On(t)]
    BY DEF LockOrder
  <2>1. program[t] \in Seq(Ops) /\ Disciplined(Held(t), program[t]) /\ m \in Lockable
    BY HeldIsLockable DEF SLInv, ThreadsInv, ProgramType, Discipline
  <2> QED  BY <2>1, FirstOperation DEF On
<1> QED  BY <1>1, ThreadsInvariance, PTL

\* unlock() is called by who has the lock.
THEOREM LocksAreReturnedByHolders == Spec => []OnlyHoldersLetGo
<1>1. SLInv => OnlyHoldersLetGo
  <2> SUFFICES ASSUME SLInv, NEW t \in Threads,
                      program[t] # <<>>, program[t][1].op \in {"unlock", "release"}
               PROVE  On(t) \in Held(t)
    BY DEF OnlyHoldersLetGo
  <2>1. program[t] \in Seq(Ops) /\ Disciplined(Held(t), program[t])
    BY DEF SLInv, ThreadsInv, ProgramType, Discipline
  <2> QED  BY <2>1, FirstOperation DEF On
<1> QED  BY <1>1, ThreadsInvariance, PTL

\* A thread that cannot go on, with room in the pipe, waits for a lock that
\* somebody holds.
LEMMA BlockedByHolder ==
  ASSUME SLInv, pipe < PipeSize, NEW t \in Threads, program[t] # <<>>, ~CanGoOn(t)
  PROVE  \E m \in Lockable, u \in Threads :
            program[t][1].op \in {"lock", "Read", "Write"} /\ m = On(t) /\ m \in Held(u)
<1> USE DEF SLInv, ThreadsInv
<1>1. program[t][1] \in Ops
  BY LenProperties, EmptySeq DEF ProgramType
<1>2. CASE Awake(t)
  <2>1. program[t][1].op \notin {"unlock", "release", "get", "put"}
    BY <1>2 DEF CanGoOn, At
  <2>2. CASE program[t][1].op = "lock"
    <3>1. On(t) \in Mutexes /\ owner[On(t)] # Nobody
      BY <1>1, <1>2, <2>2 DEF CanGoOn, At, Ops, On
    <3>2. owner[On(t)] \in Threads /\ On(t) \in Held(owner[On(t)]) /\ On(t) \in Lockable
      BY <3>1 DEF MutexType, Held, Lockable, Mutexes
    <3> QED  BY <2>2, <3>2
  <2>3. CASE program[t][1].op \in {"Read", "Write"}
    <3>1. On(t) \in Locks /\ ~Free(On(t), program[t][1].op)
      BY <1>1, <1>2, <2>3, RolesAssumption DEF CanGoOn, At, Ops, On, Types
    <3>2. PICK u \in Threads : holds[On(t)][u] # "none"
      <4>1. mWrite[On(t)] => \E u \in Threads : holds[On(t)][u] = "Write"
        BY <3>1 DEF IInv, CountIsExact
      <4>2. mCount[On(t)] # 0 => \E u \in Threads : holds[On(t)][u] # "none"
        <5>1. mCount[On(t)] # 0 => Holders(On(t)) # {}
          BY <3>1, FS_EmptySet DEF IInv, CountIsExact
        <5> QED  BY <5>1 DEF Holders
      <4> QED  BY <3>1, <4>1, <4>2 DEF Free
    <3> QED  BY <2>3, <3>1, <3>2, RolesAssumption DEF Held, Lockable
  <2> QED  BY <1>1, <2>1, <2>2, <2>3 DEF Ops
<1>3. CASE ~Awake(t)
  <2>1. PICK l \in Locks : asleep[l][t] # "none"
    BY <1>3 DEF Awake
  <2>2. asleep[l][t] \in Types /\ program[t][1] = [op |-> asleep[l][t], on |-> l]
    BY <2>1 DEF IInv, LockType, Holdings, SleepersAsk
  <2>3. On(t) = l /\ program[t][1].op \in Types /\ ~Free(l, asleep[l][t])
    BY <2>2 DEF On, IInv, SleepersAreBlocked
  <2>4. PICK u \in Threads : holds[l][u] # "none"
    <3>1. mWrite[l] => \E u \in Threads : holds[l][u] = "Write"
      BY DEF IInv, CountIsExact
    <3>2. mCount[l] # 0 => \E u \in Threads : holds[l][u] # "none"
      <4>1. mCount[l] # 0 => Holders(l) # {}
        BY FS_EmptySet DEF IInv, CountIsExact
      <4> QED  BY <4>1 DEF Holders
    <3> QED  BY <2>3, <3>1, <3>2 DEF Free
  <2> QED  BY <2>3, <2>4, RolesAssumption DEF Held, Lockable, Types
<1> QED  BY <1>2, <1>3

\* Somebody waits for lock m, which u holds: u can go on, or waits for a lock that
\* comes after m.
LEMMA HolderIsAhead ==
  ASSUME SLInv, pipe < PipeSize, NEW u \in Threads, NEW m \in Lockable, m \in Held(u), ~CanGoOn(u)
  PROVE  \E n \in Lockable, w \in Threads : Rank[m] < Rank[n] /\ n \in Held(w)
<1>1. program[u] \in Seq(Ops) /\ Disciplined(Held(u), program[u])
  BY DEF SLInv, ThreadsInv, ProgramType, Discipline
<1>2. program[u] # <<>>
  BY <1>1, FirstOperation
<1>3. PICK n \in Lockable, w \in Threads :
        program[u][1].op \in {"lock", "Read", "Write"} /\ n = On(u) /\ n \in Held(w)
  BY <1>2, BlockedByHolder
<1>4. Rank[m] < Rank[n]
  BY <1>1, <1>2, <1>3, FirstOperation DEF On
<1> QED  BY <1>3, <1>4

\* No deadlock, for any number of threads, any number of rows and a pipe of any
\* size that is not full.
THEOREM NoDeadlock == Spec => []SomebodyGoesOn
<1>1. SLInv => SomebodyGoesOn
  <2> SUFFICES ASSUME SLInv, pipe < PipeSize, NEW t \in Threads, program[t] # <<>>,
                      \A u \in Threads : ~CanGoOn(u)
               PROVE  FALSE
    BY DEF SomebodyGoesOn
  <2>1. \A m \in Lockable, u \in Threads : m \in Held(u) =>
           \E n \in Lockable, w \in Threads : Rank[m] < Rank[n] /\ n \in Held(w)
    BY HolderIsAhead
  <2>2. PICK m \in Lockable, u \in Threads : m \in Held(u)
    BY BlockedByHolder
  <2>3. \A k \in Lockable : Rank[k] \in 1..5
    BY DEF Lockable, Rank
  <2>4. \A k \in Lockable, w \in Threads : k \in Held(w) => Rank[k] < 5
    BY <2>1, <2>3
  <2>5. \A k \in Lockable, w \in Threads : k \in Held(w) => Rank[k] < 4
    BY <2>1, <2>3, <2>4
  <2>6. \A k \in Lockable, w \in Threads : k \in Held(w) => Rank[k] < 3
    BY <2>1, <2>3, <2>5
  <2>7. \A k \in Lockable, w \in Threads : k \in Held(w) => Rank[k] < 2
    BY <2>1, <2>3, <2>6
  <2>8. \A k \in Lockable, w \in Threads : k \in Held(w) => Rank[k] < 1
    BY <2>1, <2>3, <2>7
  <2> QED  BY <2>2, <2>3, <2>8
<1> QED  BY <1>1, ThreadsInvariance, PTL
===========================================================================
