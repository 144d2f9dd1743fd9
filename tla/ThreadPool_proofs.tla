------------------------- MODULE ThreadPool_proofs -------------------------
(***************************************************************************)
(* What a ThreadPool keeps for any workers, jobs and priorities: no job is *)
(* lost or run twice, and no wakeup is lost.                               *)
(*                                                                         *)
(* That a queued job finds a worker awake is not inductive alone: it rests *)
(* on a worker that was told to stop never being asleep, for wakeOne()     *)
(* could choose that one.  The type rests on mBusyThreads being the number *)
(* of busy workers, and on where the owner stands in mThreads.             *)
(***************************************************************************)
EXTENDS ThreadPool, FiniteSetTheorems, SequenceTheorems, TLAPS

\* The workers mBusyThreads counts: those in run(), and those back from it that
\* have not had the mutex again.
Busy == {w \in Workers : pc[w] \in {"running", "returned"}}

BusyIsExact == mBusyThreads = Cardinality(Busy)

RunnersRun == \A w \in Workers : running[w] # NoJob <=> pc[w] = "running"

\* wakeAll() in ThreadPoolThread::stop() leaves no stopped worker asleep.
StoppedAreAwake == \A w \in Workers : mStopped[w] => pc[w] # "waiting"

\* mConcurrentJobs is what it says between two calls, a shrinking pool still
\* has all the workers it is to keep, and a dying one is at one of its own.
OwnerIsInside ==
    /\ owner = Idle => mConcurrentJobs = Len(mThreads)
    /\ owner.op \in {"stop", "join"} => owner.size <= Len(mThreads)
    /\ owner.op \in {"destroy stop", "destroy join"} =>
         owner.index \in 1..Len(mThreads)

IInv == TypeOK /\ BusyIsExact /\ RunnersRun /\ StoppedAreAwake /\ OwnerIsInside
        /\ EachJobOnce /\ QueueIsServed

---------------------------------------------------------------------------
(* The queue and the condition variable.                                   *)

\* A sequence without repetitions has as many elements as places.
LEMMA InjectiveIsBijection ==
    ASSUME NEW S, NEW q \in Seq(S), IsInjective(q)
    PROVE  IsFiniteSet(Range(q)) /\ Cardinality(Range(q)) = Len(q)
<1>1. Len(q) \in Nat /\ DOMAIN q = 1..Len(q)
  BY LenProperties
<1>2. q \in Bijection(1..Len(q), Range(q))
  BY <1>1 DEF IsInjective, Range, Bijection, Injection, Surjection
<1>3. ExistsBijection(1..Len(q), Range(q))
  BY <1>2 DEF ExistsBijection
<1> QED  BY <1>1, <1>3, FS_CountingElements, FS_NatBijection

\* std::sort() permutes: it neither loses nor repeats a job.
LEMMA SortedPermutes ==
    ASSUME NEW q \in Seq(Jobs), IsInjective(q), NEW prio, NEW s \in Sorted(q, prio)
    PROVE  s \in Seq(Jobs) /\ Len(s) = Len(q) /\ IsInjective(s) /\ Range(s) = Range(q)
<1>1. Len(q) \in Nat /\ DOMAIN q = 1..Len(q) /\ Range(q) \subseteq Jobs
  BY LenProperties, ElementOfSeq DEF Range
<1>2. s \in [1..Len(q) -> Range(q)]
  BY <1>1 DEF Sorted, Range
<1>3. s \in Seq(Jobs) /\ Len(s) = Len(q) /\ DOMAIN s = 1..Len(q)
  BY <1>1, <1>2, SeqDef, LenProperties
<1>4. IsInjective(s)
  <2>1. \A i, k \in DOMAIN q : i < k => s[i] # s[k]
    BY DEF Sorted
  <2>2. \A i, k \in 1..Len(q) : i < k \/ k < i \/ i = k
    BY <1>1
  <2> QED  BY <1>1, <1>3, <2>1, <2>2 DEF IsInjective
<1>5. s \in Injection(1..Len(q), Range(q))
  BY <1>2, <1>3, <1>4 DEF IsInjective, Injection
<1>6. IsFiniteSet(Range(q)) /\ Cardinality(Range(q)) = Len(q)
  BY InjectiveIsBijection
<1>7. Cardinality(1..Len(q)) = Len(q)
  BY <1>1, FS_Interval
<1>8. s \in Surjection(1..Len(q), Range(q))
  BY <1>5, <1>6, <1>7, FS_Injection
<1>9. Range(s) = Range(q)
  BY <1>2, <1>3, <1>8 DEF Range, Surjection
<1> QED  BY <1>3, <1>4, <1>9

\* start() adds the job it was given, and nothing else, wherever it goes.
LEMMA InsertionsAdd ==
    ASSUME NEW q \in Seq(Jobs), IsInjective(q), NEW j \in Jobs, j \notin Range(q),
           NEW prio, NEW s \in Insertions(q, j, prio)
    PROVE  s \in Seq(Jobs) /\ IsInjective(s) /\ Range(s) = Range(q) \cup {j}
<1>1. Len(q) \in Nat /\ DOMAIN q = 1..Len(q)
  BY LenProperties
<1> DEFINE a == Append(q, j)
<1>2. /\ a \in Seq(Jobs) /\ DOMAIN a = 1..(Len(q) + 1)
      /\ \A i \in 1..Len(q) : a[i] = q[i]
      /\ a[Len(q) + 1] = j
  BY AppendProperties, LenProperties
<1>3. IsInjective(a)
  BY <1>1, <1>2 DEF IsInjective, Range
<1>4. Range(a) = Range(q) \cup {j}
  <2>1. \A i \in DOMAIN a : i \in 1..Len(q) \/ i = Len(q) + 1
    BY <1>1, <1>2
  <2>2. \A i \in 1..Len(q) : i \in DOMAIN a
    BY <1>1, <1>2
  <2> QED  BY <1>1, <1>2, <2>1, <2>2 DEF Range
<1>5. CASE s = a
  BY <1>2, <1>3, <1>4, <1>5
<1>6. CASE s \in Sorted(a, prio)
  BY <1>2, <1>3, <1>4, <1>6, SortedPermutes
<1>7. CASE s = <<j>> \o q
  <2>1. <<j>> \in Seq(Jobs) /\ Len(<<j>>) = 1 /\ <<j>>[1] = j
    OBVIOUS
  <2>2. /\ s \in Seq(Jobs) /\ Len(s) = Len(q) + 1
        /\ \A i \in 1..(Len(q) + 1) : s[i] = IF i <= 1 THEN <<j>>[i] ELSE q[i - 1]
    BY <1>1, <1>7, <2>1, ConcatProperties
  <2>3. DOMAIN s = 1..(Len(q) + 1) /\ s[1] = j /\ \A i \in 2..(Len(q) + 1) : s[i] = q[i - 1]
    BY <1>1, <2>1, <2>2, LenProperties
  <2>4. \A i \in 1..Len(q) : i + 1 \in DOMAIN s /\ s[i + 1] = q[i]
    BY <1>1, <2>3
  <2>5. \A i \in DOMAIN s : i = 1 \/ (i - 1 \in 1..Len(q) /\ s[i] = q[i - 1])
    BY <1>1, <2>3
  <2>6. IsInjective(s)
    <3> SUFFICES ASSUME NEW i \in DOMAIN s, NEW k \in DOMAIN s, s[i] = s[k]
                 PROVE  i = k
      BY DEF IsInjective
    <3>1. CASE i = 1 /\ k = 1
      BY <3>1
    <3>2. CASE i # 1 /\ k # 1
      <4>1. i - 1 = k - 1
        BY <1>1, <2>5, <3>2 DEF IsInjective
      <4> QED  BY <1>1, <2>3, <4>1
    <3>3. CASE (i = 1) # (k = 1)
      BY <1>1, <2>3, <2>5, <3>3 DEF Range
    <3> QED  BY <3>1, <3>2, <3>3
  <2>7. Range(s) = Range(q) \cup {j}
    BY <1>1, <2>3, <2>4, <2>5 DEF Range
  <2> QED  BY <2>2, <2>6, <2>7
<1> QED  BY <1>5, <1>6, <1>7 DEF Insertions

\* Taking the first job leaves every other where it was in line.
LEMMA TailRemoves ==
    ASSUME NEW q \in Seq(Jobs), q # <<>>, IsInjective(q)
    PROVE  /\ q[1] \in Jobs /\ Tail(q) \in Seq(Jobs) /\ IsInjective(Tail(q))
           /\ q[1] \in Range(q) /\ Range(Tail(q)) = Range(q) \ {q[1]}
<1>1. Len(q) \in Nat /\ DOMAIN q = 1..Len(q) /\ Len(q) # 0
  BY LenProperties, EmptySeq
<1>2. /\ Tail(q) \in Seq(Jobs) /\ DOMAIN Tail(q) = 1..(Len(q) - 1)
      /\ \A i \in 1..(Len(q) - 1) : Tail(q)[i] = q[i + 1]
  BY <1>1, HeadTailProperties, LenProperties
<1>3. q[1] \in Jobs /\ q[1] \in Range(q)
  BY <1>1, ElementOfSeq DEF Range
<1>4. \A i \in 1..(Len(q) - 1) : i + 1 \in DOMAIN q /\ i + 1 # 1
  BY <1>1
<1>5. \A i \in DOMAIN q : i # 1 => i - 1 \in 1..(Len(q) - 1) /\ Tail(q)[i - 1] = q[i]
  BY <1>1, <1>2
<1>6. IsInjective(Tail(q))
  <2> SUFFICES ASSUME NEW i \in 1..(Len(q) - 1), NEW k \in 1..(Len(q) - 1),
                      q[i + 1] = q[k + 1]
               PROVE  i = k
    BY <1>2 DEF IsInjective
  <2>1. i + 1 = k + 1
    BY <1>4 DEF IsInjective
  <2> QED  BY <1>1, <2>1
<1>7. Range(Tail(q)) \subseteq Range(q) \ {q[1]}
  BY <1>1, <1>2, <1>4 DEF Range, IsInjective
<1>8. Range(q) \ {q[1]} \subseteq Range(Tail(q))
  BY <1>2, <1>5 DEF Range
<1> QED  BY <1>2, <1>3, <1>6, <1>7, <1>8

---------------------------------------------------------------------------
(* Waking workers.                                                         *)

\* wakeOne() and wakeAll() change nobody but sleepers, and these only to awake.
LEMMA WakingWakes ==
    ASSUME TypeOK, WakeOne \/ WakeAll
    PROVE  /\ pc' \in [Workers -> WorkerStates]
           /\ \A w \in Workers : pc'[w] # pc[w] => pc[w] = "waiting" /\ pc'[w] = "awake"
           /\ Busy' = Busy
           /\ Live' = Live
<1>1. /\ pc' \in [Workers -> WorkerStates]
      /\ \A w \in Workers : pc'[w] # pc[w] => pc[w] = "waiting" /\ pc'[w] = "awake"
  <2>1. CASE WakeAll
    BY <2>1 DEF WakeAll, TypeOK, WorkerStates, Waiting
  <2>2. CASE WakeOne
    BY <2>2 DEF WakeOne, TypeOK, WorkerStates, Waiting
  <2> QED  BY <2>1, <2>2
<1> QED  BY <1>1 DEF Busy, Live

LEMMA InitIInv == Init => IInv
<1> SUFFICES ASSUME Init PROVE IInv
  OBVIOUS
<1>1. mThreads \in Seq(Workers)
  <2>1. Cardinality(Workers) \in Nat
    BY FS_CardinalityType, WorkersAssumption
  <2>2. PICK n \in Nat : mThreads \in [1..n -> Workers]
    BY <2>1 DEF Init
  <2> QED  BY <2>2, SeqDef
<1>2. TypeOK
  <2>1. mJobs \in Seq(Jobs) /\ mConcurrentJobs \in Nat
    BY <1>1, EmptySeq, LenProperties DEF Init
  <2>2. pc \in [Workers -> WorkerStates] /\ life \in [Jobs -> JobStates]
    BY DEF Init, WorkerStates, JobStates
  <2>3. owner \in OwnerStates
    BY DEF Init, OwnerStates
  <2> QED  BY <1>1, <2>1, <2>2, <2>3 DEF Init, TypeOK
<1>3. BusyIsExact
  <2>1. Busy = {}
    BY DEF Init, Busy
  <2> QED  BY <2>1, FS_EmptySet DEF Init, BusyIsExact
<1>4. RunnersRun /\ StoppedAreAwake
  BY DEF Init, RunnersRun, StoppedAreAwake
<1>5. OwnerIsInside
  BY DEF Init, OwnerIsInside, Idle
<1>6. EachJobOnce
  BY NoJobAssumption DEF Init, EachJobOnce, Queued
<1>7. QueueIsServed
  BY DEF Init, QueueIsServed
<1> QED  BY <1>2, <1>3, <1>4, <1>5, <1>6, <1>7 DEF IInv

\* The workers are finitely many, so that their number tells how many are busy.
LEMMA BusyFinite == IsFiniteSet(Busy) /\ Cardinality(Busy) \in Nat
<1>1. Busy \in SUBSET Workers
  BY DEF Busy
<1>2. IsFiniteSet(Busy)
  BY <1>1, FS_Subset, WorkersAssumption
<1> QED  BY <1>2, FS_CardinalityType

\* A worker back from run() takes itself off the count at the top of the loop.
LEMMA BusyAtTopCounts ==
    ASSUME IInv, NEW w \in Workers, AtTop(w)
    PROVE  /\ BusyAtTop(w) \in Nat
           /\ BusyAtTop(w) = Cardinality(Busy \ {w})
           /\ IsFiniteSet(Busy \ {w})
<1>1. w \in Busy <=> pc[w] = "returned"
  BY DEF AtTop, Busy
<1>2. /\ IsFiniteSet(Busy \ {w})
      /\ Cardinality(Busy \ {w}) = IF w \in Busy THEN Cardinality(Busy) - 1
                                   ELSE Cardinality(Busy)
  BY BusyFinite, FS_RemoveElement
<1> QED  BY <1>1, <1>2, FS_CardinalityType DEF BusyAtTop, IInv, BusyIsExact

---------------------------------------------------------------------------
(* The steps.                                                              *)

LEMMA StartKeepsIInv ==
    ASSUME IInv, NEW j \in Jobs, NEW p \in Priorities, Start(j, p)
    PROVE  IInv'
<1> USE DEF IInv
<1>1. /\ pc' \in [Workers -> WorkerStates]
      /\ \A w \in Workers : pc'[w] # pc[w] => pc[w] = "waiting" /\ pc'[w] = "awake"
      /\ Busy' = Busy
      /\ Live' = Live
  BY WakingWakes DEF Start
<1>2. mJobs' \in Seq(Jobs) /\ IsInjective(mJobs') /\ Queued' = Queued \cup {j}
  <2>1. mJobs \in Seq(Jobs) /\ IsInjective(mJobs) /\ j \notin Range(mJobs)
    <3>1. \A i \in DOMAIN mJobs : mJobs[i] \in Jobs
      BY LenProperties, ElementOfSeq DEF TypeOK
    <3> QED  BY <3>1 DEF TypeOK, EachJobOnce, Start, Queued, Range, IsInjective
  <2>2. mJobs' \in Insertions(mJobs, j, mPriority')
    BY DEF Start
  <2>3. /\ mJobs' \in Seq(Jobs) /\ IsInjective(mJobs')
        /\ Range(mJobs') = Range(mJobs) \cup {j}
    BY <2>1, <2>2, InsertionsAdd
  <2> QED  BY <2>3 DEF Queued, Range
<1>3. TypeOK'
  <2>1. mPriority' \in [Jobs -> Nat]
    BY PrioritiesAssumption DEF Start, TypeOK
  <2>2. life' \in [Jobs -> JobStates]
    BY DEF Start, TypeOK, JobStates
  <2> QED  BY <1>1, <1>2, <2>1, <2>2 DEF Start, TypeOK
<1>4. BusyIsExact' /\ RunnersRun' /\ StoppedAreAwake'
  BY <1>1 DEF Start, BusyIsExact, RunnersRun, StoppedAreAwake
<1>5. OwnerIsInside'
  BY DEF Start, OwnerIsInside
<1>6. EachJobOnce'
  BY <1>2 DEF Start, TypeOK, EachJobOnce, IsInjective
<1>7. QueueIsServed'
  <2>1. CASE Waiting = {}
    BY <1>1, <2>1 DEF Start, QueueIsServed, Waiting, Live
  <2>2. CASE Waiting # {}
    <3>1. PICK w \in Waiting : pc' = [pc EXCEPT ![w] = "awake"]
      BY <2>2 DEF Start, WakeOne
    <3>2. w \in Workers /\ ~mStopped'[w] /\ pc'[w] = "awake"
      BY <3>1 DEF Start, Waiting, StoppedAreAwake, TypeOK
    <3> QED  BY <3>2 DEF QueueIsServed, Live
  <2> QED  BY <2>1, <2>2
<1> QED  BY <1>3, <1>4, <1>5, <1>6, <1>7

\* Going to sleep, leaving, and waking without a signal.
LEMMA SleepKeepsIInv ==
    ASSUME IInv, NEW w \in Workers, Sleep(w) \/ Leave(w) \/ SpuriousWakeup(w)
    PROVE  IInv'
<1> USE DEF IInv
<1>1. /\ pc' \in [Workers -> WorkerStates]
      /\ pc'[w] \in {"waiting", "exited", "awake"}
      /\ \A v \in Workers : v # w => pc'[v] = pc[v]
  BY DEF Sleep, Leave, SpuriousWakeup, TypeOK, WorkerStates
<1>2. Busy' = Busy \ {w}
  BY <1>1 DEF Busy
<1>3. mBusyThreads' \in Nat /\ BusyIsExact'
  <2>1. CASE Sleep(w) \/ Leave(w)
    BY <1>2, <2>1, BusyAtTopCounts DEF Sleep, Leave, BusyIsExact
  <2>2. CASE SpuriousWakeup(w)
    <3>1. Busy' = Busy
      BY <1>2, <2>2 DEF SpuriousWakeup, Busy
    <3> QED  BY <2>2, <3>1 DEF SpuriousWakeup, BusyIsExact, TypeOK
  <2> QED  BY <2>1, <2>2
<1>4. UNCHANGED <<mJobs, mPriority, mThreads, mConcurrentJobs, mStopped, running, life,
                  owner>>
  BY DEF Sleep, Leave, SpuriousWakeup
<1>5. TypeOK'
  BY <1>1, <1>3, <1>4 DEF TypeOK
<1>6. RunnersRun'
  <2>1. pc[w] # "running"
    BY DEF Sleep, Leave, SpuriousWakeup, AtTop
  <2> QED  BY <1>1, <1>4, <2>1 DEF RunnersRun
<1>7. StoppedAreAwake'
  <2>1. mStopped[w] => pc'[w] # "waiting"
    BY DEF Sleep, Leave, SpuriousWakeup, TypeOK
  <2> QED  BY <1>1, <1>4, <2>1 DEF StoppedAreAwake
<1>8. OwnerIsInside' /\ EachJobOnce'
  <2>1. Queued' = Queued
    BY <1>4 DEF Queued
  <2> QED  BY <1>4, <2>1 DEF OwnerIsInside, EachJobOnce, Idle
<1>9. QueueIsServed'
  <2>1. CASE Sleep(w)
    BY <2>1, <1>4 DEF Sleep, QueueIsServed
  <2>2. CASE Leave(w)
    <3>1. mStopped[w] /\ Live' = Live \ {w}
      BY <2>2, <1>1 DEF Leave, TypeOK, Live
    <3> QED  BY <3>1, <1>1, <1>4 DEF QueueIsServed, Live
  <2>3. CASE SpuriousWakeup(w)
    <3>1. pc'[w] = "awake" /\ Live' = Live
      BY <2>3, <1>1 DEF SpuriousWakeup, TypeOK, Live
    <3> QED  BY <3>1, <1>1, <1>4 DEF QueueIsServed, Live
  <2> QED  BY <2>1, <2>2, <2>3
<1> QED  BY <1>3, <1>5, <1>6, <1>7, <1>8, <1>9

LEMMA TakeKeepsIInv ==
    ASSUME IInv, NEW w \in Workers, Take(w)
    PROVE  IInv'
<1> USE DEF IInv
<1> DEFINE j == mJobs[1]
<1>1. /\ j \in Jobs /\ mJobs' \in Seq(Jobs) /\ IsInjective(mJobs')
      /\ j \in Queued /\ Queued' = Queued \ {j}
  <2>1. \A i \in DOMAIN mJobs : mJobs[i] \in Jobs
    BY LenProperties, ElementOfSeq DEF TypeOK
  <2>2. IsInjective(mJobs)
    BY <2>1 DEF EachJobOnce, IsInjective
  <2> QED  BY <2>2, TailRemoves DEF TypeOK, Take, Queued, Range
<1>2. /\ pc' \in [Workers -> WorkerStates] /\ pc'[w] = "running" /\ running'[w] = j
      /\ \A v \in Workers : v # w => pc'[v] = pc[v] /\ running'[v] = running[v]
      /\ pc[w] # "running" /\ running[w] = NoJob
  BY DEF Take, TypeOK, WorkerStates, AtTop, RunnersRun
<1>3. Busy' = (Busy \ {w}) \cup {w}
  BY <1>2 DEF Busy
<1>4. mBusyThreads' \in Nat /\ BusyIsExact'
  <2>1. /\ mBusyThreads' = BusyAtTop(w) + 1
        /\ BusyAtTop(w) = Cardinality(Busy \ {w}) /\ BusyAtTop(w) \in Nat
        /\ IsFiniteSet(Busy \ {w})
    BY BusyAtTopCounts DEF Take
  <2>2. Cardinality(Busy') = Cardinality(Busy \ {w}) + 1
    BY <1>3, <2>1, FS_AddElement
  <2> QED  BY <2>1, <2>2 DEF BusyIsExact
<1>5. TypeOK'
  <2>1. running' \in [Workers -> Jobs \cup {NoJob}] /\ life' \in [Jobs -> JobStates]
    BY <1>1 DEF Take, TypeOK, JobStates
  <2> QED  BY <1>1, <1>2, <1>4, <2>1 DEF Take, TypeOK
<1>6. RunnersRun'
  BY <1>1, <1>2, NoJobAssumption DEF RunnersRun
<1>7. StoppedAreAwake' /\ OwnerIsInside'
  BY <1>2 DEF Take, StoppedAreAwake, OwnerIsInside
<1>8. EachJobOnce'
  <2>1. \A v \in Workers : running[v] # j
    BY <1>1, NoJobAssumption DEF EachJobOnce
  <2>2. /\ life'[j] = "running"
        /\ \A k \in Jobs : k # j => life'[k] = life[k]
    BY <1>1 DEF Take, TypeOK
  <2> SUFFICES ASSUME NEW k \in Jobs
               PROVE  /\ life'[k] = "queued" <=> k \in Queued'
                      /\ life'[k] = "running" <=> \E v \in Workers : running'[v] = k
                      /\ \A u, v \in Workers : running'[u] = k /\ running'[v] = k => u = v
    BY <1>1 DEF EachJobOnce, IsInjective
  <2>3. CASE k = j
    BY <1>1, <1>2, <2>1, <2>2, <2>3
  <2>4. CASE k # j
    BY <1>1, <1>2, <2>1, <2>2, <2>4, NoJobAssumption DEF EachJobOnce
  <2> QED  BY <2>3, <2>4
<1>9. QueueIsServed'
  <2>1. w \in Live' /\ ~mStopped'[w] /\ pc'[w] # "waiting"
    BY <1>2 DEF Take, Live
  <2> QED  BY <2>1 DEF QueueIsServed
<1> QED  BY <1>4, <1>5, <1>6, <1>7, <1>8, <1>9

LEMMA ReturnKeepsIInv ==
    ASSUME IInv, NEW w \in Workers, Return(w)
    PROVE  IInv'
<1> USE DEF IInv
<1> DEFINE j == running[w]
<1>1. j \in Jobs /\ life[j] = "running"
  BY DEF Return, RunnersRun, TypeOK, EachJobOnce
<1>2. /\ pc' \in [Workers -> WorkerStates] /\ pc[w] = "running" /\ pc'[w] = "returned"
      /\ running'[w] = NoJob
      /\ \A v \in Workers : v # w => pc'[v] = pc[v] /\ running'[v] = running[v]
  BY DEF Return, TypeOK, WorkerStates
<1>3. BusyIsExact'
  <2>1. Busy' = Busy
    BY <1>2 DEF Busy
  <2> QED  BY <2>1 DEF Return, BusyIsExact
<1>4. TypeOK'
  <2>1. running' \in [Workers -> Jobs \cup {NoJob}] /\ life' \in [Jobs -> JobStates]
    BY DEF Return, TypeOK, JobStates
  <2> QED  BY <1>2, <2>1 DEF Return, TypeOK
<1>5. RunnersRun' /\ StoppedAreAwake' /\ OwnerIsInside'
  BY <1>2 DEF Return, RunnersRun, StoppedAreAwake, OwnerIsInside
<1>6. EachJobOnce'
  <2>1. /\ life'[j] = "done"
        /\ \A k \in Jobs : k # j => life'[k] = life[k]
    BY <1>1 DEF Return, TypeOK
  <2>2. mJobs' = mJobs /\ Queued' = Queued
    BY DEF Return, Queued
  <2> SUFFICES ASSUME NEW k \in Jobs
               PROVE  /\ life'[k] = "queued" <=> k \in Queued
                      /\ life'[k] = "running" <=> \E v \in Workers : running'[v] = k
                      /\ \A u, v \in Workers : running'[u] = k /\ running'[v] = k => u = v
    BY <2>2 DEF EachJobOnce
  <2>3. CASE k = j
    BY <1>1, <1>2, <2>1, <2>3, NoJobAssumption DEF EachJobOnce
  <2>4. CASE k # j
    BY <1>1, <1>2, <2>1, <2>4, NoJobAssumption DEF EachJobOnce
  <2> QED  BY <2>3, <2>4
<1>7. QueueIsServed'
  <2>1. Live' = Live
    BY <1>2 DEF Live
  <2> QED  BY <1>2, <2>1 DEF Return, QueueIsServed, Live
<1> QED  BY <1>3, <1>4, <1>5, <1>6, <1>7

LEMMA GrowKeepsIInv ==
    ASSUME IInv, NEW n \in Nat, NEW k \in Nat, NEW ws \in [1..k -> Workers], Grow(ws, n)
    PROVE  IInv'
<1> USE DEF IInv
<1>1. ws \in Seq(Workers) /\ DOMAIN ws = 1..Len(ws) /\ Len(ws) \in Nat
  BY SeqDef, LenProperties
<1>2. /\ pc' \in [Workers -> WorkerStates]
      /\ \A w \in Workers : pc'[w] # pc[w] => pc[w] = "none" /\ pc'[w] = "entering"
  BY <1>1 DEF Grow, TypeOK, WorkerStates
<1>3. mThreads' \in Seq(Workers) /\ Len(mThreads') = Len(mThreads) + Len(ws)
  BY <1>1, ConcatProperties DEF Grow, TypeOK
<1>4. TypeOK'
  BY <1>2, <1>3 DEF Grow, TypeOK
<1>5. BusyIsExact'
  <2>1. Busy' = Busy
    BY <1>2 DEF Busy
  <2> QED  BY <2>1 DEF Grow, BusyIsExact
<1>6. RunnersRun' /\ StoppedAreAwake'
  BY <1>2 DEF Grow, RunnersRun, StoppedAreAwake
<1>7. OwnerIsInside'
  <2>1. owner' = Idle /\ mConcurrentJobs' = n
    BY DEF Grow
  <2>2. n = Len(mThreads) + Len(ws)
    <3>1. mConcurrentJobs = Len(mThreads) /\ Len(ws) = n - mConcurrentJobs
      BY DEF Grow, OwnerIsInside
    <3>2. Len(mThreads) \in Nat
      BY LenProperties DEF TypeOK
    <3> QED  BY <1>1, <3>1, <3>2
  <2> QED  BY <1>3, <2>1, <2>2 DEF OwnerIsInside, Idle
<1>8. EachJobOnce'
  <2>1. Queued' = Queued
    BY DEF Grow, Queued
  <2> QED  BY <2>1 DEF Grow, EachJobOnce
<1>9. QueueIsServed'
  <2> SUFFICES ASSUME mJobs' # <<>>, NEW w \in Live', ~mStopped'[w]
               PROVE  \E v \in Live' : ~mStopped'[v] /\ pc'[v] # "waiting"
    BY DEF QueueIsServed
  <2>1. CASE pc[w] = "none"
    BY <1>2, <2>1 DEF Live
  <2>2. CASE pc[w] # "none"
    <3>1. w \in Live /\ ~mStopped[w] /\ mJobs # <<>>
      BY <1>2, <2>2 DEF Grow, Live
    <3>2. PICK v \in Live : ~mStopped[v] /\ pc[v] # "waiting"
      BY <3>1 DEF QueueIsServed
    <3>3. v \in Live' /\ pc'[v] # "waiting" /\ ~mStopped'[v]
      BY <1>2, <3>2 DEF Grow, Live
    <3> QED  BY <3>3
  <2> QED  BY <2>1, <2>2
<1> QED  BY <1>4, <1>5, <1>6, <1>7, <1>8, <1>9

\* What the owner has at hand follows from what it is doing.
LEMMA OwnerHasWhatItNeeds ==
    ASSUME TypeOK
    PROVE  /\ owner.op \in {"stop", "join"} =>
                owner \in [op : {"stop", "join"}, worker : Workers, size : Nat]
           /\ owner.op \in {"destroy stop", "destroy join"} =>
                owner \in [op : {"destroy stop", "destroy join"}, index : Nat]
<1>1. CASE owner = Idle \/ owner = [op |-> "destroyed"]
  <2>1. owner.op \in {"idle", "destroyed"}
    BY <1>1 DEF Idle
  <2> QED  BY <2>1
<1>2. CASE owner \in [op : {"stop", "join"}, worker : Workers, size : Nat]
  <2>1. owner.op \in {"stop", "join"}
    BY <1>2
  <2> QED  BY <1>2, <2>1
<1>3. CASE owner \in [op : {"destroy stop", "destroy join"}, index : Nat]
  <2>1. owner.op \in {"destroy stop", "destroy join"}
    BY <1>3
  <2> QED  BY <1>3, <2>1
<1> QED  BY <1>1, <1>2, <1>3 DEF TypeOK, OwnerStates

\* Taking the youngest worker off mThreads.
LEMMA PopToPops ==
    ASSUME mThreads \in Seq(Workers), NEW n \in Nat, n < Len(mThreads), PopTo(n)
    PROVE  /\ mThreads' \in Seq(Workers) /\ owner' \in OwnerStates
           /\ n <= Len(mThreads') /\ owner'.op = "stop" /\ owner'.size = n
<1>1. Len(mThreads) \in Nat /\ DOMAIN mThreads = 1..Len(mThreads)
  BY LenProperties
<1>2. \A i \in 1..Len(mThreads) : mThreads[i] \in Workers
  BY ElementOfSeq
<1>3. \A i \in 1..(Len(mThreads) - 1) : mThreads[i] \in Workers
  BY <1>1, <1>2
<1>4. mThreads' \in Seq(Workers) /\ Len(mThreads') = Len(mThreads) - 1
  BY <1>1, <1>3, SubSeqProperties DEF PopTo
<1>5. mThreads[Len(mThreads)] \in Workers
  BY <1>1, <1>2
<1>6. owner' \in OwnerStates /\ owner'.op = "stop" /\ owner'.size = n
  BY <1>5 DEF PopTo, OwnerStates
<1> QED  BY <1>1, <1>4, <1>6

LEMMA ShrinkKeepsIInv ==
    ASSUME IInv, (\E n \in Nat : Shrink(n)) \/ ShrinkJoin
    PROVE  IInv'
<1> USE DEF IInv
<1>1. UNCHANGED <<mJobs, mPriority, mBusyThreads, mStopped, pc, running, life>>
  BY DEF Shrink, ShrinkJoin
<1>2. /\ mThreads' \in Seq(Workers) /\ owner' \in OwnerStates
      /\ mConcurrentJobs' \in Nat /\ OwnerIsInside'
  <2>1. CASE \E n \in Nat : Shrink(n)
    <3>1. PICK n \in Nat : Shrink(n)
      BY <2>1
    <3>2. n < Len(mThreads) /\ PopTo(n) /\ mConcurrentJobs' = mConcurrentJobs
      BY <3>1 DEF Shrink, OwnerIsInside
    <3>3. /\ mThreads' \in Seq(Workers) /\ owner' \in OwnerStates
          /\ n <= Len(mThreads') /\ owner'.op = "stop" /\ owner'.size = n
      BY <3>2, PopToPops DEF TypeOK
    <3>4. owner' # Idle
      BY <3>3 DEF Idle
    <3> QED  BY <3>2, <3>3, <3>4 DEF TypeOK, OwnerIsInside, Idle
  <2>2. CASE ShrinkJoin
    <3>1. owner.size \in Nat /\ owner.size <= Len(mThreads) /\ Len(mThreads) \in Nat
      BY <2>2, LenProperties, OwnerHasWhatItNeeds DEF ShrinkJoin, OwnerIsInside, TypeOK
    <3>2. CASE Len(mThreads) > owner.size
      <4>1. PopTo(owner.size) /\ mConcurrentJobs' = mConcurrentJobs
        BY <2>2, <3>2 DEF ShrinkJoin
      <4>2. /\ mThreads' \in Seq(Workers) /\ owner' \in OwnerStates
            /\ owner.size <= Len(mThreads') /\ owner'.op = "stop"
            /\ owner'.size = owner.size
        BY <3>1, <3>2, <4>1, PopToPops DEF TypeOK
      <4>3. owner' # Idle
        BY <4>2 DEF Idle
      <4> QED  BY <4>1, <4>2, <4>3 DEF TypeOK, OwnerIsInside, Idle
    <3>3. CASE ~(Len(mThreads) > owner.size)
      <4>1. owner' = Idle /\ mThreads' = mThreads /\ mConcurrentJobs' = Len(mThreads)
        BY <2>2, <3>1, <3>3 DEF ShrinkJoin
      <4> QED  BY <3>1, <4>1 DEF TypeOK, OwnerIsInside, Idle, OwnerStates
    <3> QED  BY <3>2, <3>3
  <2> QED  BY <2>1, <2>2
<1>3. TypeOK'
  BY <1>1, <1>2 DEF TypeOK
<1>4. Busy' = Busy /\ Queued' = Queued /\ Live' = Live
  BY <1>1 DEF Busy, Queued, Live
<1>5. BusyIsExact' /\ RunnersRun' /\ StoppedAreAwake'
  BY <1>1, <1>4 DEF BusyIsExact, RunnersRun, StoppedAreAwake
<1>6. EachJobOnce' /\ QueueIsServed'
  BY <1>1, <1>4 DEF EachJobOnce, QueueIsServed
<1> QED  BY <1>2, <1>3, <1>5, <1>6

\* ThreadPoolThread::stop(), by a shrinking pool or by a dying one.
LEMMA StopKeepsIInv ==
    ASSUME IInv, ShrinkStop \/ DestroyStop
    PROVE  IInv'
<1> USE DEF IInv
<1>1. PICK w \in Workers : Stop(w)
  <2>1. CASE ShrinkStop
    BY <2>1, OwnerHasWhatItNeeds DEF ShrinkStop
  <2>2. CASE DestroyStop
    BY <2>2, ElementOfSeq DEF DestroyStop, OwnerIsInside, TypeOK
  <2> QED  BY <2>1, <2>2
<1>2. /\ pc' \in [Workers -> WorkerStates]
      /\ \A v \in Workers : pc'[v] # pc[v] => pc[v] = "waiting" /\ pc'[v] = "awake"
      /\ Busy' = Busy /\ Live' = Live
  BY <1>1, WakingWakes DEF Stop
<1>3. \A v \in Workers : pc'[v] # "waiting"
  BY <1>1 DEF Stop, WakeAll, Waiting
<1>4. mStopped' \in [Workers -> BOOLEAN] /\ \A v \in Workers : mStopped[v] => mStopped'[v]
  BY <1>1 DEF Stop, TypeOK
<1>5. UNCHANGED <<mJobs, mPriority, mBusyThreads, mThreads, mConcurrentJobs, running, life>>
  BY DEF ShrinkStop, DestroyStop
<1>6. owner' \in OwnerStates /\ OwnerIsInside'
  <2>1. CASE ShrinkStop
    <3>1. /\ owner' \in [op : {"stop", "join"}, worker : Workers, size : Nat]
          /\ owner'.op = "join" /\ owner'.size = owner.size
          /\ owner.op = "stop" /\ mThreads' = mThreads
      BY <2>1, OwnerHasWhatItNeeds DEF ShrinkStop
    <3>2. owner'.op # Idle.op
      BY <3>1 DEF Idle
    <3> QED  BY <3>1, <3>2 DEF OwnerStates, OwnerIsInside, Idle
  <2>2. CASE DestroyStop
    <3>1. /\ owner' \in [op : {"destroy stop", "destroy join"}, index : Nat]
          /\ owner'.op = "destroy join" /\ owner'.index = owner.index
          /\ owner.op = "destroy stop" /\ mThreads' = mThreads
      BY <2>2, OwnerHasWhatItNeeds DEF DestroyStop
    <3>2. owner'.op # Idle.op
      BY <3>1 DEF Idle
    <3> QED  BY <3>1, <3>2 DEF OwnerStates, OwnerIsInside, Idle
  <2> QED  BY <2>1, <2>2
<1>7. TypeOK'
  BY <1>2, <1>4, <1>5, <1>6 DEF TypeOK
<1>8. BusyIsExact' /\ RunnersRun' /\ StoppedAreAwake'
  BY <1>2, <1>3, <1>5 DEF BusyIsExact, RunnersRun, StoppedAreAwake
<1>9. EachJobOnce'
  <2>1. Queued' = Queued
    BY <1>5 DEF Queued
  <2> QED  BY <1>5, <2>1 DEF EachJobOnce
<1>10. QueueIsServed'
  BY <1>3 DEF QueueIsServed, Live
<1> QED  BY <1>6, <1>7, <1>8, <1>9, <1>10

\* An empty queue and life = Dropped: what the pool drops was in the queue.
LEMMA DroppingDrops ==
    ASSUME IInv, mJobs' = <<>>, life' = Dropped, running' = running
    PROVE  life' \in [Jobs -> JobStates] /\ EachJobOnce' /\ QueueIsServed'
<1> USE DEF IInv
<1>1. life' \in [Jobs -> JobStates]
  BY DEF Dropped, TypeOK, JobStates
<1>2. Queued' = {}
  BY DEF Queued
<1>3. \A j \in Jobs : /\ life'[j] # "queued"
                      /\ life'[j] = "running" <=> life[j] = "running"
  BY DEF Dropped, EachJobOnce
<1>4. EachJobOnce'
  BY <1>2, <1>3 DEF EachJobOnce
<1>5. QueueIsServed'
  BY DEF QueueIsServed
<1> QED  BY <1>1, <1>4, <1>5

LEMMA DropKeepsIInv ==
    ASSUME IInv, ClearBackLog \/ Destroy \/ DestroyJoin
    PROVE  IInv'
<1> USE DEF IInv
<1>1. UNCHANGED <<mPriority, mBusyThreads, mThreads, mConcurrentJobs, mStopped, pc, running>>
  BY DEF ClearBackLog, Destroy, DestroyJoin
<1>2. /\ mJobs' \in Seq(Jobs) /\ life' \in [Jobs -> JobStates]
      /\ EachJobOnce' /\ QueueIsServed'
  <2>1. CASE mJobs' = <<>> /\ life' = Dropped
    BY <1>1, <2>1, DroppingDrops, EmptySeq
  <2>2. CASE mJobs' = mJobs /\ life' = life
    <3>1. Queued' = Queued /\ Live' = Live
      BY <1>1, <2>2 DEF Queued, Live
    <3> QED  BY <1>1, <2>2, <3>1 DEF TypeOK, EachJobOnce, QueueIsServed
  <2> QED  BY <2>1, <2>2 DEF ClearBackLog, Destroy, DestroyJoin, DestroyNext
<1>3. owner' \in OwnerStates /\ OwnerIsInside'
  <2>1. CASE ClearBackLog
    BY <1>1, <2>1 DEF ClearBackLog, TypeOK, OwnerIsInside, Idle
  <2>2. CASE Destroy
    <3>1. Len(mThreads) \in Nat /\ 1 \in 1..Len(mThreads)
      <4>1. Len(mThreads) \in Nat \ {0}
        BY <2>2, EmptySeq DEF Destroy, TypeOK
      <4> QED  BY <4>1
    <3>2. owner' = [op |-> "destroy stop", index |-> 1] /\ mThreads' = mThreads
      BY <2>2 DEF Destroy
    <3>3. owner' # Idle /\ owner'.op = "destroy stop" /\ owner'.index = 1
      BY <3>2 DEF Idle
    <3> QED  BY <3>1, <3>2, <3>3 DEF OwnerStates, OwnerIsInside, Idle
  <2>3. CASE DestroyJoin
    <3>1. owner.index \in 1..Len(mThreads) /\ Len(mThreads) \in Nat
      BY <2>3, LenProperties DEF DestroyJoin, OwnerIsInside, TypeOK
    <3>2. CASE owner.index + 1 > Len(mThreads)
      <4>1. owner' = [op |-> "destroyed"]
        BY <2>3, <3>2 DEF DestroyJoin, DestroyNext
      <4>2. owner' # Idle /\ owner'.op = "destroyed"
        BY <4>1 DEF Idle
      <4>3. owner' \in OwnerStates
        BY <4>1 DEF OwnerStates
      <4>4. OwnerIsInside'
        BY <4>2 DEF OwnerIsInside, Idle
      <4> QED  BY <4>3, <4>4
    <3>3. CASE ~(owner.index + 1 > Len(mThreads))
      <4>1. owner' = [op |-> "destroy stop", index |-> owner.index + 1]
        BY <2>3, <3>3 DEF DestroyJoin, DestroyNext
      <4>2. owner' # Idle /\ owner'.op = "destroy stop" /\ owner'.index = owner.index + 1
        BY <4>1 DEF Idle
      <4>3. owner.index + 1 \in 1..Len(mThreads)
        BY <3>1, <3>3
      <4>4. owner' \in OwnerStates
        <5>1. owner.index + 1 \in Nat
          BY <3>1
        <5>2. owner' \in [op : {"destroy stop", "destroy join"}, index : Nat]
          BY <4>1, <5>1
        <5> QED  BY <5>2 DEF OwnerStates
      <4>5. OwnerIsInside'
        BY <1>1, <4>2, <4>3 DEF OwnerIsInside, Idle
      <4> QED  BY <4>4, <4>5
    <3> QED  BY <3>2, <3>3
  <2> QED  BY <2>1, <2>2, <2>3
<1>4. TypeOK'
  BY <1>1, <1>2, <1>3 DEF TypeOK
<1>5. Busy' = Busy
  BY <1>1 DEF Busy
<1>6. BusyIsExact' /\ RunnersRun' /\ StoppedAreAwake'
  BY <1>1, <1>5 DEF BusyIsExact, RunnersRun, StoppedAreAwake
<1> QED  BY <1>2, <1>3, <1>4, <1>6

LEMMA NextKeepsIInv == IInv /\ [Next]_vars => IInv'
<1> SUFFICES ASSUME IInv, [Next]_vars PROVE IInv'
  OBVIOUS
<1>1. ASSUME NEW j \in Jobs, NEW p \in Priorities, Start(j, p) PROVE IInv'
  BY <1>1, StartKeepsIInv
<1>2. ASSUME NEW w \in Workers, Worker(w) \/ SpuriousWakeup(w) PROVE IInv'
  BY <1>2, SleepKeepsIInv, TakeKeepsIInv, ReturnKeepsIInv DEF Worker
<1>3. ASSUME NEW n \in 1..Cardinality(Workers), Shrink(n) PROVE IInv'
  <2>1. n \in Nat
    BY FS_CardinalityType, WorkersAssumption
  <2> QED  BY <1>3, <2>1, ShrinkKeepsIInv
<1>4. ASSUME NEW n \in 1..Cardinality(Workers),
             NEW ws \in UNION {[1..k -> Workers] : k \in 1..n}, Grow(ws, n)
      PROVE  IInv'
  <2>1. n \in Nat
    BY FS_CardinalityType, WorkersAssumption
  <2>2. PICK k \in 1..n : ws \in [1..k -> Workers]
    OBVIOUS
  <2> QED  BY <1>4, <2>1, <2>2, GrowKeepsIInv
<1>5. CASE ClearBackLog \/ Destroy
  BY <1>5, DropKeepsIInv
<1>6. CASE OwnerStep
  BY <1>6, ShrinkKeepsIInv, StopKeepsIInv, DropKeepsIInv DEF OwnerStep
<1>7. CASE UNCHANGED vars
  <2>1. Busy' = Busy /\ Queued' = Queued /\ Live' = Live
    BY <1>7 DEF vars, Busy, Queued, Live
  <2>2. TypeOK' /\ EachJobOnce'
    BY <1>7, <2>1 DEF vars, IInv, TypeOK, EachJobOnce
  <2>3. BusyIsExact' /\ RunnersRun' /\ StoppedAreAwake' /\ QueueIsServed'
    BY <1>7, <2>1 DEF vars, IInv, BusyIsExact, RunnersRun, StoppedAreAwake, QueueIsServed
  <2>4. OwnerIsInside'
    BY <1>7 DEF vars, IInv, OwnerIsInside, Idle
  <2> QED  BY <2>2, <2>3, <2>4 DEF IInv
<1> QED  BY <1>1, <1>2, <1>3, <1>4, <1>5, <1>6, <1>7 DEF Next

LEMMA IInvHolds == Spec => []IInv
<1> QED  BY InitIInv, NextKeepsIInv, PTL DEF Spec

---------------------------------------------------------------------------

\* Every variable keeps its type; mBusyThreads, an int the workers decrement,
\* never goes below 0, and the owner never reads past the end of mThreads.
THEOREM PoolTypeCorrect == Spec => []TypeOK
<1>1. IInv => TypeOK
  BY DEF IInv
<1> QED  BY <1>1, IInvHolds, PTL

\* However start(), the workers, clearBackLog(), setConcurrentJobs() and
\* ~ThreadPool() interleave, no job of the pool is lost, queued twice or run by
\* two workers.
THEOREM EachJobOnceHolds == Spec => []EachJobOnce
<1>1. IInv => EachJobOnce
  BY DEF IInv
<1> QED  BY <1>1, IInvHolds, PTL

\* No wakeup is lost: while the queue holds a job, a worker that was not told
\* to stop is awake, for start() signals one and stop() wakes them all.
THEOREM QueueIsServedHolds == Spec => []QueueIsServed
<1>1. IInv => QueueIsServed
  BY DEF IInv
<1> QED  BY <1>1, IInvHolds, PTL
===========================================================================
