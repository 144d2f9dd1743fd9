---------------------------- MODULE ThreadPool ----------------------------
(***************************************************************************)
(* ThreadPool (src/src/ThreadPool.cpp): a priority queue of jobs served by *)
(* ThreadPoolThread workers that sleep on one condition variable.  rdm     *)
(* owns two of them, one for IndexerJobs and one for queries.              *)
(*                                                                         *)
(* Every section the code runs under ThreadPool::mMutex is one action.     *)
(* setConcurrentJobs() and ~ThreadPool() release the mutex to stop and     *)
(* join a worker, so they are sequences of actions of the owner, the       *)
(* event-loop thread.  Any thread may call start(), workers included.      *)
(***************************************************************************)
EXTENDS Naturals, Sequences, FiniteSets

CONSTANTS Workers,      \* the ThreadPoolThread objects the pool can create
          Jobs,         \* the jobs handed to start(), each of them once
          Priorities,   \* the priorities jobs are started with
          NoJob         \* what a worker runs when it runs nothing

ASSUME WorkersAssumption == IsFiniteSet(Workers)
ASSUME PrioritiesAssumption == Priorities \subseteq Nat
ASSUME NoJobAssumption == NoJob \notin Jobs

VARIABLES mJobs,            \* the queue
          mPriority,        \* Job::mPriority, written by start()
          mBusyThreads,     \* how many workers the pool believes to be running
          mThreads,         \* the workers the pool owns, oldest first
          mConcurrentJobs,  \* the size setConcurrentJobs() last settled on
          mStopped,         \* ThreadPoolThread::mStopped, per worker
          pc,               \* where each worker is in ThreadPoolThread::run()
          running,          \* the job each worker took
          life,             \* what became of each job
          owner             \* what the owner of the pool is doing

vars == <<mJobs, mPriority, mBusyThreads, mThreads, mConcurrentJobs, mStopped,
          pc, running, life, owner>>

\* "entering": at the top of the loop for the first time; "waiting": inside
\* mCond.wait(); "awake": signalled, not yet holding mMutex again; "running":
\* inside job->run(); "returned": run() returned, back at the top of the loop.
WorkerStates == {"none", "entering", "waiting", "awake", "running", "returned",
                 "exited"}
JobStates == {"new", "queued", "running", "done", "dropped"}

Queued == {mJobs[i] : i \in DOMAIN mJobs}
Waiting == {w \in Workers : pc[w] = "waiting"}
Owned == {mThreads[i] : i \in DOMAIN mThreads}
Live == {w \in Workers : pc[w] \notin {"none", "exited"}}

Idle == [op |-> "idle"]
OwnerStates ==
    {Idle, [op |-> "destroyed"]}
    \cup [op : {"stop", "join"}, worker : Workers, size : Nat]
    \cup [op : {"destroy stop", "destroy join"}, index : Nat]

---------------------------------------------------------------------------
(* The queue.                                                              *)

\* std::sort with jobLessThan(): any permutation of q in descending priority.
Sorted(q, prio) ==
    {s \in [DOMAIN q -> {q[i] : i \in DOMAIN q}] :
        \A i, k \in DOMAIN q : i < k => s[i] # s[k] /\ prio[s[i]] >= prio[s[k]]}

\* Where start() may put job j: at the back, at the front, or sorted in.
Insertions(q, j, prio) ==
    IF q = <<>> \/ prio[q[Len(q)]] >= prio[j] THEN {Append(q, j)}
    ELSE IF prio[q[1]] < prio[j] THEN {<<j>> \o q}
    ELSE Sorted(Append(q, j), prio)

NoWakeOne == pc' = pc                                             \* a mutant

\* mCond.wakeOne(): one of the waiting workers, if there is one.
WakeOne ==
    IF Waiting = {} THEN pc' = pc
    ELSE \E w \in Waiting : pc' = [pc EXCEPT ![w] = "awake"]

\* mCond.wakeAll()
WakeAll == pc' = [w \in Workers |-> IF w \in Waiting THEN "awake" ELSE pc[w]]

---------------------------------------------------------------------------
(* start(), called by any thread.                                          *)

Start(j, p) ==
    /\ life[j] = "new"
    /\ owner.op # "destroyed"
    /\ mPriority' = [mPriority EXCEPT ![j] = p]
    /\ mJobs' \in Insertions(mJobs, j, mPriority')
    /\ WakeOne
    /\ life' = [life EXCEPT ![j] = "queued"]
    /\ UNCHANGED <<mBusyThreads, mThreads, mConcurrentJobs, mStopped, running, owner>>

---------------------------------------------------------------------------
(* ThreadPoolThread::run().  One turn of the loop runs under mMutex from   *)
(* its top to the wait, to the break or to the job.                        *)

\* --mBusyThreads, except in the worker's first turn.
BusyAtTop(w) == IF pc[w] = "returned" THEN mBusyThreads - 1 ELSE mBusyThreads

AtTop(w) == pc[w] \in {"entering", "awake", "returned"}

\* Waiting once in every turn, without looking at the queue first.
SleepUnchecked(w) ==                                              \* a mutant
    /\ pc[w] \in {"entering", "returned"} \/ (pc[w] = "awake" /\ mJobs = <<>>)
    /\ ~mStopped[w]
    /\ pc' = [pc EXCEPT ![w] = "waiting"]
    /\ mBusyThreads' = BusyAtTop(w)
    /\ UNCHANGED <<mJobs, mPriority, mThreads, mConcurrentJobs, mStopped, running,
                   life, owner>>

Sleep(w) ==
    /\ AtTop(w)
    /\ mJobs = <<>> /\ ~mStopped[w]
    /\ pc' = [pc EXCEPT ![w] = "waiting"]
    /\ mBusyThreads' = BusyAtTop(w)
    /\ UNCHANGED <<mJobs, mPriority, mThreads, mConcurrentJobs, mStopped, running,
                   life, owner>>

Leave(w) ==
    /\ AtTop(w)
    /\ mStopped[w]
    /\ pc' = [pc EXCEPT ![w] = "exited"]
    /\ mBusyThreads' = BusyAtTop(w)
    /\ UNCHANGED <<mJobs, mPriority, mThreads, mConcurrentJobs, mStopped, running,
                   life, owner>>

\* Two workers of which the second reads the queue before the first erased.
TakeWithoutErase(w) ==                                            \* a mutant
    /\ AtTop(w)
    /\ mJobs # <<>> /\ ~mStopped[w]
    /\ running' = [running EXCEPT ![w] = mJobs[1]]
    /\ life' = [life EXCEPT ![mJobs[1]] = "running"]
    /\ mBusyThreads' = BusyAtTop(w) + 1
    /\ pc' = [pc EXCEPT ![w] = "running"]
    /\ UNCHANGED <<mJobs, mPriority, mThreads, mConcurrentJobs, mStopped, owner>>

Take(w) ==
    /\ AtTop(w)
    /\ mJobs # <<>> /\ ~mStopped[w]
    /\ running' = [running EXCEPT ![w] = mJobs[1]]
    /\ life' = [life EXCEPT ![mJobs[1]] = "running"]
    /\ mJobs' = Tail(mJobs)
    /\ mBusyThreads' = BusyAtTop(w) + 1
    /\ pc' = [pc EXCEPT ![w] = "running"]
    /\ UNCHANGED <<mPriority, mThreads, mConcurrentJobs, mStopped, owner>>

\* job->run() returns and the worker drops its reference to the job.
Return(w) ==
    /\ pc[w] = "running"
    /\ pc' = [pc EXCEPT ![w] = "returned"]
    /\ life' = [life EXCEPT ![running[w]] = "done"]
    /\ running' = [running EXCEPT ![w] = NoJob]
    /\ UNCHANGED <<mJobs, mPriority, mBusyThreads, mThreads, mConcurrentJobs,
                   mStopped, owner>>

\* pthread_cond_wait() may return without a signal.
SpuriousWakeup(w) ==
    /\ pc[w] = "waiting"
    /\ pc' = [pc EXCEPT ![w] = "awake"]
    /\ UNCHANGED <<mJobs, mPriority, mBusyThreads, mThreads, mConcurrentJobs,
                   mStopped, running, life, owner>>

---------------------------------------------------------------------------
(* The owner: setConcurrentJobs(), clearBackLog() and ~ThreadPool().       *)

\* new ThreadPoolThread(this) and its start(), for each of ws.
Grow(ws, n) ==
    /\ owner = Idle
    /\ n > mConcurrentJobs
    /\ Len(ws) = n - mConcurrentJobs
    /\ \A i, k \in DOMAIN ws : i # k => ws[i] # ws[k]
    /\ \A i \in DOMAIN ws : pc[ws[i]] = "none"
    /\ mThreads' = mThreads \o ws
    /\ pc' = [w \in Workers |->
                IF \E i \in DOMAIN ws : ws[i] = w THEN "entering" ELSE pc[w]]
    /\ mConcurrentJobs' = n
    /\ UNCHANGED <<mJobs, mPriority, mBusyThreads, mStopped, running, life, owner>>

PopTo(n) ==
    /\ owner' = [op |-> "stop", worker |-> mThreads[Len(mThreads)], size |-> n]
    /\ mThreads' = SubSeq(mThreads, 1, Len(mThreads) - 1)

\* Take the youngest worker off mThreads and release the mutex.
Shrink(n) ==
    /\ owner = Idle
    /\ n < mConcurrentJobs
    /\ PopTo(n)
    /\ UNCHANGED <<mJobs, mPriority, mBusyThreads, mConcurrentJobs, mStopped, pc,
                   running, life>>

\* ThreadPoolThread::stop() with a single wakeup: the wrong worker may get it.
StopWakingOne(w) ==                                               \* a mutant
    /\ mStopped' = [mStopped EXCEPT ![w] = TRUE]
    /\ WakeOne

\* ThreadPoolThread::stop()
Stop(w) ==
    /\ mStopped' = [mStopped EXCEPT ![w] = TRUE]
    /\ WakeAll

ShrinkStop ==
    /\ owner.op = "stop"
    /\ Stop(owner.worker)
    /\ owner' = [owner EXCEPT !.op = "join"]
    /\ UNCHANGED <<mJobs, mPriority, mBusyThreads, mThreads, mConcurrentJobs,
                   running, life>>

\* t->join() returns; the mutex is taken again for the next worker or to end.
ShrinkJoin ==
    /\ owner.op = "join"
    /\ pc[owner.worker] = "exited"
    /\ IF Len(mThreads) > owner.size
       THEN PopTo(owner.size) /\ UNCHANGED mConcurrentJobs
       ELSE /\ mConcurrentJobs' = owner.size
            /\ owner' = Idle
            /\ UNCHANGED mThreads
    /\ UNCHANGED <<mJobs, mPriority, mBusyThreads, mStopped, pc, running, life>>

Dropped == [j \in Jobs |-> IF j \in Queued THEN "dropped" ELSE life[j]]

ClearBackLog ==
    /\ owner = Idle
    /\ mJobs # <<>>
    /\ mJobs' = <<>>
    /\ life' = Dropped
    /\ UNCHANGED <<mPriority, mBusyThreads, mThreads, mConcurrentJobs, mStopped,
                   pc, running, owner>>

\* ~ThreadPool(): clear the queue, then stop and join worker after worker.
\* Jobs that still run may start() others behind the destructor's back: those
\* that no worker takes go with the queue when the destructor ends.
DestroyNext(i) ==
    IF i > Len(mThreads)
    THEN /\ owner' = [op |-> "destroyed"]
         /\ mJobs' = <<>>
         /\ life' = Dropped
    ELSE /\ owner' = [op |-> "destroy stop", index |-> i]
         /\ UNCHANGED <<mJobs, life>>

Destroy ==
    /\ owner = Idle
    /\ mThreads # <<>>
    /\ mJobs' = <<>>
    /\ life' = Dropped
    /\ owner' = [op |-> "destroy stop", index |-> 1]
    /\ UNCHANGED <<mPriority, mBusyThreads, mThreads, mConcurrentJobs, mStopped,
                   pc, running>>

DestroyStop ==
    /\ owner.op = "destroy stop"
    /\ Stop(mThreads[owner.index])
    /\ owner' = [owner EXCEPT !.op = "destroy join"]
    /\ UNCHANGED <<mJobs, mPriority, mBusyThreads, mThreads, mConcurrentJobs,
                   running, life>>

DestroyJoin ==
    /\ owner.op = "destroy join"
    /\ pc[mThreads[owner.index]] = "exited"
    /\ DestroyNext(owner.index + 1)
    /\ UNCHANGED <<mPriority, mBusyThreads, mThreads, mConcurrentJobs, mStopped,
                   pc, running>>

---------------------------------------------------------------------------

\* ThreadPool::ThreadPool(concurrentJobs): one worker per concurrent job.
Init ==
    /\ mThreads \in UNION {[1..n -> Workers] : n \in 1..Cardinality(Workers)}
    /\ \A i, k \in DOMAIN mThreads : i # k => mThreads[i] # mThreads[k]
    /\ mConcurrentJobs = Len(mThreads)
    /\ pc = [w \in Workers |-> IF w \in Owned THEN "entering" ELSE "none"]
    /\ mJobs = <<>>
    /\ mPriority \in [Jobs -> {0}]
    /\ mBusyThreads = 0
    /\ mStopped = [w \in Workers |-> FALSE]
    /\ running = [w \in Workers |-> NoJob]
    /\ life = [j \in Jobs |-> "new"]
    /\ owner = Idle

Worker(w) == Sleep(w) \/ Leave(w) \/ Take(w) \/ Return(w)

OwnerStep == ShrinkStop \/ ShrinkJoin \/ DestroyStop \/ DestroyJoin

\* The job count is an int between 1 and 100 (Server::jobCount()).
Next ==
    \/ \E j \in Jobs, p \in Priorities : Start(j, p)
    \/ \E w \in Workers : Worker(w) \/ SpuriousWakeup(w)
    \/ \E n \in 1..Cardinality(Workers) :
         \/ Shrink(n)
         \/ \E ws \in UNION {[1..k -> Workers] : k \in 1..n} : Grow(ws, n)
    \/ ClearBackLog
    \/ Destroy
    \/ OwnerStep

\* The kernel hands a free mutex to every worker that keeps asking for it, and
\* a job returns; nothing obliges anyone to resize or to destroy the pool, but
\* the owner goes on with what it began.
Fairness ==
    /\ \A w \in Workers : WF_vars(Worker(w))
    /\ WF_vars(OwnerStep)

Spec == Init /\ [][Next]_vars

FairSpec == Spec /\ Fairness

---------------------------------------------------------------------------
(* Properties.                                                             *)

TypeOK ==
    /\ mJobs \in Seq(Jobs)
    /\ mPriority \in [Jobs -> Nat]
    /\ mBusyThreads \in Nat
    /\ mThreads \in Seq(Workers)
    /\ mConcurrentJobs \in Nat
    /\ mStopped \in [Workers -> BOOLEAN]
    /\ pc \in [Workers -> WorkerStates]
    /\ running \in [Workers -> Jobs \cup {NoJob}]
    /\ life \in [Jobs -> JobStates]
    /\ owner \in OwnerStates

\* No job is lost or run twice, whatever start(), the workers, a shrinking pool
\* and its destructor do to each other: a job is in the queue exactly once while
\* it is queued, and in the hands of exactly one worker while it runs.
EachJobOnce ==
    \A j \in Jobs :
        /\ life[j] = "queued" <=> j \in Queued
        /\ life[j] = "running" <=> \E w \in Workers : running[w] = j
        /\ \A i, k \in DOMAIN mJobs : mJobs[i] = mJobs[k] => i = k
        /\ \A v, w \in Workers : running[v] = j /\ running[w] = j => v = w

\* No lost wakeup: while a job is queued, the workers that have not been told to
\* stop are never all asleep, even when the one wakeOne() chose is then stopped.
QueueIsServed ==
    mJobs # <<>> /\ (\E w \in Live : ~mStopped[w])
        => \E w \in Live : ~mStopped[w] /\ pc[w] # "waiting"

\* Every queued job is taken, or dropped by the owner, in the end.
QueuedJobIsTaken ==
    \A j \in Jobs : life[j] = "queued" ~> life[j] # "queued"

\* Resizing and destroying a pool end: each stopped worker hears of it, so that
\* its join() returns.
OwnerReturns == (owner # Idle) ~> (owner = Idle \/ owner.op = "destroyed")
===========================================================================
