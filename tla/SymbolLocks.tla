--------------------------- MODULE SymbolLocks ----------------------------
(***************************************************************************)
(* The order in which the threads of rdm take the locks of a project: the  *)
(* read-write locks of its symbol tables, its mMutex, the mutex of the     *)
(* event loop, and the pipe that wakes the event loop, which holds a       *)
(* bounded number of bytes and whose only reader is the event loop.        *)
(*                                                                         *)
(* A thread runs one activity at a time, a sequence of operations on these *)
(* locks in the order of the code; what it does between them is left out.  *)
(***************************************************************************)
EXTENDS ReadWriteLock, Sequences

CONSTANTS Loop,       \* the event-loop thread
          Workers,    \* the threads of the indexer pool
          Queries,    \* the threads of the query pool
          PipeSize,   \* how many bytes the event pipe holds
          MaxRows,    \* the most rows StatusJob writes for one table
          Nobody

ASSUME RolesAssumption == Threads = {Loop} \cup Workers \cup Queries
                          /\ Locks = {"symbols", "names", "usr"}
ASSUME SizesAssumption == PipeSize \in Nat \ {0} /\ MaxRows \in Nat
ASSUME NobodyAssumption == Nobody \notin Threads

Mutexes == {"project", "events"}

VARIABLES owner,      \* who holds each mutex
          pipe,       \* the bytes in the event pipe
          program     \* what each thread has still to do

vars == <<lockVars, owner, pipe, program>>

---------------------------------------------------------------------------
(* The activities.                                                         *)

lock(m) == <<[op |-> "lock", on |-> m]>>
unlock(m) == <<[op |-> "unlock", on |-> m]>>
read(l) == <<[op |-> "Read", on |-> l]>>
write(l) == <<[op |-> "Write", on |-> l]>>
release(l) == <<[op |-> "release", on |-> l]>>
writeByte == <<[op |-> "put", on |-> "pipe"]>>
readByte == <<[op |-> "get", on |-> "pipe"]>>

Under(m, ops) == lock(m) \o ops \o unlock(m)
Reading(l, ops) == read(l) \o ops \o release(l)
Writing(l, ops) == write(l) \o ops \o release(l)
Times(n, ops) == [i \in 1..(n * Len(ops)) |-> ops[((i - 1) % Len(ops)) + 1]]

\* EventLoop::postEvent() retries its write() until the pipe has room, and so
\* does EventLoop::addTimer(), which holds EventLoop::mMutex meanwhile.
PostEvent == Under("events", <<>>) \o writeByte
AddTimer == Under("events", writeByte)

\* Project::write() takes the three locks one inside the other.
Write == Writing("symbols", Writing("names", Writing("usr", <<>>)))

Save == Under("project", Reading("symbols", <<>>) \o Reading("names", <<>>)
                         \o Reading("usr", <<>>))

\* finish(), with jobs left or without.
FinishEarly == Under("project", <<>>)
Finish == Under("project", Write) \o Save

\* onFilesModifiedTimeout() when there is nothing to index.
DirtySymbols == Under("project", <<>>) \o Writing("symbols", <<>>)
                \o Writing("names", <<>>) \o Writing("usr", <<>>)

\* index(), which starts the timer of finish().
Index == Under("project", AddTimer)

\* FindSymbolsJob and ReferencesJob run on the event loop and write to the
\* connection, not to the pipe.
FindSymbols == Reading("names", <<>>) \o Reading("symbols", <<>>)

\* The event loop reads a byte and delivers what has been posted.
HandlePipe == readByte \o Under("events", <<>>)

\* One turn of EventLoop::run() copies the timers.
CopyTimers == Under("events", <<>>)

LoopActivities == {FinishEarly, Finish, DirtySymbols, Index, FindSymbols, CopyTimers}

\* IndexerJob: Project::visitFile(), and onJobFinished(), which starts the timer.
WorkerActivities == {Under("project", <<>>), Under("project", AddTimer)}

\* The names and symbols read together, in another order than write().
StatusOfBoth(symbols, names) ==                                   \* a mutant
    Reading("names", Times(names, PostEvent) \o Reading("symbols", Times(symbols, PostEvent)))
    \o PostEvent

\* StatusJob is not buffered: it posts an event for each row, under the lock.
StatusJob(symbols, names) ==
    Reading("symbols", Times(symbols, PostEvent))
    \o Reading("names", Times(names, PostEvent)) \o PostEvent

\* It was aborted before the names.
AbortedStatusJob(symbols) == Reading("symbols", Times(symbols, PostEvent)) \o PostEvent

\* A report from within the scope of the lock.
ReportUnderLock == Reading("symbols", Under("project", <<>>))     \* a mutant

\* ValidateDBJob reports the errors to the project when it has let go.
ValidateDBJob == Reading("symbols", <<>>) \o Under("project", <<>>)

QueryActivities ==
    {StatusJob(s, n) : s, n \in 1..MaxRows} \cup {AbortedStatusJob(s) : s \in 1..MaxRows}
    \cup {ValidateDBJob}

---------------------------------------------------------------------------
(* The threads.                                                            *)

Init ==
    /\ LockInit
    /\ owner = [m \in Mutexes |-> Nobody]
    /\ pipe = 0
    /\ program = [t \in Threads |-> <<>>]

Start(t, activity) ==
    /\ program[t] = <<>>
    /\ program' = [program EXCEPT ![t] = activity]
    /\ UNCHANGED <<lockVars, owner, pipe>>

Begin(t) ==
    \/ t = Loop /\ \E a \in LoopActivities : Start(t, a)
    \/ t \in Workers /\ \E a \in WorkerActivities : Start(t, a)
    \/ t \in Queries /\ \E a \in QueryActivities : Start(t, a)

\* select() says that the pipe can be read.
TurnToPipe == pipe > 0 /\ Start(Loop, HandlePipe)

Done(t) == program' = [program EXCEPT ![t] = Tail(@)]

\* Thread t is at an operation of kind op.
At(t, op) == program[t] # <<>> /\ program[t][1].op = op /\ Awake(t)
On(t) == program[t][1].on

LockMutex(t) ==
    /\ At(t, "lock") /\ owner[On(t)] = Nobody
    /\ owner' = [owner EXCEPT ![On(t)] = t]
    /\ Done(t)
    /\ UNCHANGED <<lockVars, pipe>>

UnlockMutex(t) ==
    /\ At(t, "unlock")
    /\ owner' = [owner EXCEPT ![On(t)] = Nobody]
    /\ Done(t)
    /\ UNCHANGED <<lockVars, pipe>>

Acquire(t) ==
    \E type \in Types :
        /\ At(t, type)
        /\ \/ Take(On(t), t, type) /\ Done(t)
           \/ Sleep(On(t), t, type) /\ UNCHANGED program
        /\ UNCHANGED <<owner, pipe>>

ReleaseLock(t) ==
    /\ At(t, "release")
    /\ Unlock(On(t), t)
    /\ Done(t)
    /\ UNCHANGED <<owner, pipe>>

WriteByte(t) ==
    /\ At(t, "put") /\ pipe < PipeSize
    /\ pipe' = pipe + 1
    /\ Done(t)
    /\ UNCHANGED <<lockVars, owner>>

ReadByte(t) ==
    /\ At(t, "get")
    /\ pipe' = pipe - 1
    /\ Done(t)
    /\ UNCHANGED <<lockVars, owner>>

Step(t) ==
    \/ LockMutex(t) \/ UnlockMutex(t) \/ Acquire(t) \/ ReleaseLock(t)
    \/ WriteByte(t) \/ ReadByte(t)

WakeSpuriously(t) ==
    /\ \E l \in Locks : SpuriousWakeup(l, t)
    /\ UNCHANGED <<owner, pipe, program>>

Next == TurnToPipe \/ \E t \in Threads : Begin(t) \/ Step(t) \/ WakeSpuriously(t)

Spec == Init /\ [][Next]_vars

\* A thread that can go on goes on.  Nobody has to ask a query or to index, but
\* the event loop turns to its pipe when there is something in it.
Fairness ==
    /\ \A t \in Threads : WF_vars(Step(t))
    /\ SF_vars(TurnToPipe)

FairSpec == Spec /\ Fairness

---------------------------------------------------------------------------
(* Properties.                                                             *)

TypeOK ==
    /\ LockType
    /\ owner \in [Mutexes -> Threads \cup {Nobody}]
    /\ pipe \in 0..PipeSize
    /\ \A t \in Threads : \A i \in DOMAIN program[t] :
         program[t][i].on \in Mutexes \cup Locks \cup {"pipe"}

\* The order of the locks. Save(), write() and dirtying take the three symbol
\* locks one after the other or one inside the other, always in this order.
Rank == [project |-> 1, symbols |-> 2, names |-> 3, usr |-> 4, events |-> 5]

Held(t) == {m \in Mutexes : owner[m] = t} \cup {l \in Locks : holds[l][t] # "none"}

\* Whatever activities meet, a thread that asks for a lock holds only locks that
\* come before it, so that no cycle of threads can wait for each other.
LockOrder ==
    \A t \in Threads :
        program[t] # <<>> /\ program[t][1].op \in {"lock", "Read", "Write"} =>
            \A m \in Held(t) : Rank[m] < Rank[On(t)]

\* A mutex is unlocked, and a symbol lock released, only by a thread that has it:
\* ReadWriteLock::unlock() does not look who calls it.
OnlyHoldersLetGo ==
    \A t \in Threads :
        program[t] # <<>> /\ program[t][1].op \in {"unlock", "release"} => On(t) \in Held(t)

\* Thread t can do its next operation now.
CanGoOn(t) ==
    \/ At(t, "lock") /\ owner[On(t)] = Nobody
    \/ \E type \in Types : At(t, type) /\ Free(On(t), type)
    \/ \E op \in {"unlock", "release", "get"} : At(t, op)
    \/ At(t, "put") /\ pipe < PipeSize

\* No deadlock: while the event pipe has room, if any thread is in the middle of
\* something then one of them can go on. (With a full pipe a query that posts its
\* rows under a lock stops the event loop: README, section 5.)
SomebodyGoesOn ==
    pipe < PipeSize /\ (\E t \in Threads : program[t] # <<>>) => \E t \in Threads : CanGoOn(t)

\* Each thread comes to the end of its activity: the order in which the code
\* takes mMutex, the three symbol locks and the event loop's mutex has no cycle.
\* It holds while the pipe has room, and when queries do not keep coming: a
\* writer waits until no reader is left (ReadWriteLock.cpp:20).
EveryoneComesBack == \A t \in Threads : program[t] # <<>> ~> program[t] = <<>>

\* The event loop comes back to its turn, where it notices changed files. Does
\* not hold once the pipe can fill up (README, section 5).
LoopComesBack == program[Loop] # <<>> ~> program[Loop] = <<>>
===========================================================================
