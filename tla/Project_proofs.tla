-------------------------- MODULE Project_proofs ---------------------------
(***************************************************************************)
(* What holds of a Project for any sources, headers, arguments and jobs:   *)
(* its type, and the safety invariants that tie together the table of jobs,*)
(* the pending requests and the results that wait for write().             *)
(*                                                                         *)
(* None of the invariants is inductive alone.  A finished job stores its   *)
(* result for the arguments it ran with, which are those of the source only*)
(* because a job that has not been aborted is the one in the table, and a  *)
(* pending request has a runner only because a queued job in the table has *)
(* not been aborted.  Their conjunction is inductive.                      *)
(*                                                                         *)
(* Of a calm project (CalmProject) two more things hold: no two jobs read  *)
(* a file, and no claim is forgotten.  CalmInv, at the end of the module,  *)
(* is the invariant they need.                                             *)
(***************************************************************************)
EXTENDS CalmProject, TLAPS

CoreInv ==
    /\ JobTable
    /\ ResultHasNoJob
    /\ JobIsCurrent
    /\ ResultsMatchSource
    /\ PendingHasRunner

IInv == TypeOK /\ CoreInv

\* The variables the invariant reads, except that jobs may be parsing or
\* finishing: the steps below change them all in index(), onJobFinished() and
\* unload().
core == <<mSources, mJobs, mPendingJobs, mPendingData, state, jobFile, mArgs, mAborted>>

\* Index(f, c, base) is called with the present states of the jobs, or by the
\* pool thread of a job that dies with the call.
BaseOK(base) ==
    /\ base \in [Jobs -> JobStates]
    /\ \A j \in Jobs : \/ base[j] = state[j]
                       \/ state[j] = "restarting" /\ base[j] = "dead"

---------------------------------------------------------------------------

LEMMA InitIInv == Init => IInv
<1> SUFFICES ASSUME Init PROVE IInv
  OBVIOUS
<1> USE DEF Init, Requested, Running, JobStates, NoVisit, Times, Files, Outcomes
<1>1. TypeOK
  <2>1. FileSystemType /\ OtherType
    BY DEF FileSystemType, OtherType
  <2>2. TableType /\ ClaimsType
    BY DEF TableType, ClaimsType
  <2>3. DatabaseType
    BY DEF DatabaseType
  <2>4. LoopType
    BY DEF LoopType
  <2>5. ParseType
    BY DEF ParseType
  <2>6. JobType
    BY DEF JobType
  <2> QED
    BY <2>1, <2>2, <2>3, <2>4, <2>5, <2>6 DEF TypeOK
<1>2. CoreInv
  BY NoneAssumption DEF CoreInv, JobTable, ResultHasNoJob, JobIsCurrent,
     ResultsMatchSource, PendingHasRunner
<1> QED
  BY <1>1, <1>2 DEF IInv

\* A step that touches none of the core variables preserves the core invariant.
LEMMA CoreFrame == CoreInv /\ UNCHANGED core => CoreInv'
  BY DEF CoreInv, core, JobTable, ResultHasNoJob, JobIsCurrent, ResultsMatchSource,
     PendingHasRunner, Requested

\* index() for a source that has a job: abort it, or drop the request.
LEMMA IndexAgainCore ==
  ASSUME IInv, NEW f \in Sources, NEW c \in SourceInformation, NEW base,
         BaseOK(base), mJobs[f] # None, IndexAgain(f, c, base)
  PROVE  CoreInv'
<1> DEFINE k == mJobs[f]
<1>1. k \in Jobs /\ state[k] \in Running \cup {"queued"} /\ jobFile[k] = f
      /\ (state[k] = "queued" => ~mAborted[k])
  BY NoneAssumption DEF IInv, TypeOK, TableType, CoreInv, JobTable
<1>2. \A j \in Jobs : state[j] \in Running \cup {"queued"} => state'[j] = state[j]
  BY DEF IndexAgain, BaseOK, Running
<1>3. \A j \in Jobs : state'[j] \in Running \cup {"queued"} => state'[j] = state[j]
  BY DEF IndexAgain, BaseOK, Running
<1>4. \A j \in Jobs : j # k => mAborted'[j] = mAborted[j]
  BY DEF IndexAgain, AbortIfStarted, IInv, TypeOK, JobType
<1>5. mAborted'[k] <=> (mAborted[k] \/ state[k] \in Running)
  BY <1>1 DEF IndexAgain, AbortIfStarted, IInv, TypeOK, JobType, Started
<1>6. JobTable'
  <2> SUFFICES ASSUME NEW g \in Sources, mJobs[g] # None
               PROVE  /\ state'[mJobs[g]] \in Running \cup {"queued"}
                      /\ jobFile[mJobs[g]] = g
                      /\ mSources[g] # None /\ mArgs[mJobs[g]] = mSources[g].args
                      /\ state'[mJobs[g]] = "queued" => ~mAborted'[mJobs[g]]
    BY DEF IndexAgain, JobTable, Requested
  <2>1. mJobs[g] \in Jobs
    BY DEF IInv, TypeOK, TableType
  <2>2. /\ state[mJobs[g]] \in Running \cup {"queued"}
        /\ jobFile[mJobs[g]] = g
        /\ mSources[g] # None /\ mArgs[mJobs[g]] = mSources[g].args
        /\ state[mJobs[g]] = "queued" => ~mAborted[mJobs[g]]
    BY DEF IInv, CoreInv, JobTable, Requested
  <2> QED
    BY <2>1, <2>2, <1>2, <1>4, <1>5 DEF Running
<1>7. ResultHasNoJob'
  BY DEF IndexAgain, IInv, CoreInv, ResultHasNoJob
<1>8. JobIsCurrent'
  BY <1>1, <1>3, <1>4, <1>5 DEF IndexAgain, IInv, CoreInv, JobIsCurrent
<1>9. ResultsMatchSource'
  BY DEF IndexAgain, IInv, CoreInv, ResultsMatchSource, Requested
<1>10. PendingHasRunner'
  <2> SUFFICES ASSUME NEW g \in Sources, mPendingJobs'[g] # None
               PROVE  \E j \in Jobs : state'[j] \in Running /\ mAborted'[j] /\ jobFile'[j] = g
    BY DEF PendingHasRunner
  <2>1. CASE g = f /\ mAborted'[k]
    BY <2>1, <1>1, <1>2, <1>5 DEF IndexAgain, Running
  <2>2. CASE ~(g = f /\ mAborted'[k])
    <3>1. mPendingJobs[g] # None
      BY <2>2 DEF IndexAgain, RememberPending, IInv, TypeOK, TableType
    <3>2. PICK j \in Jobs : state[j] \in Running /\ mAborted[j] /\ jobFile[j] = g
      BY <3>1 DEF IInv, CoreInv, PendingHasRunner
    <3> QED
      BY <3>2, <1>2, <1>4, <1>5 DEF IndexAgain
  <2> QED
    BY <2>1, <2>2
<1> QED
  BY <1>6, <1>7, <1>8, <1>9, <1>10 DEF CoreInv

\* index() for a source that has no job: a new one is queued.
LEMMA IndexNewCore ==
  ASSUME IInv, NEW f \in Sources, NEW c \in SourceInformation, NEW base,
         BaseOK(base), mJobs[f] = None, IndexNew(f, c, base)
  PROVE  CoreInv'
<1>1. PICK k \in Jobs :
        /\ base[k] = "dead"
        /\ mSources' = [mSources EXCEPT ![f] = c]
        /\ mPendingData' = [mPendingData EXCEPT ![f] = None]
        /\ mJobs' = [mJobs EXCEPT ![f] = k]
        /\ state' = [base EXCEPT ![k] = "queued"]
        /\ jobFile' = [jobFile EXCEPT ![k] = f]
        /\ mArgs' = [mArgs EXCEPT ![k] = c.args]
        /\ mAborted' = [mAborted EXCEPT ![k] = FALSE]
        /\ mPendingJobs' = mPendingJobs
  BY DEF IndexNew, DropPendingData
<1> USE DEF IInv, TypeOK, TableType, JobType
<1>2. state[k] \notin Running \cup {"queued"}
  BY <1>1 DEF BaseOK, Running
<1>3. \A j \in Jobs \ {k} :
        /\ state[j] \in Running \cup {"queued"} => state'[j] = state[j]
        /\ state'[j] \in Running \cup {"queued"} => state'[j] = state[j]
        /\ jobFile'[j] = jobFile[j] /\ mArgs'[j] = mArgs[j] /\ mAborted'[j] = mAborted[j]
  BY <1>1 DEF BaseOK, Running
<1>4. state'[k] = "queued" /\ jobFile'[k] = f /\ mArgs'[k] = c.args /\ ~mAborted'[k]
  BY <1>1 DEF BaseOK
<1>5. \A g \in Sources \ {f} : /\ mSources'[g] = mSources[g] /\ mJobs'[g] = mJobs[g]
                               /\ mPendingData'[g] = mPendingData[g]
  BY <1>1
<1>6. mSources'[f] = c /\ mJobs'[f] = k /\ mPendingData'[f] = None /\ c # None
  BY <1>1, NoneAssumption
<1> HIDE DEF TypeOK, TableType, JobType
<1>7. JobTable'
  <2> SUFFICES ASSUME NEW g \in Sources, mJobs'[g] # None
               PROVE  /\ state'[mJobs'[g]] \in Running \cup {"queued"}
                      /\ jobFile'[mJobs'[g]] = g
                      /\ mSources'[g] # None /\ mArgs'[mJobs'[g]] = mSources'[g].args
                      /\ state'[mJobs'[g]] = "queued" => ~mAborted'[mJobs'[g]]
    BY DEF JobTable, Requested
  <2>1. CASE g = f
    BY <2>1, <1>4, <1>6
  <2>2. CASE g # f
    <3>1. mJobs'[g] = mJobs[g] /\ mJobs[g] \in Jobs
      BY <2>2, <1>5 DEF TypeOK, TableType
    <3>2. /\ state[mJobs[g]] \in Running \cup {"queued"}
          /\ jobFile[mJobs[g]] = g
          /\ mSources[g] # None /\ mArgs[mJobs[g]] = mSources[g].args
          /\ state[mJobs[g]] = "queued" => ~mAborted[mJobs[g]]
      BY <3>1 DEF CoreInv, JobTable, Requested
    <3>3. mJobs[g] # k
      BY <3>2, <1>2
    <3> QED
      BY <2>2, <3>1, <3>2, <3>3, <1>3, <1>5
  <2> QED
    BY <2>1, <2>2
<1>8. ResultHasNoJob'
  BY <1>5, <1>6 DEF CoreInv, ResultHasNoJob
<1>9. JobIsCurrent'
  <2> SUFFICES ASSUME NEW j \in Jobs, state'[j] \in Running \cup {"queued"}, ~mAborted'[j]
               PROVE  mJobs'[jobFile'[j]] = j
    BY DEF JobIsCurrent
  <2>1. CASE j = k
    BY <2>1, <1>4, <1>6
  <2>2. CASE j # k
    <3>1. state[j] \in Running \cup {"queued"} /\ ~mAborted[j] /\ jobFile'[j] = jobFile[j]
      BY <2>2, <1>3
    <3>2. mJobs[jobFile[j]] = j
      BY <3>1 DEF CoreInv, JobIsCurrent
    <3>3. jobFile[j] \in Sources /\ jobFile[j] # f
      BY <3>1, <3>2, NoneAssumption DEF TypeOK, JobType, Running
    <3> QED
      BY <3>1, <3>2, <3>3, <1>5
  <2> QED
    BY <2>1, <2>2
<1>10. ResultsMatchSource'
  BY <1>5, <1>6 DEF CoreInv, ResultsMatchSource, Requested
<1>11. PendingHasRunner'
  <2> SUFFICES ASSUME NEW g \in Sources, mPendingJobs[g] # None
               PROVE  \E j \in Jobs : state'[j] \in Running /\ mAborted'[j] /\ jobFile'[j] = g
    BY <1>1 DEF PendingHasRunner
  <2>1. PICK j \in Jobs : state[j] \in Running /\ mAborted[j] /\ jobFile[j] = g
    BY DEF CoreInv, PendingHasRunner
  <2>2. j # k
    BY <2>1, <1>2
  <2> QED
    BY <2>1, <2>2, <1>3
<1> QED
  BY <1>7, <1>8, <1>9, <1>10, <1>11 DEF CoreInv

LEMMA IndexCore ==
  ASSUME IInv, NEW f \in Sources, NEW c \in SourceInformation, NEW base,
         BaseOK(base), Index(f, c, base)
  PROVE  CoreInv'
  BY IndexAgainCore, IndexNewCore DEF Index

---------------------------------------------------------------------------
(* The steps of a job.                                                     *)

LEMMA ExecuteCore == ASSUME IInv, NEW j \in Jobs, Execute(j) PROVE CoreInv'
<1> USE DEF IInv
<1>1. /\ state[j] = "queued"
      /\ state' = [state EXCEPT ![j] = IF mAborted[j] THEN "dead" ELSE "parsing"]
      /\ UNCHANGED <<mSources, mJobs, mPendingJobs, mPendingData, jobFile, mArgs, mAborted>>
  BY DEF Execute, jobVars, bookkeeping
<1>2. /\ \A k \in Jobs \ {j} : state'[k] = state[k]
      /\ state'[j] = IF mAborted[j] THEN "dead" ELSE "parsing"
  BY <1>1 DEF TypeOK, JobType
<1>3. JobTable'
  BY <1>1, <1>2 DEF CoreInv, TypeOK, TableType, JobTable, Requested, Running
<1>4. JobIsCurrent'
  BY <1>1, <1>2 DEF CoreInv, JobIsCurrent, Running
<1>5. PendingHasRunner'
  BY <1>1, <1>2 DEF CoreInv, PendingHasRunner, Running
<1> QED
  BY <1>1, <1>3, <1>4, <1>5
     DEF CoreInv, ResultHasNoJob, ResultsMatchSource, Requested

\* Parse and EndVisit move a job within execute(), perhaps aborting it.
LEMMA ParseCore ==
  ASSUME IInv, NEW j \in Jobs, state[j] \in Running,
         NEW s \in Running, state' = [state EXCEPT ![j] = s],
         NEW a \in BOOLEAN, mAborted' = [mAborted EXCEPT ![j] = mAborted[j] \/ a],
         UNCHANGED <<mSources, mJobs, mPendingJobs, mPendingData, jobFile, mArgs>>
  PROVE  CoreInv'
<1> USE DEF IInv
<1>1. /\ \A k \in Jobs \ {j} : state'[k] = state[k] /\ mAborted'[k] = mAborted[k]
      /\ state'[j] = s /\ (mAborted[j] => mAborted'[j]) /\ s # "queued"
  BY DEF TypeOK, JobType, Running
<1>2. JobTable'
  BY <1>1 DEF CoreInv, TypeOK, TableType, JobTable, Requested
<1>3. JobIsCurrent'
  BY <1>1 DEF CoreInv, JobIsCurrent
<1>4. PendingHasRunner'
  BY <1>1 DEF CoreInv, PendingHasRunner
<1> QED
  BY <1>2, <1>3, <1>4 DEF CoreInv, ResultHasNoJob, ResultsMatchSource, Requested

LEMMA JobAbortedCore ==
  ASSUME IInv, NEW j \in Jobs, state[j] = "finishing", mAborted[j], JobAborted(j),
         UNCHANGED <<jobFile, mArgs, mAborted>>
  PROVE  CoreInv'
<1> DEFINE f == jobFile[j]
<1> USE DEF IInv
<1>1. f \in Sources
  BY DEF TypeOK, JobType
<1>2. /\ \A k \in Jobs \ {j} : state'[k] = state[k]
      /\ state'[j] \in {"dead", "restarting"}
  BY DEF JobAborted, AfterAbort, TypeOK, JobType
<1>3. /\ \A g \in Sources : mJobs'[g] = mJobs[g] \/ (mJobs'[g] = None /\ mJobs[g] = j)
      /\ \A g \in Sources : mJobs'[g] # j
  <2>1. \A g \in Sources : mJobs[g] = j => g = f
    BY NoneAssumption DEF CoreInv, JobTable
  <2> QED
    BY <1>1, <2>1, NoneAssumption DEF JobAborted, RemoveJob, TypeOK, TableType
<1>4. UNCHANGED <<mSources, mPendingData>>
  BY DEF JobAborted
<1>5. JobTable'
  BY <1>2, <1>3, <1>4 DEF CoreInv, TypeOK, TableType, JobTable, Requested
<1>6. ResultHasNoJob'
  BY <1>3, <1>4 DEF CoreInv, ResultHasNoJob
<1>7. JobIsCurrent'
  <2> SUFFICES ASSUME NEW k \in Jobs, state'[k] \in Running \cup {"queued"}, ~mAborted[k]
               PROVE  mJobs'[jobFile[k]] = k
    BY DEF JobIsCurrent
  <2>1. k # j /\ state[k] \in Running \cup {"queued"}
    BY <1>2 DEF Running
  <2>2. mJobs[jobFile[k]] = k /\ jobFile[k] \in Sources
    BY <2>1 DEF CoreInv, JobIsCurrent, TypeOK, JobType, Running
  <2> QED
    BY <2>1, <2>2, <1>3
<1>8. ResultsMatchSource'
  BY <1>4 DEF CoreInv, ResultsMatchSource, Requested
<1>9. PendingHasRunner'
  <2> SUFFICES ASSUME NEW g \in Sources, mPendingJobs'[g] # None
               PROVE  \E k \in Jobs : state'[k] \in Running /\ mAborted[k] /\ jobFile[k] = g
    BY DEF PendingHasRunner
  <2>1. mPendingJobs[g] # None /\ g # f
    BY DEF JobAborted, TypeOK, TableType
  <2>2. PICK k \in Jobs : state[k] \in Running /\ mAborted[k] /\ jobFile[k] = g
    BY <2>1 DEF CoreInv, PendingHasRunner
  <2> QED
    BY <2>1, <2>2, <1>2
<1> QED
  BY <1>5, <1>6, <1>7, <1>8, <1>9 DEF CoreInv

LEMMA JobSucceededCore ==
  ASSUME IInv, NEW j \in Jobs, state[j] = "finishing", ~mAborted[j], JobSucceeded(j),
         UNCHANGED <<jobFile, mArgs, mAborted>>
  PROVE  CoreInv'
<1> DEFINE f == jobFile[j]
<1> USE DEF IInv
<1>1. f \in Sources /\ mJobs[f] = j
  BY DEF TypeOK, JobType, CoreInv, JobIsCurrent, Running
<1>2. mSources[f] \in SourceInformation /\ mArgs[j] = mSources[f].args
  BY <1>1, NoneAssumption DEF CoreInv, JobTable, TypeOK, TableType, Requested
<1>3. /\ \A k \in Jobs \ {j} : state'[k] = state[k]
      /\ state'[j] = "dead"
  BY DEF JobSucceeded, TypeOK, JobType
<1>4. /\ \A g \in Sources \ {f} : /\ mJobs'[g] = mJobs[g]
                                  /\ mSources'[g] = mSources[g]
                                  /\ mPendingData'[g] = mPendingData[g]
      /\ mJobs'[f] = None /\ mPendingData'[f] = ResultOf(j)
      /\ mSources'[f].args = mSources[f].args /\ mSources'[f] \in SourceInformation
      /\ mPendingJobs' = mPendingJobs
  <2>1. mSources' = [mSources EXCEPT ![f].parsed = mParseTime[j]] /\ mParseTime[j] \in Times
    BY DEF JobSucceeded, TypeOK, ParseType
  <2>2. /\ mSources'[f] = [mSources[f] EXCEPT !.parsed = mParseTime[j]]
        /\ \A g \in Sources \ {f} : mSources'[g] = mSources[g]
    BY <1>1, <2>1 DEF TypeOK, TableType
  <2>3. mSources'[f].args = mSources[f].args /\ mSources'[f] \in SourceInformation
    BY <1>2, <2>1, <2>2 DEF SourceInformation
  <2> QED
    BY <1>1, <2>2, <2>3 DEF JobSucceeded, TypeOK, TableType
<1>5. \A g \in Sources \ {f} : mJobs[g] # j
  BY NoneAssumption DEF CoreInv, JobTable
<1>6. JobTable'
  BY <1>1, <1>3, <1>4, <1>5 DEF CoreInv, TypeOK, TableType, JobTable, Requested
<1>7. ResultHasNoJob'
  BY <1>4 DEF CoreInv, ResultHasNoJob
<1>8. JobIsCurrent'
  <2> SUFFICES ASSUME NEW k \in Jobs, state'[k] \in Running \cup {"queued"}, ~mAborted[k]
               PROVE  mJobs'[jobFile[k]] = k
    BY DEF JobIsCurrent
  <2>1. k # j /\ state[k] \in Running \cup {"queued"}
    BY <1>3 DEF Running
  <2>2. mJobs[jobFile[k]] = k /\ jobFile[k] \in Sources
    BY <2>1 DEF CoreInv, JobIsCurrent, TypeOK, JobType, Running
  <2> QED
    BY <2>1, <2>2, <1>1, <1>4
<1>9. ResultsMatchSource'
  <2>1. ResultOf(j).args = mArgs[j]
    BY DEF ResultOf
  <2> QED
    BY <2>1, <1>2, <1>4, NoneAssumption DEF CoreInv, ResultsMatchSource, Requested
<1>10. PendingHasRunner'
  <2> SUFFICES ASSUME NEW g \in Sources, mPendingJobs[g] # None
               PROVE  \E k \in Jobs : state'[k] \in Running /\ mAborted[k] /\ jobFile[k] = g
    BY <1>4 DEF PendingHasRunner
  <2>1. PICK k \in Jobs : state[k] \in Running /\ mAborted[k] /\ jobFile[k] = g
    BY DEF CoreInv, PendingHasRunner
  <2> QED
    BY <2>1, <1>3
<1> QED
  BY <1>6, <1>7, <1>8, <1>9, <1>10 DEF CoreInv

LEMMA JobStepCore == ASSUME IInv, NEW j \in Jobs, JobStep(j) PROVE CoreInv'
<1>1. CASE Execute(j)
  BY <1>1, ExecuteCore
<1>2. ASSUME NEW outcome \in Outcomes, Parse(j, outcome) PROVE CoreInv'
  <2> DEFINE s == IF outcome = "unit" /\ ~mAborted[j] THEN "visiting" ELSE "finishing"
             a == outcome = "no index"
  <2>1. /\ state[j] \in Running /\ s \in Running /\ a \in BOOLEAN
        /\ state' = [state EXCEPT ![j] = s]
        /\ mAborted' = [mAborted EXCEPT ![j] = mAborted[j] \/ a]
        /\ UNCHANGED <<mSources, mJobs, mPendingJobs, mPendingData, jobFile, mArgs>>
    BY <1>2 DEF Parse, Running, bookkeeping
  <2> HIDE DEF s, a
  <2> QED
    BY <2>1, ParseCore
<1>3. ASSUME NEW x \in Files, Visit(j, x) PROVE CoreInv'
  BY <1>3, CoreFrame DEF IInv, Visit, core, jobVars, bookkeeping
<1>4. CASE EndVisit(j)
  <2>1. /\ state[j] \in Running /\ "finishing" \in Running
        /\ state' = [state EXCEPT ![j] = "finishing"]
        /\ mAborted' = [mAborted EXCEPT ![j] = mAborted[j] \/ FALSE]
        /\ UNCHANGED <<mSources, mJobs, mPendingJobs, mPendingData, jobFile, mArgs>>
    BY <1>4 DEF EndVisit, Running, bookkeeping, IInv, TypeOK, JobType
  <2> QED
    BY <2>1, ParseCore
<1>5. CASE Finish(j)
  BY <1>5, JobAbortedCore, JobSucceededCore DEF Finish, OnJobFinished
<1>6. CASE StartPending(j)
  <2> DEFINE base == [state EXCEPT ![j] = "dead"]
  <2>1. BaseOK(base)
    BY <1>6 DEF StartPending, BaseOK, IInv, TypeOK, JobType, JobStates
  <2>2. jobFile[j] \in Sources /\ pending[j] \in SourceInformation
    BY <1>6 DEF StartPending, IInv, TypeOK, JobType
  <2>3. Index(jobFile[j], pending[j], base)
    BY <1>6 DEF StartPending
  <2> HIDE DEF base
  <2> QED
    BY <2>1, <2>2, <2>3, IndexCore
<1> QED
  BY <1>1, <1>2, <1>3, <1>4, <1>5, <1>6 DEF JobStep

---------------------------------------------------------------------------
(* The steps of the event loop, the clients and the file system.           *)

LEMMA StateIsBase == IInv => BaseOK(state)
  BY DEF IInv, TypeOK, JobType, BaseOK

LEMMA UnloadCore == IInv /\ Unload => CoreInv'
<1> SUFFICES ASSUME IInv, Unload PROVE CoreInv'
  OBVIOUS
<1> USE DEF IInv
<1>1. /\ mJobs' = [f \in Sources |-> None]
      /\ mAborted' = [j \in Jobs |-> mAborted[j] \/ j \in JobsOfProject]
      /\ UNCHANGED <<mSources, mPendingJobs, mPendingData, state, jobFile, mArgs>>
  BY DEF Unload, ClearJobs
<1>2. JobTable' /\ ResultHasNoJob' /\ ResultsMatchSource'
  BY <1>1 DEF CoreInv, JobTable, ResultHasNoJob, ResultsMatchSource, Requested
<1>3. JobIsCurrent'
  <2> SUFFICES ASSUME NEW j \in Jobs, state[j] \in Running \cup {"queued"}
               PROVE  mAborted'[j]
    BY <1>1 DEF JobIsCurrent
  <2>1. CASE mAborted[j]
    BY <2>1, <1>1
  <2>2. CASE ~mAborted[j]
    <3>1. jobFile[j] \in Sources /\ mJobs[jobFile[j]] = j
      BY <2>2 DEF CoreInv, JobIsCurrent, TypeOK, JobType, Running
    <3> QED
      BY <3>1, <1>1, NoneAssumption DEF JobsOfProject
  <2> QED
    BY <2>1, <2>2
<1>4. PendingHasRunner'
  BY <1>1 DEF CoreInv, PendingHasRunner
<1> QED
  BY <1>2, <1>3, <1>4 DEF CoreInv

LEMMA FinishProjectCore == IInv /\ FinishProject => CoreInv'
<1> SUFFICES ASSUME IInv, FinishProject PROVE CoreInv'
  OBVIOUS
<1>1. /\ \A f \in Sources : mPendingData'[f] = None \/ mPendingData'[f] = mPendingData[f]
      /\ UNCHANGED <<mSources, mJobs, mPendingJobs, state, jobFile, mArgs, mAborted>>
  BY DEF FinishProject, Write, jobVars
<1> QED
  BY <1>1 DEF IInv, CoreInv, JobTable, ResultHasNoJob, JobIsCurrent, ResultsMatchSource,
              PendingHasRunner, Requested

LEMMA LoopStepCore == IInv /\ LoopStep => CoreInv'
<1> SUFFICES ASSUME IInv, LoopStep PROVE CoreInv'
  OBVIOUS
<1>1. CASE IndexRequest
  <2>1. request.file \in Sources /\ request.source \in SourceInformation
    BY <1>1 DEF IndexRequest, IInv, TypeOK, LoopType, IndexRequests
  <2> QED
    BY <1>1, <2>1, StateIsBase, IndexCore DEF IndexRequest
<1>2. CASE FinishedTimeout \/ Save \/ OnFilesModifiedTimeout \/ EndReindex
  BY <1>2, CoreFrame DEF IInv, FinishedTimeout, Save, OnFilesModifiedTimeout, MarkDirty,
                         EndReindex, core, jobVars, bookkeeping
<1>3. CASE FinishProject
  BY <1>3, FinishProjectCore
<1>4. ASSUME NEW x \in Files, OnFileModified(x) PROVE CoreInv'
  BY <1>4, CoreFrame DEF IInv, OnFileModified, core, jobVars, bookkeeping
<1>5. ASSUME NEW f \in Sources, ReindexSource(f) PROVE CoreInv'
  <2>1. CASE Requested(f)
    <3>1. mSources[f] \in SourceInformation
      BY <2>1 DEF Requested, IInv, TypeOK, TableType
    <3> QED
      BY <1>5, <2>1, <3>1, StateIsBase, IndexCore DEF ReindexSource
  <2>2. CASE ~Requested(f)
    BY <1>5, <2>2, CoreFrame DEF IInv, ReindexSource, core, bookkeeping
  <2> QED
    BY <2>1, <2>2
<1> QED
  BY <1>1, <1>2, <1>3, <1>4, <1>5 DEF LoopStep

LEMMA CoreStep == IInv /\ [Next]_vars => CoreInv'
<1> SUFFICES ASSUME IInv, [Next]_vars PROVE CoreInv'
  OBVIOUS
<1>1. ASSUME NEW j \in Jobs, JobStep(j) PROVE CoreInv'
  BY <1>1, JobStepCore
<1>2. CASE LoopStep
  BY <1>2, LoopStepCore
<1>3. CASE Client
  <2>1. ASSUME NEW f \in Sources, NEW c \in Args, ProcessSourceFile(f, c) PROVE CoreInv'
    BY <2>1, CoreFrame DEF IInv, ProcessSourceFile, core, jobVars, bookkeeping
  <2>2. ASSUME NEW xs \in SUBSET Files, Reindex(xs) PROVE CoreInv'
    BY <2>2, CoreFrame DEF IInv, Reindex, MarkDirty, core, jobVars, bookkeeping
  <2>3. CASE Unload
    BY <2>3, UnloadCore
  <2> QED
    BY <1>3, <2>1, <2>2, <2>3 DEF Client
<1>4. ASSUME NEW xs \in SUBSET Files, Edit(xs) PROVE CoreInv'
  BY <1>4, CoreFrame DEF IInv, Edit, core, jobVars, bookkeeping
<1>5. CASE UNCHANGED vars
  BY <1>5, CoreFrame DEF IInv, vars, core, jobVars, bookkeeping
<1> QED
  BY <1>1, <1>2, <1>3, <1>4, <1>5 DEF Next

---------------------------------------------------------------------------
(* Types.  The core invariant is needed where a result is stored: the      *)
(* source it belongs to is known.                                          *)

LEMMA FilesType ==
  /\ \A x \in Files : Dir[x] \in Dirs
  /\ \A f \in Sources : f \in Files /\ FilesOf(f) \subseteq Files
  BY IncludesAssumption, DirAssumption DEF Files, FilesOf

LEMMA IndexType ==
  ASSUME IInv, NEW f \in Sources, NEW c \in SourceInformation, NEW base,
         BaseOK(base), Index(f, c, base)
  PROVE  /\ TableType' /\ mFinishedTimer' \in BOOLEAN /\ fileIds' \subseteq Files
         /\ mVisitedFilesByJob' \in [Jobs -> SUBSET Files]
         /\ state' \in [Jobs -> JobStates]
         /\ jobFile' \in [Jobs -> Sources \cup {None}]
         /\ mArgs' \in [Jobs -> Args \cup {None}]
         /\ mAborted' \in [Jobs -> BOOLEAN]
         /\ \A j \in Jobs : state'[j] # "dead" => jobFile'[j] # None /\ mArgs'[j] # None
         /\ \A j \in Jobs : state'[j] = "restarting"
               => state[j] = "restarting" /\ base[j] = "restarting"
<1> USE FilesType DEF IInv, TypeOK, TableType, ClaimsType, JobType, OtherType
<1>1. mFinishedTimer' \in BOOLEAN /\ fileIds' \subseteq Files
  BY DEF Index
<1>2. CASE IndexAgain(f, c, base)
  <2>1. mAborted' \in [Jobs -> BOOLEAN]
    BY <1>2 DEF IndexAgain, AbortIfStarted, Started
  <2>2. TableType'
    BY <1>2 DEF IndexAgain, RememberPending
  <2>3. state' = base
    BY <1>2 DEF IndexAgain
  <2> QED
    BY <1>1, <1>2, <2>1, <2>2, <2>3 DEF IndexAgain, BaseOK
<1>3. CASE IndexNew(f, c, base)
  <2>1. PICK k \in Jobs :
          /\ mSources' = [mSources EXCEPT ![f] = c]
          /\ mPendingData' = [mPendingData EXCEPT ![f] = None]
          /\ mJobs' = [mJobs EXCEPT ![f] = k]
          /\ mJobCounter' = mJobCounter + 1
          /\ state' = [base EXCEPT ![k] = "queued"]
          /\ jobFile' = [jobFile EXCEPT ![k] = f]
          /\ mArgs' = [mArgs EXCEPT ![k] = c.args]
          /\ mAborted' = [mAborted EXCEPT ![k] = FALSE]
          /\ mVisitedFilesByJob' = [mVisitedFilesByJob EXCEPT ![k] = {}]
          /\ mPendingJobs' = mPendingJobs
    BY <1>3 DEF IndexNew, DropPendingData
  <2>2. TableType'
    BY <2>1
  <2>3. c.args \in Args /\ c.args # None /\ f # None
    BY NoneAssumption DEF SourceInformation
  <2>4. state' \in [Jobs -> JobStates]
    BY <2>1 DEF BaseOK, JobStates
  <2>5. \A j \in Jobs : state'[j] # "dead" => jobFile'[j] # None /\ mArgs'[j] # None
    BY <2>1, <2>3 DEF BaseOK
  <2>6. \A j \in Jobs : state'[j] = "restarting"
               => state[j] = "restarting" /\ base[j] = "restarting"
    BY <2>1 DEF BaseOK
  <2> QED
    BY <1>1, <2>1, <2>2, <2>3, <2>4, <2>5, <2>6
<1> QED
  BY <1>2, <1>3 DEF Index

LEMMA ExecuteType == ASSUME TypeOK, NEW j \in Jobs, Execute(j) PROVE TypeOK'
<1> USE DEF TypeOK, Execute
<1>1. FileSystemType' /\ DatabaseType' /\ ClaimsType' /\ LoopType'
  BY DEF FileSystemType, DatabaseType, ClaimsType, LoopType, fileSystem, database, claims,
         loopVars
<1>2. TableType' /\ OtherType'
  BY DEF TableType, OtherType, bookkeeping
<1>3. ParseType'
  BY DEF ParseType, FileSystemType, Times
<1>4. JobType'
  BY DEF JobType, JobStates, Running
<1> QED
  BY <1>1, <1>2, <1>3, <1>4

LEMMA ParseTypeStep ==
  ASSUME TypeOK, NEW j \in Jobs, NEW outcome \in Outcomes, Parse(j, outcome)
  PROVE  TypeOK'
<1> USE DEF TypeOK, Parse
<1>1. FileSystemType' /\ DatabaseType' /\ ClaimsType' /\ LoopType' /\ TableType'
  BY DEF FileSystemType, DatabaseType, ClaimsType, LoopType, TableType, fileSystem,
         database, claims, loopVars, bookkeeping
<1>2. jobFile[j] \in Sources
  BY DEF JobType
<1>3. ParseType'
  BY <1>2, FilesType DEF ParseType, FileSystemType, Times
<1>4. JobType'
  BY DEF JobType, JobStates, Running
<1>5. OtherType'
  BY <1>2, FilesType DEF OtherType
<1> QED
  BY <1>1, <1>3, <1>4, <1>5

LEMMA VisitType ==
  ASSUME TypeOK, NEW j \in Jobs, NEW x \in Files, Visit(j, x) PROVE TypeOK'
<1> USE DEF TypeOK, Visit
<1>1. FileSystemType' /\ DatabaseType' /\ LoopType' /\ TableType' /\ OtherType'
  BY DEF FileSystemType, DatabaseType, LoopType, TableType, OtherType, fileSystem,
         database, loopVars, bookkeeping
<1>2. ClaimsType'
  BY DEF ClaimsType, VisitFile
<1>3. ParseType'
  BY DEF ParseType
<1>4. JobType'
  BY DEF JobType, jobVars
<1> QED
  BY <1>1, <1>2, <1>3, <1>4

LEMMA EndVisitType == ASSUME TypeOK, NEW j \in Jobs, EndVisit(j) PROVE TypeOK'
<1> USE DEF TypeOK, EndVisit
<1>1. FileSystemType' /\ DatabaseType' /\ ClaimsType' /\ LoopType' /\ TableType' /\ OtherType'
  BY DEF FileSystemType, DatabaseType, ClaimsType, LoopType, TableType, OtherType,
         fileSystem, database, claims, loopVars, bookkeeping
<1>2. ParseType'
  BY DEF ParseType
<1>3. JobType'
  BY DEF JobType, JobStates, Running
<1> QED
  BY <1>1, <1>2, <1>3

LEMMA ResultIsData ==
  ASSUME TypeOK, NEW j \in Jobs, state[j] = "finishing"
  PROVE  ResultOf(j) \in IndexData
<1>1. jobFile[j] \in Sources /\ mArgs[j] \in Args
  BY DEF TypeOK, JobType
<1>2. DependenciesOf(j) \in [Files -> SUBSET Sources]
  BY <1>1 DEF DependenciesOf
<1>3. [x \in Files |-> IF x \in mVisitedFilesByJob[j] THEN seen[j][x] ELSE 0] \in [Files -> Times]
  BY DEF TypeOK, ParseType, Times
<1> QED
  BY <1>1, <1>2, <1>3 DEF ResultOf, IndexData

LEMMA FinishType == ASSUME IInv, NEW j \in Jobs, Finish(j) PROVE TypeOK'
<1> USE DEF IInv, TypeOK
<1>1. FileSystemType' /\ DatabaseType' /\ LoopType' /\ OtherType'
  BY DEF Finish, FileSystemType, DatabaseType, LoopType, OtherType, fileSystem, database,
         loopVars
<1>2. jobFile[j] \in Sources /\ mArgs[j] \in Args
  BY DEF Finish, JobType
<1>3. ParseType'
  BY DEF Finish, ParseType, NoVisit, Times, Outcomes
<1>4. mVisitedFilesByJob' \in [Jobs -> SUBSET Files]
  BY DEF Finish, ClaimsType
<1>5. CASE JobAborted(j)
  <2>1. ClaimsType'
    BY <1>4, <1>5 DEF ClaimsType, JobAborted, ReleaseClaims
  <2>2. TableType'
    BY <1>2, <1>5 DEF TableType, JobAborted, RemoveJob
  <2>3. JobType'
    BY <1>2, <1>5 DEF Finish, JobType, TableType, JobAborted, AfterAbort, TakePending,
                      JobStates
  <2> QED
    BY <1>1, <1>3, <2>1, <2>2, <2>3
<1>6. CASE ~mAborted[j] /\ JobSucceeded(j)
  <2>1. ClaimsType'
    BY <1>4, <1>6 DEF ClaimsType, JobSucceeded
  <2>2. JobType'
    BY <1>6 DEF Finish, JobType, JobSucceeded, JobStates
  <2>3. ResultOf(j) \in IndexData
    BY ResultIsData DEF Finish
  <2>4. mSources[jobFile[j]] \in SourceInformation
    <3>1. mJobs[jobFile[j]] = j
      BY <1>6, <1>2 DEF Finish, CoreInv, JobIsCurrent, Running
    <3> QED
      BY <3>1, <1>2, NoneAssumption DEF CoreInv, JobTable, Requested, TableType
  <2>5. mSources' \in [Sources -> SourceInformation \cup {None}]
    <3>1. mSources' = [mSources EXCEPT ![jobFile[j]].parsed = mParseTime[j]]
          /\ mParseTime[j] \in Times
      BY <1>6 DEF JobSucceeded, ParseType
    <3>2. [mSources[jobFile[j]] EXCEPT !.parsed = mParseTime[j]] \in SourceInformation
      BY <2>4, <3>1 DEF SourceInformation
    <3> QED
      BY <1>2, <3>1, <3>2 DEF TableType
  <2>6. TableType'
    BY <1>2, <1>6, <2>3, <2>5 DEF TableType, JobSucceeded
  <2> QED
    BY <1>1, <1>3, <2>1, <2>2, <2>6
<1> QED
  BY <1>5, <1>6 DEF Finish, OnJobFinished

LEMMA StartPendingType == ASSUME IInv, NEW j \in Jobs, StartPending(j) PROVE TypeOK'
<1> DEFINE base == [state EXCEPT ![j] = "dead"]
<1> USE DEF IInv, TypeOK
<1>1. BaseOK(base)
  BY DEF StartPending, BaseOK, JobType, JobStates
<1>2. jobFile[j] \in Sources /\ pending[j] \in SourceInformation
  BY DEF StartPending, JobType
<1>3. Index(jobFile[j], pending[j], base) /\ base[j] = "dead"
  BY DEF StartPending, JobType
<1> HIDE DEF base
<1>4. FileSystemType' /\ DatabaseType' /\ LoopType' /\ ParseType'
  BY DEF StartPending, FileSystemType, DatabaseType, LoopType, ParseType, fileSystem,
         database, loopVars, parseVars
<1>5. JobType'
  BY <1>1, <1>2, <1>3, IndexType DEF StartPending, JobType
<1>6. TableType' /\ ClaimsType' /\ OtherType'
  BY <1>1, <1>2, <1>3, IndexType DEF StartPending, ClaimsType, OtherType
<1> QED
  BY <1>4, <1>5, <1>6

LEMMA JobStepType == ASSUME IInv, NEW j \in Jobs, JobStep(j) PROVE TypeOK'
  BY ExecuteType, ParseTypeStep, VisitType, EndVisitType, FinishType, StartPendingType
     DEF JobStep, IInv

LEMMA IndexRequestType == IInv /\ IndexRequest => TypeOK'
<1> SUFFICES ASSUME IInv, IndexRequest PROVE TypeOK'
  OBVIOUS
<1> USE DEF IInv, TypeOK
<1>1. request.file \in Sources /\ request.source \in SourceInformation
  BY DEF IndexRequest, LoopType, IndexRequests
<1>2. Index(request.file, request.source, state)
  BY DEF IndexRequest
<1>3. FileSystemType' /\ DatabaseType' /\ LoopType' /\ ParseType'
  BY DEF IndexRequest, FileSystemType, DatabaseType, LoopType, ParseType, fileSystem,
         database, parseVars
<1>4. JobType'
  BY <1>1, <1>2, IndexType, StateIsBase DEF IndexRequest, JobType
<1>5. TableType' /\ ClaimsType' /\ OtherType'
  BY <1>1, <1>2, IndexType, StateIsBase DEF IndexRequest, ClaimsType, OtherType
<1> QED
  BY <1>3, <1>4, <1>5

LEMMA ReindexSourceType ==
  ASSUME IInv, NEW f \in Sources, ReindexSource(f) PROVE TypeOK'
<1> USE DEF IInv, TypeOK
<1>1. FileSystemType' /\ DatabaseType' /\ ParseType'
  BY DEF ReindexSource, FileSystemType, DatabaseType, ParseType, fileSystem, database,
         parseVars
<1>2. LoopType'
  BY DEF ReindexSource, LoopType
<1>3. CASE Requested(f)
  <2>1. mSources[f] \in SourceInformation /\ Index(f, mSources[f], state)
    BY <1>3 DEF ReindexSource, Requested, TableType
  <2>2. JobType'
    BY <2>1, IndexType, StateIsBase DEF ReindexSource, JobType
  <2>3. TableType' /\ ClaimsType' /\ OtherType'
    BY <2>1, IndexType, StateIsBase DEF ReindexSource, ClaimsType, OtherType
  <2> QED
    BY <1>1, <1>2, <2>2, <2>3
<1>4. CASE ~Requested(f)
  <2>1. TableType' /\ ClaimsType' /\ OtherType'
    BY <1>4 DEF ReindexSource, TableType, ClaimsType, OtherType, bookkeeping
  <2>2. JobType'
    BY <1>4 DEF ReindexSource, JobType
  <2> QED
    BY <1>1, <1>2, <2>1, <2>2
<1> QED
  BY <1>3, <1>4

LEMMA MergedType ==
  ASSUME TypeOK, NEW symbols \in [Files -> SUBSET Times]
  PROVE  Merged(symbols) \in [Files -> SUBSET Times]
<1>1. \A d \in Results : d \in IndexData
  BY DEF TypeOK, TableType, Results
<1>2. \A d \in Results, x \in Files : d.symbols[x] \in Times
  BY <1>1 DEF IndexData
<1> QED
  BY <1>2 DEF Merged

LEMMA FinishProjectType == TypeOK /\ FinishProject => TypeOK'
<1> SUFFICES ASSUME TypeOK, FinishProject PROVE TypeOK'
  OBVIOUS
<1> USE DEF TypeOK, FinishProject
<1>1. FileSystemType' /\ ClaimsType' /\ ParseType' /\ OtherType'
  BY DEF FileSystemType, ClaimsType, ParseType, OtherType, fileSystem, claims, parseVars
<1>2. JobType'
  BY DEF JobType, jobVars
<1>3. LoopType'
  BY DEF LoopType
<1>4. CASE Write
  <2>1. Dirtied(mPendingDirtyFiles) \in [Files -> SUBSET Times]
    BY DEF Dirtied, DatabaseType
  <2>2. mSymbols' \in [Files -> SUBSET Times]
    BY <1>4, <2>1, MergedType DEF Write, WriteSymbols
  <2>3. \A d \in Results : d.dependencies \in [Files -> SUBSET Sources]
    BY DEF Results, TableType, IndexData
  <2>4. mDependencies' \in [Files -> SUBSET Sources]
    BY <1>4, <2>3 DEF Write, DatabaseType
  <2>5. DatabaseType'
    BY <1>4, <2>2, <2>4, FilesType DEF Write, DatabaseType, NewFiles
  <2>6. TableType'
    BY <1>4 DEF Write, TableType, ResetCounter
  <2> QED
    BY <1>1, <1>2, <1>3, <2>5, <2>6
<1>5. CASE UNCHANGED <<database, mPendingData>>
  BY <1>1, <1>2, <1>3, <1>5 DEF DatabaseType, TableType, ResetCounter, database
<1> QED
  BY <1>4, <1>5

LEMMA MarkDirtyType ==
  ASSUME TypeOK, NEW modified \in SUBSET Files, MarkDirty(modified),
         mModifiedFilesTimer' \in BOOLEAN
  PROVE  TypeOK'
<1> USE DEF TypeOK, MarkDirty
<1>1. FileSystemType' /\ TableType' /\ ParseType'
  BY DEF FileSystemType, TableType, ParseType, fileSystem, bookkeeping, parseVars
<1>2. JobType'
  BY DEF JobType, jobVars
<1>3. DirtyFiles(modified) \subseteq Files
  BY DEF DirtyFiles, DatabaseType, Files
<1>4. DatabaseType' /\ ClaimsType'
  BY <1>3 DEF DatabaseType, ClaimsType
<1>5. LoopType'
  BY DEF LoopType
<1>6. OtherType'
  BY DEF OtherType
<1> QED
  BY <1>1, <1>2, <1>4, <1>5, <1>6

\* The steps that leave the jobs and their table alone.
LEMMA QuietStepType ==
  ASSUME TypeOK,
         \/ FinishedTimeout \/ Save \/ EndReindex
         \/ \E x \in Files : OnFileModified(x)
         \/ \E xs \in SUBSET Files : Edit(xs)
         \/ \E f \in Sources, c \in Args : ProcessSourceFile(f, c)
         \/ UNCHANGED vars
  PROVE  TypeOK'
<1> USE DEF TypeOK
<1>1. CASE FinishedTimeout \/ Save
  BY <1>1 DEF FinishedTimeout, Save, FileSystemType, TableType, DatabaseType, ClaimsType,
     LoopType, ParseType, JobType, OtherType, fileSystem, database, claims, parseVars,
     jobVars, bookkeeping
<1>2. CASE EndReindex
  BY <1>2 DEF EndReindex, Dirtied, FileSystemType, TableType, DatabaseType, ClaimsType,
     LoopType, ParseType, JobType, OtherType, fileSystem, claims, parseVars, jobVars,
     bookkeeping
<1>3. ASSUME NEW x \in Files, OnFileModified(x) PROVE TypeOK'
  BY <1>3 DEF OnFileModified, FileSystemType, TableType, DatabaseType, ClaimsType,
     LoopType, ParseType, JobType, OtherType, database, claims, loopVars, parseVars,
     jobVars, bookkeeping
<1>4. ASSUME NEW xs \in SUBSET Files, Edit(xs) PROVE TypeOK'
  <2>1. FileSystemType'
    BY <1>4 DEF Edit, FileSystemType, Times
  <2> QED
    BY <1>4, <2>1 DEF Edit, TableType, DatabaseType, ClaimsType, LoopType, ParseType,
       JobType, OtherType, database, claims, loopVars, parseVars, jobVars, bookkeeping
<1>5. ASSUME NEW f \in Sources, NEW c \in Args, ProcessSourceFile(f, c) PROVE TypeOK'
  <2>1. LoopType'
    <3>1. [file |-> f, source |-> [args |-> c, parsed |-> 0]] \in IndexRequests
      BY DEF IndexRequests, SourceInformation, Times
    <3> QED
      BY <1>5, <3>1, NoneAssumption DEF ProcessSourceFile, LoopType, loopVars
  <2>2. OtherType'
    BY <1>5, FilesType DEF ProcessSourceFile, OtherType
  <2> QED
    BY <1>5, <2>1, <2>2 DEF ProcessSourceFile, FileSystemType, TableType, DatabaseType,
       ClaimsType, ParseType, JobType, fileSystem, database, claims, parseVars, jobVars,
       bookkeeping
<1>6. CASE UNCHANGED vars
  BY <1>6 DEF vars, FileSystemType, TableType, DatabaseType, ClaimsType, LoopType,
     ParseType, JobType, OtherType, fileSystem, database, claims, loopVars, parseVars,
     jobVars, bookkeeping
<1> QED
  BY <1>1, <1>2, <1>3, <1>4, <1>5, <1>6

LEMMA UnloadType == TypeOK /\ Unload => TypeOK'
<1> SUFFICES ASSUME TypeOK, Unload PROVE TypeOK'
  OBVIOUS
<1> USE DEF TypeOK, Unload
<1>1. FileSystemType' /\ DatabaseType' /\ ClaimsType' /\ LoopType' /\ ParseType' /\ OtherType'
  BY DEF FileSystemType, DatabaseType, ClaimsType, LoopType, ParseType, OtherType,
         fileSystem, database, claims, loopVars, parseVars
<1>2. TableType'
  BY DEF TableType, ClearJobs
<1>3. JobType'
  BY DEF JobType
<1> QED
  BY <1>1, <1>2, <1>3

LEMMA TypeStep == IInv /\ [Next]_vars => TypeOK'
<1> SUFFICES ASSUME IInv, [Next]_vars PROVE TypeOK'
  OBVIOUS
<1> USE DEF IInv
<1>1. ASSUME NEW j \in Jobs, JobStep(j) PROVE TypeOK'
  BY <1>1, JobStepType
<1>2. CASE IndexRequest \/ FinishProject \/ Unload
  BY <1>2, IndexRequestType, FinishProjectType, UnloadType
<1>3. ASSUME NEW f \in Sources, ReindexSource(f) PROVE TypeOK'
  BY <1>3, ReindexSourceType
<1>4. CASE OnFilesModifiedTimeout
  BY <1>4, MarkDirtyType DEF OnFilesModifiedTimeout, TypeOK, OtherType
<1>5. ASSUME NEW xs \in SUBSET Files, Reindex(xs) PROVE TypeOK'
  <2> DEFINE dirty == {x \in xs : mDependencies[x] # {} /\ x \notin mPendingDirtyFiles}
  <2>1. mModifiedFiles \cup dirty \in SUBSET Files
    BY DEF TypeOK, OtherType
  <2>2. MarkDirty(mModifiedFiles \cup dirty) /\ mModifiedFilesTimer' \in BOOLEAN
    BY <1>5 DEF Reindex, TypeOK, OtherType
  <2> HIDE DEF dirty
  <2> QED
    BY <2>1, <2>2, MarkDirtyType
<1>6. CASE \/ FinishedTimeout \/ Save \/ EndReindex
           \/ \E x \in Files : OnFileModified(x)
           \/ \E xs \in SUBSET Files : Edit(xs)
           \/ \E f \in Sources, c \in Args : ProcessSourceFile(f, c)
           \/ UNCHANGED vars
  BY <1>6, QuietStepType
<1> QED
  BY <1>1, <1>2, <1>3, <1>4, <1>5, <1>6 DEF Next, LoopStep, Client

---------------------------------------------------------------------------
(* The theorems.                                                           *)

LEMMA InductiveInvariant == Spec => []IInv
<1>1. IInv /\ [Next]_vars => IInv'
  BY TypeStep, CoreStep DEF IInv
<1> QED
  BY <1>1, InitIInv, PTL DEF Spec

\* Every variable of a project keeps its type.
THEOREM TypeCorrect == Spec => []TypeOK
<1>1. IInv => TypeOK
  BY DEF IInv
<1> QED
  BY <1>1, InductiveInvariant, PTL

\* A job in mJobs is alive, works for its source with the arguments mSources has,
\* and was not aborted before its start.
THEOREM JobTableIsRight == Spec => []JobTable
<1>1. IInv => JobTable
  BY DEF IInv, CoreInv
<1> QED
  BY <1>1, InductiveInvariant, PTL

\* The assertion in onJobFinished() never fails.
THEOREM AssertionHolds == Spec => []JobIsCurrent
<1>1. IInv => JobIsCurrent
  BY DEF IInv, CoreInv
<1> QED
  BY <1>1, InductiveInvariant, PTL

\* A result waiting for write() was made with the arguments of its source.
THEOREM ResultsAreCurrent == Spec => []ResultsMatchSource
<1>1. IInv => ResultsMatchSource
  BY DEF IInv, CoreInv
<1> QED
  BY <1>1, InductiveInvariant, PTL

\* A pending request is never stranded without a job that will start it.
THEOREM PendingIsServed == Spec => []PendingHasRunner
<1>1. IInv => PendingHasRunner
  BY DEF IInv, CoreInv
<1> QED
  BY <1>1, InductiveInvariant, PTL

\* Only Index(), JobSucceeded() and Write touch the results.
LEMMA IndexKeepsResults ==
  ASSUME IInv, NEW f \in Sources, NEW c, NEW base, Index(f, c, base),
         NEW g \in Sources, mPendingData[g] # None, mPendingData'[g] # mPendingData[g]
  PROVE  mJobs[g] = None /\ mJobs'[g] # None
<1>1. mJobs[f] = None /\ IndexNew(f, c, base)
  BY DEF Index, IndexAgain
<1>2. PICK k \in Jobs : mPendingData' = [mPendingData EXCEPT ![f] = None]
                        /\ mJobs' = [mJobs EXCEPT ![f] = k]
  BY <1>1 DEF IndexNew, DropPendingData
<1>3. g = f
  BY <1>2 DEF IInv, TypeOK, TableType
<1> QED
  BY <1>1, <1>2, <1>3, NoneAssumption DEF IInv, TypeOK, TableType

LEMMA ResultStep ==
  ASSUME IInv, [Next]_vars, NEW g \in Sources,
         mPendingData[g] # None, mPendingData'[g] # mPendingData[g]
  PROVE  \/ \A x \in Files : mPendingData[g].symbols[x] \in mSymbols'[x] \cup {0}
         \/ mJobs[g] = None /\ mJobs'[g] # None
<1>1. ASSUME NEW j \in Jobs, JobStep(j)
      PROVE  mJobs[g] = None /\ mJobs'[g] # None
  <2>1. CASE Finish(j)
    <3>1. ~mAborted[j] /\ JobSucceeded(j) /\ state[j] \in Running
      BY <2>1 DEF Finish, OnJobFinished, JobAborted, Running
    <3>2. jobFile[j] \in Sources /\ mJobs[jobFile[j]] = j
      BY <3>1 DEF IInv, CoreInv, JobIsCurrent, TypeOK, JobType, Running
    <3>3. g = jobFile[j]
      BY <3>1 DEF JobSucceeded, IInv, TypeOK, TableType
    <3>4. mJobs[g] = None
      BY DEF IInv, CoreInv, ResultHasNoJob
    <3> QED
      BY <3>2, <3>3, <3>4, NoneAssumption
  <2>2. CASE StartPending(j)
    <3>1. jobFile[j] \in Sources /\ Index(jobFile[j], pending[j], [state EXCEPT ![j] = "dead"])
      BY <2>2 DEF StartPending, IInv, TypeOK, JobType
    <3> QED
      BY <3>1, IndexKeepsResults
  <2>3. Finish(j) \/ StartPending(j)
    BY <1>1 DEF JobStep, Execute, Parse, Visit, EndVisit, bookkeeping
  <2> QED
    BY <2>1, <2>2, <2>3
<1>2. CASE FinishProject
  <2>1. Write
    BY <1>2 DEF FinishProject
  <2>2. mPendingData[g] \in Results
    BY DEF Results
  <2> QED
    BY <2>1, <2>2 DEF Write, WriteSymbols, Merged
<1>3. CASE IndexRequest
  <2>1. request.file \in Sources
    BY <1>3 DEF IndexRequest, IInv, TypeOK, LoopType, IndexRequests
  <2> QED
    BY <1>3, <2>1, IndexKeepsResults DEF IndexRequest
<1>4. ASSUME NEW f \in Sources, ReindexSource(f)
      PROVE  mJobs[g] = None /\ mJobs'[g] # None
  <2>1. Index(f, mSources[f], state)
    BY <1>4 DEF ReindexSource, bookkeeping
  <2> QED
    BY <2>1, IndexKeepsResults
<1>5. CASE \/ FinishedTimeout \/ Save \/ EndReindex \/ OnFilesModifiedTimeout
           \/ \E x \in Files : OnFileModified(x)
  BY <1>5 DEF FinishedTimeout, Save, EndReindex, OnFilesModifiedTimeout, MarkDirty,
              OnFileModified, bookkeeping
<1>6. CASE Client
  BY <1>6 DEF Client, ProcessSourceFile, Reindex, MarkDirty, Unload, bookkeeping
<1>7. CASE (\E xs \in SUBSET Files : Edit(xs)) \/ UNCHANGED vars
  BY <1>7 DEF Edit, vars, bookkeeping
<1> QED
  BY <1>1, <1>2, <1>3, <1>4, <1>5, <1>6, <1>7 DEF Next, LoopStep

\* A result is merged, or replaced by a job queued in the same step; no step of
\* any thread loses it.
THEOREM NoResultIsLost == Spec => ResultsNotLost
<1>1. IInv /\ [Next]_vars => [ResultKept]_vars
  BY ResultStep DEF ResultKept
<1> QED
  BY <1>1, InductiveInvariant, PTL DEF Spec, ResultsNotLost
---------------------------------------------------------------------------
(***************************************************************************)
(* The calm project.  While a change is on its way nothing moves.  A claim *)
(* is held by the job that made it, then by the result it stored, then by  *)
(* the symbols write() keeps of it; a source that is asked for again is new*)
(* or runs, one that is reindexed has neither job nor result, so no result *)
(* is dropped or overwritten with claims in it.                            *)
(***************************************************************************)

\* While a change is on its way to the 200 ms timer nothing else happens.
Stirred == fsEvents # {} \/ mModifiedFilesTimer
StirredIsQuiet ==
    Stirred => loop = "idle" /\ ~mFinishedTimer /\ \A j \in Jobs : state[j] = "dead"

Claiming == {"visiting", "finishing"}

\* What the jobs that have read the files have of them.
ReadingInv ==
    /\ \A x \in Files : mtime[x] # 0
    /\ \A j \in Jobs : state[j] \in Claiming => \A x \in Files : seen[j][x] # 0

\* Only such jobs hold claims, and what they hold is claimed, by nobody else.
HoldInv ==
    /\ \A j \in Jobs : state[j] \notin Claiming => mVisitedFilesByJob[j] = {}
    /\ \A j \in Jobs : mVisitedFilesByJob[j] \subseteq mVisitedFiles
    /\ OneIndexerPerFile

\* A claimed file is held, or in a result, or has symbols that write() keeps.
ClaimKept(x) ==
    \/ \E j \in Jobs : x \in mVisitedFilesByJob[j]
    \/ \E f \in Sources : mPendingData[f] # None /\ mPendingData[f].symbols[x] # 0
    \/ mSymbols[x] # {} /\ x \notin mPendingDirtyFiles
ClaimsKept == \A x \in mVisitedFiles : ClaimKept(x)

\* Without unload() a job is in the table until it ends.
JobsInTable ==
    \A j \in Jobs : state[j] \in Running \cup {"queued"} => mJobs[jobFile[j]] = j

\* One job at a time restarts a source, which has no job and no result then.
RestartIsAlone ==
    \A j \in Jobs : state[j] = "restarting" =>
        /\ Requested(jobFile[j])
        /\ mJobs[jobFile[j]] = None /\ mPendingData[jobFile[j]] = None
        /\ \A k \in Jobs : state[k] = "restarting" /\ jobFile[k] = jobFile[j] => k = j

\* A request on its way is for a new source or finds its job running.
RequestIsCalm ==
    loop = "compile" =>
        \/ ~Requested(request.file)
        \/ mJobs[request.file] # None /\ Started(mJobs[request.file])

\* A result is not forgotten by finish().
WriteIsComing ==
    \A f \in Sources : mPendingData[f] # None =>
        mFinishedTimer \/ loop = "finish" \/ \E g \in Sources : mJobs[g] # None

\* The sources to reindex have no job and no result.
TodoIsIdle ==
    loop = "reindex" => \A f \in todo :
        mPendingData[f] = None /\ \A j \in Jobs : jobFile[j] = f => state[j] = "dead"

CalmInv ==
    /\ StirredIsQuiet /\ ReadingInv /\ HoldInv /\ ClaimsKept
    /\ JobsInTable /\ RestartIsAlone /\ RequestIsCalm /\ WriteIsComing /\ TodoIsIdle

---------------------------------------------------------------------------

LEMMA CalmInit == Init => CalmInv
<1> SUFFICES ASSUME Init PROVE CalmInv
  OBVIOUS
<1> USE DEF Init
<1>1. StirredIsQuiet /\ ReadingInv
  BY DEF StirredIsQuiet, Stirred, ReadingInv, Claiming
<1>2. HoldInv
  BY DEF HoldInv, OneIndexerPerFile
<1>3. ClaimsKept
  BY DEF ClaimsKept
<1>4. JobsInTable /\ RestartIsAlone
  BY DEF JobsInTable, RestartIsAlone, Running
<1>5. RequestIsCalm /\ WriteIsComing /\ TodoIsIdle
  BY DEF RequestIsCalm, WriteIsComing, TodoIsIdle
<1> QED
  BY <1>1, <1>2, <1>3, <1>4, <1>5 DEF CalmInv

\* What index() does to the jobs and the tables.
LEMMA IndexEffects ==
  ASSUME IInv, NEW f \in Sources, NEW c \in SourceInformation, NEW base,
         BaseOK(base), Index(f, c, base)
  PROVE  /\ mFinishedTimer'
         /\ mJobs[f] # None =>
              UNCHANGED <<mSources, mJobs, mPendingData, jobFile, mVisitedFilesByJob>> /\ state' = base
         /\ mJobs[f] = None => \E k \in Jobs :
              /\ base[k] = "dead" /\ state'[k] = "queued" /\ jobFile'[k] = f
              /\ mVisitedFilesByJob'[k] = {} /\ mJobs'[f] = k /\ mPendingData'[f] = None
              /\ \A g \in Sources \ {f} : /\ mSources'[g] = mSources[g] /\ mJobs'[g] = mJobs[g]
                                           /\ mPendingData'[g] = mPendingData[g]
              /\ \A j \in Jobs \ {k} : /\ state'[j] = base[j] /\ jobFile'[j] = jobFile[j]
                                        /\ mVisitedFilesByJob'[j] = mVisitedFilesByJob[j]
<1>1. mFinishedTimer'
  BY DEF Index
<1>2. ASSUME mJobs[f] # None
      PROVE  UNCHANGED <<mSources, mJobs, mPendingData, jobFile, mVisitedFilesByJob>> /\ state' = base
  BY <1>2 DEF Index, IndexAgain
<1>3. ASSUME mJobs[f] = None
      PROVE  \E k \in Jobs :
              /\ base[k] = "dead" /\ state'[k] = "queued" /\ jobFile'[k] = f
              /\ mVisitedFilesByJob'[k] = {} /\ mJobs'[f] = k /\ mPendingData'[f] = None
              /\ \A g \in Sources \ {f} : /\ mSources'[g] = mSources[g] /\ mJobs'[g] = mJobs[g]
                                           /\ mPendingData'[g] = mPendingData[g]
              /\ \A j \in Jobs \ {k} : /\ state'[j] = base[j] /\ jobFile'[j] = jobFile[j]
                                        /\ mVisitedFilesByJob'[j] = mVisitedFilesByJob[j]
  <2>1. PICK k \in Jobs :
          /\ base[k] = "dead"
          /\ mSources' = [mSources EXCEPT ![f] = c]
          /\ mPendingData' = [mPendingData EXCEPT ![f] = None]
          /\ mJobs' = [mJobs EXCEPT ![f] = k]
          /\ state' = [base EXCEPT ![k] = "queued"]
          /\ jobFile' = [jobFile EXCEPT ![k] = f]
          /\ mVisitedFilesByJob' = [mVisitedFilesByJob EXCEPT ![k] = {}]
    BY <1>3 DEF Index, IndexNew, DropPendingData
  <2>2. /\ mSources \in [Sources -> SourceInformation \cup {None}]
        /\ mPendingData \in [Sources -> IndexData \cup {None}]
        /\ mJobs \in [Sources -> Jobs \cup {None}]
        /\ base \in [Jobs -> JobStates]
        /\ jobFile \in [Jobs -> Sources \cup {None}]
        /\ mVisitedFilesByJob \in [Jobs -> SUBSET Files]
    BY DEF IInv, TypeOK, TableType, JobType, ClaimsType, BaseOK
  <2>3. /\ state'[k] = "queued" /\ jobFile'[k] = f /\ mVisitedFilesByJob'[k] = {}
        /\ mJobs'[f] = k /\ mPendingData'[f] = None
    BY <2>1, <2>2
  <2>4. \A g \in Sources \ {f} : /\ mSources'[g] = mSources[g] /\ mJobs'[g] = mJobs[g]
                                 /\ mPendingData'[g] = mPendingData[g]
    BY <2>1, <2>2
  <2>5. \A j \in Jobs \ {k} : /\ state'[j] = base[j] /\ jobFile'[j] = jobFile[j]
                              /\ mVisitedFilesByJob'[j] = mVisitedFilesByJob[j]
    BY <2>1, <2>2
  <2> QED
    BY <2>1, <2>3, <2>4, <2>5
<1> QED
  BY <1>1, <1>2, <1>3

\* index() when no result of its source is dropped by it.
LEMMA IndexKeepsCalm ==
  ASSUME IInv, CalmInv, NEW f \in Sources, NEW c \in SourceInformation, NEW base,
         BaseOK(base), Index(f, c, base),
         ~Stirred', UNCHANGED <<mtime, seen, mVisitedFiles, mSymbols, mPendingDirtyFiles>>,
         \A j \in Jobs : base[j] = "restarting" => jobFile[j] # f,
         mJobs[f] = None => mPendingData[f] = None,
         loop' = "compile" => loop = "compile" /\ request' = request /\ request.file # f
                              /\ request.file \in Sources,
         loop' = "reindex" => loop = "reindex" /\ todo' \subseteq todo \ {f}
  PROVE  CalmInv'
<1> USE DEF CalmInv
<1>1. /\ base \in [Jobs -> JobStates] /\ state \in [Jobs -> JobStates]
      /\ mVisitedFilesByJob \in [Jobs -> SUBSET Files]
      /\ todo \subseteq Sources
  BY DEF IInv, TypeOK, JobType, ClaimsType, LoopType, BaseOK
<1>2. \A j \in Jobs : /\ base[j] # "dead" => base[j] = state[j]
                      /\ state[j] # "restarting" => base[j] = state[j]
  BY DEF BaseOK
<1>3. StirredIsQuiet' /\ WriteIsComing'
  BY IndexEffects DEF StirredIsQuiet, WriteIsComing
<1>4. CASE mJobs[f] # None
  <2>1. UNCHANGED <<mSources, mJobs, mPendingData, jobFile, mVisitedFilesByJob>> /\ state' = base
    BY <1>4, IndexEffects
  <2>2. ReadingInv' /\ HoldInv'
    BY <1>2, <2>1 DEF ReadingInv, HoldInv, OneIndexerPerFile, Claiming
  <2>3. ClaimsKept'
    BY <2>1 DEF ClaimsKept, ClaimKept
  <2>4. JobsInTable' /\ RestartIsAlone'
    BY <1>2, <2>1 DEF JobsInTable, RestartIsAlone, Running, Requested
  <2>5. RequestIsCalm'
    <3> SUFFICES ASSUME loop' = "compile"
                 PROVE  \/ ~Requested(request.file)
                        \/ mJobs[request.file] # None /\ Started(mJobs[request.file])'
      BY <2>1 DEF RequestIsCalm, Requested
    <3>1. CASE ~Requested(request.file)
      BY <3>1
    <3>2. CASE mJobs[request.file] # None /\ Started(mJobs[request.file])
      <4>1. mJobs[request.file] \in Jobs
        BY <3>2 DEF IInv, TypeOK, TableType
      <4> QED
        BY <1>2, <2>1, <3>2, <4>1 DEF Started, Running
    <3> QED
      BY <3>1, <3>2 DEF RequestIsCalm
  <2>6. TodoIsIdle'
    BY <1>2, <2>1 DEF TodoIsIdle
  <2> QED
    BY <1>3, <2>2, <2>3, <2>4, <2>5, <2>6
<1>5. CASE mJobs[f] = None
  <2>1. PICK k \in Jobs :
              /\ base[k] = "dead" /\ state'[k] = "queued" /\ jobFile'[k] = f
              /\ mVisitedFilesByJob'[k] = {} /\ mJobs'[f] = k /\ mPendingData'[f] = None
              /\ \A g \in Sources \ {f} : /\ mSources'[g] = mSources[g] /\ mJobs'[g] = mJobs[g]
                                           /\ mPendingData'[g] = mPendingData[g]
              /\ \A j \in Jobs \ {k} : /\ state'[j] = base[j] /\ jobFile'[j] = jobFile[j]
                                        /\ mVisitedFilesByJob'[j] = mVisitedFilesByJob[j]
    BY <1>5, IndexEffects
  <2>2. mVisitedFilesByJob[k] = {}
    BY <1>1, <1>2, <2>1 DEF HoldInv, Claiming, BaseOK
  <2>3. \A j \in Jobs : mVisitedFilesByJob'[j] = mVisitedFilesByJob[j]
    BY <2>1, <2>2
  <2>4. \A g \in Sources : mPendingData'[g] = mPendingData[g]
    BY <1>5, <2>1
  <2>5. \A j \in Jobs : state'[j] \in Claiming <=> state[j] \in Claiming
    BY <1>1, <1>2, <2>1 DEF Claiming, BaseOK
  <2>6. ReadingInv'
    BY <2>5 DEF ReadingInv
  <2>7. HoldInv'
    BY <2>3, <2>5 DEF HoldInv, OneIndexerPerFile
  <2>8. ClaimsKept'
    BY <2>3, <2>4 DEF ClaimsKept, ClaimKept
  <2>9. JobsInTable'
    <3> SUFFICES ASSUME NEW j \in Jobs, state'[j] \in Running \cup {"queued"}, j # k
                 PROVE  mJobs'[jobFile[j]] = j
      BY <2>1 DEF JobsInTable
    <3>1. state[j] \in Running \cup {"queued"} /\ mJobs[jobFile[j]] = j
      BY <1>2, <2>1 DEF JobsInTable, Running
    <3>2. jobFile[j] \in Sources /\ jobFile[j] # f
      BY <1>5, <3>1, NoneAssumption DEF IInv, TypeOK, JobType, Running
    <3> QED
      BY <2>1, <3>1, <3>2
  <2>10. RestartIsAlone'
    <3>1. \A j \in Jobs : state'[j] = "restarting" =>
             /\ state[j] = "restarting" /\ jobFile'[j] = jobFile[j]
             /\ jobFile[j] \in Sources \ {f}
      BY <1>2, <2>1 DEF IInv, TypeOK, JobType
    <3> QED
      BY <2>1, <3>1 DEF RestartIsAlone, Requested
  <2>11. RequestIsCalm'
    <3> SUFFICES ASSUME loop' = "compile"
                 PROVE  \/ ~Requested(request.file)'
                        \/ mJobs'[request.file] # None /\ Started(mJobs[request.file])'
      BY DEF RequestIsCalm
    <3>1. request.file \in Sources \ {f}
      OBVIOUS
    <3>2. CASE ~Requested(request.file)
      BY <2>1, <3>1, <3>2 DEF Requested
    <3>3. CASE mJobs[request.file] # None /\ Started(mJobs[request.file])
      <4> DEFINE r == mJobs[request.file]
      <4>1. r \in Jobs /\ state[r] \in Running
        BY <3>1, <3>3 DEF IInv, TypeOK, TableType, Started
      <4>2. r # k
        BY <1>2, <2>1, <4>1 DEF Running, BaseOK
      <4>3. state'[r] = state[r] /\ mJobs'[request.file] = r
        BY <1>2, <2>1, <3>1, <4>1, <4>2 DEF Running
      <4> QED
        BY <3>1, <3>3, <4>1, <4>3 DEF Started
    <3> QED
      BY <3>2, <3>3 DEF RequestIsCalm
  <2>12. TodoIsIdle'
    <3> SUFFICES ASSUME loop' = "reindex", NEW g \in todo'
                 PROVE  mPendingData'[g] = None /\ \A j \in Jobs : jobFile'[j] = g => state'[j] = "dead"
      BY DEF TodoIsIdle
    <3>1. g \in todo /\ g # f /\ loop = "reindex"
      OBVIOUS
    <3>2. mPendingData[g] = None /\ \A j \in Jobs : jobFile[j] = g => state[j] = "dead"
      BY <3>1 DEF TodoIsIdle
    <3> QED
      BY <1>1, <1>2, <2>1, <2>4, <3>1, <3>2
  <2> QED
    BY <1>3, <2>6, <2>7, <2>8, <2>9, <2>10, <2>11, <2>12
<1> QED
  BY <1>4, <1>5

---------------------------------------------------------------------------
(* A job moves within execute().                                           *)

LEMMA MoveKeepsCalm ==
  ASSUME IInv, CalmInv, NEW j \in Jobs, state[j] \in Running \cup {"queued"},
         NEW s \in Running, state' = [state EXCEPT ![j] = s],
         UNCHANGED <<jobFile, mSources, mJobs, mPendingData, loop, request, todo, fsEvents,
                     mModifiedFilesTimer, mFinishedTimer>>,
         ReadingInv', HoldInv', ClaimsKept'
  PROVE  CalmInv'
<1> USE DEF CalmInv
<1>1. state'[j] = s /\ \A k \in Jobs \ {j} : state'[k] = state[k]
  BY DEF IInv, TypeOK, JobType
<1>2. StirredIsQuiet' /\ WriteIsComing'
  BY DEF StirredIsQuiet, Stirred, WriteIsComing, Running
<1>3. JobsInTable' /\ RestartIsAlone'
  BY <1>1 DEF JobsInTable, RestartIsAlone, Running, Requested
<1>4. RequestIsCalm'
  <2> SUFFICES ASSUME loop = "compile", Requested(request.file)
               PROVE  mJobs[request.file] # None /\ Started(mJobs[request.file])'
    BY DEF RequestIsCalm, Requested
  <2>1. mJobs[request.file] # None /\ Started(mJobs[request.file])
    BY DEF RequestIsCalm
  <2>2. request.file \in Sources
    BY DEF IInv, TypeOK, LoopType, IndexRequests
  <2>3. mJobs[request.file] \in Jobs
    BY <2>1, <2>2 DEF IInv, TypeOK, TableType
  <2> QED
    BY <1>1, <2>1, <2>3 DEF Started
<1>5. TodoIsIdle'
  BY <1>1 DEF TodoIsIdle, Running
<1> QED
  BY <1>2, <1>3, <1>4, <1>5

LEMMA ExecuteCalm == ASSUME IInv, CalmInv, NEW j \in Jobs, Execute(j) PROVE CalmInv'
<1>1. /\ state[j] = "queued"
      /\ state' = [state EXCEPT ![j] = IF mAborted[j] THEN "dead" ELSE "parsing"]
      /\ UNCHANGED <<jobFile, mSources, mJobs, mPendingData, loop, request, todo, fsEvents,
                     mModifiedFilesTimer, mFinishedTimer, mtime, seen, mVisitedFiles,
                     mVisitedFilesByJob, mSymbols, mPendingDirtyFiles>>
  BY DEF Execute, fileSystem, database, claims, loopVars, jobVars, bookkeeping
<1>2. ~mAborted[j]
  <2>1. jobFile[j] \in Sources /\ mJobs[jobFile[j]] = j
    BY <1>1 DEF CalmInv, JobsInTable, IInv, TypeOK, JobType
  <2> QED
    BY <1>1, <2>1, NoneAssumption DEF IInv, CoreInv, JobTable
<1>3. state' = [state EXCEPT ![j] = "parsing"] /\ "parsing" \in Running
  BY <1>1, <1>2 DEF Running
<1>4. \A k \in Jobs : state'[k] \in Claiming <=> state[k] \in Claiming
  BY <1>1, <1>3 DEF IInv, TypeOK, JobType, Claiming
<1>5. ReadingInv' /\ HoldInv' /\ ClaimsKept'
  BY <1>1, <1>4 DEF CalmInv, ReadingInv, HoldInv, OneIndexerPerFile, ClaimsKept, ClaimKept
<1> QED
  BY <1>1, <1>3, <1>5, MoveKeepsCalm

LEMMA ParseCalm ==
  ASSUME IInv, CalmInv, NEW j \in Jobs, NEW outcome \in Outcomes, Parse(j, outcome)
  PROVE  CalmInv'
<1> DEFINE s == IF outcome = "unit" /\ ~mAborted[j] THEN "visiting" ELSE "finishing"
<1>1. /\ state[j] = "parsing" /\ state' = [state EXCEPT ![j] = s]
      /\ seen' = [seen EXCEPT ![j] = mtime]
      /\ UNCHANGED <<jobFile, mSources, mJobs, mPendingData, loop, request, todo, fsEvents,
                     mModifiedFilesTimer, mFinishedTimer, mtime, mVisitedFiles,
                     mVisitedFilesByJob, mSymbols, mPendingDirtyFiles>>
  BY DEF Parse, fileSystem, database, claims, loopVars, bookkeeping
<1>2. s \in Claiming /\ s \in Running
  BY DEF Claiming, Running
<1> HIDE DEF s
<1>3. /\ state'[j] \in Claiming /\ state[j] \notin Claiming /\ seen'[j] = mtime
      /\ \A k \in Jobs \ {j} : state'[k] = state[k] /\ seen'[k] = seen[k]
  BY <1>1, <1>2 DEF IInv, TypeOK, JobType, ParseType, Claiming
<1>4. ReadingInv' /\ HoldInv'
  BY <1>1, <1>3 DEF CalmInv, ReadingInv, HoldInv, OneIndexerPerFile
<1>5. ClaimsKept'
  BY <1>1 DEF CalmInv, ClaimsKept, ClaimKept
<1> QED
  BY <1>1, <1>2, <1>4, <1>5, MoveKeepsCalm DEF Running

LEMMA VisitCalm ==
  ASSUME IInv, CalmInv, NEW j \in Jobs, NEW x \in Files, Visit(j, x)
  PROVE  CalmInv'
<1>1. /\ state[j] = "visiting" /\ VisitFile(j, x)
      /\ UNCHANGED <<state, jobFile, mSources, mJobs, mPendingData, loop, request, todo, fsEvents,
                     mModifiedFilesTimer, mFinishedTimer, mtime, seen, mSymbols,
                     mPendingDirtyFiles>>
  BY DEF Visit, fileSystem, database, loopVars, jobVars, bookkeeping
<1>2. state' = [state EXCEPT ![j] = "visiting"] /\ "visiting" \in Running
  BY <1>1 DEF IInv, TypeOK, JobType, Running
<1>3. ReadingInv'
  BY <1>1 DEF CalmInv, ReadingInv
<1>4. /\ mVisitedFiles' = mVisitedFiles \cup {x}
      /\ \A k \in Jobs \ {j} : mVisitedFilesByJob'[k] = mVisitedFilesByJob[k]
      /\ mVisitedFilesByJob'[j] = IF x \in mVisitedFiles THEN mVisitedFilesByJob[j]
                                  ELSE mVisitedFilesByJob[j] \cup {x}
  BY <1>1 DEF VisitFile, IInv, TypeOK, ClaimsType
<1>5. HoldInv'
  BY <1>1, <1>4 DEF CalmInv, HoldInv, OneIndexerPerFile, Claiming
<1>6. ClaimsKept'
  <2> SUFFICES ASSUME NEW y \in mVisitedFiles' PROVE ClaimKept(y)'
    BY DEF ClaimsKept
  <2>1. CASE y \in mVisitedFiles
    <3>1. ClaimKept(y)
      BY <2>1 DEF CalmInv, ClaimsKept
    <3>2. ASSUME NEW k \in Jobs, y \in mVisitedFilesByJob[k]
          PROVE  y \in mVisitedFilesByJob'[k]
      BY <1>4, <3>2
    <3> QED
      BY <1>1, <3>1, <3>2 DEF ClaimKept
  <2>2. CASE y \notin mVisitedFiles
    BY <1>4, <2>2 DEF ClaimKept
  <2> QED
    BY <2>1, <2>2
<1> QED
  BY <1>1, <1>2, <1>3, <1>5, <1>6, MoveKeepsCalm DEF Running

LEMMA EndVisitCalm == ASSUME IInv, CalmInv, NEW j \in Jobs, EndVisit(j) PROVE CalmInv'
<1>1. /\ state[j] = "visiting" /\ state' = [state EXCEPT ![j] = "finishing"]
      /\ UNCHANGED <<jobFile, mSources, mJobs, mPendingData, loop, request, todo, fsEvents,
                     mModifiedFilesTimer, mFinishedTimer, mtime, seen, mVisitedFiles,
                     mVisitedFilesByJob, mSymbols, mPendingDirtyFiles>>
  BY DEF EndVisit, fileSystem, database, claims, loopVars, bookkeeping
<1>2. \A k \in Jobs : state'[k] \in Claiming <=> state[k] \in Claiming
  BY <1>1 DEF IInv, TypeOK, JobType, Claiming
<1>3. ReadingInv' /\ HoldInv' /\ ClaimsKept'
  BY <1>1, <1>2 DEF CalmInv, ReadingInv, HoldInv, OneIndexerPerFile, ClaimsKept, ClaimKept
<1> QED
  BY <1>1, <1>3, MoveKeepsCalm DEF Running

(* A job ends.                                                             *)

\* What the two ends of a job have in common.
LEMMA EndKeepsCalm ==
  ASSUME IInv, CalmInv, NEW j \in Jobs, state[j] = "finishing", CalmTurn(j),
         mFinishedTimer',
         state'[j] \in {"dead", "restarting"}, \A k \in Jobs \ {j} : state'[k] = state[k],
         mJobs'[jobFile[j]] = None,
         \A g \in Sources \ {jobFile[j]} :
            /\ mJobs'[g] = mJobs[g] /\ mPendingData'[g] = mPendingData[g]
            /\ Requested(g)' = Requested(g),
         state'[j] = "restarting" => /\ mPendingData'[jobFile[j]] = mPendingData[jobFile[j]]
                                     /\ Requested(jobFile[j])' = Requested(jobFile[j]),
         UNCHANGED <<jobFile, loop, request, todo, fsEvents, mModifiedFilesTimer>>
  PROVE  /\ StirredIsQuiet' /\ JobsInTable' /\ RestartIsAlone' /\ RequestIsCalm'
         /\ WriteIsComing' /\ TodoIsIdle'
<1> DEFINE f == jobFile[j]
<1> USE DEF CalmInv
<1>1. f \in Sources /\ mJobs[f] = j /\ mPendingData[f] = None /\ Requested(f)
  <2>1. f \in Sources /\ mJobs[f] = j
    BY DEF JobsInTable, Running, IInv, TypeOK, JobType
  <2> QED
    BY <2>1, NoneAssumption DEF IInv, CoreInv, JobTable, ResultHasNoJob
<1>2. StirredIsQuiet' /\ WriteIsComing'
  BY DEF StirredIsQuiet, Stirred, WriteIsComing
<1>3. \A k \in Jobs \ {j} : state[k] # "dead" => jobFile[k] \in Sources \ {f}
  <2> SUFFICES ASSUME NEW k \in Jobs \ {j}, state[k] # "dead"
               PROVE  jobFile[k] \in Sources \ {f}
    OBVIOUS
  <2>1. jobFile[k] \in Sources
    BY DEF IInv, TypeOK, JobType
  <2>2. state[k] \in Running \cup {"queued", "restarting"}
    BY DEF IInv, TypeOK, JobType, JobStates
  <2>3. mJobs[jobFile[k]] # j
    BY <2>2, NoneAssumption DEF JobsInTable, RestartIsAlone
  <2> QED
    BY <1>1, <2>1, <2>3
<1>4. JobsInTable'
  BY <1>3 DEF JobsInTable, Running
<1>5. RestartIsAlone'
  <2> SUFFICES ASSUME NEW k \in Jobs, state'[k] = "restarting"
               PROVE  /\ Requested(jobFile[k])'
                      /\ mJobs'[jobFile[k]] = None /\ mPendingData'[jobFile[k]] = None
                      /\ \A i \in Jobs : state'[i] = "restarting" /\ jobFile[i] = jobFile[k] => i = k
    BY DEF RestartIsAlone
  <2>1. CASE k = j
    BY <1>1, <1>3, <2>1
  <2>2. CASE k # j
    BY <1>3, <2>2 DEF RestartIsAlone
  <2> QED
    BY <2>1, <2>2
<1>6. RequestIsCalm'
  <2> SUFFICES ASSUME loop = "compile", Requested(request.file)'
               PROVE  mJobs'[request.file] # None /\ Started(mJobs[request.file])'
    BY DEF RequestIsCalm
  <2>1. request.file \in Sources \ {f}
    BY DEF CalmTurn, IInv, TypeOK, LoopType, IndexRequests
  <2>2. mJobs[request.file] # None /\ Started(mJobs[request.file])
    BY <2>1 DEF RequestIsCalm
  <2>3. mJobs[request.file] \in Jobs \ {j}
    BY <2>1, <2>2 DEF IInv, TypeOK, TableType, CoreInv, JobTable
  <2> QED
    BY <2>1, <2>2, <2>3 DEF Started
<1>7. TodoIsIdle'
  <2> SUFFICES ASSUME loop = "reindex", NEW g \in todo
               PROVE  mPendingData'[g] = None /\ \A k \in Jobs : jobFile[k] = g => state'[k] = "dead"
    BY DEF TodoIsIdle
  <2>1. mPendingData[g] = None /\ \A k \in Jobs : jobFile[k] = g => state[k] = "dead"
    BY DEF TodoIsIdle
  <2>2. g \in Sources \ {f}
    BY <2>1 DEF IInv, TypeOK, LoopType
  <2> QED
    BY <2>1, <2>2
<1> QED
  BY <1>2, <1>4, <1>5, <1>6, <1>7

LEMMA FinishCalm ==
  ASSUME IInv, CalmInv, NEW j \in Jobs, CalmTurn(j), Finish(j)
  PROVE  CalmInv'
<1> DEFINE f == jobFile[j]
<1>1. /\ state[j] = "finishing" /\ mFinishedTimer' /\ OnJobFinished(j)
      /\ mVisitedFilesByJob' = [mVisitedFilesByJob EXCEPT ![j] = {}]
      /\ seen' = [seen EXCEPT ![j] = NoVisit]
      /\ UNCHANGED <<jobFile, loop, request, todo, fsEvents, mModifiedFilesTimer, mtime,
                     mSymbols, mPendingDirtyFiles, mAborted>>
  BY DEF Finish, fileSystem, database, loopVars
<1>2. f \in Sources /\ mJobs[f] = j /\ mPendingData[f] = None
  <2>1. f \in Sources /\ mJobs[f] = j
    BY <1>1 DEF CalmInv, JobsInTable, Running, IInv, TypeOK, JobType
  <2> QED
    BY <2>1, NoneAssumption DEF IInv, CoreInv, ResultHasNoJob
<1>3. /\ mVisitedFilesByJob'[j] = {}
      /\ \A k \in Jobs \ {j} : mVisitedFilesByJob'[k] = mVisitedFilesByJob[k] /\ seen'[k] = seen[k]
  BY <1>1 DEF IInv, TypeOK, ClaimsType, ParseType
<1>4. CASE JobAborted(j)
  <2>1. /\ mVisitedFiles' = mVisitedFiles \ mVisitedFilesByJob[j]
        /\ state'[j] \in {"dead", "restarting"} /\ \A k \in Jobs \ {j} : state'[k] = state[k]
        /\ mJobs'[f] = None /\ \A g \in Sources \ {f} : mJobs'[g] = mJobs[g]
        /\ mSources' = mSources /\ mPendingData' = mPendingData
    BY <1>2, <1>4
    DEF JobAborted, ReleaseClaims, AfterAbort, RemoveJob, IInv, TypeOK, JobType, TableType
  <2>2. /\ StirredIsQuiet' /\ JobsInTable' /\ RestartIsAlone' /\ RequestIsCalm'
        /\ WriteIsComing' /\ TodoIsIdle'
    BY <1>1, <2>1, EndKeepsCalm DEF Requested
  <2>3. ReadingInv'
    BY <1>1, <1>3, <2>1 DEF CalmInv, ReadingInv, Claiming
  <2>4. HoldInv'
    BY <1>3, <2>1 DEF CalmInv, HoldInv, OneIndexerPerFile, Claiming
  <2>5. ClaimsKept'
    <3> SUFFICES ASSUME NEW x \in mVisitedFiles, x \notin mVisitedFilesByJob[j]
                 PROVE  ClaimKept(x)'
      BY <2>1 DEF ClaimsKept
    <3>1. ClaimKept(x)
      BY DEF CalmInv, ClaimsKept
    <3> QED
      BY <1>1, <1>3, <2>1, <3>1 DEF ClaimKept
  <2> QED
    BY <2>2, <2>3, <2>4, <2>5 DEF CalmInv
<1>5. CASE JobSucceeded(j)
  <2>1. /\ mVisitedFiles' = mVisitedFiles
        /\ state'[j] = "dead" /\ \A k \in Jobs \ {j} : state'[k] = state[k]
        /\ mJobs'[f] = None /\ mPendingData'[f] = ResultOf(j)
        /\ \A g \in Sources \ {f} : /\ mJobs'[g] = mJobs[g] /\ mPendingData'[g] = mPendingData[g]
                                     /\ mSources'[g] = mSources[g]
    BY <1>2, <1>5 DEF JobSucceeded, IInv, TypeOK, JobType, TableType
  <2>2. /\ StirredIsQuiet' /\ JobsInTable' /\ RestartIsAlone' /\ RequestIsCalm'
        /\ WriteIsComing' /\ TodoIsIdle'
    BY <1>1, <2>1, EndKeepsCalm DEF Requested
  <2>3. ReadingInv'
    BY <1>1, <1>3, <2>1 DEF CalmInv, ReadingInv, Claiming
  <2>4. HoldInv'
    BY <1>3, <2>1 DEF CalmInv, HoldInv, OneIndexerPerFile, Claiming
  <2>5. ClaimsKept'
    <3> SUFFICES ASSUME NEW x \in mVisitedFiles
                 PROVE  ClaimKept(x)'
      BY <2>1 DEF ClaimsKept
    <3>1. CASE x \in mVisitedFilesByJob[j]
      <4>1. x \in Files /\ seen[j][x] # 0
        BY <1>1, <3>1 DEF CalmInv, ReadingInv, Claiming, IInv, TypeOK, ClaimsType
      <4>2. mPendingData'[f].symbols[x] # 0
        BY <2>1, <3>1, <4>1 DEF ResultOf
      <4>3. mPendingData'[f] # None
        <5>1. ResultOf(j) \in IndexData
          BY <1>1, ResultIsData DEF IInv
        <5> QED
          BY <2>1, <5>1, NoneAssumption
      <4> QED
        BY <1>2, <4>2, <4>3 DEF ClaimKept
    <3>2. CASE x \notin mVisitedFilesByJob[j]
      <4>1. ClaimKept(x)
        BY DEF CalmInv, ClaimsKept
      <4>2. \A g \in Sources : mPendingData[g] # None => mPendingData'[g] = mPendingData[g]
        BY <1>2, <2>1
      <4> QED
        BY <1>1, <1>3, <2>1, <3>2, <4>1, <4>2 DEF ClaimKept
    <3> QED
      BY <3>1, <3>2
  <2> QED
    BY <2>2, <2>3, <2>4, <2>5 DEF CalmInv
<1> QED
  BY <1>1, <1>4, <1>5 DEF OnJobFinished

LEMMA StartPendingCalm ==
  ASSUME IInv, CalmInv, NEW j \in Jobs, CalmTurn(j), StartPending(j)
  PROVE  CalmInv'
<1> DEFINE f == jobFile[j]
           base == [state EXCEPT ![j] = "dead"]
<1>1. /\ state[j] = "restarting" /\ Index(f, pending[j], base)
      /\ UNCHANGED <<loop, request, todo, fsEvents, mModifiedFilesTimer, mtime, seen,
                     mVisitedFiles, mSymbols, mPendingDirtyFiles>>
  BY DEF StartPending, fileSystem, database, loopVars, parseVars
<1>2. f \in Sources /\ pending[j] \in SourceInformation
  BY <1>1 DEF IInv, TypeOK, JobType
<1>3. BaseOK(base) /\ base[j] = "dead" /\ \A k \in Jobs \ {j} : base[k] = state[k]
  BY <1>1 DEF BaseOK, IInv, TypeOK, JobType, JobStates
<1> HIDE DEF base
<1>4. ~Stirred'
  BY <1>1 DEF Stirred, CalmInv, StirredIsQuiet
<1>5. \A k \in Jobs : base[k] = "restarting" => jobFile[k] # f
  BY <1>1, <1>3 DEF CalmInv, RestartIsAlone
<1>6. mPendingData[f] = None
  BY <1>1 DEF CalmInv, RestartIsAlone
<1>7. loop = "compile" => request.file # f /\ request.file \in Sources
  BY DEF CalmTurn, IInv, TypeOK, LoopType, IndexRequests
<1>8. loop = "reindex" => f \notin todo
  BY <1>1 DEF CalmInv, TodoIsIdle
<1> HIDE DEF f
<1> QED
  BY <1>1, <1>2, <1>3, <1>4, <1>5, <1>6, <1>7, <1>8, IndexKeepsCalm

LEMMA JobStepCalm ==
  ASSUME IInv, CalmInv, NEW j \in Jobs, CalmTurn(j), JobStep(j)
  PROVE  CalmInv'
BY ExecuteCalm, ParseCalm, VisitCalm, EndVisitCalm, FinishCalm, StartPendingCalm DEF JobStep

---------------------------------------------------------------------------
(* The event loop.                                                         *)

LEMMA IndexRequestCalm == IInv /\ CalmInv /\ IndexRequest => CalmInv'
<1> SUFFICES ASSUME IInv, CalmInv, IndexRequest PROVE CalmInv'
  OBVIOUS
<1> DEFINE f == request.file
<1>1. /\ loop = "compile" /\ Index(f, request.source, state) /\ loop' = "idle"
      /\ UNCHANGED <<fsEvents, mModifiedFilesTimer, mtime, seen, mVisitedFiles, mSymbols,
                     mPendingDirtyFiles>>
  BY DEF IndexRequest, fileSystem, database, parseVars
<1>2. f \in Sources /\ request.source \in SourceInformation
  BY <1>1 DEF IInv, TypeOK, LoopType, IndexRequests
<1>3. ~Stirred'
  BY <1>1 DEF Stirred, CalmInv, StirredIsQuiet
<1>4. ~Requested(f) \/ mJobs[f] # None
  BY <1>1 DEF CalmInv, RequestIsCalm
<1>5. \A k \in Jobs : state[k] = "restarting" => jobFile[k] # f
  BY <1>4 DEF CalmInv, RestartIsAlone
<1>6. mJobs[f] = None => mPendingData[f] = None
  BY <1>2, <1>4 DEF IInv, CoreInv, ResultsMatchSource
<1> HIDE DEF f
<1> QED
  BY <1>1, <1>2, <1>3, <1>5, <1>6, StateIsBase, IndexKeepsCalm

\* The jobs, the claims and what is kept of them stay as they are.
LEMMA ClaimsFrame ==
  ASSUME CalmInv,
         UNCHANGED <<mtime, seen, state, jobFile, mVisitedFiles, mVisitedFilesByJob, mPendingData,
                     mSources, mJobs, mSymbols, mPendingDirtyFiles>>
  PROVE  ReadingInv' /\ HoldInv' /\ ClaimsKept' /\ JobsInTable' /\ RestartIsAlone'
<1> USE DEF CalmInv
<1>1. ReadingInv' /\ HoldInv'
  BY DEF ReadingInv, HoldInv, OneIndexerPerFile
<1>2. ClaimsKept'
  BY DEF ClaimsKept, ClaimKept
<1>3. JobsInTable' /\ RestartIsAlone'
  BY DEF JobsInTable, RestartIsAlone, Requested
<1> QED
  BY <1>1, <1>2, <1>3

LEMMA ReindexSourceCalm ==
  ASSUME IInv, CalmInv, NEW f \in Sources, ReindexSource(f)
  PROVE  CalmInv'
<1>1. /\ loop = "reindex" /\ f \in todo /\ todo' = todo \ {f}
      /\ UNCHANGED <<loop, fsEvents, mModifiedFilesTimer, mtime, seen, mVisitedFiles, mSymbols,
                     mPendingDirtyFiles>>
  BY DEF ReindexSource, fileSystem, database, parseVars
<1>2. ~Stirred'
  BY <1>1 DEF Stirred, CalmInv, StirredIsQuiet
<1>3. mPendingData[f] = None /\ \A j \in Jobs : jobFile[j] = f => state[j] = "dead"
  BY <1>1 DEF CalmInv, TodoIsIdle
<1>4. CASE Requested(f)
  <2>1. mSources[f] \in SourceInformation /\ Index(f, mSources[f], state)
    BY <1>4 DEF ReindexSource, Requested, IInv, TypeOK, TableType
  <2> QED
    BY <1>1, <1>2, <1>3, <2>1, StateIsBase, IndexKeepsCalm
<1>5. CASE ~Requested(f)
  <2>1. UNCHANGED <<mSources, mJobs, mPendingData, mFinishedTimer, state, jobFile,
                    mVisitedFilesByJob>>
    BY <1>5 DEF ReindexSource, bookkeeping
  <2>2. ReadingInv' /\ HoldInv' /\ ClaimsKept' /\ JobsInTable' /\ RestartIsAlone'
    BY <1>1, <2>1, ClaimsFrame
  <2>3. StirredIsQuiet' /\ RequestIsCalm'
    BY <1>1, <1>2 DEF StirredIsQuiet, RequestIsCalm
  <2>4. WriteIsComing' /\ TodoIsIdle'
    BY <1>1, <2>1 DEF CalmInv, WriteIsComing, TodoIsIdle
  <2> QED
    BY <2>2, <2>3, <2>4 DEF CalmInv
<1> QED
  BY <1>4, <1>5

LEMMA TimerCalm ==
  ASSUME CalmInv, FinishedTimeout \/ Save \/ \E x \in Files : OnFileModified(x)
  PROVE  CalmInv'
<1>1. UNCHANGED <<mtime, seen, state, jobFile, mVisitedFiles, mVisitedFilesByJob, mPendingData,
                  mSources, mJobs, mSymbols, mPendingDirtyFiles, request, todo>>
  BY DEF FinishedTimeout, Save, OnFileModified, fileSystem, database, claims, loopVars,
         parseVars, jobVars, bookkeeping
<1>2. ReadingInv' /\ HoldInv' /\ ClaimsKept' /\ JobsInTable' /\ RestartIsAlone'
  BY <1>1, ClaimsFrame
<1>3. CASE FinishedTimeout
  <2>1. loop = "idle" /\ mFinishedTimer /\ loop' = "finish" /\ UNCHANGED <<fsEvents, mModifiedFilesTimer>>
    BY <1>3 DEF FinishedTimeout, fileSystem
  <2> QED
    BY <1>1, <1>2, <2>1 DEF CalmInv, StirredIsQuiet, Stirred, RequestIsCalm, WriteIsComing, TodoIsIdle
<1>4. CASE Save
  <2>1. loop = "save" /\ loop' = "idle" /\ UNCHANGED <<fsEvents, mModifiedFilesTimer, mFinishedTimer>>
    BY <1>4 DEF Save, fileSystem
  <2> QED
    BY <1>1, <1>2, <2>1 DEF CalmInv, StirredIsQuiet, Stirred, RequestIsCalm, WriteIsComing, TodoIsIdle
<1>5. ASSUME NEW x \in Files, OnFileModified(x)
      PROVE  CalmInv'
  <2>1. Stirred /\ loop' = loop /\ mFinishedTimer' = mFinishedTimer
    BY <1>5 DEF OnFileModified, Stirred, loopVars
  <2> QED
    BY <1>1, <1>2, <2>1
    DEF CalmInv, StirredIsQuiet, RequestIsCalm, WriteIsComing, TodoIsIdle
<1> QED
  BY <1>3, <1>4, <1>5

\* finish(): write() keeps what the jobs have claimed, and drops what is dirty.
LEMMA FinishProjectCalm == IInv /\ CalmInv /\ FinishProject => CalmInv'
<1> SUFFICES ASSUME IInv, CalmInv, FinishProject PROVE CalmInv'
  OBVIOUS
<1>1. /\ loop = "finish" /\ loop' \in {"save", "idle"}
      /\ UNCHANGED <<mtime, seen, state, jobFile, mVisitedFiles, mVisitedFilesByJob, mSources, mJobs,
                     fsEvents, mModifiedFilesTimer, mFinishedTimer>>
  BY DEF FinishProject, fileSystem, claims, parseVars, jobVars
<1>2. StirredIsQuiet' /\ RequestIsCalm' /\ TodoIsIdle'
  BY <1>1 DEF CalmInv, StirredIsQuiet, Stirred, RequestIsCalm, TodoIsIdle
<1>3. CASE JobsOfProject = {}
  <2>1. /\ mSymbols' = Merged(Dirtied(mPendingDirtyFiles)) /\ mPendingDirtyFiles' = {}
        /\ mPendingData' = [f \in Sources |-> None]
    BY <1>3 DEF FinishProject, Write, WriteSymbols
  <2>2. ReadingInv' /\ HoldInv' /\ JobsInTable'
    BY <1>1 DEF CalmInv, ReadingInv, HoldInv, OneIndexerPerFile, JobsInTable
  <2>3. \A f \in Sources : mPendingData'[f] = None
    BY <2>1
  <2>4. WriteIsComing'
    BY <2>3 DEF WriteIsComing
  <2>5. RestartIsAlone'
    <3>1. \A j \in Jobs : state[j] = "restarting" => jobFile[j] \in Sources
      BY DEF IInv, TypeOK, JobType
    <3> QED
      BY <1>1, <2>3, <3>1 DEF CalmInv, RestartIsAlone, Requested
  <2>6. ClaimsKept'
    <3> SUFFICES ASSUME NEW x \in mVisitedFiles PROVE ClaimKept(x)'
      BY <1>1 DEF ClaimsKept
    <3>1. x \in Files /\ ClaimKept(x)
      BY DEF IInv, TypeOK, ClaimsType, CalmInv, ClaimsKept
    <3>2. mSymbols'[x] = Dirtied(mPendingDirtyFiles)[x] \cup ({d.symbols[x] : d \in Results} \ {0})
      BY <2>1, <3>1 DEF Merged
    <3>3. ASSUME NEW j \in Jobs, x \in mVisitedFilesByJob[j]
          PROVE  ClaimKept(x)'
      BY <1>1, <3>3 DEF ClaimKept
    <3>4. ASSUME NEW f \in Sources, mPendingData[f] # None, mPendingData[f].symbols[x] # 0
          PROVE  ClaimKept(x)'
      <4>1. mPendingData[f] \in Results
        BY <3>4 DEF Results
      <4>2. mPendingData[f].symbols[x] \in mSymbols'[x]
        BY <3>2, <3>4, <4>1
      <4> QED
        BY <2>1, <4>2 DEF ClaimKept
    <3>5. CASE mSymbols[x] # {} /\ x \notin mPendingDirtyFiles
      <4>1. Dirtied(mPendingDirtyFiles)[x] = mSymbols[x]
        BY <3>1, <3>5 DEF Dirtied
      <4> QED
        BY <2>1, <3>2, <3>5, <4>1 DEF ClaimKept
    <3> QED
      BY <3>1, <3>3, <3>4, <3>5 DEF ClaimKept
  <2> QED
    BY <1>2, <2>2, <2>4, <2>5, <2>6 DEF CalmInv
<1>4. CASE JobsOfProject # {}
  <2>1. UNCHANGED <<mSymbols, mPendingDirtyFiles, mPendingData>>
    BY <1>4 DEF FinishProject, database
  <2>2. ReadingInv' /\ HoldInv' /\ ClaimsKept' /\ JobsInTable' /\ RestartIsAlone'
    BY <1>1, <2>1, ClaimsFrame
  <2>3. \E g \in Sources : mJobs[g] # None
    BY <1>4 DEF JobsOfProject
  <2>4. WriteIsComing'
    BY <1>1, <2>3 DEF WriteIsComing
  <2> QED
    BY <1>2, <2>2, <2>4 DEF CalmInv
<1> QED
  BY <1>3, <1>4

LEMMA EndReindexCalm == IInv /\ CalmInv /\ EndReindex => CalmInv'
<1> SUFFICES ASSUME IInv, CalmInv, EndReindex PROVE CalmInv'
  OBVIOUS
<1>1. /\ loop = "reindex" /\ loop' = "idle"
      /\ UNCHANGED <<mtime, seen, state, jobFile, mVisitedFiles, mVisitedFilesByJob, mPendingData,
                     mSources, mJobs, fsEvents, mModifiedFilesTimer, mFinishedTimer>>
  BY DEF EndReindex, fileSystem, claims, parseVars, jobVars, bookkeeping
<1>2. StirredIsQuiet' /\ RequestIsCalm' /\ TodoIsIdle' /\ WriteIsComing'
  BY <1>1 DEF CalmInv, StirredIsQuiet, Stirred, RequestIsCalm, TodoIsIdle, WriteIsComing
<1>3. CASE indexed
  <2>1. UNCHANGED <<mSymbols, mPendingDirtyFiles>>
    BY <1>3 DEF EndReindex
  <2> QED
    BY <1>1, <1>2, <2>1, ClaimsFrame DEF CalmInv
<1>4. CASE ~indexed
  <2>1. mSymbols' = Dirtied(mPendingDirtyFiles) /\ mPendingDirtyFiles' = {}
    BY <1>4 DEF EndReindex
  <2>2. ReadingInv' /\ HoldInv' /\ JobsInTable' /\ RestartIsAlone'
    BY <1>1 DEF CalmInv, ReadingInv, HoldInv, OneIndexerPerFile, JobsInTable, RestartIsAlone,
                Requested
  <2>3. ClaimsKept'
    <3> SUFFICES ASSUME NEW x \in mVisitedFiles PROVE ClaimKept(x)'
      BY <1>1 DEF ClaimsKept
    <3>1. x \in Files /\ ClaimKept(x)
      BY DEF IInv, TypeOK, ClaimsType, CalmInv, ClaimsKept
    <3>2. x \notin mPendingDirtyFiles => mSymbols'[x] = mSymbols[x]
      BY <2>1, <3>1 DEF Dirtied
    <3> QED
      BY <1>1, <2>1, <3>1, <3>2 DEF ClaimKept
  <2> QED
    BY <1>2, <2>2, <2>3 DEF CalmInv
<1> QED
  BY <1>3, <1>4

---------------------------------------------------------------------------
(* Changes, and the requests of clients.                                   *)

\* A project at rest has no result that waits for write().
LEMMA RestHasNoResults ==
  ASSUME IInv, CalmInv, loop = "idle", ~mFinishedTimer, \A j \in Jobs : state[j] = "dead"
  PROVE  \A f \in Sources : mPendingData[f] = None
<1>1. \A f \in Sources : mJobs[f] = None
  <2> SUFFICES ASSUME NEW f \in Sources, mJobs[f] # None
               PROVE  FALSE
    OBVIOUS
  <2>1. mJobs[f] \in Jobs /\ state[mJobs[f]] \in Running \cup {"queued"}
    BY DEF IInv, TypeOK, TableType, CoreInv, JobTable
  <2> QED
    BY <2>1 DEF Running
<1> QED
  BY <1>1 DEF CalmInv, WriteIsComing

LEMMA MarkDirtyCalm ==
  ASSUME IInv, CalmInv, NEW modified, MarkDirty(modified), ~Stirred',
         loop = "idle", ~mFinishedTimer, \A j \in Jobs : state[j] = "dead"
  PROVE  CalmInv'
<1> DEFINE dirty == DirtyFiles(modified)
<1>1. /\ mVisitedFiles' = mVisitedFiles \ dirty
      /\ mPendingDirtyFiles' = mPendingDirtyFiles \cup dirty
      /\ loop' = "reindex" /\ todo' = dirty \cap Sources
      /\ UNCHANGED <<mtime, seen, state, jobFile, mVisitedFilesByJob, mPendingData, mSources, mJobs,
                     mSymbols>>
  BY DEF MarkDirty, fileSystem, parseVars, jobVars, bookkeeping
<1> HIDE DEF dirty
<1>2. \A j \in Jobs : mVisitedFilesByJob[j] = {}
  BY DEF CalmInv, HoldInv, Claiming
<1>3. \A f \in Sources : mPendingData[f] = None
  BY RestHasNoResults
<1>4. StirredIsQuiet' /\ RequestIsCalm' /\ TodoIsIdle' /\ WriteIsComing'
  BY <1>1, <1>3 DEF StirredIsQuiet, RequestIsCalm, TodoIsIdle, WriteIsComing
<1>5. ReadingInv' /\ JobsInTable' /\ RestartIsAlone'
  BY <1>1 DEF CalmInv, ReadingInv, JobsInTable, RestartIsAlone, Running, Claiming
<1>6. HoldInv'
  BY <1>1, <1>2 DEF HoldInv, OneIndexerPerFile
<1>7. ClaimsKept'
  BY <1>1 DEF CalmInv, ClaimsKept, ClaimKept
<1> QED
  BY <1>4, <1>5, <1>6, <1>7 DEF CalmInv

LEMMA DirtyingCalm ==
  ASSUME IInv, CalmInv,
         \/ fsEvents = {} /\ OnFilesModifiedTimeout
         \/ \E xs \in SUBSET Files : CalmReindex(xs)
  PROVE  CalmInv'
<1>1. CASE fsEvents = {} /\ OnFilesModifiedTimeout
  <2>1. MarkDirty(mModifiedFiles) /\ Stirred /\ ~Stirred'
    BY <1>1 DEF OnFilesModifiedTimeout, MarkDirty, fileSystem, Stirred
  <2> QED
    BY <2>1, MarkDirtyCalm DEF CalmInv, StirredIsQuiet
<1>2. ASSUME NEW xs \in SUBSET Files, CalmReindex(xs)
      PROVE  CalmInv'
  <2>1. PICK modified : MarkDirty(modified)
    BY <1>2 DEF CalmReindex, Reindex
  <2>2. ~Stirred' /\ loop = "idle" /\ ~mFinishedTimer /\ \A j \in Jobs : state[j] = "dead"
    BY <1>2 DEF CalmReindex, Quiet, Reindex, MarkDirty, fileSystem, Stirred
  <2> QED
    BY <2>1, <2>2, MarkDirtyCalm
<1> QED
  BY <1>1, <1>2

LEMMA EditCalm ==
  ASSUME IInv, CalmInv, NEW xs \in SUBSET Files, CalmEdit(xs)
  PROVE  CalmInv'
<1>1. /\ loop = "idle" /\ ~mFinishedTimer /\ \A j \in Jobs : state[j] = "dead"
      /\ UNCHANGED <<seen, state, jobFile, mVisitedFiles, mVisitedFilesByJob, mPendingData, mSources,
                     mJobs, mSymbols, mPendingDirtyFiles, mFinishedTimer, loop, request, todo>>
  BY DEF CalmEdit, Quiet, Edit, database, claims, loopVars, parseVars, jobVars, bookkeeping
<1>2. \A x \in Files : mtime'[x] # 0
  <2>1. mtime' = [x \in Files |-> IF x \in xs THEN clock + 1 ELSE mtime[x]] /\ clock \in Nat
    BY DEF CalmEdit, Edit, IInv, TypeOK, FileSystemType, Times
  <2>2. clock + 1 # 0
    BY <2>1
  <2> QED
    BY <2>1, <2>2 DEF CalmInv, ReadingInv
<1>3. ReadingInv'
  BY <1>1, <1>2 DEF ReadingInv, Claiming
<1>4. HoldInv' /\ JobsInTable' /\ RestartIsAlone'
  BY <1>1 DEF CalmInv, HoldInv, OneIndexerPerFile, JobsInTable, RestartIsAlone, Requested
<1>5. ClaimsKept'
  BY <1>1 DEF CalmInv, ClaimsKept, ClaimKept
<1>6. StirredIsQuiet' /\ RequestIsCalm' /\ TodoIsIdle' /\ WriteIsComing'
  BY <1>1 DEF CalmInv, StirredIsQuiet, RequestIsCalm, TodoIsIdle, WriteIsComing
<1> QED
  BY <1>3, <1>4, <1>5, <1>6 DEF CalmInv

LEMMA RequestCalm ==
  ASSUME IInv, CalmInv, NEW f \in Sources, NEW c \in Args, CalmRequest(f, c)
  PROVE  CalmInv'
<1>1. /\ loop = "idle" /\ ~Stirred
      /\ ~Requested(f) \/ (mJobs[f] # None /\ Started(mJobs[f]))
      /\ \/ UNCHANGED <<loop, request>>
         \/ loop' = "compile" /\ request'.file = f
      /\ UNCHANGED <<mtime, seen, state, jobFile, mVisitedFiles, mVisitedFilesByJob, mPendingData,
                     mSources, mJobs, mSymbols, mPendingDirtyFiles, mFinishedTimer, fsEvents,
                     mModifiedFilesTimer>>
  BY DEF CalmRequest, ProcessSourceFile, Stirred, fileSystem, database, claims, parseVars,
         jobVars, bookkeeping
<1>2. ReadingInv' /\ HoldInv' /\ ClaimsKept' /\ JobsInTable' /\ RestartIsAlone'
  BY <1>1, ClaimsFrame
<1>3. StirredIsQuiet' /\ TodoIsIdle' /\ WriteIsComing'
  BY <1>1 DEF CalmInv, StirredIsQuiet, Stirred, TodoIsIdle, WriteIsComing
<1>4. RequestIsCalm'
  BY <1>1 DEF RequestIsCalm, Requested, Started
<1> QED
  BY <1>2, <1>3, <1>4 DEF CalmInv

LEMMA StutterCalm ==
  ASSUME CalmInv, UNCHANGED vars
  PROVE  CalmInv'
<1>1. UNCHANGED <<mtime, seen, state, jobFile, mVisitedFiles, mVisitedFilesByJob, mPendingData,
                  mSources, mJobs, mSymbols, mPendingDirtyFiles, mFinishedTimer, fsEvents,
                  mModifiedFilesTimer, loop, request, todo>>
  BY DEF vars, fileSystem, database, claims, loopVars, parseVars, jobVars, bookkeeping
<1>2. ReadingInv' /\ HoldInv' /\ ClaimsKept' /\ JobsInTable' /\ RestartIsAlone'
  BY <1>1, ClaimsFrame
<1>3. StirredIsQuiet' /\ TodoIsIdle' /\ WriteIsComing' /\ RequestIsCalm'
  BY <1>1 DEF CalmInv, StirredIsQuiet, Stirred, TodoIsIdle, WriteIsComing, RequestIsCalm,
              Requested, Started
<1> QED
  BY <1>2, <1>3 DEF CalmInv

LEMMA CalmStep == IInv /\ CalmInv /\ [CalmNext]_vars => CalmInv'
<1> SUFFICES ASSUME IInv, CalmInv, [CalmNext]_vars PROVE CalmInv'
  OBVIOUS
<1>1. ASSUME NEW j \in Jobs, CalmTurn(j), JobStep(j) PROVE CalmInv'
  BY <1>1, JobStepCalm
<1>2. CASE IndexRequest \/ FinishProject \/ EndReindex
  BY <1>2, IndexRequestCalm, FinishProjectCalm, EndReindexCalm
<1>3. CASE FinishedTimeout \/ Save \/ \E x \in Files : OnFileModified(x)
  BY <1>3, TimerCalm
<1>4. ASSUME NEW f \in Sources, ReindexSource(f) PROVE CalmInv'
  BY <1>4, ReindexSourceCalm
<1>5. CASE \/ fsEvents = {} /\ OnFilesModifiedTimeout
           \/ \E xs \in SUBSET Files : CalmReindex(xs)
  BY <1>5, DirtyingCalm
<1>6. ASSUME NEW xs \in SUBSET Files, CalmEdit(xs) PROVE CalmInv'
  BY <1>6, EditCalm
<1>7. ASSUME NEW f \in Sources, NEW c \in Args, CalmRequest(f, c) PROVE CalmInv'
  BY <1>7, RequestCalm
<1>8. CASE UNCHANGED vars
  BY <1>8, StutterCalm
<1> QED
  BY <1>1, <1>2, <1>3, <1>4, <1>5, <1>6, <1>7, <1>8 DEF CalmNext, CalmLoopStep

\* A step of the calm project is one of the project.
LEMMA CalmIsProject == [CalmNext]_vars => [Next]_vars
  BY DEF CalmNext, CalmLoopStep, CalmRequest, CalmEdit, CalmReindex, Next, LoopStep, Client

\* What the calm project keeps: its jobs alone hold claims, and no result is
\* dropped while the files it has are claimed.
THEOREM CalmInvariant == CalmSpec => [](IInv /\ CalmInv)
<1>1. Init => IInv /\ CalmInv
  BY InitIInv, CalmInit
<1>2. IInv /\ CalmInv /\ [CalmNext]_vars => (IInv /\ CalmInv)'
  <2>1. IInv /\ [CalmNext]_vars => IInv'
    BY CalmIsProject, TypeStep, CoreStep DEF IInv
  <2> QED
    BY <2>1, CalmStep
<1> QED
  BY <1>1, <1>2, PTL DEF CalmSpec

\* In a calm world no two jobs hold a claim on one file (Project::visitFile), for
\* any sources, headers, arguments and jobs.
THEOREM OneIndexerPerFileHolds == CalmSpec => []OneIndexerPerFile
<1>1. CalmInv => OneIndexerPerFile
  BY DEF CalmInv, HoldInv
<1> QED
  BY <1>1, CalmInvariant, PTL

\* In a calm world a claim is never orphaned: the job that has it is alive, or its
\* result waits for write(), or the symbols are in the index.
THEOREM ClaimsAccountedForHolds == CalmSpec => []ClaimsAccountedFor
<1>1. CalmInv => ClaimsAccountedFor
  <2> SUFFICES ASSUME CalmInv, NEW x \in mVisitedFiles
               PROVE  \/ \E j \in Jobs : x \in mVisitedFilesByJob[j]
                      \/ \E d \in Results : d.symbols[x] # 0
                      \/ mSymbols[x] # {}
    BY DEF ClaimsAccountedFor
  <2>1. ClaimKept(x)
    BY DEF CalmInv, ClaimsKept
  <2>2. \A f \in Sources : mPendingData[f] # None => mPendingData[f] \in Results
    BY DEF Results
  <2> QED
    BY <2>1, <2>2 DEF ClaimKept
<1> QED
  BY <1>1, CalmInvariant, PTL
===========================================================================
