----------------------------- MODULE Project ------------------------------
(***************************************************************************)
(* Project and its IndexerJobs (src/src/Project.cpp, IndexerJob.cpp): the  *)
(* index of one source tree, kept up to date while it is edited.           *)
(*                                                                         *)
(* Three kinds of threads meet in a Project.  The event loop answers       *)
(* compile requests, file-system events, timers and "rc --unload"; the     *)
(* workers of the indexer pool run IndexerJobs.  Every section the code    *)
(* runs under Project::mMutex is one action, and where the code lets go of *)
(* the mutex and takes it again another action can come between.           *)
(*                                                                         *)
(* Abstractions.  The content of a file is the moment of its last change,  *)
(* and a symbol is the version of the file it was read from.  What a       *)
(* source includes does not change.  The thread pool runs the queued jobs  *)
(* in any order and any number at a time (ThreadPool.tla is about the rest)*)
(* and the timers fire at any time after they are started.                 *)
(***************************************************************************)
EXTENDS Integers, FiniteSets

CONSTANTS Sources,    \* the files that are compiled
          Headers,    \* the files they include
          Includes,   \* Includes[f]: the headers source f includes
          Dirs,       \* the directories
          Dir,        \* Dir[x]: the directory of file x
          Args,       \* the compiler arguments a request may carry
          Jobs,       \* the IndexerJob objects
          None        \* a null shared_ptr, a key that is not in a map

Files == Sources \cup Headers

ASSUME IncludesAssumption == Includes \in [Sources -> SUBSET Headers]
ASSUME DirAssumption == Dir \in [Files -> Dirs]

Times == Nat
SourceInformation == [args : Args, parsed : Times]
IndexRequests == [file : Sources, source : SourceInformation]
IndexData == [args : Args,                      \* ghost: what the job ran with
              symbols : [Files -> Times],       \* 0: not visited by this job
              dependencies : [Files -> SUBSET Sources]]

ASSUME NoneAssumption ==
    None \notin Sources \cup Args \cup Jobs \cup SourceInformation \cup IndexRequests
               \cup IndexData

VARIABLES
    \* the file system
    clock,                \* the time, which moves when a file changes
    mtime,                \* when each file last changed
    fsEvents,             \* changes the watcher has not reported yet
    \* Project, under mMutex
    mSources,             \* the known sources, their arguments and parse times
    mJobs,                \* the job of each source
    mPendingJobs,         \* what to index a source with once its job died
    mPendingData,         \* finished jobs' results that write() has not merged
    mVisitedFiles,        \* the files some job has claimed
    mVisitedFilesByJob,   \* what each job claimed
    mModifiedFiles,       \* changed files waiting for the 200 ms timer
    mPendingDirtyFiles,   \* files whose symbols write() must drop first
    mDependencies,        \* the sources to reindex when a file changes
    mJobCounter,          \* jobs since the last write(), for the progress report
    mWatchedPaths,        \* the directories being watched
    mFinishedTimer,       \* is the 2000 ms timer of finish() running?
    mModifiedFilesTimer,  \* is the 200 ms timer of onFilesModifiedTimeout()?
    fileManager,          \* isValid()
    \* under mSymbolsLock
    mSymbols,             \* the versions of each file that have symbols in the index
    \* Location's table, and the project file on disk
    fileIds, saved,
    \* the event-loop thread
    loop, todo, indexed, request,
    \* IndexerJob
    state, jobFile, mArgs, mAborted, mParseTime, seen, left, unit, pending

fileSystem == <<clock, mtime, fsEvents>>
database == <<mSymbols, mDependencies, mPendingDirtyFiles, mWatchedPaths>>
claims == <<mVisitedFiles, mVisitedFilesByJob>>
loopVars == <<loop, todo, indexed, request>>
parseVars == <<mParseTime, seen, left, unit>>
jobVars == <<state, jobFile, mArgs, mAborted, pending>>
bookkeeping == <<mSources, mJobs, mPendingJobs, mPendingData, mJobCounter>>

vars == <<fileSystem, database, claims, loopVars, parseVars, jobVars, bookkeeping,
          mModifiedFiles, mFinishedTimer, mModifiedFilesTimer, fileManager,
          fileIds, saved>>

\* "queued": in the pool; "parsing", "visiting", "finishing": in execute();
\* "restarting": onJobFinished() has let go of mMutex and not called index() yet.
Running == {"parsing", "visiting", "finishing"}
JobStates == {"dead", "queued", "restarting"} \cup Running

Requested(f) == mSources[f] # None
NoVisit == [x \in Files |-> 0]

---------------------------------------------------------------------------
(* index(): under mMutex, called by the event loop and, for a pending job, *)
(* by a pool thread.                                                       *)

\* IndexerJob::abortIfStarted() returns whether the job is aborted.
Started(j) == state[j] \in Running
AbortIfStarted(j) ==
    mAborted' = [mAborted EXCEPT ![j] = mAborted[j] \/ Started(j)]

RememberAlways(f, c) == mPendingJobs' = [mPendingJobs EXCEPT ![f] = c]    \* a mutant

RememberPending(f, c) ==
    mPendingJobs' = IF mAborted'[mJobs[f]] THEN [mPendingJobs EXCEPT ![f] = c]
                                           ELSE mPendingJobs

\* The source already has a job: abort it and remember the new arguments,
\* unless it has not begun; then the new arguments are dropped.
IndexAgain(f, c, base) ==
    /\ AbortIfStarted(mJobs[f])
    /\ RememberPending(f, c)
    /\ state' = base
    /\ UNCHANGED <<mSources, mJobs, mPendingData, mJobCounter, jobFile, mArgs,
                   mVisitedFilesByJob>>

KeepPendingData(f) == mPendingData                                \* a mutant

\* mPendingData.remove(fileId)
DropPendingData(f) == [mPendingData EXCEPT ![f] = None]

IndexNew(f, c, base) ==
    \E j \in Jobs :
        /\ base[j] = "dead"
        /\ mSources' = [mSources EXCEPT ![f] = c]
        /\ mPendingData' = DropPendingData(f)
        /\ mJobs' = [mJobs EXCEPT ![f] = j]
        /\ mJobCounter' = mJobCounter + 1
        /\ state' = [base EXCEPT ![j] = "queued"]
        /\ jobFile' = [jobFile EXCEPT ![j] = f]
        /\ mArgs' = [mArgs EXCEPT ![j] = c.args]
        /\ mAborted' = [mAborted EXCEPT ![j] = FALSE]
        /\ mVisitedFilesByJob' = [mVisitedFilesByJob EXCEPT ![j] = {}]
        /\ UNCHANGED mPendingJobs

\* base: the states of the jobs once the caller's own step is accounted for.
Index(f, c, base) ==
    /\ mFinishedTimer' = TRUE
    /\ fileIds' = fileIds \cup {f}
    /\ \/ mJobs[f] # None /\ IndexAgain(f, c, base)
       \/ mJobs[f] = None /\ IndexNew(f, c, base)

---------------------------------------------------------------------------
(* The event loop: compile requests and "rc --unload".                     *)

\* Server::processSourceFile() up to the comparison with sourceInfo().
ProcessSourceFile(f, c) ==
    /\ loop = "idle"
    /\ fileManager' = TRUE
    /\ fileIds' = fileIds \cup {f}
    /\ IF Requested(f) /\ mSources[f].args = c
       THEN UNCHANGED <<loop, request>>
       ELSE /\ loop' = "compile"
            /\ request' = [file |-> f, source |-> [args |-> c, parsed |-> 0]]
    /\ UNCHANGED <<fileSystem, database, claims, todo, indexed, parseVars, jobVars,
                   bookkeeping, mModifiedFiles, mFinishedTimer, mModifiedFilesTimer,
                   saved>>

IndexRequest ==
    /\ loop = "compile"
    /\ Index(request.file, request.source, state)
    /\ loop' = "idle" /\ request' = None
    /\ UNCHANGED <<fileSystem, database, mVisitedFiles, todo, indexed, parseVars,
                   pending, mModifiedFiles, mModifiedFilesTimer, fileManager, saved>>

JobsOfProject == {mJobs[f] : f \in Sources} \ {None}

KeepJobs == mJobs                                                 \* a mutant

\* mJobs.clear()
ClearJobs == [f \in Sources |-> None]

Unload ==
    /\ loop = "idle" /\ fileManager
    /\ mAborted' = [j \in Jobs |-> mAborted[j] \/ j \in JobsOfProject]
    /\ mJobs' = ClearJobs
    /\ fileManager' = FALSE
    /\ UNCHANGED <<fileSystem, database, claims, loopVars, parseVars, state, jobFile,
                   mArgs, pending, mSources, mPendingJobs, mPendingData, mJobCounter,
                   mModifiedFiles, mFinishedTimer, mModifiedFilesTimer, fileIds,
                   saved>>

---------------------------------------------------------------------------
(* IndexerJob::execute() on a pool thread.                                 *)

\* A job that was aborted in the queue returns without onJobFinished().
Execute(j) ==
    /\ state[j] = "queued"
    /\ state' = [state EXCEPT ![j] = IF mAborted[j] THEN "dead" ELSE "parsing"]
    /\ mParseTime' = [mParseTime EXCEPT ![j] = IF mAborted[j] THEN 0 ELSE clock]
    /\ UNCHANGED <<fileSystem, database, claims, loopVars, seen, left, unit, jobFile,
                   mArgs, mAborted, pending, bookkeeping, mModifiedFiles,
                   mFinishedTimer, mModifiedFilesTimer, fileManager, fileIds, saved>>

FilesOf(f) == {f} \cup Includes[f]

\* parse() and diagnose().  clang reads the files; it may fail to make a unit,
\* with or without knowing the inclusions; clang_createIndex() may fail, which
\* aborts the job.
Outcomes == {"unit", "inclusions", "nothing", "no index"}

Parse(j, outcome) ==
    /\ state[j] = "parsing"
    /\ mAborted' = [mAborted EXCEPT ![j] = mAborted[j] \/ outcome = "no index"]
    /\ state' = [state EXCEPT ![j] = IF outcome = "unit" /\ ~mAborted[j]
                                     THEN "visiting" ELSE "finishing"]
    /\ unit' = [unit EXCEPT ![j] = outcome]
    /\ left' = [left EXCEPT ![j] = IF outcome = "unit" /\ ~mAborted[j]
                                   THEN FilesOf(jobFile[j]) ELSE {}]
    /\ seen' = [seen EXCEPT ![j] = mtime]
    /\ mParseTime' = [mParseTime EXCEPT ![j] = IF outcome \in {"unit", "inclusions"}
                                               THEN @ ELSE 0]
    /\ fileIds' = fileIds \cup FilesOf(jobFile[j])
    /\ UNCHANGED <<fileSystem, database, claims, loopVars, jobFile, mArgs, pending,
                    bookkeeping, mModifiedFiles, mFinishedTimer,
                   mModifiedFilesTimer, fileManager, saved>>

VisitAlways(j, x) ==                                              \* a mutant
    /\ mVisitedFiles' = mVisitedFiles
    /\ mVisitedFilesByJob' = [mVisitedFilesByJob EXCEPT ![j] = @ \cup {x}]

\* Project::visitFile(): the first job to reach a file claims it and indexes
\* it, the others pass over it.
VisitFile(j, x) ==
    /\ mVisitedFiles' = mVisitedFiles \cup {x}
    /\ mVisitedFilesByJob' = IF x \in mVisitedFiles THEN mVisitedFilesByJob
                             ELSE [mVisitedFilesByJob EXCEPT ![j] = @ \cup {x}]

\* indexVisitor() meets the next file.  It looks at mAborted and only then
\* calls visitFile(), so an aborted job may still claim.
Visit(j, x) ==
    /\ state[j] = "visiting" /\ x \in left[j]
    /\ VisitFile(j, x)
    /\ left' = [left EXCEPT ![j] = @ \ {x}]
    /\ UNCHANGED <<fileSystem, database, loopVars, mParseTime, seen, unit, jobVars,
                   bookkeeping, mModifiedFiles, mFinishedTimer, mModifiedFilesTimer,
                   fileManager, fileIds, saved>>

\* visit() ends, early if the job was aborted.
EndVisit(j) ==
    /\ state[j] = "visiting" /\ (left[j] = {} \/ mAborted[j])
    /\ state' = [state EXCEPT ![j] = "finishing"]
    /\ left' = [left EXCEPT ![j] = {}]
    /\ UNCHANGED <<fileSystem, database, claims, loopVars, mParseTime, seen, unit,
                   jobFile, mArgs, mAborted, pending, bookkeeping, mModifiedFiles,
                   mFinishedTimer, mModifiedFilesTimer, fileManager, fileIds, saved>>

(* Project::onJobFinished(), and what the pool thread does after it.       *)

DependenciesOf(j) ==
    [x \in Files |->
        IF \/ x = jobFile[j]
           \/ x \in Includes[jobFile[j]] /\ unit[j] \in {"unit", "inclusions"}
        THEN {jobFile[j]} ELSE {}]

ResultOf(j) ==
    [args |-> mArgs[j],
     symbols |-> [x \in Files |-> IF x \in mVisitedFilesByJob[j] THEN seen[j][x] ELSE 0],
     dependencies |-> DependenciesOf(j)]

KeepClaims(j) == mVisitedFiles                                    \* a mutant

\* mVisitedFiles -= mVisitedFilesByJob.take(job)
ReleaseClaims(j) == mVisitedFiles \ mVisitedFilesByJob[j]

\* mPendingJobs.take(fileId)
TakePending(f) == mPendingJobs[f]

RemoveAnyJob(j) == [mJobs EXCEPT ![jobFile[j]] = None]            \* a mutant

\* if (mJobs.value(fileId) == job) mJobs.remove(fileId)
RemoveJob(j) ==
    IF mJobs[jobFile[j]] = j THEN [mJobs EXCEPT ![jobFile[j]] = None] ELSE mJobs

RestartAlways(f) == "restarting"                                  \* a mutant

\* The pool thread goes on to call index() if there was a pending job.
AfterAbort(f) == IF TakePending(f) = None THEN "dead" ELSE "restarting"

JobAborted(j) ==
    LET f == jobFile[j] IN
    /\ mVisitedFiles' = ReleaseClaims(j)
    /\ mJobCounter' = mJobCounter - 1
    /\ mPendingJobs' = [mPendingJobs EXCEPT ![f] = None]
    /\ pending' = [pending EXCEPT ![j] = TakePending(f)]
    /\ state' = [state EXCEPT ![j] = AfterAbort(f)]
    /\ mJobs' = RemoveJob(j)
    /\ UNCHANGED <<mSources, mPendingData>>

JobSucceeded(j) ==
    LET f == jobFile[j] IN
    /\ mJobs' = [mJobs EXCEPT ![f] = None]
    /\ mPendingData' = [mPendingData EXCEPT ![f] = ResultOf(j)]
    /\ mSources' = [mSources EXCEPT ![f].parsed = mParseTime[j]]
    /\ state' = [state EXCEPT ![j] = "dead"]
    /\ UNCHANGED <<mVisitedFiles, mJobCounter, mPendingJobs, pending>>

\* The first half of onJobFinished(), under mMutex.
OnJobFinished(j) == IF mAborted[j] THEN JobAborted(j) ELSE JobSucceeded(j)

\* What the job object held goes with it; the entry a job that succeeded leaves
\* in mVisitedFilesByJob is never read again.
Finish(j) ==
    /\ state[j] = "finishing"
    /\ mFinishedTimer' = TRUE
    /\ OnJobFinished(j)
    /\ mVisitedFilesByJob' = [mVisitedFilesByJob EXCEPT ![j] = {}]
    /\ mParseTime' = [mParseTime EXCEPT ![j] = 0]
    /\ seen' = [seen EXCEPT ![j] = NoVisit]
    /\ unit' = [unit EXCEPT ![j] = "nothing"]
    /\ UNCHANGED <<fileSystem, database, loopVars, left, jobFile, mArgs, mAborted,
                   mModifiedFiles, mModifiedFilesTimer, fileManager, fileIds, saved>>

\* The second half: mMutex was released in between.
StartPending(j) ==
    /\ state[j] = "restarting"
    /\ Index(jobFile[j], pending[j], [state EXCEPT ![j] = "dead"])
    /\ pending' = [pending EXCEPT ![j] = None]
    /\ UNCHANGED <<fileSystem, database, mVisitedFiles, loopVars, parseVars,
                   mModifiedFiles, mModifiedFilesTimer, fileManager, saved>>

---------------------------------------------------------------------------
(* The event loop: finish(), write() and save().                           *)

\* timerEvent() calls finish(); the single-shot timer is gone when it returns,
\* but one that start() makes during the callback is a new timer and stays.
FinishedTimeout ==
    /\ loop = "idle" /\ mFinishedTimer
    /\ mFinishedTimer' = FALSE
    /\ loop' = "finish"
    /\ UNCHANGED <<fileSystem, database, claims, todo, indexed, request, parseVars,
                   jobVars, bookkeeping, mModifiedFiles, mModifiedFilesTimer,
                   fileManager, fileIds, saved>>

\* RTags::dirtySymbols()
Dirtied(dirty) == [x \in Files |-> IF x \in dirty THEN {} ELSE mSymbols[x]]

Results == {mPendingData[f] : f \in Sources} \ {None}
NewFiles == {x \in Files : \E d \in Results :
                x \in UNION {d.dependencies[y] : y \in Files} \/ d.dependencies[x] # {}}

Merged(symbols) ==
    [x \in Files |-> symbols[x] \cup ({d.symbols[x] : d \in Results} \ {0})]

DirtyMerged ==                                                    \* a mutant
    mSymbols' = [x \in Files |-> IF x \in mPendingDirtyFiles THEN {}
                                 ELSE Merged(mSymbols)[x]]

\* write(): drop the symbols of the dirty files, then merge every result.
WriteSymbols == mSymbols' = Merged(Dirtied(mPendingDirtyFiles))

Write ==
    /\ WriteSymbols
    /\ mPendingDirtyFiles' = {}
    /\ mDependencies' = [x \in Files |-> mDependencies[x]
                            \cup UNION {d.dependencies[x] : d \in Results}]
    /\ mWatchedPaths' = mWatchedPaths \cup {Dir[x] : x \in NewFiles}
    /\ mPendingData' = [f \in Sources |-> None]

ResetCounter == IF JobsOfProject = {} THEN 0 ELSE mJobCounter

\* finish() up to the end of its critical section.
FinishProject ==
    /\ loop = "finish"
    /\ IF JobsOfProject = {}
       THEN Write /\ loop' = "save"
       ELSE loop' = "idle" /\ UNCHANGED <<database, mPendingData>>
    /\ mJobCounter' = ResetCounter
    /\ UNCHANGED <<fileSystem, claims, todo, indexed, request, parseVars, jobVars,
                   mSources, mJobs, mPendingJobs, mModifiedFiles, mFinishedTimer,
                   mModifiedFilesTimer, fileManager, fileIds, saved>>

\* save(), which takes mMutex anew.
Save ==
    /\ loop = "save"
    /\ saved' = [symbols |-> mSymbols, dependencies |-> mDependencies,
                 sources |-> mSources, visited |-> mVisitedFiles]
    /\ loop' = "idle"
    /\ UNCHANGED <<fileSystem, database, claims, todo, indexed, request, parseVars,
                   jobVars, bookkeeping, mModifiedFiles, mFinishedTimer,
                   mModifiedFilesTimer, fileManager, fileIds>>

---------------------------------------------------------------------------
(* The event loop: changed files and "rc --reindex".                       *)

OnFileModified(x) ==
    /\ loop = "idle" /\ x \in fsEvents
    /\ fsEvents' = fsEvents \ {x}
    /\ IF x \in fileIds /\ x \notin mModifiedFiles
       THEN mModifiedFiles' = mModifiedFiles \cup {x} /\ mModifiedFilesTimer' = TRUE
       ELSE UNCHANGED <<mModifiedFiles, mModifiedFilesTimer>>
    /\ UNCHANGED <<clock, mtime, database, claims, loopVars, parseVars, jobVars,
                   bookkeeping, mFinishedTimer, fileManager, fileIds, saved>>

OnlyTheFiles(modified) == modified                                \* a mutant

\* The modified files and the sources that depend on them.
DirtyFiles(modified) == modified \cup UNION {mDependencies[x] : x \in modified}

\* onFilesModifiedTimeout() up to the end of its critical section.
MarkDirty(modified) ==
    /\ mVisitedFiles' = mVisitedFiles \ DirtyFiles(modified)
    /\ mPendingDirtyFiles' = mPendingDirtyFiles \cup DirtyFiles(modified)
    /\ mModifiedFiles' = {}
    /\ loop' = "reindex"
    /\ todo' = DirtyFiles(modified) \cap Sources
    /\ indexed' = FALSE
    /\ UNCHANGED <<fileSystem, mSymbols, mDependencies, mWatchedPaths,
                   mVisitedFilesByJob, request, parseVars, jobVars, bookkeeping,
                   mFinishedTimer, fileManager, fileIds, saved>>

OnFilesModifiedTimeout ==
    /\ loop = "idle" /\ mModifiedFilesTimer
    /\ mModifiedFilesTimer' = FALSE
    /\ MarkDirty(mModifiedFiles)

\* "rc --reindex": those of the files xs that have dependencies and are not
\* dirty already are treated as modified, without the timer.
Reindex(xs) ==
    LET dirty == {x \in xs : mDependencies[x] # {} /\ x \notin mPendingDirtyFiles} IN
    /\ loop = "idle" /\ fileManager
    /\ dirty # {}
    /\ MarkDirty(mModifiedFiles \cup dirty)
    /\ UNCHANGED mModifiedFilesTimer

\* The loop over dirtyFiles, outside mMutex: index() takes it for each source.
ReindexSource(f) ==
    /\ loop = "reindex" /\ f \in todo
    /\ todo' = todo \ {f}
    /\ IF Requested(f)
       THEN Index(f, mSources[f], state) /\ indexed' = TRUE
       ELSE UNCHANGED <<bookkeeping, mFinishedTimer, fileIds, state, jobFile, mArgs,
                        mAborted, mVisitedFilesByJob, indexed>>
    /\ UNCHANGED <<fileSystem, database, mVisitedFiles, loop, request, parseVars,
                   pending, mModifiedFiles, mModifiedFilesTimer, fileManager, saved>>

\* Nothing to index: drop the symbols here, because finish() will not run.
EndReindex ==
    /\ loop = "reindex" /\ todo = {}
    /\ IF indexed THEN UNCHANGED <<mSymbols, mPendingDirtyFiles>>
       ELSE mSymbols' = Dirtied(mPendingDirtyFiles) /\ mPendingDirtyFiles' = {}
    /\ loop' = "idle" /\ indexed' = FALSE
    /\ UNCHANGED <<fileSystem, mDependencies, mWatchedPaths, claims, todo, request,
                   parseVars, jobVars, bookkeeping, mModifiedFiles, mFinishedTimer,
                   mModifiedFilesTimer, fileManager, fileIds, saved>>

---------------------------------------------------------------------------
(* The outside world: files change, and a watched directory reports it.    *)

Edit(xs) ==
    /\ clock' = clock + 1
    /\ mtime' = [x \in Files |-> IF x \in xs THEN clock + 1 ELSE mtime[x]]
    /\ fsEvents' = fsEvents \cup {x \in xs : Dir[x] \in mWatchedPaths}
    /\ UNCHANGED <<database, claims, loopVars, parseVars, jobVars, bookkeeping,
                   mModifiedFiles, mFinishedTimer, mModifiedFilesTimer, fileManager,
                   fileIds, saved>>

---------------------------------------------------------------------------

\* A project that rdm has just created, with no database to restore.
Init ==
    /\ clock = 1 /\ mtime = [x \in Files |-> 1] /\ fsEvents = {}
    /\ mSources = [f \in Sources |-> None]
    /\ mJobs = [f \in Sources |-> None]
    /\ mPendingJobs = [f \in Sources |-> None]
    /\ mPendingData = [f \in Sources |-> None]
    /\ mVisitedFiles = {} /\ mVisitedFilesByJob = [j \in Jobs |-> {}]
    /\ mModifiedFiles = {} /\ mPendingDirtyFiles = {}
    /\ mDependencies = [x \in Files |-> {}]
    /\ mJobCounter = 0 /\ mWatchedPaths = {}
    /\ mFinishedTimer = FALSE /\ mModifiedFilesTimer = FALSE
    /\ fileManager = FALSE
    /\ mSymbols = [x \in Files |-> {}]
    /\ fileIds = {} /\ saved = None
    /\ loop = "idle" /\ todo = {} /\ indexed = FALSE /\ request = None
    /\ state = [j \in Jobs |-> "dead"] /\ jobFile = [j \in Jobs |-> None]
    /\ mArgs = [j \in Jobs |-> None] /\ mAborted = [j \in Jobs |-> FALSE]
    /\ mParseTime = [j \in Jobs |-> 0] /\ seen = [j \in Jobs |-> NoVisit]
    /\ left = [j \in Jobs |-> {}] /\ unit = [j \in Jobs |-> "nothing"]
    /\ pending = [j \in Jobs |-> None]

JobStep(j) ==
    \/ Execute(j)
    \/ \E outcome \in Outcomes : Parse(j, outcome)
    \/ \E x \in Files : Visit(j, x)
    \/ EndVisit(j)
    \/ Finish(j)
    \/ StartPending(j)

LoopStep ==
    \/ IndexRequest
    \/ FinishedTimeout \/ FinishProject \/ Save
    \/ \E x \in Files : OnFileModified(x)
    \/ OnFilesModifiedTimeout
    \/ \E f \in Sources : ReindexSource(f)
    \/ EndReindex

Client ==
    \/ \E f \in Sources, c \in Args : ProcessSourceFile(f, c)
    \/ \E xs \in SUBSET Files : Reindex(xs)
    \/ Unload

Next ==
    \/ \E j \in Jobs : JobStep(j)
    \/ LoopStep
    \/ Client
    \/ \E xs \in SUBSET Files : Edit(xs)

Spec == Init /\ [][Next]_vars

\* The pool runs what is queued, a job ends, and every turn of EventLoop::run()
\* serves the timers that are due, the posted events and the readable files.
\* Nothing obliges a client to ask or a file to change.
Fairness ==
    /\ \A j \in Jobs : WF_vars(JobStep(j))
    /\ WF_vars(IndexRequest) /\ WF_vars(FinishedTimeout)
    /\ WF_vars(FinishProject) /\ WF_vars(Save)
    /\ WF_vars(\E x \in Files : OnFileModified(x)) /\ WF_vars(OnFilesModifiedTimeout)
    /\ WF_vars(\E f \in Sources : ReindexSource(f)) /\ WF_vars(EndReindex)

---------------------------------------------------------------------------
(* Properties.                                                             *)

FileSystemType ==
    clock \in Times /\ mtime \in [Files -> Times] /\ fsEvents \subseteq Files

TableType ==
    /\ mSources \in [Sources -> SourceInformation \cup {None}]
    /\ mJobs \in [Sources -> Jobs \cup {None}]
    /\ mPendingJobs \in [Sources -> SourceInformation \cup {None}]
    /\ mPendingData \in [Sources -> IndexData \cup {None}]
    /\ mJobCounter \in Int

DatabaseType ==
    /\ mSymbols \in [Files -> SUBSET Times]
    /\ mDependencies \in [Files -> SUBSET Sources]
    /\ mPendingDirtyFiles \subseteq Files
    /\ mWatchedPaths \subseteq Dirs

ClaimsType == mVisitedFiles \subseteq Files /\ mVisitedFilesByJob \in [Jobs -> SUBSET Files]

LoopType ==
    /\ loop \in {"idle", "compile", "finish", "save", "reindex"}
    /\ todo \subseteq Sources /\ indexed \in BOOLEAN
    /\ request \in IndexRequests \cup {None}
    /\ loop = "compile" => request # None

ParseType ==
    /\ mParseTime \in [Jobs -> Times]
    /\ seen \in [Jobs -> [Files -> Times]]
    /\ left \in [Jobs -> SUBSET Files]
    /\ unit \in [Jobs -> Outcomes]

\* A job that is not dead has a source and arguments, and one that is to start
\* a pending request holds it.
JobType ==
    /\ state \in [Jobs -> JobStates]
    /\ jobFile \in [Jobs -> Sources \cup {None}]
    /\ mArgs \in [Jobs -> Args \cup {None}]
    /\ mAborted \in [Jobs -> BOOLEAN]
    /\ pending \in [Jobs -> SourceInformation \cup {None}]
    /\ \A j \in Jobs : state[j] # "dead" => jobFile[j] # None /\ mArgs[j] # None
    /\ \A j \in Jobs : state[j] = "restarting" => pending[j] # None

OtherType ==
    /\ mModifiedFiles \subseteq Files /\ fileIds \subseteq Files
    /\ mFinishedTimer \in BOOLEAN /\ mModifiedFilesTimer \in BOOLEAN
    /\ fileManager \in BOOLEAN

\* Every variable has its type.
TypeOK ==
    /\ FileSystemType /\ TableType /\ DatabaseType /\ ClaimsType
    /\ LoopType /\ ParseType /\ JobType /\ OtherType

\* The job a source has in mJobs is alive, works on that source with the very
\* arguments mSources has for it, and has not been aborted before its start:
\* execute() would drop such a job without onJobFinished(), and every later
\* request for the source would wait for it.
JobTable ==
    \A f \in Sources : mJobs[f] # None =>
        /\ state[mJobs[f]] \in Running \cup {"queued"}
        /\ jobFile[mJobs[f]] = f
        /\ Requested(f) /\ mArgs[mJobs[f]] = mSources[f].args
        /\ state[mJobs[f]] = "queued" => ~mAborted[mJobs[f]]

\* A source that is being indexed has no finished result waiting for write().
ResultHasNoJob == \A f \in Sources : mPendingData[f] # None => mJobs[f] = None

\* assert(mJobs.value(fileId) == job) in onJobFinished() never fails: a job that
\* has not been aborted is the current job of its source, whatever index(),
\* unload() and the restart of pending jobs do while it runs.
JobIsCurrent ==
    \A j \in Jobs :
        state[j] \in Running \cup {"queued"} /\ ~mAborted[j] => mJobs[jobFile[j]] = j

\* What is waiting to be merged was made with the arguments the project has for
\* the source: index() with other arguments never leaves an older result behind,
\* neither one that is already there nor one a job still working delivers later.
ResultsMatchSource ==
    \A f \in Sources :
        mPendingData[f] # None
            => Requested(f) /\ mPendingData[f].args = mSources[f].args

\* A request that had to wait for a job to die is never stranded: while it is in
\* mPendingJobs an aborted job of that source is still on its way to
\* onJobFinished(), which starts it.
PendingHasRunner ==
    \A f \in Sources :
        mPendingJobs[f] # None
            => \E j \in Jobs : state[j] \in Running /\ mAborted[j] /\ jobFile[j] = f

\* A result leaves mPendingData only by being merged into the index or because
\* a new job for the same source was queued in the same step.
ResultKept ==
    \A f \in Sources :
        mPendingData[f] # None /\ mPendingData'[f] # mPendingData[f]
            => \/ \A x \in Files : mPendingData[f].symbols[x] \in mSymbols'[x] \cup {0}
               \/ mJobs[f] = None /\ mJobs'[f] # None

\* No step of any thread loses a result.
ResultsNotLost == [][ResultKept]_vars

\* A file is read by one job at a time: no two jobs hold a claim on it.
OneIndexerPerFile ==
    \A j, k \in Jobs : j # k => mVisitedFilesByJob[j] \cap mVisitedFilesByJob[k] = {}

\* No claim is orphaned.  visitFile() turns every later job away from a claimed
\* file, so its symbols must be somewhere: on their way in a job that holds the
\* claim, in a result that waits for write(), or in the index.
ClaimsAccountedFor ==
    \A x \in mVisitedFiles :
        \/ \E j \in Jobs : x \in mVisitedFilesByJob[j]
        \/ \E d \in Results : d.symbols[x] # 0
        \/ mSymbols[x] # {}

\* Nothing is running, waiting or about to happen in the project.
Quiet ==
    /\ loop = "idle" /\ ~mFinishedTimer /\ ~mModifiedFilesTimer /\ fsEvents = {}
    /\ \A j \in Jobs : state[j] = "dead"

\* The index holds the symbols of exactly the current version of every known
\* source and of every header it includes.
UpToDate ==
    \A f \in Sources : Requested(f) =>
        \A x \in FilesOf(f) : mSymbols[x] = {mtime[x]}

\* Once the outside world is quiet the project comes to rest, and then its index
\* is up to date: claims that aborted jobs release, requests that waited for
\* them and results that waited for write() have all been dealt with.
SettlesUpToDate == <>[](Quiet /\ UpToDate)

\* When the project rests, every source it was told about and every header they
\* include has symbols in the index, however the requests and the jobs met.
HeadersIndexed ==
    Quiet => \A f \in Sources : Requested(f) => \A x \in FilesOf(f) : mSymbols[x] # {}

\* When the project rests, no change of an indexed file has gone unnoticed,
\* whenever it was made. Does not hold (README, section 5).
RestsUpToDate == Quiet => UpToDate

\* restore() asserts that every source that was saved depends on itself in the
\* dependencies that were saved with it. Does not hold (README, section 5).
SavedSourcesHaveDependencies ==
    saved # None => \A f \in Sources : saved.sources[f] # None => f \in saved.dependencies[f]
===========================================================================
