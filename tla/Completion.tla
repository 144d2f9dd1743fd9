---------------------------- MODULE Completion ----------------------------
(***************************************************************************)
(* How rdm answers those who wait: the connections of its clients, the     *)
(* jobs of the query pool that write to them through posted events, and    *)
(* code completion, which runs one job per file and keeps the newest of    *)
(* the requests that come meanwhile (src/src/Server.cpp, Connection.cpp,   *)
(* LocalClient.cpp, Job.cpp, CompletionJob.cpp and the unit cache of       *)
(* Project.cpp).                                                           *)
(*                                                                         *)
(* The event loop runs every handler of Server and Connection; a job runs  *)
(* on a pool thread.  A message stands for its effect on Server: what is   *)
(* asked about a file and what is answered are left out.                   *)
(***************************************************************************)
EXTENDS Naturals, Sequences, SequencesExt

CONSTANTS Conns,       \* connections
          Streams,     \* those of rc --code-complete, which ask again and again
          Paths,       \* source files
          Known,       \* those that have a file id
          CacheSize,   \* Server::Options::completionCacheSize
          MaxMessages, \* bound: messages that ask for something
          NoConn, NoPath

ASSUME PathsAssumption == Known \subseteq Paths /\ NoPath \notin Paths
ASSUME ConnsAssumption == Streams \subseteq Conns /\ NoConn \notin Conns
ASSUME SizesAssumption == CacheSize \in Nat \ {0} /\ MaxMessages \in Nat

\* A message asks for one job at most.
JobIds == 1..MaxMessages

VARIABLES
  \* Connection and LocalClient
  mFd,                  \* "unborn", "open", "closed" (mFd is -1), "deleted"
  peer,                 \* is there a client at the other end?
  mPendingWrite,        \* are there bytes the socket has not taken?
  mDone,                \* has finish() been called?
  asked,                \* has its first message come in?
  messages,             \* how many have come in altogether
  \* EventLoop
  mEvents,              \* the posted events, in order
  \* Server
  mPendingLookups,      \* the connection each job answers to
  mCompletionStreams,   \* the connections that are completion streams
  mActiveCompletions,   \* the files with a running completion
  mPendingCompletions,  \* the connection whose request for a file waits
  \* Job
  lastId,               \* Server::nextId()
  path,                 \* the file a job completes, or NoPath for another query
  phase,                \* how far a job has come
  \* Project
  isValid,              \* is there a project for the files, and is it loaded?
  cache                 \* the cached units, by file, the oldest first

connVars == <<mFd, peer, mPendingWrite, mDone, asked, messages>>
serverVars == <<mPendingLookups, mCompletionStreams, mActiveCompletions, mPendingCompletions>>
jobVars == <<lastId, path, phase>>
projectVars == <<isValid, cache>>
vars == <<connVars, mEvents, serverVars, jobVars, projectVars>>

Output(i, finish) == [type |-> "output", job |-> i, finish |-> finish]
Finished(p) == [type |-> "finished", path |-> p]
DeleteLater(c) == [type |-> "deleteLater", conn |-> c]

isConnected(c) == mFd[c] = "open"
isCompletionStream(c) == c \in mCompletionStreams

Init ==
    /\ mFd = [c \in Conns |-> "unborn"] /\ peer = [c \in Conns |-> FALSE]
    /\ mPendingWrite = [c \in Conns |-> FALSE] /\ mDone = [c \in Conns |-> FALSE]
    /\ asked = [c \in Conns |-> FALSE] /\ messages = 0
    /\ mEvents = <<>>
    /\ mPendingLookups = [i \in JobIds |-> NoConn] /\ mCompletionStreams = {}
    /\ mActiveCompletions = {} /\ mPendingCompletions = [p \in Paths |-> NoConn]
    /\ lastId = 0 /\ path = [i \in JobIds |-> NoPath] /\ phase = [i \in JobIds |-> "none"]
    /\ isValid = TRUE /\ cache = <<>>

---------------------------------------------------------------------------
(* The unit cache.                                                         *)

\* Project::addCachedUnit()
AddCachedUnit(units, p) ==
    Append(IF Len(units) = CacheSize THEN Tail(units) ELSE units, p)

\* Project::initJobFromCache() takes the oldest unit of the file.
FirstUnit(p) == CHOOSE k \in DOMAIN cache : /\ cache[k] = p
                                            /\ \A j \in 1..(k - 1) : cache[j] # p
TakeUnit(p) == RemoveAt(cache, FirstUnit(p))

---------------------------------------------------------------------------
(* Connection and LocalClient.                                             *)

\* What write() may return, and whether bytes are left: the socket takes them
\* all or some, or the client is gone and nobody has noticed.
Writes(c) ==
    IF ~isConnected(c) THEN {[ok |-> FALSE, pending |-> mPendingWrite[c]]}
    ELSE IF peer[c] THEN [ok : {TRUE}, pending : BOOLEAN]
    ELSE {[ok |-> FALSE, pending |-> TRUE]}

\* finish() trusts that a write is still to come.
Flushed(c, pending) == ~pending /\ mPendingWrite[c]               \* a mutant
AllWritten(c, pending) == ~pending

\* The end of dataWritten(): when all is written and finish() has been called,
\* the client is disconnected, which onCompletionStreamDisconnected() hears of,
\* and the connection is to be deleted.  A second DeleteLaterEvent is left out: when
\* the first one is served, ~EventReceiver() takes the second out of the queue.
Settle(c, pending, done, events) ==
    /\ mPendingWrite' = [mPendingWrite EXCEPT ![c] = pending]
    /\ mDone' = [mDone EXCEPT ![c] = done]
    /\ IF done /\ AllWritten(c, pending)
       THEN /\ mFd' = [mFd EXCEPT ![c] = "closed"]
            /\ mCompletionStreams' = mCompletionStreams \ {c}
            /\ mEvents' = IF Contains(events, DeleteLater(c)) THEN events
                          ELSE Append(events, DeleteLater(c))
       ELSE UNCHANGED <<mFd, mCompletionStreams>> /\ mEvents' = events

\* A handler that leaves the connections alone.
Ignore(events) == UNCHANGED <<mFd, mPendingWrite, mDone, mCompletionStreams>> /\ mEvents' = events

FinishAlways(c, pending, events) == Settle(c, pending, TRUE, events)   \* a mutant

\* if (!isCompletionStream(conn)) conn->finish()
FinishUnlessStream(c, pending, events) ==
    Settle(c, pending, mDone[c] \/ ~isCompletionStream(c), events)

OnNewConnection(c) ==
    /\ mFd[c] = "unborn"
    /\ mFd' = [mFd EXCEPT ![c] = "open"] /\ peer' = [peer EXCEPT ![c] = TRUE]
    /\ UNCHANGED <<mPendingWrite, mDone, asked, messages, mEvents, serverVars, jobVars, projectVars>>

\* rc is killed, or its time is up; its last message may still be unread.
Leave(c) ==
    /\ isConnected(c) /\ peer[c]
    /\ peer' = [peer EXCEPT ![c] = FALSE]
    /\ UNCHANGED <<mFd, mPendingWrite, mDone, asked, messages, mEvents, serverVars, jobVars, projectVars>>

\* LocalClient::readMore() reads the end of the stream.
ReadMore(c) ==
    /\ isConnected(c) /\ ~peer[c]
    /\ mFd' = [mFd EXCEPT ![c] = "closed"]
    /\ mCompletionStreams' = mCompletionStreams \ {c}
    /\ UNCHANGED <<peer, mPendingWrite, mDone, asked, messages, mEvents, mPendingLookups,
                   mActiveCompletions, mPendingCompletions, jobVars, projectVars>>

\* LocalClient::writeMore() gets rid of the rest.
WriteMore(c) ==
    /\ isConnected(c) /\ peer[c] /\ mPendingWrite[c]
    /\ Settle(c, FALSE, mDone[c], mEvents)
    /\ UNCHANGED <<peer, asked, messages, mPendingLookups, mActiveCompletions, mPendingCompletions,
                   jobVars, projectVars>>

---------------------------------------------------------------------------
(* Server: the messages.                                                   *)

\* The first message of a connection, or a further one of a stream.
OnNewMessage(c) ==
    /\ isConnected(c) /\ IF c \in Streams THEN isCompletionStream(c) ELSE ~asked[c]
    /\ messages < MaxMessages
    /\ messages' = messages + 1
    /\ asked' = [asked EXCEPT ![c] = TRUE]
    /\ UNCHANGED peer

StartQueryJob(c, p) ==
    LET id == lastId + 1 IN
    /\ lastId' = id
    /\ path' = [path EXCEPT ![id] = p]
    /\ phase' = [phase EXCEPT ![id] = "queued"]
    /\ mPendingLookups' = [mPendingLookups EXCEPT ![id] = c]

NoJob == UNCHANGED <<jobVars, mPendingLookups, mActiveCompletions, cache>>

StartCompletionJob(p, c, events) ==
    /\ isValid /\ p \in Known /\ Contains(cache, p)
    /\ cache' = TakeUnit(p)
    /\ mActiveCompletions' = mActiveCompletions \cup {p}
    /\ StartQueryJob(c, p)
    /\ Ignore(events)

StartCompletion(p, c, events) ==
    \/ ~isValid /\ FinishUnlessStream(c, mPendingWrite[c], events) /\ NoJob
    \/ isValid /\ p \notin Known /\ Ignore(events) /\ NoJob
    \/ /\ isValid /\ p \in Known /\ ~Contains(cache, p)
       /\ \/ \E w \in Writes(c) : FinishUnlessStream(c, w.pending, events)
          \/ FinishUnlessStream(c, mPendingWrite[c], events)
       /\ NoJob
    \/ StartCompletionJob(p, c, events)

NeverActive(p) == FALSE                                           \* a mutant
IsActive(p) == p \in mActiveCompletions

\* A later request for the same file takes the place of one that waits.
HandleCompletionMessage(c, p) ==
    /\ OnNewMessage(c)
    /\ \/ ~isValid /\ FinishUnlessStream(c, mPendingWrite[c], mEvents) /\ NoJob
          /\ UNCHANGED mPendingCompletions
       \/ isValid /\ IsActive(p) /\ Ignore(mEvents) /\ NoJob
          /\ mPendingCompletions' = [mPendingCompletions EXCEPT ![p] = c]
       \/ isValid /\ ~IsActive(p) /\ StartCompletion(p, c, mEvents)
          /\ UNCHANGED mPendingCompletions
    /\ UNCHANGED isValid

HandleCompletionStream(c) ==
    /\ isConnected(c) /\ c \in Streams /\ ~asked[c]
    /\ asked' = [asked EXCEPT ![c] = TRUE]
    /\ mCompletionStreams' = mCompletionStreams \cup {c}
    /\ UNCHANGED <<mFd, peer, mPendingWrite, mDone, messages, mEvents, mPendingLookups,
                   mActiveCompletions, mPendingCompletions, jobVars, projectVars>>

\* status() and dumpFile(): a job of the query pool answers, or, as in the other
\* queries, the handler does so itself and is done.
HandleQueryMessage(c) ==
    /\ c \notin Streams /\ OnNewMessage(c)
    /\ \/ StartQueryJob(c, NoPath) /\ Ignore(mEvents)
       \/ /\ \E pending \in {w.pending : w \in Writes(c)} \cup {mPendingWrite[c]} :
               Settle(c, pending, TRUE, mEvents)
          /\ UNCHANGED <<jobVars, mPendingLookups>>
    /\ UNCHANGED <<mActiveCompletions, mPendingCompletions, projectVars>>

---------------------------------------------------------------------------
(* Server: the posted events.                                              *)

Dispatch(type) == mEvents # <<>> /\ Head(mEvents).type = type

\* Server::event(): a JobOutputEvent, with or without text.
OnJobOutput ==
    /\ Dispatch("output")
    /\ LET e == Head(mEvents)
           c == mPendingLookups[e.job]
           reachable == c # NoConn /\ isConnected(c)
       IN \/ ~reachable /\ Ignore(Tail(mEvents))
          \/ /\ reachable
             /\ \E w \in Writes(c) \cup {[ok |-> TRUE, pending |-> mPendingWrite[c]]} :
                  IF w.ok /\ e.finish
                  THEN FinishUnlessStream(c, w.pending, Tail(mEvents))
                  ELSE Settle(c, w.pending, mDone[c], Tail(mEvents))
    /\ UNCHANGED <<peer, asked, messages, mPendingLookups, mActiveCompletions,
                   mPendingCompletions, jobVars, projectVars>>

TakePending(p) == [mPendingCompletions EXCEPT ![p] = NoConn]

\* A stream that has asked about two files may be deleted on behalf of one while
\* its request for the other waits: then startCompletion() either gets as far as a
\* job that answers to it or does something undefined to what it was, which no
\* variable shows.
OnCompletionJobFinished ==
    /\ Dispatch("finished")
    /\ LET p == Head(mEvents).path
           c == mPendingCompletions[p]
       IN /\ mPendingCompletions' = TakePending(p)
          /\ \/ /\ c = NoConn
                /\ mActiveCompletions' = mActiveCompletions \ {p}
                /\ Ignore(Tail(mEvents))
                /\ UNCHANGED <<jobVars, mPendingLookups, cache>>
             \/ /\ c # NoConn /\ mFd[c] # "deleted"
                /\ StartCompletion(p, c, Tail(mEvents))
             \/ /\ c # NoConn /\ mFd[c] = "deleted"
                /\ \/ StartCompletionJob(p, c, Tail(mEvents))
                   \/ Ignore(Tail(mEvents)) /\ NoJob
    /\ UNCHANGED <<peer, asked, messages, isValid>>

KeepLookups(c) == mPendingLookups                                 \* a mutant

\* Server::onConnectionDestroyed()
ForgetLookups(c) ==
    [i \in JobIds |-> IF mPendingLookups[i] = c THEN NoConn ELSE mPendingLookups[i]]

\* A DeleteLaterEvent, the only event of a connection in the queue.
OnDeleteLater ==
    /\ Dispatch("deleteLater")
    /\ LET c == Head(mEvents).conn
       IN /\ mFd' = [mFd EXCEPT ![c] = "deleted"]
          /\ mPendingLookups' = ForgetLookups(c)
          /\ mEvents' = Tail(mEvents)
    /\ UNCHANGED <<peer, mPendingWrite, mDone, asked, messages, mCompletionStreams,
                   mActiveCompletions, mPendingCompletions, jobVars, projectVars>>

HandleEvent == OnJobOutput \/ OnCompletionJobFinished \/ OnDeleteLater

---------------------------------------------------------------------------
(* The jobs, on the threads of the query pool, and the rest of rdm.        *)

\* execute(): clang_codeCompleteAt() gives results, and the unit goes back to
\* the cache, or it does not; the output may be more than fits the buffer.
Execute(i) ==
    /\ phase[i] = "queued"
    /\ phase' = [phase EXCEPT ![i] = "executed"]
    /\ \/ path[i] # NoPath /\ cache' = AddCachedUnit(cache, path[i])
       \/ UNCHANGED cache
    /\ mEvents' \in {mEvents, Append(mEvents, Output(i, FALSE))}
    /\ UNCHANGED <<connVars, serverVars, lastId, path, isValid>>

\* mFinished(mPath), which is connected asynchronously.
EmitFinished(i) ==
    /\ phase[i] = "executed" /\ path[i] # NoPath
    /\ phase' = [phase EXCEPT ![i] = "reported"]
    /\ mEvents' = Append(mEvents, Finished(path[i]))
    /\ UNCHANGED <<connVars, serverVars, lastId, path, projectVars>>

\* The end of Job::run()
EndRun(i) ==
    /\ phase[i] = (IF path[i] = NoPath THEN "executed" ELSE "reported")
    /\ phase' = [phase EXCEPT ![i] = "done"]
    /\ mEvents' = Append(mEvents, Output(i, TRUE))
    /\ UNCHANGED <<connVars, serverVars, lastId, path, projectVars>>

Run(i) == Execute(i) \/ EmitFinished(i) \/ EndRun(i)

\* Project::onJobFinished() stores the unit of an indexing job, and index()
\* takes one for the next.
IndexerAddsUnit(p) ==
    /\ isValid /\ p \in Known /\ cache' = AddCachedUnit(cache, p)
    /\ UNCHANGED <<connVars, mEvents, serverVars, jobVars, isValid>>

IndexerTakesUnit(p) ==
    /\ isValid /\ Contains(cache, p) /\ cache' = TakeUnit(p)
    /\ UNCHANGED <<connVars, mEvents, serverVars, jobVars, isValid>>

\* Other connections unload the project and load it again.
UnloadOrLoad ==
    /\ isValid' = ~isValid
    /\ UNCHANGED <<connVars, mEvents, serverVars, jobVars, cache>>

Next ==
    \/ \E c \in Conns :
         \/ OnNewConnection(c) \/ Leave(c) \/ ReadMore(c) \/ WriteMore(c)
         \/ HandleCompletionStream(c) \/ HandleQueryMessage(c)
         \/ \E p \in Paths : HandleCompletionMessage(c, p)
    \/ HandleEvent
    \/ \E i \in JobIds : Run(i)
    \/ \E p \in Paths : IndexerAddsUnit(p) \/ IndexerTakesUnit(p)
    \/ UnloadOrLoad

\* The event loop serves its events and its sockets, the pool runs its jobs
\* (see ThreadPool), and a client reads what it is sent or goes.
Fairness ==
    /\ WF_vars(HandleEvent)
    /\ \A i \in JobIds : WF_vars(Run(i))
    /\ \A c \in Conns : WF_vars(ReadMore(c)) /\ WF_vars(WriteMore(c))

Spec == Init /\ [][Next]_vars /\ Fairness

---------------------------------------------------------------------------
(* Properties.                                                             *)

Events ==
    [type : {"output"}, job : JobIds, finish : BOOLEAN]
    \cup [type : {"finished"}, path : Paths] \cup [type : {"deleteLater"}, conn : Conns]

TypeOK ==
    /\ mFd \in [Conns -> {"unborn", "open", "closed", "deleted"}]
    /\ peer \in [Conns -> BOOLEAN] /\ mPendingWrite \in [Conns -> BOOLEAN]
    /\ mDone \in [Conns -> BOOLEAN] /\ asked \in [Conns -> BOOLEAN]
    /\ messages \in 0..MaxMessages /\ lastId \in 0..messages
    /\ mEvents \in Seq(Events)
    /\ mPendingLookups \in [JobIds -> Conns \cup {NoConn}]
    /\ mCompletionStreams \subseteq Streams /\ mActiveCompletions \subseteq Known
    /\ mPendingCompletions \in [Paths -> Conns \cup {NoConn}]
    /\ path \in [JobIds -> Paths \cup {NoPath}]
    /\ phase \in [JobIds -> {"none", "queued", "executed", "reported", "done"}]
    /\ isValid \in BOOLEAN
    /\ cache \in Seq(Paths) /\ Len(cache) <= CacheSize

\* Output that is still under way never meets a deleted connection, nor is a
\* connection deleted or let go that a pending completion still means to answer
\* ("could the connection be deleted by now?", Server.cpp:964), if its client asks
\* once (a stream that asks about two files is a hazard of its own).
ConnectionsAlive ==
    \A c \in Conns \ Streams :
        /\ \A i \in JobIds : mPendingLookups[i] = c => mFd[c] # "deleted"
        /\ \A p \in Paths : mPendingCompletions[p] = c => mFd[c] # "deleted" /\ ~mDone[c]

\* A completion stream stays open as long as its client does, whatever becomes of
\* the requests that come in on it.
StreamsStayOpen ==
    \A c \in Streams : asked[c] /\ peer[c] => isConnected(c) /\ isCompletionStream(c) /\ ~mDone[c]

\* At most one job at a time completes in a file, until it has given the unit
\* back and reported.
OneJobPerPath ==
    \A i, j \in JobIds :
        /\ path[i] = path[j] /\ path[i] # NoPath
        /\ {phase[i], phase[j]} \subseteq {"queued", "executed"}
        => i = j

\* A client whose request got a job is answered and let go.
StartedIsAnswered ==
    \A i \in JobIds, c \in Conns \ Streams :
        phase[i] = "queued" /\ mPendingLookups[i] = c ~> ~isConnected(c)

\* rc --code-complete-at comes back: rdm answers each request and lets go of the
\* client, however many others ask about the same file. Does not hold (README,
\* section 5).
EveryoneIsAnswered ==
    \A c \in Conns \ Streams : asked[c] /\ isConnected(c) ~> ~isConnected(c)
===========================================================================
