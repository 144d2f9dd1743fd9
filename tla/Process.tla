------------------------------ MODULE Process ------------------------------
(* Child processes (Process.cpp) as rdm uses them: a query starts a            *)
(* preprocessor on the event loop, SIGCHLD and a ProcessThread learn of its    *)
(* end, the loop reads its output, reports it and deletes the Process.         *)
(* stdout and stderr are one pipe; nothing is written to the child.           *)
EXTENDS EventLoop

CONSTANTS
    Processes,      \* Process objects; each is started once, as Preprocessor does
    MaxOutput       \* bound: chunks a child writes

ASSUME ReceiversAssumption == {Project, Connection} \cap Processes = {} /\ MaxOutput \in Nat

VARIABLES
    HAVE_SIGINFO,   \* the build knows the pid of a SIGCHLD
    mPid,           \* processes whose mPid is set
    inStart,        \* the process in start(), before ("forked") or after addPid, or <<>>
    sProcesses,     \* the table of running processes
    child,          \* "none", "running", "zombie" or "reaped"
    wrote,          \* chunks the child wrote
    unread,         \* chunks in the output pipe
    sigchld,        \* the pending signal: the child it is about, or <<>>
    sProcessPipe,   \* pids for the ProcessThread; <<>> stands for 0
    waiting,        \* what the ProcessThread does: [step, pid]
    output,         \* chunks in mStdOutBuffer
    finished,       \* [process -> chunks in the output, for each call of mFinished]
    unheard         \* children whose end nobody was told of, for a known reason

childVars  == <<child, wrote, sigchld>>
threadVars == <<sProcessPipe, waiting>>
objectVars == <<mPid, inStart, output, finished>>
processVars == <<HAVE_SIGINFO, objectVars, sProcesses, childVars, unread, threadVars, unheard>>
vars == <<eventLoopVars, processVars>>

Reading == [step |-> "read", pid |-> <<>>]
Exited(p) == child[p] \in {"zombie", "reaped"}
Readable == {p \in Processes : unread[p] > 0 \/ Exited(p)}

Init ==
    /\ EventLoopInit({Project, Connection} \cup Processes)
    /\ HAVE_SIGINFO \in BOOLEAN
    /\ mPid = {} /\ inStart = <<>> /\ sProcesses = {}
    /\ child = [p \in Processes |-> "none"] /\ wrote = [p \in Processes |-> 0]
    /\ unread = [p \in Processes |-> 0] /\ sigchld = <<>>
    /\ sProcessPipe = <<>> /\ waiting = Reading
    /\ output = [p \in Processes |-> 0] /\ finished = [p \in Processes |-> <<>>] /\ unheard = {}

-----------------------------------------------------------------------------
(* Process::start(), called from a callback of the loop. *)

Fork(p) ==
    /\ at = "fds" /\ inStart = <<>> /\ child[p] = "none" /\ Work
    /\ child' = [child EXCEPT ![p] = "running"]
    /\ mPid' = mPid \cup {p} /\ inStart' = <<p, "forked">>
    /\ UNCHANGED <<now, loopVars, timerVars, mFdData, eventVars, alive, HAVE_SIGINFO, output,
                   finished, sProcesses, wrote, sigchld, unread, threadVars, unheard>>

addPid(p) ==
    /\ inStart = <<p, "forked">>
    /\ sProcesses' = sProcesses \cup {p} /\ inStart' = <<p, "added">>
    /\ UNCHANGED <<eventLoopVars, HAVE_SIGINFO, mPid, output, finished, childVars, unread,
                   threadVars, unheard>>

StartEnd(p) ==
    /\ inStart = <<p, "added">>
    /\ addFileDescriptor(p) /\ inStart' = <<>>
    /\ UNCHANGED <<now, loopVars, timerVars, mEvents, owed, work, alive, HAVE_SIGINFO, mPid,
                   output, finished, sProcesses, childVars, unread, threadVars, unheard>>

-----------------------------------------------------------------------------
(* The child and the signal. *)

ChildWrites(p) ==
    /\ child[p] = "running" /\ wrote[p] < MaxOutput
    /\ wrote' = [wrote EXCEPT ![p] = @ + 1] /\ unread' = [unread EXCEPT ![p] = @ + 1]
    /\ UNCHANGED <<eventLoopVars, HAVE_SIGINFO, objectVars, sProcesses, child, sigchld,
                   threadVars, unheard>>

(* SIGCHLD is not queued: a second one before the first is delivered is lost. *)
ChildExits(p) ==
    /\ child[p] = "running"
    /\ child' = [child EXCEPT ![p] = "zombie"]
    /\ sigchld' = IF sigchld = <<>> THEN <<p>> ELSE sigchld
    /\ unheard' = IF sigchld # <<>> /\ HAVE_SIGINFO THEN unheard \cup {p} ELSE unheard
    /\ UNCHANGED <<eventLoopVars, HAVE_SIGINFO, objectVars, sProcesses, wrote, unread, threadVars>>

processSignalHandler ==
    /\ sigchld # <<>>
    /\ sProcessPipe' = Append(sProcessPipe, IF HAVE_SIGINFO THEN sigchld ELSE <<>>)
    /\ sigchld' = <<>>
    /\ UNCHANGED <<eventLoopVars, HAVE_SIGINFO, objectVars, sProcesses, child, wrote, unread,
                   waiting, unheard>>

-----------------------------------------------------------------------------
(* ProcessThread::run() *)

(* One event for each, in the order of the table: that of the pids, which may be any. *)
FinishedEvents(ps) ==
    {[k \in 1..Cardinality(ps) |-> Event(list[k], "finished")] :
        list \in {l \in [1..Cardinality(ps) -> ps] : \A j, k \in 1..Cardinality(ps) :
                                                        l[j] = l[k] => j = k}}

ReadPid ==
    /\ waiting.step = "read" /\ sProcessPipe # <<>> /\ "reaper" \notin owed
    /\ waiting' = IF Head(sProcessPipe) = <<>> THEN [step |-> "poll", pid |-> <<>>]
                                               ELSE [step |-> "wait", pid |-> Head(sProcessPipe)]
    /\ sProcessPipe' = Tail(sProcessPipe)
    /\ UNCHANGED <<eventLoopVars, HAVE_SIGINFO, objectVars, sProcesses, childVars, unread, unheard>>

(* pid 0: every child in the table is asked for. *)
PollChildren ==
    /\ waiting.step = "poll"
    /\ LET ended == {p \in sProcesses : child[p] = "zombie"}
       IN /\ IF ended = {} THEN UNCHANGED <<mEvents, owed>>
                          ELSE \E new \in FinishedEvents(ended) : Pushed("reaper", new)
          /\ child' = [p \in Processes |-> IF p \in ended THEN "reaped" ELSE child[p]]
          /\ sProcesses' = sProcesses \ ended
    /\ unheard' = unheard \cup {p \in Processes \ sProcesses : child[p] = "zombie"}
    /\ waiting' = Reading
    /\ UNCHANGED <<now, loopVars, timerVars, mFdData, mEventPipe, work, alive, HAVE_SIGINFO,
                   objectVars, wrote, sigchld, unread, sProcessPipe>>

WaitPid ==
    /\ waiting.step = "wait"
    /\ LET p == waiting.pid[1]
       IN Exited(p) /\ child' = [child EXCEPT ![p] = "reaped"]
    /\ waiting' = [waiting EXCEPT !.step = "lookup"]
    /\ UNCHANGED <<eventLoopVars, HAVE_SIGINFO, objectVars, sProcesses, wrote, sigchld, unread,
                   sProcessPipe, unheard>>

Lookup ==
    /\ waiting.step = "lookup"
    /\ LET p == waiting.pid[1]
       IN IF p \in sProcesses
          THEN /\ Pushed("reaper", <<Event(p, "finished")>>)
               /\ sProcesses' = sProcesses \ {p} /\ UNCHANGED unheard
          ELSE /\ unheard' = unheard \cup {p}
               /\ UNCHANGED <<mEvents, owed, sProcesses>>
    /\ waiting' = Reading
    /\ UNCHANGED <<now, loopVars, timerVars, mFdData, mEventPipe, work, alive, HAVE_SIGINFO,
                   objectVars, childVars, unread, sProcessPipe>>

-----------------------------------------------------------------------------
(* The loop's side. *)

(* handleOutput() reads all there is; at the end of the stream the fd goes. *)
HandleOutput(p) ==
    /\ Callable(p) /\ inStart = <<>>
    /\ output' = [output EXCEPT ![p] = @ + unread[p]] /\ unread' = [unread EXCEPT ![p] = 0]
    /\ IF Exited(p) THEN removeFileDescriptor(p) ELSE UNCHANGED mFdData
    /\ todo' = todo \ {p}
    /\ UNCHANGED <<now, at, armed, piped, due, timerVars, eventVars, work, alive, HAVE_SIGINFO,
                   mPid, inStart, finished, sProcesses, childVars, threadVars, unheard>>

closeStdOut(p) == removeFileDescriptor(p)


DeliverFinished(p) ==
    /\ Sending(p, "finished") /\ p \in mPid
    /\ mPid' = mPid \ {p}
    /\ output' = [output EXCEPT ![p] = @ + unread[p]] /\ unread' = [unread EXCEPT ![p] = 0]
    /\ closeStdOut(p)
    /\ finished' = [finished EXCEPT ![p] = Append(@, output'[p])]
    /\ PostedByLoop(Tail(mEvents), p, "delete")
    /\ UNCHANGED <<now, loopVars, timerVars, owed, work, alive, HAVE_SIGINFO, inStart,
                   sProcesses, childVars, threadVars, unheard>>

ProcessStep(p) == \/ addPid(p) \/ StartEnd(p) \/ HandleOutput(p) \/ DeliverFinished(p)

OfTheLoop(A) == A /\ inStart = <<>> /\ UNCHANGED processVars

Loop ==
    \/ OfTheLoop(LoopStep(Readable))
    \/ \E p \in Processes : ProcessStep(p) \/ OfTheLoop(DeleteReceiver(p))

Reaper ==
    \/ ReadPid \/ PollChildren \/ WaitPid \/ Lookup
    \/ PostByte("reaper") /\ UNCHANGED processVars

Pool == PoolStep /\ UNCHANGED processVars
Queries == OfTheLoop(ClientGone) \/ \E p \in Processes : Fork(p)
Children == \E p \in Processes : ChildWrites(p) \/ ChildExits(p)
Clock == Tick /\ UNCHANGED processVars

Next == Loop \/ Reaper \/ Pool \/ Queries \/ Children \/ processSignalHandler \/ Clock

(* The loop and the ProcessThread run, a poster writes its byte, time passes,  *)
(* children end and their signal is delivered.                                *)
Fairness ==
    /\ WF_vars(Loop) /\ WF_vars(Reaper)
    /\ WF_vars((StartTimerEnd \/ PostByte("pool")) /\ UNCHANGED processVars)
    /\ WF_vars(Clock) /\ WF_vars(processSignalHandler)
    /\ \A p \in Processes : WF_vars(ChildExits(p))

Spec == Init /\ [][Next]_vars /\ Fairness

-----------------------------------------------------------------------------
=============================================================================
