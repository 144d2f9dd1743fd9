------------------------------ MODULE Session ------------------------------
(* One run of rc against rdm: the commands of a command line are sent one    *)
(* after another, each over a connection that rdm closes when the answer is   *)
(* complete (RClient.cpp, Client.cpp, Connection.cpp, LocalClient.cpp and the *)
(* query handlers of Server.cpp).  The socket to rc holds SocketSize bytes;   *)
(* queries travel whole.  When more than MaxBufferSize bytes wait to be       *)
(* taken, readMore() drops them and keeps the position: rc is then "dropped", *)
(* and what it makes of the bytes that follow is not modelled.  A byte of an  *)
(* answer is <<cmd, nr, at>>: byte "at" of the nr-th message written for      *)
(* command cmd, header bytes first.                                           *)
EXTENDS Naturals, Sequences, FiniteSets, TLC

CONSTANTS
    CommandLines,   \* the command lines: sequences of options
    MaxMessages,    \* messages written for one command
    BodySize,       \* [1 .. MaxMessages -> Nat]: bytes of a message's body
    HeaderSize,     \* bytes of the length in front of a message
    SocketSize,     \* bytes the socket buffers
    ChunkSize,      \* BufSize: bytes of one recv()
    MaxBufferSize,  \* bytes from which the read buffer is compacted
    MaxRequests     \* bound: completions asked for on rc's stdin

ASSUME LinesAssumption == \A line \in CommandLines : line \in Seq(STRING)

(* Every message has a header.                                               *)
ASSUME SizesAssumption ==
    /\ MaxMessages \in Nat /\ BodySize \in [1 .. MaxMessages -> Nat] /\ HeaderSize \in Nat \ {0}
    /\ SocketSize \in Nat /\ ChunkSize \in Nat /\ MaxBufferSize \in Nat /\ MaxRequests \in Nat

(* rdm hangs up at once behind its answer to Shutdown, "Shutting down": the   *)
(* socket takes those few bytes.                                              *)
ASSUME ShutdownAssumption == MaxMessages > 0 => HeaderSize + BodySize[1] <= SocketSize

Min(a, b) == IF a < b THEN a ELSE b

-----------------------------------------------------------------------------
(* The command line. *)

QueryType ==
    "quit-rdm" :> "Shutdown" @@ "clear" :> "ClearProjects" @@ "project" :> "Project"
    @@ "project-arg" :> "Project" @@ "delete-project" :> "DeleteProject"
    @@ "unload" :> "UnloadProject" @@ "reload-projects" :> "ReloadProjects"
    @@ "jobcount" :> "JobCount" @@ "follow-location" :> "FollowLocation"
    @@ "references-name" :> "ReferencesName" @@ "references" :> "ReferencesLocation"
    @@ "list-symbols" :> "ListSymbols" @@ "find-symbols" :> "FindSymbols"
    @@ "cursor-info" :> "CursorInfo" @@ "status" :> "Status"
    @@ "is-indexed" :> "IsIndexed" @@ "has-filemanager" :> "HasFileManager"
    @@ "preprocess" :> "PreprocessFile" @@ "reindex" :> "Reindex" @@ "path" :> "FindFile"
    @@ "dump-file" :> "DumpFile" @@ "fixits" :> "FixIts"

OtherType ==
    "rdm-log" :> "CreateOutput" @@ "diagnostics" :> "CreateOutput"
    @@ "compile" :> "Compile" @@ "code-complete-at" :> "Completion"
    @@ "code-complete" :> "Stream"

Option(p, o) ==
    CASE o = "timeout"       -> [p EXCEPT !.mTimeout = TRUE]
      [] o = "autostart-rdm" -> [p EXCEPT !.autostart = TRUE]
      [] OTHER -> [p EXCEPT !.mCommands =
                    Append(@, [option |-> o, type |-> (QueryType @@ OtherType)[o], silent |-> FALSE])]

NoOptions == [mCommands |-> <<>>, mTimeout |-> FALSE, autostart |-> FALSE]

Parsed(line) ==
    LET parsed[n \in 0 .. Len(line)] == IF n = 0 THEN NoOptions ELSE Option(parsed[n - 1], line[n])
        p    == parsed[Len(line)]
        cmds == p.mCommands
        projectCommands == {i \in DOMAIN cmds : cmds[i].type = "Project"}
    IN [p EXCEPT !.mCommands = [i \in DOMAIN cmds |->
            [cmds[i] EXCEPT !.silent = /\ Cardinality(projectCommands) < Len(cmds)
                                       /\ cmds[i].option = "project-arg"]]]

-----------------------------------------------------------------------------
VARIABLES
    setup,          \* the parsed command line
    pc,             \* where rc is
    cmd,            \* the command rc runs
    mConnection,    \* rc holds a Connection
    slots,          \* how often Client's slots are connected to its signals
    reader,         \* [mReadBuffer, mReadBufferPos, mPendingRead, eof] of rc's connection
    pipe,           \* bytes in rc's event pipe: subset of {"wake", "q"}
    ready,          \* what the last select() reported: subset of {"pipe", "socket"}
    mQuit,
    timer,          \* the command's timer: "off", "set" or "due"
    stdin,          \* [watched, unread, held, typed]: requests in the pipe and in getc()'s buffer
    printed,        \* what rc printed: [during, message, copies], in order
    cutShort,       \* a command was left before rdm hung up: timeout, or not a request
    serverUp,       \* rdm runs
    toServer,       \* sent on the connection and not yet read by rdm: [cmd, type, nr]
    conn,           \* rdm's end of the connection, and the bytes on their way to rc
    written,        \* messages sent for each command
    processes       \* preprocessors that run: <<command, connection number>>

rcVars     == <<pc, cmd, mConnection, slots, reader, pipe, ready, mQuit, timer, stdin,
                printed, cutShort>>
loopVars   == <<pipe, ready, mQuit, timer, stdin>>
serverVars == <<serverUp, toServer, conn, written, processes>>
vars       == <<setup, rcVars, serverVars>>

Commands == DOMAIN setup.mCommands
FreshReader == [mReadBuffer |-> <<>>, mReadBufferPos |-> 0, mPendingRead |-> 0, eof |-> FALSE]

(* lookups: what was asked on this connection and has a query job, loggers:   *)
(* commands with a LogObject, stream: isCompletionStream().                   *)
NewConnection(n) ==
    [no |-> n, link |-> "backlog", unsent |-> <<>>, wire |-> <<>>, mPendingWrite |-> 0,
     mDone |-> FALSE, mSilent |-> FALSE, lookups |-> {}, loggers |-> {}, stream |-> FALSE]

Init ==
    /\ setup \in {Parsed(line) : line \in CommandLines}
    /\ serverUp \in BOOLEAN
    /\ pc = "start" /\ cmd = 1 /\ mConnection = FALSE /\ slots = 0 /\ reader = FreshReader
    /\ pipe = {} /\ ready = {} /\ mQuit = FALSE /\ timer = "off"
    /\ stdin = [watched |-> FALSE, unread |-> 0, held |-> 0, typed |-> 0]
    /\ printed = <<>> /\ cutShort = FALSE
    /\ toServer = <<>> /\ conn = [NewConnection(0) EXCEPT !.link = "none"]
    /\ written = [i \in Commands |-> 0] /\ processes = {}

-----------------------------------------------------------------------------
(* Connection and LocalClient as rdm uses them: operators on the record conn. *)

Bytes(i, nr) == [at \in 1 .. HeaderSize + BodySize[nr] |-> <<i, nr, at>>]

Disconnect(c) == [c EXCEPT !.link = "closed", !.lookups = {}, !.loggers = {}]

dataWritten(c, bytes) ==
    LET left == c.mPendingWrite - bytes
        now  == [c EXCEPT !.mPendingWrite = left]
    IN IF left = 0 /\ c.mDone THEN Disconnect(now) ELSE now

writeMore(c) ==
    LET n == Min(SocketSize - Len(c.wire), Len(c.unsent))
        moved == [c EXCEPT !.wire = @ \o SubSeq(c.unsent, 1, n),
                           !.unsent = SubSeq(@, n + 1, Len(@))]
    IN IF n = 0 THEN c ELSE dataWritten(moved, n)

write(c, data) == writeMore([c EXCEPT !.unsent = @ \o data])

(* The header and the body of a message, one write() after the other. *)
Sends(c) == c.link = "open" /\ ~c.mSilent

send(c, i, nr) ==
    IF ~Sends(c) THEN c
    ELSE LET counted == [c EXCEPT !.mPendingWrite = @ + HeaderSize + BodySize[nr]]
         IN write(counted, Bytes(i, nr))

sendAll(c, i, n) ==
    LET sent[k \in 0 .. n] == IF k = 0 THEN c ELSE send(sent[k - 1], i, written[i] + k)
    IN sent[n]

finish(c) == dataWritten([c EXCEPT !.mDone = TRUE], 0)
FinishUnlessStream(c) == IF c.stream THEN c ELSE finish(c)

-----------------------------------------------------------------------------
(* rc: RClient::exec, Client, and its event loop. *)

(* connectToServer() of the constructor and of sendMessage(); with           *)
(* --autostart-rdm an rdm is started, which may fail.                         *)
Connected(up) ==
    /\ serverUp' = up
    /\ IF up THEN /\ conn' = NewConnection(conn.no + 1) /\ reader' = FreshReader
             ELSE UNCHANGED <<conn, reader>>

startProcess == IF ~serverUp /\ setup.autostart THEN BOOLEAN ELSE {serverUp}
TryConnect == \E up \in startProcess : Connected(up)

Start ==
    /\ pc = "start"
    /\ TryConnect
    /\ mConnection' = serverUp' /\ toServer' = <<>> /\ pc' = "exec"
    /\ UNCHANGED <<setup, cmd, slots, loopVars, printed, cutShort, written, processes>>

(* A completion stream has rc watch its stdin. *)
Asked(nr) == [cmd |-> cmd, type |-> setup.mCommands[cmd].type, nr |-> nr]
WatchStdin == stdin' = [stdin EXCEPT !.watched = @ \/ setup.mCommands[cmd].type = "Stream"]

AddTimer ==
    /\ timer' = IF setup.mTimeout THEN "set" ELSE "off"
    /\ mQuit' = FALSE
    /\ pipe' = pipe \cup {"wake"}

(* The connection of an earlier command is still there after a timeout. *)
sendMessage ==
    /\ pc = "exec" /\ cmd \in Commands /\ mConnection
    /\ AddTimer /\ WatchStdin
    /\ toServer' = IF conn.link = "closed" THEN toServer ELSE Append(toServer, Asked(0))
    /\ slots' = slots + 1 /\ pc' = "select"
    /\ UNCHANGED <<setup, cmd, mConnection, reader, ready, printed, cutShort, serverUp, conn,
                   written, processes>>

(* Without a server the command returns at once, unless rdm should have been  *)
(* started: then the null connection is used.                                 *)
connectAndSend ==
    /\ pc = "exec" /\ cmd \in Commands /\ ~mConnection
    /\ TryConnect /\ WatchStdin
    /\ IF serverUp'
       THEN /\ AddTimer
            /\ mConnection' = TRUE /\ slots' = 1 /\ toServer' = <<Asked(0)>> /\ pc' = "select"
            /\ UNCHANGED cmd
       ELSE /\ IF setup.autostart THEN pc' = "crashed" /\ UNCHANGED cmd
                                  ELSE pc' = "exec" /\ cmd' = cmd + 1
            /\ pipe' = IF setup.mTimeout THEN pipe \cup {"wake"} ELSE pipe
            /\ UNCHANGED <<mConnection, slots, toServer, timer, mQuit>>
    /\ UNCHANGED <<setup, ready, printed, cutShort, written, processes>>

Finished ==
    /\ pc = "exec" /\ cmd \notin Commands
    /\ pc' = "done"
    /\ UNCHANGED <<setup, cmd, mConnection, slots, reader, loopVars, printed, cutShort, serverVars>>

(* The loop wakes up; a due timer fires before the pipe and the socket are     *)
(* looked at, and removes itself.                                             *)
Readable ==
    (IF mConnection /\ (conn.wire # <<>> \/ conn.link = "closed") THEN {"socket"} ELSE {})
    \cup (IF stdin.watched /\ stdin.unread > 0 THEN {"stdin"} ELSE {})

Select ==
    /\ pc = "select"
    /\ pipe # {} \/ Readable # {} \/ timer = "due"
    /\ ready' = (IF pipe # {} THEN {"pipe"} ELSE {}) \cup Readable
    /\ IF timer = "due" THEN timer' = "off" /\ pipe' = pipe \cup {"q"} /\ cutShort' = TRUE
                        ELSE UNCHANGED <<timer, pipe, cutShort>>
    /\ pc' = "pipe"
    /\ UNCHANGED <<setup, cmd, mConnection, slots, reader, mQuit, stdin, printed, serverVars>>

AfterStdin == IF "socket" \in ready /\ mConnection THEN "read" ELSE "end"

handlePipe ==
    /\ pc = "pipe"
    /\ IF "pipe" \in ready THEN mQuit' = (mQuit \/ "q" \in pipe) /\ pipe' = {}
                           ELSE UNCHANGED <<mQuit, pipe>>
    /\ pc' = IF "stdin" \in ready THEN "stdin" ELSE AfterStdin
    /\ UNCHANGED <<setup, cmd, mConnection, slots, reader, ready, timer, stdin, printed, cutShort,
                   serverVars>>

(* processStdin() takes one request; getc() may have read more than that one.  *)
Streaming == setup.mCommands[cmd].type = "Stream"
Request == [Asked(stdin.typed - stdin.unread - stdin.held + 1) EXCEPT !.type = "Completion"]

Written == toServer' = IF conn.link = "closed" THEN toServer ELSE Append(toServer, Request)

processStdin ==
    /\ pc = "stdin" /\ Streaming
    /\ \E n \in 1 .. stdin.unread :
          stdin' = [stdin EXCEPT !.unread = @ - n, !.held = @ + n - 1]
    /\ IF mConnection
       THEN /\ Written \/ UNCHANGED toServer   \* the path cannot be resolved
            /\ pc' = AfterStdin
            /\ UNCHANGED <<mConnection, slots, reader, serverUp, conn>>
       ELSE /\ TryConnect /\ mConnection' = serverUp' /\ slots' = 0
            /\ toServer' = IF serverUp' THEN <<Request>> ELSE <<>>
            /\ pc' = IF ~serverUp' /\ setup.autostart THEN "crashed" ELSE "end"
    /\ UNCHANGED <<setup, cmd, pipe, ready, mQuit, timer, printed, cutShort, written, processes>>

(* A line that is no request ends the command. *)
processStdinFails ==
    /\ pc = "stdin" /\ Streaming
    /\ stdin' = [stdin EXCEPT !.watched = FALSE, !.unread = @ - 1]
    /\ pipe' = pipe \cup {"wake", "q"} /\ cutShort' = TRUE
    /\ pc' = AfterStdin
    /\ UNCHANGED <<setup, cmd, mConnection, slots, reader, ready, mQuit, timer, printed, serverVars>>

(* The callback of a stream that a timeout or rdm has ended: its command is    *)
(* deleted, what happens is undefined.                                        *)
processStdinDangling ==
    /\ pc = "stdin" /\ ~Streaming
    /\ pc' = "undefined"
    /\ UNCHANGED <<setup, cmd, mConnection, slots, reader, loopVars, printed, cutShort, serverVars>>

(* The editor asks. *)
Type ==
    /\ pc \notin {"done", "crashed", "dropped", "undefined"}
    /\ \E i \in Commands : setup.mCommands[i].type = "Stream"
    /\ stdin.typed < MaxRequests
    /\ stdin' = [stdin EXCEPT !.unread = @ + 1, !.typed = @ + 1]
    /\ UNCHANGED <<setup, pc, cmd, mConnection, slots, reader, pipe, ready, mQuit, timer, printed,
                   cutShort, serverVars>>

(* One recv(); a buffer that grows too large loses what was already taken.    *)
Overflows(size) == size >= MaxBufferSize

Kept(b, r) ==
    IF Overflows(Len(b.mReadBuffer) + r)
    THEN [b EXCEPT !.mReadBuffer = SubSeq(@, b.mReadBufferPos + 1, Len(@)), !.mReadBufferPos = 0]
    ELSE b

readMore ==
    /\ pc = "read" /\ conn.wire # <<>>
    /\ LET r == Min(ChunkSize, Len(conn.wire))
           b == [reader EXCEPT !.mReadBuffer = @ \o SubSeq(conn.wire, 1, r)]
       IN /\ conn' = [conn EXCEPT !.wire = SubSeq(@, r + 1, Len(@))]
          /\ reader' = Kept(b, r)
          /\ pc' = IF Overflows(Len(b.mReadBuffer) - b.mReadBufferPos + r) THEN "dropped" ELSE pc
    /\ UNCHANGED <<setup, cmd, mConnection, slots, loopVars, printed, cutShort, serverUp,
                   toServer, written, processes>>

(* Mutant: the end of the stream is handled before the bytes that came with it. *)
readEndHangsUp ==
    /\ pc = "read" /\ conn.wire = <<>>
    /\ reader' = [reader EXCEPT !.eof = (conn.link = "closed")]
    /\ IF reader'.eof THEN mConnection' = FALSE /\ pipe' = pipe \cup {"wake", "q"} /\ pc' = "end"
                      ELSE pc' = "parse" /\ UNCHANGED <<mConnection, pipe>>
    /\ UNCHANGED <<setup, cmd, slots, ready, mQuit, timer, stdin, printed, cutShort, serverVars>>

(* EAGAIN, or 0 bytes when rdm has closed the socket. *)
readEnd ==
    /\ pc = "read" /\ conn.wire = <<>>
    /\ reader' = [reader EXCEPT !.eof = (conn.link = "closed")]
    /\ pc' = "parse"
    /\ UNCHANGED <<setup, cmd, mConnection, slots, loopVars, printed, cutShort, serverVars>>

(* LocalClient::read *)
bytesAvailable(b) == Len(b.mReadBuffer) - b.mReadBufferPos

(* Mutant: the buffer is cleared, the position is not. *)
TakenKeepsPos(b, n) ==
    IF b.mReadBufferPos + n = Len(b.mReadBuffer)
    THEN [b EXCEPT !.mReadBuffer = <<>>]
    ELSE [b EXCEPT !.mReadBufferPos = @ + n]

Taken(b, n) ==
    IF b.mReadBufferPos + n = Len(b.mReadBuffer)
    THEN [b EXCEPT !.mReadBuffer = <<>>, !.mReadBufferPos = 0]
    ELSE [b EXCEPT !.mReadBufferPos = @ + n]

NextByte(b) == b.mReadBuffer[b.mReadBufferPos + 1]

(* The length is what the header says; bytes that are no header say 0. *)
Length(b) == IF NextByte(b)[3] = 1 THEN BodySize[NextByte(b)[2]] ELSE 0

(* Mutant: a length that was read is forgotten when the body is not there yet. *)
HeaderAgain(b) == bytesAvailable(b) >= HeaderSize

HeaderThere(b) == b.mPendingRead = 0 /\ bytesAvailable(b) >= HeaderSize

BodyThere(b) == b.mPendingRead > 0 /\ bytesAvailable(b) >= b.mPendingRead

parseHeader ==
    /\ pc = "parse" /\ HeaderThere(reader)
    /\ reader' = [Taken(reader, HeaderSize) EXCEPT !.mPendingRead = Length(reader)]
    /\ UNCHANGED <<setup, pc, cmd, mConnection, slots, loopVars, printed, cutShort, serverVars>>

(* A whole message: onNewMessage() prints it once per connected slot. *)
parseMessage ==
    /\ pc = "parse" /\ BodyThere(reader)
    /\ LET byte == NextByte(reader)
       IN printed' = Append(printed, [during |-> cmd, message |-> <<byte[1], byte[2]>>,
                                      copies |-> slots])
    /\ reader' = [Taken(reader, reader.mPendingRead) EXCEPT !.mPendingRead = 0]
    /\ UNCHANGED <<setup, pc, cmd, mConnection, slots, loopVars, cutShort, serverVars>>

(* Mutant: rc drops the connection and stays in its loop. *)
parseEndStays ==
    /\ pc = "parse" /\ ~HeaderThere(reader) /\ ~BodyThere(reader)
    /\ IF reader.eof THEN mConnection' = FALSE /\ pipe' = pipe \cup {"wake"}
                     ELSE UNCHANGED <<mConnection, pipe>>
    /\ pc' = "end"
    /\ UNCHANGED <<setup, cmd, slots, reader, ready, mQuit, timer, stdin, printed, cutShort, serverVars>>

(* Nothing more to take; at the end of the stream onDisconnected() drops the  *)
(* connection and leaves the loop.                                            *)
parseEnd ==
    /\ pc = "parse" /\ ~HeaderThere(reader) /\ ~BodyThere(reader)
    /\ IF reader.eof THEN mConnection' = FALSE /\ pipe' = pipe \cup {"wake", "q"}
                     ELSE UNCHANGED <<mConnection, pipe>>
    /\ pc' = "end"
    /\ UNCHANGED <<setup, cmd, slots, reader, ready, mQuit, timer, stdin, printed, cutShort, serverVars>>

(* run() returns when mQuit is set; the command's timer is removed. *)
RoundEnd ==
    /\ pc = "end"
    /\ IF mQuit THEN pc' = "exec" /\ cmd' = cmd + 1 /\ timer' = "off"
                ELSE pc' = "select" /\ UNCHANGED <<cmd, timer>>
    /\ UNCHANGED <<setup, mConnection, slots, reader, pipe, ready, mQuit, stdin, printed, cutShort,
                   serverVars>>

(* Time passes. *)
Tick ==
    /\ timer = "set"
    /\ timer' = "due"
    /\ UNCHANGED <<setup, pc, cmd, mConnection, slots, reader, pipe, ready, mQuit, stdin, printed,
                   cutShort, serverVars>>

-----------------------------------------------------------------------------
(* rdm: what a handler does with a query.  "writes" messages at once, then     *)
(* "finish", a "job" or a "process" that answers later, a "log" that goes on   *)
(* for ever, or "nothing": the connection is forgotten.                        *)

Outcome(ns, then) == {[writes |-> n, then |-> then] : n \in ns}
AnyNumber == 0 .. MaxMessages

(* The handler runs its job itself, and then finishes. *)
Lookups == {"FollowLocation", "FindFile"}
SymbolQueries == {"ReferencesLocation", "ReferencesName", "ListSymbols", "FindSymbols"}
ProjectQueries == {"Project", "DeleteProject", "UnloadProject"}

OneAnswer == {"JobCount", "ClearProjects", "Shutdown", "ReloadProjects"}
YesOrNo == {"IsIndexed", "HasFileManager"}

cursorInfo     == Outcome(AnyNumber, "finish")
dumpFile       == Outcome({1}, "finish") \cup Outcome({0}, "job")
status         == Outcome({0}, "finish") \cup Outcome({0}, "job")
reindex        == Outcome({0, 1}, "finish")
fixIts         == Outcome({0, 1}, "finish")
preprocessFile == Outcome({1}, "finish") \cup Outcome({0}, "process") \cup Outcome({0}, "nothing")
startCompletion ==
    Outcome({0, 1}, "finish") \cup Outcome({0}, "job") \cup Outcome({0}, "nothing")

Outcomes(type) ==
    CASE type \in Lookups \cup SymbolQueries \cup ProjectQueries -> Outcome(AnyNumber, "finish")
      [] type \in OneAnswer \cup YesOrNo -> Outcome({1}, "finish")
      [] type = "CursorInfo"     -> cursorInfo
      [] type = "DumpFile"       -> dumpFile
      [] type = "Status"         -> status
      [] type = "Reindex"        -> reindex
      [] type = "FixIts"         -> fixIts
      [] type = "PreprocessFile" -> preprocessFile
      [] type = "Completion"     -> startCompletion
      [] type = "Compile"        -> Outcome({0}, "finish")
      [] type = "CreateOutput"   -> Outcome({0, 1}, "log")
      [] OTHER                   -> Outcome({0}, "stream")

IsQuery(i) == setup.mCommands[i].option \in DOMAIN QueryType

Accept ==
    /\ serverUp /\ conn.link = "backlog"
    /\ conn' = [conn EXCEPT !.link = "open"]
    /\ UNCHANGED <<setup, rcVars, serverUp, toServer, written, processes>>

Count(c, i, n) == [written EXCEPT ![i] = @ + IF Sends(c) THEN n ELSE 0]

(* What becomes of the connection c behind the message m. *)
Ended(m, then, c) ==
    IF m.type = "Shutdown" THEN Disconnect(c)
    ELSE CASE then = "finish" -> FinishUnlessStream(c)
           [] then = "job"    -> [c EXCEPT !.lookups = @ \cup {<<m.cmd, m.nr>>}]
           [] then = "log"    -> [c EXCEPT !.loggers = @ \cup {m.cmd}]
           [] then = "stream" -> [c EXCEPT !.stream = TRUE]
           [] OTHER           -> c

(* onNewMessage(): the whole handler of the next query. *)
Handle ==
    /\ serverUp /\ conn.link = "open" /\ toServer # <<>>
    /\ LET m == Head(toServer)
           i == m.cmd
           c == IF IsQuery(i) THEN [conn EXCEPT !.mSilent = setup.mCommands[i].silent] ELSE conn
       IN \E o \in Outcomes(m.type) :
            /\ written[i] + o.writes <= MaxMessages
            /\ written' = Count(c, i, o.writes)
            /\ \E sent \in {sendAll(c, i, o.writes)} : conn' = Ended(m, o.then, sent)
            /\ processes' = IF m.type = "Shutdown" THEN {}
                            ELSE processes \cup (IF o.then = "process" THEN {<<i, conn.no>>} ELSE {})
            /\ serverUp' = (m.type # "Shutdown")
            /\ toServer' = IF conn'.link = "closed" THEN <<>> ELSE Tail(toServer)
    /\ UNCHANGED <<setup, rcVars>>

(* The socket takes more bytes; the last ones may close a finished connection. *)
WriteMore ==
    /\ serverUp /\ conn.link = "open" /\ conn.unsent # <<>> /\ Len(conn.wire) < SocketSize
    /\ conn' = writeMore(conn)
    /\ toServer' = IF conn'.link = "closed" THEN <<>> ELSE toServer
    /\ UNCHANGED <<setup, rcVars, serverUp, written, processes>>

(* JobOutputEvent of a query job: some output, or the last of it and finish(). *)
JobOutput(i) ==
    /\ serverUp /\ (\E j \in conn.lookups : j[1] = i) /\ written[i] < MaxMessages
    /\ conn' = send(conn, i, written[i] + 1)
    /\ written' = Count(conn, i, 1)
    /\ UNCHANGED <<setup, rcVars, serverUp, toServer, processes>>

JobEnd(j) ==
    /\ serverUp /\ j \in conn.lookups
    /\ \E n \in {0, 1} :
         /\ written[j[1]] + n <= MaxMessages
         /\ conn' = FinishUnlessStream(sendAll([conn EXCEPT !.lookups = @ \ {j}], j[1], n))
         /\ written' = Count(conn, j[1], n)
    /\ toServer' = IF conn'.link = "closed" THEN <<>> ELSE toServer
    /\ UNCHANGED <<setup, rcVars, serverUp, processes>>

LogOutput(i) ==
    /\ serverUp /\ i \in conn.loggers /\ written[i] < MaxMessages
    /\ conn' = send(conn, i, written[i] + 1)
    /\ written' = Count(conn, i, 1)
    /\ UNCHANGED <<setup, rcVars, serverUp, toServer, processes>>

(* onProcessFinished(): the command, its output and, if there is any, stderr. *)
ProcessEnd ==
    \E p \in processes, n \in {2, 3} :
       /\ serverUp /\ p[2] = conn.no /\ conn.link = "open" /\ written[p[1]] + n <= MaxMessages
       /\ processes' = processes \ {p}
       /\ conn' = finish(sendAll(conn, p[1], n))
       /\ written' = Count(conn, p[1], n)
       /\ toServer' = IF conn'.link = "closed" THEN <<>> ELSE toServer
       /\ UNCHANGED <<setup, rcVars, serverUp>>

(* The same with a connection that was deleted: undefined, rdm may go down. *)
ProcessEndDangling ==
    \E p \in processes :
       /\ serverUp /\ (p[2] # conn.no \/ conn.link = "closed")
       /\ serverUp' \in BOOLEAN
       /\ IF serverUp' THEN /\ processes' = processes \ {p} /\ UNCHANGED <<conn, toServer>>
                       ELSE /\ processes' = {}
                            /\ conn' = Disconnect(conn) /\ toServer' = <<>>
       /\ UNCHANGED <<setup, rcVars, written>>

-----------------------------------------------------------------------------
rcStep == \/ Start \/ sendMessage \/ connectAndSend \/ Finished \/ Select \/ handlePipe
          \/ processStdin \/ processStdinFails \/ processStdinDangling
          \/ readMore \/ readEnd \/ parseHeader \/ parseMessage \/ parseEnd \/ RoundEnd

JobEnds == \E j \in conn.lookups : JobEnd(j)
Jobs == JobEnds \/ \E i \in Commands : JobOutput(i) \/ LogOutput(i)

Next == rcStep \/ Type \/ Tick \/ Accept \/ Handle \/ WriteMore \/ Jobs \/ ProcessEnd \/ ProcessEndDangling

(* rc's loop runs, time passes, rdm's loop serves what is ready, and every     *)
(* query job and every preprocessor that was started comes to its end.        *)
Fairness ==
    /\ WF_vars(rcStep) /\ WF_vars(Tick)
    /\ WF_vars(Accept) /\ WF_vars(Handle) /\ WF_vars(WriteMore)
    /\ WF_vars(JobEnds) /\ WF_vars(ProcessEnd)

Spec == Init /\ [][Next]_vars /\ Fairness

-----------------------------------------------------------------------------
(* The books of both ends agree with the bytes: mPendingWrite counts what is   *)
(* not yet in the socket, nothing is left unsent behind a closed connection    *)
(* while rdm runs, and the read position stays inside the buffer               *)
(* (Connection.cpp dataWritten, LocalClient.cpp read and readMore).            *)
StreamsAccounted ==
    /\ pc \in {"start", "exec", "select", "pipe", "stdin", "read", "parse", "end",
              "done", "crashed", "dropped", "undefined"}
    /\ conn.link \in {"none", "backlog", "open", "closed"}
    /\ Len(conn.wire) <= SocketSize
    /\ conn.mPendingWrite = Len(conn.unsent)
    /\ (conn.link = "closed" /\ serverUp) => conn.unsent = <<>>
    /\ reader.mReadBufferPos <= Len(reader.mReadBuffer)

(* What rc prints of the first n messages for command i, one line each; a     *)
(* message without a body is not seen.                                        *)
Answer(i, n) ==
    LET seen[k \in 0 .. n] ==
            IF k = 0 THEN <<>>
            ELSE IF BodySize[k] > 0
                 THEN Append(seen[k - 1], [during |-> i, message |-> <<i, k>>, copies |-> 1])
            ELSE seen[k - 1]
    IN seen[n]

(* All of the answers to the commands before i, when w[k] messages were        *)
(* written for command k.                                                     *)
AnswersBefore(i, w) ==
    LET all[k \in 0 .. i - 1] == IF k = 0 THEN <<>> ELSE all[k - 1] \o Answer(k, w[k])
    IN all[i - 1]

(* rc prints, command after command, what rdm wrote for that command, each    *)
(* message once and in order, and all of it by the time the command returns   *)
(* -- as long as no timeout and no line that is no request has cut a command  *)
(* short.                                                                     *)
OwnAnswers ==
    ~cutShort =>
        \E n \in 0 .. (IF cmd \in Commands THEN written[cmd] ELSE 0) :
            printed = AnswersBefore(cmd, written) \o Answer(cmd, n)

(* The bytes that rc has still to look at: in its buffer, in the socket, and   *)
(* those rdm has not got rid of.                                              *)
Unread(b) == SubSeq(b.mReadBuffer, b.mReadBufferPos + 1, Len(b.mReadBuffer))
Stream == Unread(reader) \o conn.wire \o (IF conn.link = "open" THEN conn.unsent ELSE <<>>)

(* The messages of which s has the last byte; one without a body is not seen.  *)
EndsMessage(b) == BodySize[b[2]] > 0 /\ b[3] = HeaderSize + BodySize[b[2]]

MessagesIn(s) ==
    LET found[k \in 0 .. Len(s)] ==
            IF k = 0 THEN <<>>
            ELSE IF EndsMessage(s[k]) THEN Append(found[k - 1], <<s[k][1], s[k][2]>>)
            ELSE found[k - 1]
    IN found[Len(s)]

InFlight == MessagesIn(Stream)

Messages == (UNION {DOMAIN line : line \in CommandLines}) \X (1 .. MaxMessages)

Queue == INSTANCE AnswerQueue WITH
    Message <- Messages,
    up      <- serverUp,
    open    <- conn.link \in {"backlog", "open"},
    queue   <- InFlight,
    taken   <- [k \in DOMAIN printed |-> printed[k].message]

(* Bytes in flight make up a queue of whole messages (Connection::send and     *)
(* dataAvailable, LocalClient::readMore and writeMore), whatever the sizes of  *)
(* the pieces the socket moves.                                                *)
AnswersAreAQueue == Queue!Spec

MayWait == \E i \in Commands :
              setup.mCommands[i].type \in {"CreateOutput", "PreprocessFile", "Completion", "Stream"}

(* rc comes to its end, unless a command waits for something that rdm may      *)
(* never finish: a log, a preprocessor that cannot be started, a completion in *)
(* a file rdm has no id for.  With a timeout it always comes to its end.       *)
RcEnds == (setup.mTimeout \/ ~MayWait) ~> (pc \in {"done", "crashed", "dropped", "undefined"})
=============================================================================
