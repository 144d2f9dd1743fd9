------------------------- MODULE Completion_proofs -------------------------
(***************************************************************************)
(* What rdm's answers keep for any connections, files, messages and size   *)
(* of the cache.                                                           *)
(*                                                                         *)
(* None of the invariants is inductive alone.  A connection is not deleted *)
(* under a completion that waits because its client asks once: until then  *)
(* nothing answers it, so that nothing calls finish().  And a file has one *)
(* job because at any time one of three holds it: a job that has not       *)
(* reported, its report in the queue, or nobody.                           *)
(***************************************************************************)
EXTENDS Completion, FiniteSetTheorems, SequenceTheorems, WellFoundedInduction, TLAPS

---------------------------------------------------------------------------
(* A queue as a bag: what is in it, and what is in it once.                *)

Occurs(s, x) == \E k \in DOMAIN s : s[k] = x
AtMostOnce(s, x) == \A k, m \in DOMAIN s : s[k] = x /\ s[m] = x => k = m

LEMMA EmptyQueue ==
    \A x : ~Occurs(<<>>, x) /\ AtMostOnce(<<>>, x)
  BY DEF Occurs, AtMostOnce

LEMMA AppendAdds ==
    ASSUME NEW S, NEW s \in Seq(S), NEW e \in S
    PROVE  /\ Append(s, e) \in Seq(S)
           /\ \A x : Occurs(Append(s, e), x) <=> Occurs(s, x) \/ x = e
           /\ \A x : AtMostOnce(s, x) /\ (x = e => ~Occurs(s, x)) => AtMostOnce(Append(s, e), x)
<1> DEFINE t == Append(s, e)
<1>1. Len(s) \in Nat /\ DOMAIN s = 1..Len(s)
  BY LenProperties
<1>2. /\ t \in Seq(S) /\ DOMAIN t = 1..(Len(s) + 1)
      /\ \A k \in 1..Len(s) : t[k] = s[k]
      /\ t[Len(s) + 1] = e
  BY AppendProperties, LenProperties
<1> HIDE DEF t
<1>3. /\ \A k \in DOMAIN t : k \in DOMAIN s \/ k = Len(s) + 1
      /\ \A k \in DOMAIN s : k \in DOMAIN t
      /\ Len(s) + 1 \in DOMAIN t
  BY <1>1, <1>2
<1>4. \A x : Occurs(t, x) <=> Occurs(s, x) \/ x = e
  BY <1>1, <1>2, <1>3 DEF Occurs
<1>5. ASSUME NEW x, AtMostOnce(s, x), x = e => ~Occurs(s, x) PROVE AtMostOnce(t, x)
  BY <1>1, <1>2, <1>3, <1>5 DEF Occurs, AtMostOnce
<1> QED  BY <1>2, <1>4, <1>5 DEF t

LEMMA TailDrops ==
    ASSUME NEW S, NEW s \in Seq(S), s # <<>>
    PROVE  /\ Tail(s) \in Seq(S) /\ Head(s) \in S /\ Occurs(s, Head(s))
           /\ \A x : Occurs(Tail(s), x) => Occurs(s, x)
           /\ \A x : Occurs(s, x) => x = Head(s) \/ Occurs(Tail(s), x)
           /\ \A x : AtMostOnce(s, x) => AtMostOnce(Tail(s), x)
           /\ AtMostOnce(s, Head(s)) => ~Occurs(Tail(s), Head(s))
<1> DEFINE t == Tail(s)
<1>1. Len(s) \in Nat \ {0} /\ DOMAIN s = 1..Len(s)
  BY LenProperties, EmptySeq
<1>2. /\ t \in Seq(S) /\ DOMAIN t = 1..(Len(s) - 1)
      /\ \A k \in 1..(Len(s) - 1) : t[k] = s[k + 1]
  BY <1>1, HeadTailProperties, LenProperties
<1>3. Head(s) = s[1] /\ Head(s) \in S /\ 1 \in DOMAIN s
  BY <1>1, HeadTailProperties
<1> HIDE DEF t
<1>4. \A k \in DOMAIN t : k + 1 \in DOMAIN s /\ k + 1 # 1 /\ s[k + 1] = t[k]
  BY <1>1, <1>2
<1>5. \A k \in DOMAIN s : k = 1 \/ (k - 1 \in DOMAIN t /\ t[k - 1] = s[k])
  BY <1>1, <1>2
<1>6. /\ \A x : Occurs(t, x) => Occurs(s, x)
      /\ \A x : Occurs(s, x) => x = Head(s) \/ Occurs(t, x)
  BY <1>3, <1>4, <1>5 DEF Occurs
<1>7. \A x : AtMostOnce(s, x) => AtMostOnce(t, x)
  <2> SUFFICES ASSUME NEW x, AtMostOnce(s, x), NEW k \in DOMAIN t, NEW m \in DOMAIN t,
                      t[k] = x, t[m] = x
               PROVE  k = m
    BY DEF AtMostOnce
  <2>1. k + 1 = m + 1
    BY <1>4 DEF AtMostOnce
  <2> QED  BY <1>1, <1>2, <2>1
<1>8. AtMostOnce(s, Head(s)) => ~Occurs(t, Head(s))
  BY <1>3, <1>4 DEF Occurs, AtMostOnce
<1> QED  BY <1>2, <1>3, <1>6, <1>7, <1>8 DEF Occurs, t

---------------------------------------------------------------------------

Posted(e) == Occurs(mEvents, e)

\* A connection is deleted because of finish(), which nothing takes back.
DeletedAreDone ==
    \A c \in Conns : Posted(DeleteLater(c)) \/ mFd[c] = "deleted" => mDone[c]

\* Whom rdm means to answer has asked, and so has whom it is done with.
AnsweredHaveAsked ==
    \A c \in Conns :
        /\ \A i \in JobIds : mPendingLookups[i] = c => asked[c]
        /\ \A p \in Paths : mPendingCompletions[p] = c => asked[c]
        /\ c \in mCompletionStreams => asked[c]
        /\ mFd[c] = "unborn" => ~asked[c]
        /\ ~asked[c] => ~mDone[c]

\* A client that asks once waits in one place.
WaitsOnce ==
    \A c \in Conns \ Streams, p \in Paths : mPendingCompletions[p] = c =>
        /\ \A i \in JobIds : mPendingLookups[i] # c
        /\ \A q \in Paths : mPendingCompletions[q] = c => q = p

\* Every job, and every completion that waits, goes back to a message.
Waiting == {p \in Paths : mPendingCompletions[p] # NoConn}
MessagesCover ==
    IsFiniteSet(Waiting) /\ lastId + Cardinality(Waiting) <= messages

\* A job holds its file until it reports, then its report does.
Holding(i) == path[i] # NoPath /\ phase[i] \in {"queued", "executed"}
ReportsHold ==
    /\ \A i \in JobIds : Holding(i) =>
         path[i] \in mActiveCompletions /\ ~Posted(Finished(path[i]))
    /\ \A p \in Paths : Posted(Finished(p)) => p \in mActiveCompletions
    /\ \A p \in Paths : AtMostOnce(mEvents, Finished(p))

ConnInv == DeletedAreDone /\ AnsweredHaveAsked /\ WaitsOnce /\ ConnectionsAlive /\ StreamsStayOpen
JobInv == ReportsHold /\ OneJobPerPath

IInv == TypeOK /\ ConnInv /\ JobInv /\ MessagesCover

---------------------------------------------------------------------------
(* The posted events.                                                      *)

LEMMA EventsAreEvents ==
    /\ \A c \in Conns : DeleteLater(c) \in Events
    /\ \A p \in Paths : Finished(p) \in Events
    /\ \A i \in JobIds, b \in BOOLEAN : Output(i, b) \in Events
  BY DEF Events, DeleteLater, Finished, Output

LEMMA EventsDiffer ==
    /\ \A c, p : DeleteLater(c) # Finished(p)
    /\ \A c, i, b : DeleteLater(c) # Output(i, b)
    /\ \A p, i, b : Finished(p) # Output(i, b)
    /\ \A c, d : DeleteLater(c) = DeleteLater(d) => c = d
    /\ \A p, q : Finished(p) = Finished(q) => p = q
<1>1. /\ \A c : DeleteLater(c).type = "deleteLater" /\ DeleteLater(c).conn = c
      /\ \A p : Finished(p).type = "finished" /\ Finished(p).path = p
      /\ \A i, b : Output(i, b).type = "output"
  BY DEF DeleteLater, Finished, Output
<1> QED  BY <1>1

\* What is at the head of the queue has what its handler reads.
LEMMA HeadIsWhatItSays ==
    ASSUME TypeOK, mEvents # <<>>
    PROVE  /\ Tail(mEvents) \in Seq(Events)
           /\ Head(mEvents).type = "output" =>
                Head(mEvents).job \in JobIds /\ Head(mEvents).finish \in BOOLEAN
           /\ Head(mEvents).type = "finished" =>
                /\ Head(mEvents).path \in Paths
                /\ Head(mEvents) = Finished(Head(mEvents).path)
           /\ Head(mEvents).type = "deleteLater" =>
                /\ Head(mEvents).conn \in Conns
                /\ Head(mEvents) = DeleteLater(Head(mEvents).conn)
<1> DEFINE e == Head(mEvents)
<1>1. Tail(mEvents) \in Seq(Events) /\ e \in Events
  BY TailDrops DEF TypeOK
<1> HIDE DEF e
<1>2. CASE e \in [type : {"output"}, job : JobIds, finish : BOOLEAN]
  BY <1>1, <1>2 DEF e
<1>3. CASE e \in [type : {"finished"}, path : Paths]
  <2>1. e.type = "finished" /\ e.path \in Paths /\ e = [type |-> "finished", path |-> e.path]
    BY <1>3
  <2> QED  BY <1>1, <2>1 DEF e, Finished
<1>4. CASE e \in [type : {"deleteLater"}, conn : Conns]
  <2>1. e.type = "deleteLater" /\ e.conn \in Conns /\ e = [type |-> "deleteLater", conn |-> e.conn]
    BY <1>4
  <2> QED  BY <1>1, <2>1 DEF e, DeleteLater
<1> QED  BY <1>1, <1>2, <1>3, <1>4 DEF Events

---------------------------------------------------------------------------
(* What the handlers do to the connections.                                *)

ConnType ==
    /\ mFd \in [Conns -> {"unborn", "open", "closed", "deleted"}]
    /\ peer \in [Conns -> BOOLEAN] /\ mPendingWrite \in [Conns -> BOOLEAN]
    /\ mDone \in [Conns -> BOOLEAN] /\ asked \in [Conns -> BOOLEAN]
    /\ mEvents \in Seq(Events)
    /\ mCompletionStreams \subseteq Streams
    /\ mPendingLookups \in [JobIds -> Conns \cup {NoConn}]
    /\ mPendingCompletions \in [Paths -> Conns \cup {NoConn}]

LEMMA TypeHasConnType == TypeOK => ConnType
  BY DEF TypeOK, ConnType

\* Connection c is answered, done says whether finish() has been called by
\* then, and events are those that the handler leaves in the queue.
Answered(c, done, events) ==
    /\ \A d \in Conns : mDone'[d] = IF d = c THEN done ELSE mDone[d]
    /\ \A d \in Conns \ {c} : mFd'[d] = mFd[d]
    /\ \A d \in Conns \ {c} : d \in mCompletionStreams' <=> d \in mCompletionStreams
    /\ mFd'[c] \in {mFd[c], "closed"}
    /\ ~done => UNCHANGED <<mFd, mCompletionStreams>>
    /\ c \in mCompletionStreams' => c \in mCompletionStreams
    /\ \A x : Occurs(mEvents', x) =>
         Occurs(events, x) \/ (done /\ x = DeleteLater(c))
    /\ \A p \in Paths : AtMostOnce(events, Finished(p)) => AtMostOnce(mEvents', Finished(p))

WriteType ==
    /\ mFd \in [Conns -> {"unborn", "open", "closed", "deleted"}]
    /\ mPendingWrite \in [Conns -> BOOLEAN] /\ mDone \in [Conns -> BOOLEAN]
    /\ mEvents \in Seq(Events) /\ mCompletionStreams \subseteq Streams

LEMMA SettleAnswers ==
    ASSUME TypeOK, NEW c \in Conns, NEW pending \in BOOLEAN, NEW done \in BOOLEAN,
           NEW events \in Seq(Events), Settle(c, pending, done, events)
    PROVE  Answered(c, done, events) /\ WriteType'
<1>1. CASE done /\ ~pending
  <2>1. /\ mPendingWrite' = [mPendingWrite EXCEPT ![c] = pending]
        /\ mDone' = [mDone EXCEPT ![c] = done]
        /\ mFd' = [mFd EXCEPT ![c] = "closed"]
        /\ mCompletionStreams' = mCompletionStreams \ {c}
        /\ mEvents' = events \/ mEvents' = Append(events, DeleteLater(c))
    BY <1>1 DEF Settle, AllWritten
  <2>2. /\ mEvents' \in Seq(Events)
        /\ \A x : Occurs(mEvents', x) => Occurs(events, x) \/ x = DeleteLater(c)
        /\ \A p \in Paths : AtMostOnce(events, Finished(p)) => AtMostOnce(mEvents', Finished(p))
    <3>1. DeleteLater(c) \in Events /\ \A p \in Paths : Finished(p) # DeleteLater(c)
      BY EventsAreEvents, EventsDiffer
    <3>2. CASE mEvents' = events
      BY <3>2
    <3>3. CASE mEvents' = Append(events, DeleteLater(c))
      BY <3>1, <3>3, AppendAdds
    <3> QED  BY <2>1, <3>2, <3>3
  <2>3. WriteType'
    BY <2>1, <2>2 DEF TypeOK, WriteType
  <2>4. /\ \A d \in Conns : mDone'[d] = IF d = c THEN done ELSE mDone[d]
        /\ \A d \in Conns \ {c} : mFd'[d] = mFd[d]
        /\ mFd'[c] = "closed"
    BY <2>1 DEF TypeOK
  <2> QED  BY <1>1, <2>1, <2>2, <2>3, <2>4 DEF Answered
<1>2. CASE ~(done /\ ~pending)
  <2>1. /\ mPendingWrite' = [mPendingWrite EXCEPT ![c] = pending]
        /\ mDone' = [mDone EXCEPT ![c] = done]
        /\ UNCHANGED <<mFd, mCompletionStreams>> /\ mEvents' = events
    BY <1>2 DEF Settle, AllWritten
  <2>2. \A d \in Conns : mDone'[d] = IF d = c THEN done ELSE mDone[d]
    BY <2>1 DEF TypeOK
  <2>3. WriteType'
    BY <2>1 DEF TypeOK, WriteType
  <2> QED  BY <2>1, <2>2, <2>3 DEF Answered
<1> QED  BY <1>1, <1>2

LEMMA IgnoreAnswers ==
    ASSUME TypeOK, NEW c \in Conns, NEW events \in Seq(Events), Ignore(events)
    PROVE  Answered(c, mDone[c], events) /\ WriteType'
<1>1. UNCHANGED <<mFd, mPendingWrite, mDone, mCompletionStreams>> /\ mEvents' = events
  BY DEF Ignore
<1>2. WriteType'
  BY <1>1 DEF TypeOK, WriteType
<1> QED  BY <1>1, <1>2 DEF Answered

\* A handler answers c: the connection part of the invariant is kept if c is
\* there, has asked, and is not called done while it waits or is a stream.
LEMMA AnswerKeepsConnInv ==
    ASSUME ConnType, ConnType', ConnInv, NEW c \in Conns, NEW done \in BOOLEAN,
           NEW events \in Seq(Events), Answered(c, done, events),
           \A x : Occurs(events, x) => Posted(x),
           mDone[c] => done, mFd[c] \in {"open", "closed"},
           asked'[c] \/ (asked'[c] = asked[c] /\ done = mDone[c]),
           \A d \in Conns \ {c} : asked'[d] = asked[d],
           peer' = peer, asked[c] \/ c \notin Streams \/ asked'[c] = asked[c],
           \A i \in JobIds : mPendingLookups'[i] = mPendingLookups[i],
           \A p \in Paths : mPendingCompletions'[p] \in {mPendingCompletions[p], NoConn},
           done /\ ~mDone[c] => /\ ~isCompletionStream(c)
                                /\ c \in Streams \/ \A p \in Paths : mPendingCompletions'[p] # c
    PROVE  ConnInv'
<1>1. DeletedAreDone'
  BY EventsDiffer DEF ConnType, ConnInv, DeletedAreDone, Answered, Posted
<1>2. AnsweredHaveAsked'
  BY ConnsAssumption DEF ConnType, ConnInv, AnsweredHaveAsked, Answered
<1>3. WaitsOnce'
  BY ConnsAssumption DEF ConnInv, WaitsOnce
<1>4. ConnectionsAlive'
  <2> SUFFICES ASSUME NEW d \in Conns \ Streams
               PROVE  /\ \A i \in JobIds : mPendingLookups'[i] = d => mFd'[d] # "deleted"
                      /\ \A p \in Paths : mPendingCompletions'[p] = d =>
                           mFd'[d] # "deleted" /\ ~mDone'[d]
    BY DEF ConnectionsAlive
  <2>1. CASE d = c
    BY <2>1, ConnsAssumption DEF ConnInv, ConnectionsAlive, Answered
  <2>2. CASE d # c
    BY <2>2, ConnsAssumption DEF ConnInv, ConnectionsAlive, Answered
  <2> QED  BY <2>1, <2>2
<1>5. StreamsStayOpen'
  <2> SUFFICES ASSUME NEW d \in Streams, asked'[d], peer'[d]
               PROVE  mFd'[d] = "open" /\ d \in mCompletionStreams' /\ ~mDone'[d]
    BY DEF StreamsStayOpen, isConnected, isCompletionStream
  <2>1. d \in Conns
    BY ConnsAssumption
  <2>2. asked[d] /\ peer[d]
    BY <2>1
  <2>3. mFd[d] = "open" /\ d \in mCompletionStreams /\ ~mDone[d]
    BY <2>2 DEF ConnInv, StreamsStayOpen, isConnected, isCompletionStream
  <2>4. CASE d = c
    <3>1. ~done
      BY <2>3, <2>4 DEF isCompletionStream
    <3> QED  BY <2>1, <2>3, <2>4, <3>1 DEF Answered
  <2>5. CASE d # c
    BY <2>1, <2>3, <2>5 DEF Answered
  <2> QED  BY <2>4, <2>5
<1> QED  BY <1>1, <1>2, <1>3, <1>4, <1>5 DEF ConnInv

\* A handler that leaves the connections alone may forget whom to answer.
LEMMA QuietKeepsConnInv ==
    ASSUME ConnType, ConnType', ConnInv, UNCHANGED <<mFd, mDone, peer, asked, mCompletionStreams>>,
           \A c \in Conns : Posted(DeleteLater(c))' => Posted(DeleteLater(c)),
           \A i \in JobIds : mPendingLookups'[i] \in {mPendingLookups[i], NoConn},
           \A p \in Paths : mPendingCompletions'[p] \in {mPendingCompletions[p], NoConn}
    PROVE  ConnInv'
<1>1. DeletedAreDone' /\ AnsweredHaveAsked' /\ WaitsOnce'
  BY ConnsAssumption DEF ConnInv, DeletedAreDone, AnsweredHaveAsked, WaitsOnce
<1>2. ConnectionsAlive' /\ StreamsStayOpen'
  BY ConnsAssumption DEF ConnInv, ConnectionsAlive, StreamsStayOpen, isConnected, isCompletionStream
<1> QED  BY <1>1, <1>2 DEF ConnInv

\* A job begins to answer c: a client that asks once no longer waits elsewhere.
LEMMA StartKeepsConnInv ==
    ASSUME ConnType, ConnType', ConnInv, NEW c \in Conns, NEW id \in JobIds,
           UNCHANGED <<mFd, mDone, peer, mCompletionStreams>>,
           \A d \in Conns : Posted(DeleteLater(d))' => Posted(DeleteLater(d)),
           mPendingLookups' = [mPendingLookups EXCEPT ![id] = c],
           \A p \in Paths : mPendingCompletions'[p] \in {mPendingCompletions[p], NoConn},
           asked'[c], \A d \in Conns \ {c} : asked'[d] = asked[d],
           asked[c] \/ c \notin Streams, mFd[c] # "unborn",
           c \notin Streams => mFd[c] # "deleted" /\ \A p \in Paths : mPendingCompletions'[p] # c
    PROVE  ConnInv'
<1>1. \A i \in JobIds : mPendingLookups'[i] = IF i = id THEN c ELSE mPendingLookups[i]
  BY DEF ConnType
<1>2. DeletedAreDone'
  BY DEF ConnInv, DeletedAreDone
<1>3. AnsweredHaveAsked'
  BY <1>1, ConnsAssumption DEF ConnType, ConnInv, AnsweredHaveAsked
<1>4. WaitsOnce'
  BY <1>1, ConnsAssumption DEF ConnInv, WaitsOnce
<1>5. ConnectionsAlive'
  BY <1>1, ConnsAssumption DEF ConnInv, ConnectionsAlive
<1>6. StreamsStayOpen'
  BY ConnsAssumption DEF ConnInv, StreamsStayOpen, isConnected, isCompletionStream
<1> QED  BY <1>2, <1>3, <1>4, <1>5, <1>6 DEF ConnInv

---------------------------------------------------------------------------
(* The jobs.                                                               *)

\* A handler that starts no job; a file it lets go is one whose report it read.
LEMMA JobsStay ==
    ASSUME TypeOK, JobInv, UNCHANGED <<path, phase>>,
           \A p \in Paths : Posted(Finished(p))' => Posted(Finished(p)),
           \A p \in Paths : AtMostOnce(mEvents', Finished(p)),
           \A p \in mActiveCompletions \ mActiveCompletions' :
             Posted(Finished(p)) /\ ~Posted(Finished(p))'
    PROVE  JobInv'
<1>1. \A i \in JobIds : Holding(i) => path[i] \in Paths
  BY DEF Holding, TypeOK
<1>2. \A i \in JobIds : Holding(i)' = Holding(i)
  BY DEF Holding
<1>3. ReportsHold'
  BY <1>1, <1>2 DEF JobInv, ReportsHold
<1>4. OneJobPerPath'
  BY DEF JobInv, OneJobPerPath
<1> QED  BY <1>3, <1>4 DEF JobInv

\* A job starts on a file that nobody holds, or on none.
LEMMA StartedJobHolds ==
    ASSUME TypeOK, JobInv, NEW c, NEW p \in Paths \cup {NoPath},
           lastId + 1 \in JobIds, StartQueryJob(c, p),
           \A q \in Paths : Posted(Finished(q))' => Posted(Finished(q)),
           \A q \in Paths : AtMostOnce(mEvents', Finished(q)),
           \/ p = NoPath /\ mActiveCompletions' = mActiveCompletions
           \/ /\ p # NoPath /\ mActiveCompletions' = mActiveCompletions \cup {p}
              /\ ~Posted(Finished(p))' /\ \A j \in JobIds : Holding(j) => path[j] # p
    PROVE  JobInv'
<1> DEFINE id == lastId + 1
<1>1. /\ path'[id] = p /\ phase'[id] = "queued"
      /\ \A i \in JobIds : i # id => path'[i] = path[i] /\ phase'[i] = phase[i]
  BY DEF StartQueryJob, TypeOK
<1>2. \A i \in JobIds : Holding(i)' <=> IF i = id THEN p # NoPath ELSE Holding(i)
  BY <1>1 DEF Holding
<1>3. \A i \in JobIds : Holding(i) => path[i] \in Paths
  BY DEF Holding, TypeOK
<1>4. ReportsHold'
  BY <1>1, <1>2, <1>3 DEF JobInv, ReportsHold
<1>5. \A i, j \in JobIds : Holding(i) /\ Holding(j) /\ path[i] = path[j] => i = j
  BY DEF JobInv, OneJobPerPath, Holding
<1>6. \A i, j \in JobIds : Holding(i)' /\ Holding(j)' /\ path'[i] = path'[j] => i = j
  BY <1>1, <1>2, <1>5
<1>7. OneJobPerPath'
  BY <1>6 DEF OneJobPerPath, Holding
<1> QED  BY <1>4, <1>7 DEF JobInv

---------------------------------------------------------------------------
(* The messages.                                                           *)

LEMMA CoverStays ==
    ASSUME TypeOK, MessagesCover, messages' \in {messages, messages + 1}, lastId' = lastId,
           \A p \in Paths : mPendingCompletions'[p] \in {mPendingCompletions[p], NoConn}
    PROVE  MessagesCover'
<1>1. Waiting' \in SUBSET Waiting
  BY DEF Waiting
<1>2. IsFiniteSet(Waiting') /\ Cardinality(Waiting') <= Cardinality(Waiting)
  BY <1>1, FS_Subset DEF MessagesCover
<1>3. Cardinality(Waiting) \in Nat /\ Cardinality(Waiting') \in Nat
  BY <1>2, FS_CardinalityType DEF MessagesCover
<1> QED  BY <1>2, <1>3 DEF MessagesCover, TypeOK

\* A request that waited gets its job: there is a number for it.
LEMMA WaitingHasMessage ==
    ASSUME TypeOK, MessagesCover, NEW p \in Paths, mPendingCompletions[p] # NoConn
    PROVE  /\ lastId + 1 \in JobIds /\ lastId + 1 <= messages
           /\ messages' = messages /\ mPendingCompletions' = TakePending(p)
                /\ lastId' = lastId + 1 => MessagesCover'
<1>1. /\ IsFiniteSet(Waiting \ {p}) /\ Cardinality(Waiting \ {p}) = Cardinality(Waiting) - 1
      /\ Cardinality(Waiting) \in Nat /\ Cardinality(Waiting \ {p}) \in Nat
  <2>1. p \in Waiting
    BY DEF Waiting
  <2> QED  BY <2>1, FS_RemoveElement, FS_CardinalityType DEF MessagesCover
<1>2. lastId + 1 \in JobIds /\ lastId + 1 <= messages
  BY <1>1, SizesAssumption DEF MessagesCover, TypeOK, JobIds
<1>3. ASSUME messages' = messages, mPendingCompletions' = TakePending(p), lastId' = lastId + 1
      PROVE  MessagesCover'
  <2>1. Waiting' = Waiting \ {p}
    BY <1>3 DEF TypeOK, Waiting, TakePending
  <2> QED  BY <1>1, <1>3, <2>1 DEF MessagesCover, TypeOK
<1> QED  BY <1>2, <1>3

---------------------------------------------------------------------------
(* The unit cache.                                                         *)

\* The first of some places.
LEMMA FirstOf ==
    ASSUME NEW n \in Nat, NEW T \in SUBSET (1..n), T # {}
    PROVE  \E k \in T : \A j \in T : k <= j
<1> DEFINE R == {p \in Nat \X Nat : p[1] < p[2]}
<1>1. IsWellFoundedOn(R, Nat)
  BY NatLessThanWellFounded DEF OpToRel
<1>2. T \subseteq Nat
  OBVIOUS
<1> HIDE DEF R
<1>3. PICK k \in T : \A j \in T : <<j, k>> \notin R
  BY <1>1, <1>2, WFMin
<1>4. ASSUME NEW j \in T
      PROVE  k <= j
  <2>1. <<j, k>> \in Nat \X Nat /\ ~(<<j, k>>[1] < <<j, k>>[2])
    BY <1>2, <1>3 DEF R
  <2> QED  BY <2>1
<1> QED  BY <1>4

\* takeUnit() takes one unit out of the cache.
LEMMA TakeUnitTakes ==
    ASSUME cache \in Seq(Paths), NEW p \in Paths, Contains(cache, p)
    PROVE  TakeUnit(p) \in Seq(Paths) /\ Len(TakeUnit(p)) = Len(cache) - 1
<1> DEFINE N == {k \in DOMAIN cache : cache[k] = p}
<1>1. Len(cache) \in Nat /\ DOMAIN cache = 1..Len(cache)
  BY LenProperties
<1>2. PICK k \in N : \A j \in N : k <= j
  <2>1. N \in SUBSET (1..Len(cache)) /\ N # {}
    BY <1>1 DEF Contains
  <2> QED  BY <1>1, <2>1, FirstOf
<1>3. FirstUnit(p) \in DOMAIN cache
  <2>1. \A j \in 1..(k - 1) : cache[j] # p
    BY <1>1, <1>2
  <2> QED  BY <1>2, <2>1 DEF FirstUnit
<1> DEFINE f == FirstUnit(p)
<1> HIDE DEF f
<1>4. f \in 1..Len(cache)
  BY <1>1, <1>3 DEF f
<1>5. \A i \in 1..Len(cache) : cache[i] \in Paths
  BY ElementOfSeq
<1>6. SubSeq(cache, 1, f - 1) \in Seq(Paths) /\ Len(SubSeq(cache, 1, f - 1)) = f - 1
  <2>1. \A i \in 1..(f - 1) : cache[i] \in Paths
    BY <1>1, <1>4, <1>5
  <2> QED  BY <1>1, <1>4, <2>1, SubSeqProperties
<1>7. /\ SubSeq(cache, f + 1, Len(cache)) \in Seq(Paths)
      /\ Len(SubSeq(cache, f + 1, Len(cache))) = Len(cache) - f
  <2>1. f + 1 \in Int /\ Len(cache) \in Int /\ \A i \in (f + 1)..Len(cache) : cache[i] \in Paths
    BY <1>1, <1>4, <1>5
  <2>2. /\ SubSeq(cache, f + 1, Len(cache)) \in Seq(Paths)
        /\ Len(SubSeq(cache, f + 1, Len(cache))) =
             IF f + 1 <= Len(cache) THEN Len(cache) - (f + 1) + 1 ELSE 0
    BY <2>1, SubSeqProperties
  <2>3. CASE f + 1 <= Len(cache)
    BY <1>1, <1>4, <2>2, <2>3
  <2>4. CASE ~(f + 1 <= Len(cache))
    <3>1. f = Len(cache)
      <4>1. f \in Int /\ Len(cache) \in Int /\ f <= Len(cache)
        BY <1>1, <1>4
      <4> QED  BY <2>4, <4>1
    <3> QED  BY <1>1, <2>2, <2>4, <3>1
  <2> QED  BY <2>3, <2>4
<1>8. TakeUnit(p) = SubSeq(cache, 1, f - 1) \o SubSeq(cache, f + 1, Len(cache))
  BY DEF TakeUnit, RemoveAt, f
<1>9. /\ TakeUnit(p) \in Seq(Paths)
      /\ Len(TakeUnit(p)) = (f - 1) + (Len(cache) - f)
  BY <1>6, <1>7, <1>8, ConcatProperties
<1> QED  BY <1>1, <1>4, <1>9

LEMMA AddCachedUnitFits ==
    ASSUME NEW p \in Paths, NEW u \in Seq(Paths), Len(u) <= CacheSize
    PROVE  AddCachedUnit(u, p) \in Seq(Paths) /\ Len(AddCachedUnit(u, p)) <= CacheSize
<1>1. Len(u) \in Nat
  BY LenProperties
<1>2. CASE Len(u) = CacheSize
  <2>1. u # <<>>
    BY <1>2, SizesAssumption, EmptySeq
  <2>2. Tail(u) \in Seq(Paths) /\ Len(Tail(u)) = Len(u) - 1
    BY <2>1, HeadTailProperties
  <2> QED  BY <1>1, <1>2, <2>2, AppendProperties, SizesAssumption DEF AddCachedUnit
<1>3. CASE Len(u) # CacheSize
  BY <1>1, <1>3, AppendProperties, SizesAssumption DEF AddCachedUnit
<1> QED  BY <1>2, <1>3

---------------------------------------------------------------------------
(* The handlers.                                                           *)

\* A handler answered c and called finish() at most on what is no stream.
Replied(c, events) ==
    /\ WriteType'
    /\ \E done \in BOOLEAN : /\ Answered(c, done, events)
                             /\ mDone[c] => done
                             /\ done /\ ~mDone[c] => ~isCompletionStream(c)

LEMMA SettleReplies ==
    ASSUME TypeOK, NEW c \in Conns, NEW pending \in BOOLEAN, NEW done \in BOOLEAN,
           NEW events \in Seq(Events), Settle(c, pending, done, events),
           mDone[c] => done, done /\ ~mDone[c] => ~isCompletionStream(c)
    PROVE  Replied(c, events)
  BY SettleAnswers DEF Replied

LEMMA FinishUnlessStreamReplies ==
    ASSUME TypeOK, NEW c \in Conns, NEW pending \in BOOLEAN, NEW events \in Seq(Events),
           FinishUnlessStream(c, pending, events)
    PROVE  Replied(c, events)
<1> DEFINE done == mDone[c] \/ ~isCompletionStream(c)
<1>1. done \in BOOLEAN
  OBVIOUS
<1>2. Settle(c, pending, done, events) /\ (mDone[c] => done)
      /\ (done /\ ~mDone[c] => ~isCompletionStream(c))
  BY DEF FinishUnlessStream
<1> HIDE DEF done
<1> QED  BY <1>1, <1>2, SettleReplies

LEMMA IgnoreReplies ==
    ASSUME TypeOK, NEW c \in Conns, NEW events \in Seq(Events), Ignore(events)
    PROVE  Replied(c, events)
<1>1. Answered(c, mDone[c], events) /\ WriteType' /\ mDone[c] \in BOOLEAN
  BY IgnoreAnswers DEF TypeOK
<1> QED  BY <1>1 DEF Replied

LEMMA WritesAreBoolean ==
    ASSUME TypeOK, NEW c \in Conns
    PROVE  mPendingWrite[c] \in BOOLEAN /\ \A w \in Writes(c) : w.pending \in BOOLEAN /\ w.ok \in BOOLEAN
<1>1. mPendingWrite[c] \in BOOLEAN
  BY DEF TypeOK
<1>2. ASSUME NEW w \in Writes(c) PROVE w.pending \in BOOLEAN /\ w.ok \in BOOLEAN
  <2>1. \/ w = [ok |-> FALSE, pending |-> mPendingWrite[c]]
        \/ w \in [ok : {TRUE}, pending : BOOLEAN]
        \/ w = [ok |-> FALSE, pending |-> TRUE]
    BY <1>2 DEF Writes
  <2>2. CASE w = [ok |-> FALSE, pending |-> mPendingWrite[c]]
    BY <1>1, <2>2
  <2>3. CASE w \in [ok : {TRUE}, pending : BOOLEAN]
    BY <2>3
  <2>4. CASE w = [ok |-> FALSE, pending |-> TRUE]
    BY <2>4
  <2> QED  BY <2>1, <2>2, <2>3, <2>4
<1> QED  BY <1>1, <1>2

\* startCompletion() answers, or starts a job.
LEMMA StartCompletionStarts ==
    ASSUME TypeOK, NEW c \in Conns, NEW p \in Paths, NEW events \in Seq(Events),
           StartCompletion(p, c, events)
    PROVE  (Replied(c, events) /\ NoJob) \/ StartCompletionJob(p, c, events)
<1>1. CASE FinishUnlessStream(c, mPendingWrite[c], events) /\ NoJob
  BY <1>1, FinishUnlessStreamReplies, WritesAreBoolean
<1>2. CASE Ignore(events) /\ NoJob
  BY <1>2, IgnoreReplies
<1>3. CASE (\E w \in Writes(c) : FinishUnlessStream(c, w.pending, events)) /\ NoJob
  BY <1>3, FinishUnlessStreamReplies, WritesAreBoolean
<1> QED  BY <1>1, <1>2, <1>3 DEF StartCompletion

LEMMA StartQueryJobType ==
    ASSUME TypeOK, NEW c \in Conns, NEW p \in Paths \cup {NoPath}, lastId + 1 \in JobIds,
           StartQueryJob(c, p)
    PROVE  /\ path' \in [JobIds -> Paths \cup {NoPath}]
           /\ phase' \in [JobIds -> {"none", "queued", "executed", "reported", "done"}]
           /\ mPendingLookups' \in [JobIds -> Conns \cup {NoConn}]
  BY DEF StartQueryJob, TypeOK

\* The handler took events from the queue, or left it alone, before it answered.
LeftIn(events) ==
    /\ \A x : Occurs(events, x) => Posted(x)
    /\ \A x : AtMostOnce(mEvents, x) => AtMostOnce(events, x)

LEMMA QueueIsLeft == LeftIn(mEvents)
  BY DEF LeftIn, Posted

LEMMA TailIsLeft == TypeOK /\ mEvents # <<>> => LeftIn(Tail(mEvents))
  BY TailDrops DEF LeftIn, Posted, TypeOK

LEMMA ReplyKeepsInv ==
    ASSUME IInv, TypeOK', NEW c \in Conns, NEW events \in Seq(Events), LeftIn(events),
           Replied(c, events), UNCHANGED <<path, phase, mPendingLookups, peer, mActiveCompletions>>,
           mFd[c] \in {"open", "closed"}, asked'[c],
           \A d \in Conns \ {c} : asked'[d] = asked[d], asked[c] \/ c \notin Streams,
           \A p \in Paths : mPendingCompletions'[p] \in {mPendingCompletions[p], NoConn},
           c \notin Streams => \A p \in Paths : mPendingCompletions'[p] # c
    PROVE  ConnInv' /\ JobInv'
<1>1. PICK done \in BOOLEAN : /\ Answered(c, done, events)
                              /\ mDone[c] => done
                              /\ done /\ ~mDone[c] => ~isCompletionStream(c)
  BY DEF Replied
<1>2. ConnInv'
  <2>1. ConnType /\ ConnType'
    BY TypeHasConnType DEF IInv, TypeOK, ConnType
  <2>2. \A x : Occurs(events, x) => Posted(x)
    BY DEF LeftIn
  <2> QED  BY <1>1, <2>1, <2>2, AnswerKeepsConnInv DEF IInv
<1>3. JobInv'
  <2>1. \A p \in Paths : Posted(Finished(p))' => Posted(Finished(p))
    BY <1>1, EventsDiffer DEF Answered, LeftIn, Posted
  <2>2. \A p \in Paths : AtMostOnce(mEvents', Finished(p))
    BY <1>1 DEF Answered, LeftIn, IInv, JobInv, ReportsHold
  <2> QED  BY <2>1, <2>2, JobsStay DEF IInv
<1> QED  BY <1>2, <1>3

---------------------------------------------------------------------------
(* The steps.                                                              *)

LEMMA InitIInv == Init => IInv
<1> SUFFICES ASSUME Init PROVE IInv
  OBVIOUS
<1>1. \A x : ~Posted(x) /\ AtMostOnce(mEvents, x)
  BY EmptyQueue DEF Init, Posted
<1>2. TypeOK
  <2>1. mEvents \in Seq(Events) /\ cache \in Seq(Paths) /\ Len(cache) = 0
    BY EmptySeq DEF Init
  <2> QED  BY <2>1, SizesAssumption DEF Init, TypeOK
<1>3. ConnInv
  BY <1>1, ConnsAssumption DEF Init, ConnInv, DeletedAreDone, AnsweredHaveAsked, WaitsOnce,
     ConnectionsAlive, StreamsStayOpen
<1>4. JobInv
  BY <1>1 DEF Init, JobInv, ReportsHold, OneJobPerPath, Holding
<1>5. MessagesCover
  <2>1. Waiting = {}
    BY DEF Init, Waiting
  <2> QED  BY <2>1, FS_EmptySet DEF Init, MessagesCover
<1> QED  BY <1>2, <1>3, <1>4, <1>5 DEF IInv

\* A step that leaves the queue, the jobs and what waits alone.
LEMMA JobsAndWaitsStay ==
    ASSUME IInv, UNCHANGED <<mEvents, jobVars, mPendingCompletions, mActiveCompletions>>,
           messages' \in {messages, messages + 1}
    PROVE  JobInv' /\ MessagesCover'
<1>1. JobInv'
  <2>1. UNCHANGED <<path, phase, mEvents, mActiveCompletions>>
    BY DEF jobVars
  <2>2. \A p \in Paths : Posted(Finished(p))' => Posted(Finished(p))
    BY <2>1 DEF Posted
  <2>3. \A p \in Paths : AtMostOnce(mEvents', Finished(p))
    BY <2>1 DEF IInv, JobInv, ReportsHold
  <2> QED  BY <2>1, <2>2, <2>3, JobsStay DEF IInv
<1>2. MessagesCover'
  BY CoverStays DEF IInv, jobVars
<1> QED  BY <1>1, <1>2

\* A client comes, goes, or is noticed to have gone.
LEMMA ComingAndGoingKeepIInv ==
    ASSUME IInv, NEW c \in Conns, OnNewConnection(c) \/ Leave(c) \/ ReadMore(c)
    PROVE  IInv'
<1>1. UNCHANGED <<mPendingWrite, mDone, asked, messages, mEvents, mPendingLookups,
                  mActiveCompletions, mPendingCompletions, jobVars, projectVars>>
  BY DEF OnNewConnection, Leave, ReadMore, serverVars
<1>2. JobInv' /\ MessagesCover'
  BY <1>1, JobsAndWaitsStay
<1>3. CASE OnNewConnection(c)
  <2>1. /\ mFd[c] = "unborn" /\ mFd' = [mFd EXCEPT ![c] = "open"]
        /\ peer' = [peer EXCEPT ![c] = TRUE] /\ mCompletionStreams' = mCompletionStreams
    BY <1>3 DEF OnNewConnection, serverVars
  <2>2. /\ \A d \in Conns \ {c} : mFd'[d] = mFd[d] /\ peer'[d] = peer[d]
        /\ mFd'[c] = "open"
    BY <2>1 DEF IInv, TypeOK
  <2>3. TypeOK'
    BY <1>1, <2>1 DEF IInv, TypeOK, jobVars, projectVars
  <2>4. DeletedAreDone' /\ AnsweredHaveAsked' /\ WaitsOnce'
    BY <1>1, <2>1, <2>2, ConnsAssumption
       DEF IInv, ConnInv, DeletedAreDone, AnsweredHaveAsked, WaitsOnce, Posted
  <2>5. ConnectionsAlive' /\ StreamsStayOpen'
    BY <1>1, <2>1, <2>2, ConnsAssumption
       DEF IInv, ConnInv, ConnectionsAlive, StreamsStayOpen, AnsweredHaveAsked,
           isConnected, isCompletionStream
  <2> QED  BY <1>2, <2>3, <2>4, <2>5 DEF IInv, ConnInv
<1>4. CASE Leave(c)
  <2>1. peer' = [peer EXCEPT ![c] = FALSE] /\ UNCHANGED <<mFd, mCompletionStreams>>
    BY <1>4 DEF Leave, serverVars
  <2>2. \A d \in Conns : peer'[d] => peer[d]
    BY <2>1 DEF IInv, TypeOK
  <2>3. TypeOK'
    BY <1>1, <2>1 DEF IInv, TypeOK, jobVars, projectVars
  <2>4. DeletedAreDone' /\ AnsweredHaveAsked' /\ WaitsOnce'
    BY <1>1, <2>1, ConnsAssumption
       DEF IInv, ConnInv, DeletedAreDone, AnsweredHaveAsked, WaitsOnce, Posted
  <2>5. ConnectionsAlive' /\ StreamsStayOpen'
    BY <1>1, <2>1, <2>2, ConnsAssumption
       DEF IInv, ConnInv, ConnectionsAlive, StreamsStayOpen, isConnected, isCompletionStream
  <2> QED  BY <1>2, <2>3, <2>4, <2>5 DEF IInv, ConnInv
<1>5. CASE ReadMore(c)
  <2>1. /\ mFd[c] = "open" /\ ~peer[c] /\ mFd' = [mFd EXCEPT ![c] = "closed"]
        /\ peer' = peer /\ mCompletionStreams' = mCompletionStreams \ {c}
    BY <1>5 DEF ReadMore, isConnected
  <2>2. /\ \A d \in Conns \ {c} : mFd'[d] = mFd[d]
        /\ mFd'[c] = "closed"
    BY <2>1 DEF IInv, TypeOK
  <2>3. TypeOK'
    BY <1>1, <2>1 DEF IInv, TypeOK, jobVars, projectVars
  <2>4. DeletedAreDone' /\ AnsweredHaveAsked' /\ WaitsOnce'
    BY <1>1, <2>1, <2>2, ConnsAssumption
       DEF IInv, ConnInv, DeletedAreDone, AnsweredHaveAsked, WaitsOnce, Posted
  <2>5. ConnectionsAlive' /\ StreamsStayOpen'
    BY <1>1, <2>1, <2>2, ConnsAssumption
       DEF IInv, ConnInv, ConnectionsAlive, StreamsStayOpen, isConnected, isCompletionStream
  <2> QED  BY <1>2, <2>3, <2>4, <2>5 DEF IInv, ConnInv
<1> QED  BY <1>3, <1>4, <1>5

LEMMA WriteMoreKeepsIInv ==
    ASSUME IInv, NEW c \in Conns, WriteMore(c)
    PROVE  IInv'
<1>1. /\ mFd[c] = "open" /\ peer[c] /\ Settle(c, FALSE, mDone[c], mEvents)
      /\ UNCHANGED <<peer, asked, messages, mPendingLookups, mActiveCompletions,
                     mPendingCompletions, lastId, path, phase, isValid, cache>>
  BY DEF WriteMore, isConnected, jobVars, projectVars
<1>2. mDone[c] \in BOOLEAN /\ mEvents \in Seq(Events) /\ FALSE \in BOOLEAN
  BY DEF IInv, TypeOK
<1>3. Answered(c, mDone[c], mEvents) /\ WriteType'
  BY <1>1, <1>2, SettleAnswers DEF IInv
<1>4. TypeOK'
  BY <1>1, <1>3 DEF IInv, TypeOK, WriteType
<1>5. ConnInv'
  <2>1. ConnType /\ ConnType'
    BY <1>4, TypeHasConnType DEF IInv, TypeOK, ConnType
  <2>2. \A d \in Conns : asked'[d] = asked[d]
    BY <1>1
  <2> QED  BY <1>1, <1>2, <1>3, <2>1, <2>2, AnswerKeepsConnInv DEF IInv, Posted
<1>6. JobInv' /\ MessagesCover'
  <2>1. \A p \in Paths : Posted(Finished(p))' => Posted(Finished(p))
    BY <1>3, EventsDiffer DEF Answered, Posted
  <2>2. \A p \in Paths : AtMostOnce(mEvents', Finished(p))
    BY <1>3 DEF Answered, IInv, JobInv, ReportsHold
  <2> QED  BY <1>1, <2>1, <2>2, JobsStay, CoverStays DEF IInv
<1> QED  BY <1>4, <1>5, <1>6 DEF IInv

LEMMA CompletionStreamKeepsIInv ==
    ASSUME IInv, NEW c \in Conns, HandleCompletionStream(c)
    PROVE  IInv'
<1>1. /\ mFd[c] = "open" /\ c \in Streams /\ ~asked[c] /\ asked' = [asked EXCEPT ![c] = TRUE]
      /\ mCompletionStreams' = mCompletionStreams \cup {c}
      /\ UNCHANGED <<mFd, peer, mPendingWrite, mDone, messages, mEvents, mPendingLookups,
                     mActiveCompletions, mPendingCompletions, jobVars, projectVars>>
  BY DEF HandleCompletionStream, isConnected
<1>2. asked'[c] /\ \A d \in Conns \ {c} : asked'[d] = asked[d]
  BY <1>1 DEF IInv, TypeOK
<1>3. JobInv' /\ MessagesCover'
  BY <1>1, JobsAndWaitsStay
<1>4. TypeOK'
  BY <1>1 DEF IInv, TypeOK, jobVars, projectVars
<1>5. DeletedAreDone' /\ AnsweredHaveAsked' /\ WaitsOnce'
  BY <1>1, <1>2, ConnsAssumption
     DEF IInv, ConnInv, DeletedAreDone, AnsweredHaveAsked, WaitsOnce, Posted
<1>6. ConnectionsAlive' /\ StreamsStayOpen'
  BY <1>1, <1>2, ConnsAssumption
     DEF IInv, ConnInv, AnsweredHaveAsked, ConnectionsAlive, StreamsStayOpen, isConnected, isCompletionStream
<1> QED  BY <1>3, <1>4, <1>5, <1>6 DEF IInv, ConnInv

\* What a message finds: a client that asks once has not asked, and waits nowhere.
LEMMA MessageComes ==
    ASSUME IInv, NEW c \in Conns, OnNewMessage(c)
    PROVE  /\ mFd[c] = "open" /\ messages' = messages + 1 /\ messages' \in 0..MaxMessages
           /\ asked' \in [Conns -> BOOLEAN] /\ peer' = peer
           /\ asked'[c] /\ \A d \in Conns \ {c} : asked'[d] = asked[d]
           /\ asked[c] \/ c \notin Streams
           /\ lastId + 1 \in JobIds
           /\ c \notin Streams => /\ ~isCompletionStream(c)
                                 /\ \A p \in Paths : mPendingCompletions[p] # c
                                 /\ \A i \in JobIds : mPendingLookups[i] # c
<1>1. /\ mFd[c] = "open" /\ messages < MaxMessages /\ messages' = messages + 1
      /\ asked' = [asked EXCEPT ![c] = TRUE] /\ peer' = peer
      /\ c \in Streams => c \in mCompletionStreams
      /\ c \notin Streams => ~asked[c]
  BY DEF OnNewMessage, isConnected, isCompletionStream
<1>2. messages' \in 0..MaxMessages /\ lastId + 1 \in JobIds
  BY <1>1, SizesAssumption DEF IInv, TypeOK, JobIds
<1>3. /\ asked' \in [Conns -> BOOLEAN]
      /\ asked'[c] /\ \A d \in Conns \ {c} : asked'[d] = asked[d]
  BY <1>1 DEF IInv, TypeOK
<1>4. c \in Streams => asked[c]
  BY <1>1 DEF IInv, ConnInv, AnsweredHaveAsked
<1>5. c \notin Streams => /\ c \notin mCompletionStreams
                         /\ \A p \in Paths : mPendingCompletions[p] # c
                         /\ \A i \in JobIds : mPendingLookups[i] # c
  BY <1>1 DEF IInv, ConnInv, AnsweredHaveAsked
<1> QED  BY <1>1, <1>2, <1>3, <1>4, <1>5 DEF isCompletionStream

\* A job took the number of the message it answers.
LEMMA CoverStarts ==
    ASSUME IInv, messages' = messages + 1, lastId' = lastId + 1, UNCHANGED mPendingCompletions
    PROVE  MessagesCover'
<1>1. Waiting' = Waiting
  BY DEF Waiting
<1>2. Cardinality(Waiting) \in Nat
  BY FS_CardinalityType DEF IInv, MessagesCover
<1> QED  BY <1>1, <1>2 DEF IInv, TypeOK, MessagesCover

LEMMA QueryMessageKeepsIInv ==
    ASSUME IInv, NEW c \in Conns, HandleQueryMessage(c)
    PROVE  IInv'
<1>1. c \notin Streams /\ OnNewMessage(c)
      /\ UNCHANGED <<mActiveCompletions, mPendingCompletions, isValid, cache>>
  BY DEF HandleQueryMessage, projectVars
<1>2. CASE StartQueryJob(c, NoPath) /\ Ignore(mEvents)
  <2>1. /\ UNCHANGED <<mFd, mPendingWrite, mDone, mCompletionStreams, mEvents>>
        /\ lastId' = lastId + 1 /\ mPendingLookups' = [mPendingLookups EXCEPT ![lastId + 1] = c]
    BY <1>2 DEF Ignore, StartQueryJob
  <2>2. TypeOK'
    <3>1. /\ path' \in [JobIds -> Paths \cup {NoPath}]
          /\ phase' \in [JobIds -> {"none", "queued", "executed", "reported", "done"}]
          /\ mPendingLookups' \in [JobIds -> Conns \cup {NoConn}]
      BY <1>1, <1>2, MessageComes, StartQueryJobType DEF IInv
    <3> QED  BY <1>1, <2>1, <3>1, MessageComes DEF IInv, TypeOK
  <2>3. ConnInv'
    <3>1. ConnType /\ ConnType'
      BY <2>2, TypeHasConnType DEF IInv, TypeOK, ConnType
    <3>2. /\ lastId + 1 \in JobIds /\ peer' = peer
          /\ \A d \in Conns : Posted(DeleteLater(d))' => Posted(DeleteLater(d))
          /\ \A p \in Paths : mPendingCompletions'[p] \in {mPendingCompletions[p], NoConn}
          /\ asked'[c] /\ \A d \in Conns \ {c} : asked'[d] = asked[d]
          /\ mFd[c] # "unborn" /\ mFd[c] # "deleted"
          /\ \A p \in Paths : mPendingCompletions'[p] # c
      BY <1>1, <2>1, MessageComes DEF Posted
    <3> QED  BY <1>1, <2>1, <3>1, <3>2, StartKeepsConnInv DEF IInv
  <2>4. JobInv'
    <3>1. /\ \A q \in Paths : Posted(Finished(q))' => Posted(Finished(q))
          /\ \A q \in Paths : AtMostOnce(mEvents', Finished(q))
      BY <2>1 DEF IInv, JobInv, ReportsHold, Posted
    <3> QED  BY <1>1, <1>2, <3>1, MessageComes, StartedJobHolds DEF IInv
  <2>5. MessagesCover'
    BY <1>1, <2>1, MessageComes, CoverStarts
  <2> QED  BY <2>2, <2>3, <2>4, <2>5 DEF IInv
<1>3. CASE /\ \E pending \in {w.pending : w \in Writes(c)} \cup {mPendingWrite[c]} :
                Settle(c, pending, TRUE, mEvents)
           /\ UNCHANGED <<lastId, path, phase, mPendingLookups>>
  <2>1. Replied(c, mEvents)
    <3>1. PICK pending \in {w.pending : w \in Writes(c)} \cup {mPendingWrite[c]} :
                 Settle(c, pending, TRUE, mEvents)
      BY <1>3
    <3>2. pending \in BOOLEAN
      BY WritesAreBoolean DEF IInv
    <3>3. mEvents \in Seq(Events) /\ ~isCompletionStream(c) /\ TRUE \in BOOLEAN
      BY <1>1, MessageComes DEF IInv, TypeOK
    <3> QED  BY <3>1, <3>2, <3>3, SettleReplies DEF IInv
  <2>2. TypeOK'
    BY <1>1, <1>3, <2>1, MessageComes DEF IInv, TypeOK, Replied, WriteType
  <2>3. ConnInv' /\ JobInv'
    <3>1. LeftIn(mEvents) /\ mEvents \in Seq(Events)
      BY QueueIsLeft DEF IInv, TypeOK
    <3> QED  BY <1>1, <1>3, <2>1, <2>2, <3>1, MessageComes, ReplyKeepsInv
  <2>4. MessagesCover'
    BY <1>1, <1>3, MessageComes, CoverStays DEF IInv
  <2> QED  BY <2>2, <2>3, <2>4 DEF IInv
<1> QED  BY <1>2, <1>3 DEF HandleQueryMessage, jobVars

\* A job starts to complete a file for c.
LEMMA CompletionJobKeepsInv ==
    ASSUME IInv, NEW c \in Conns, NEW p \in Paths, NEW events \in Seq(Events),
           LeftIn(events), StartCompletionJob(p, c, events), lastId + 1 \in JobIds,
           ~Occurs(events, Finished(p)), \A j \in JobIds : Holding(j) => path[j] # p,
           peer' = peer, isValid' = isValid, mFd[c] # "unborn",
           asked' \in [Conns -> BOOLEAN], asked'[c], \A d \in Conns \ {c} : asked'[d] = asked[d],
           asked[c] \/ c \notin Streams, messages' \in 0..MaxMessages, lastId + 1 <= messages',
           mPendingCompletions' \in [Paths -> Conns \cup {NoConn}],
           \A q \in Paths : mPendingCompletions'[q] \in {mPendingCompletions[q], NoConn},
           c \notin Streams => mFd[c] # "deleted" /\ \A q \in Paths : mPendingCompletions'[q] # c
    PROVE  TypeOK' /\ ConnInv' /\ JobInv' /\ lastId' = lastId + 1
<1>1. /\ p \in Known /\ Contains(cache, p) /\ cache' = TakeUnit(p)
      /\ mActiveCompletions' = mActiveCompletions \cup {p}
      /\ StartQueryJob(c, p)
      /\ UNCHANGED <<mFd, mPendingWrite, mDone, mCompletionStreams>> /\ mEvents' = events
  BY DEF StartCompletionJob, Ignore
<1>2. lastId' = lastId + 1 /\ mPendingLookups' = [mPendingLookups EXCEPT ![lastId + 1] = c]
  BY <1>1 DEF StartQueryJob
<1>3. TypeOK'
  <2>1. /\ path' \in [JobIds -> Paths \cup {NoPath}]
        /\ phase' \in [JobIds -> {"none", "queued", "executed", "reported", "done"}]
        /\ mPendingLookups' \in [JobIds -> Conns \cup {NoConn}]
    BY <1>1, StartQueryJobType DEF IInv
  <2>2. cache' \in Seq(Paths) /\ Len(cache') <= CacheSize
    <3>1. cache' \in Seq(Paths) /\ Len(cache') = Len(cache) - 1
      BY <1>1, TakeUnitTakes DEF IInv, TypeOK
    <3>2. Len(cache) \in Nat /\ Len(cache) <= CacheSize
      BY LenProperties DEF IInv, TypeOK
    <3> QED  BY <3>1, <3>2, SizesAssumption
  <2>3. lastId' \in 0..messages'
    BY <1>2 DEF IInv, TypeOK
  <2> QED  BY <1>1, <2>1, <2>2, <2>3 DEF IInv, TypeOK
<1>4. ConnInv'
  <2>1. ConnType /\ ConnType'
    BY <1>3, TypeHasConnType DEF IInv, TypeOK, ConnType
  <2>2. \A d \in Conns : Posted(DeleteLater(d))' => Posted(DeleteLater(d))
    BY <1>1 DEF LeftIn, Posted
  <2> QED  BY <1>1, <1>2, <2>1, <2>2, StartKeepsConnInv DEF IInv
<1>5. JobInv'
  <2>1. /\ \A q \in Paths : Posted(Finished(q))' => Posted(Finished(q))
        /\ \A q \in Paths : AtMostOnce(mEvents', Finished(q))
        /\ ~Posted(Finished(p))'
    BY <1>1 DEF LeftIn, Posted, IInv, JobInv, ReportsHold
  <2>2. p \in Paths \cup {NoPath} /\ p # NoPath
    BY PathsAssumption
  <2> QED  BY <1>1, <2>1, <2>2, StartedJobHolds DEF IInv
<1> QED  BY <1>2, <1>3, <1>4, <1>5

\* A request that finds its file taken waits, in the place of any before it.
LEMMA WaitingKeepsIInv ==
    ASSUME IInv, NEW c \in Conns, NEW p \in Paths, OnNewMessage(c), Ignore(mEvents), NoJob,
           mPendingCompletions' = [mPendingCompletions EXCEPT ![p] = c], UNCHANGED isValid
    PROVE  IInv'
<1>1. UNCHANGED <<mFd, mPendingWrite, mDone, mCompletionStreams, mEvents, lastId, path, phase,
                  mPendingLookups, mActiveCompletions, cache>>
  BY DEF Ignore, NoJob, jobVars
<1>2. \A q \in Paths : mPendingCompletions'[q] = IF q = p THEN c ELSE mPendingCompletions[q]
  BY DEF IInv, TypeOK
<1>3. TypeOK'
  BY <1>1, MessageComes DEF IInv, TypeOK
<1>4. ConnInv'
  <2>1. /\ mFd[c] = "open" /\ peer' = peer
        /\ asked'[c] /\ \A d \in Conns \ {c} : asked'[d] = asked[d]
        /\ asked[c] \/ c \notin Streams
        /\ c \notin Streams => /\ \A q \in Paths : mPendingCompletions[q] # c
                              /\ \A i \in JobIds : mPendingLookups[i] # c
    BY MessageComes
  <2>2. c \notin Streams => ~mDone[c]
    BY DEF OnNewMessage, IInv, ConnInv, AnsweredHaveAsked
  <2>3. DeletedAreDone' /\ AnsweredHaveAsked'
    BY <1>1, <1>2, <2>1, ConnsAssumption
       DEF IInv, ConnInv, DeletedAreDone, AnsweredHaveAsked, Posted
  <2>4. WaitsOnce'
    BY <1>1, <1>2, <2>1, ConnsAssumption DEF IInv, ConnInv, WaitsOnce
  <2>5. ConnectionsAlive' /\ StreamsStayOpen'
    BY <1>1, <1>2, <2>1, <2>2, ConnsAssumption
       DEF IInv, ConnInv, ConnectionsAlive, StreamsStayOpen, isConnected, isCompletionStream
  <2> QED  BY <2>3, <2>4, <2>5 DEF ConnInv
<1>5. JobInv'
  <2>1. /\ \A q \in Paths : Posted(Finished(q))' => Posted(Finished(q))
        /\ \A q \in Paths : AtMostOnce(mEvents', Finished(q))
    BY <1>1 DEF Posted, IInv, JobInv, ReportsHold
  <2> QED  BY <1>1, <2>1, JobsStay DEF IInv
<1>6. MessagesCover'
  <2>1. Waiting' = Waiting \cup {p}
    BY <1>2, ConnsAssumption DEF Waiting
  <2>2. /\ IsFiniteSet(Waiting \cup {p}) /\ Cardinality(Waiting) \in Nat
        /\ Cardinality(Waiting \cup {p}) \in {Cardinality(Waiting), Cardinality(Waiting) + 1}
    BY FS_AddElement, FS_CardinalityType DEF IInv, MessagesCover
  <2>3. messages' = messages + 1 /\ lastId' = lastId
    BY <1>1, MessageComes
  <2> QED  BY <2>1, <2>2, <2>3 DEF IInv, TypeOK, MessagesCover
<1> QED  BY <1>3, <1>4, <1>5, <1>6 DEF IInv

\* A request that is answered without a job.
LEMMA RepliedMessageKeepsIInv ==
    ASSUME IInv, NEW c \in Conns, OnNewMessage(c), Replied(c, mEvents), NoJob,
           UNCHANGED <<mPendingCompletions, isValid>>
    PROVE  IInv'
<1>1. UNCHANGED <<lastId, path, phase, mPendingLookups, mActiveCompletions, cache>>
  BY DEF NoJob, jobVars
<1>2. TypeOK'
  BY <1>1, MessageComes DEF IInv, TypeOK, Replied, WriteType
<1>3. ConnInv' /\ JobInv'
  <2>1. LeftIn(mEvents) /\ mEvents \in Seq(Events)
    BY QueueIsLeft DEF IInv, TypeOK
  <2> QED  BY <1>1, <1>2, <2>1, MessageComes, ReplyKeepsInv
<1>4. MessagesCover'
  BY <1>1, MessageComes, CoverStays DEF IInv
<1> QED  BY <1>2, <1>3, <1>4 DEF IInv

LEMMA CompletionMessageKeepsIInv ==
    ASSUME IInv, NEW c \in Conns, NEW p \in Paths, HandleCompletionMessage(c, p)
    PROVE  IInv'
<1>1. OnNewMessage(c) /\ UNCHANGED isValid /\ mEvents \in Seq(Events)
  BY DEF HandleCompletionMessage, IInv, TypeOK
<1>2. CASE /\ FinishUnlessStream(c, mPendingWrite[c], mEvents) /\ NoJob
           /\ UNCHANGED mPendingCompletions
  <2>1. Replied(c, mEvents)
    BY <1>1, <1>2, WritesAreBoolean, FinishUnlessStreamReplies DEF IInv
  <2> QED  BY <1>1, <1>2, <2>1, RepliedMessageKeepsIInv
<1>3. CASE /\ Ignore(mEvents) /\ NoJob
           /\ mPendingCompletions' = [mPendingCompletions EXCEPT ![p] = c]
  BY <1>1, <1>3, WaitingKeepsIInv
<1>4. CASE ~IsActive(p) /\ StartCompletion(p, c, mEvents) /\ UNCHANGED mPendingCompletions
  <2>1. CASE Replied(c, mEvents) /\ NoJob
    BY <1>1, <1>4, <2>1, RepliedMessageKeepsIInv
  <2>2. CASE StartCompletionJob(p, c, mEvents)
    <3>1. LeftIn(mEvents)
      BY QueueIsLeft
    <3>2. ~Occurs(mEvents, Finished(p)) /\ \A j \in JobIds : Holding(j) => path[j] # p
      BY <1>4 DEF IsActive, IInv, JobInv, ReportsHold, Posted
    <3>3. /\ mPendingCompletions' \in [Paths -> Conns \cup {NoConn}]
          /\ \A q \in Paths : mPendingCompletions'[q] \in {mPendingCompletions[q], NoConn}
      BY <1>4 DEF IInv, TypeOK
    <3>4. /\ lastId + 1 \in JobIds /\ peer' = peer
          /\ mFd[c] # "unborn" /\ mFd[c] # "deleted"
          /\ asked' \in [Conns -> BOOLEAN] /\ asked'[c]
          /\ \A d \in Conns \ {c} : asked'[d] = asked[d]
          /\ asked[c] \/ c \notin Streams
          /\ messages' \in 0..MaxMessages /\ messages' = messages + 1
          /\ c \notin Streams => \A q \in Paths : mPendingCompletions'[q] # c
      BY <1>1, <1>4, MessageComes
    <3>5. lastId + 1 <= messages'
      BY <3>4 DEF IInv, TypeOK
    <3>6. TypeOK' /\ ConnInv' /\ JobInv' /\ lastId' = lastId + 1
      BY <1>1, <2>2, <3>1, <3>2, <3>3, <3>4, <3>5, CompletionJobKeepsInv
    <3> QED  BY <1>4, <3>4, <3>6, CoverStarts DEF IInv
  <2> QED  BY <1>1, <1>4, <2>1, <2>2, StartCompletionStarts DEF IInv
<1> QED  BY <1>2, <1>3, <1>4 DEF HandleCompletionMessage

---------------------------------------------------------------------------
(* The steps that serve posted events.                                     *)

\* A handler of an event that only takes it out of the queue, and forgets.
LEMMA QuietEventKeepsInv ==
    ASSUME IInv, TypeOK', mEvents # <<>>, Ignore(Tail(mEvents)),
           UNCHANGED <<peer, asked, messages, mPendingLookups, lastId, path, phase>>,
           \A p \in Paths : mPendingCompletions'[p] \in {mPendingCompletions[p], NoConn},
           \A p \in mActiveCompletions \ mActiveCompletions' : Finished(p) = Head(mEvents)
    PROVE  IInv'
<1>1. UNCHANGED <<mFd, mPendingWrite, mDone, mCompletionStreams>> /\ mEvents' = Tail(mEvents)
  BY DEF Ignore
<1>2. /\ \A x : Posted(x)' => Posted(x)
      /\ \A x : AtMostOnce(mEvents, x) => AtMostOnce(mEvents', x)
  BY <1>1, TailDrops DEF IInv, TypeOK, Posted
<1>3. ConnInv'
  <2>1. ConnType /\ ConnType'
    BY TypeHasConnType DEF IInv, TypeOK, ConnType
  <2> QED  BY <1>1, <1>2, <2>1, QuietKeepsConnInv DEF IInv
<1>4. JobInv'
  <2>1. /\ \A p \in Paths : Posted(Finished(p))' => Posted(Finished(p))
        /\ \A p \in Paths : AtMostOnce(mEvents', Finished(p))
    BY <1>2 DEF IInv, JobInv, ReportsHold
  <2>2. ASSUME NEW p \in mActiveCompletions \ mActiveCompletions'
        PROVE  Posted(Finished(p)) /\ ~Posted(Finished(p))'
    <3>1. p \in Paths
      BY PathsAssumption DEF IInv, TypeOK
    <3>2. AtMostOnce(mEvents, Head(mEvents)) /\ mEvents \in Seq(Events)
      BY <2>2, <3>1 DEF IInv, TypeOK, JobInv, ReportsHold
    <3>3. Occurs(mEvents, Head(mEvents)) /\ ~Occurs(Tail(mEvents), Head(mEvents))
      BY <3>2, TailDrops
    <3> QED  BY <1>1, <2>2, <3>3 DEF Posted
  <2> QED  BY <2>1, <2>2, JobsStay DEF IInv
<1>5. MessagesCover'
  BY CoverStays DEF IInv
<1> QED  BY <1>3, <1>4, <1>5 DEF IInv

LEMMA JobOutputKeepsIInv ==
    ASSUME IInv, OnJobOutput
    PROVE  IInv'
<1> DEFINE e == Head(mEvents)
           c == mPendingLookups[e.job]
           reachable == c # NoConn /\ isConnected(c)
<1>1. /\ mEvents # <<>> /\ e.job \in JobIds /\ e.finish \in BOOLEAN
      /\ Tail(mEvents) \in Seq(Events)
      /\ UNCHANGED <<peer, asked, messages, mPendingLookups, mActiveCompletions,
                     mPendingCompletions, lastId, path, phase, isValid, cache>>
  BY HeadIsWhatItSays DEF OnJobOutput, Dispatch, IInv, jobVars, projectVars
<1>2. CASE Ignore(Tail(mEvents))
  <2>1. TypeOK'
    BY <1>1, <1>2 DEF Ignore, IInv, TypeOK
  <2> QED  BY <1>1, <1>2, <2>1, QuietEventKeepsInv
<1>3. CASE /\ reachable
           /\ \E w \in Writes(c) \cup {[ok |-> TRUE, pending |-> mPendingWrite[c]]} :
                IF w.ok /\ e.finish
                THEN FinishUnlessStream(c, w.pending, Tail(mEvents))
                ELSE Settle(c, w.pending, mDone[c], Tail(mEvents))
  <2>1. c \in Conns /\ mFd[c] = "open" /\ mDone[c] \in BOOLEAN
    BY <1>1, <1>3 DEF IInv, TypeOK, isConnected
  <2>2. asked[c] /\ (c \notin Streams => \A p \in Paths : mPendingCompletions[p] # c)
    BY <1>1, <2>1 DEF IInv, ConnInv, AnsweredHaveAsked, WaitsOnce
  <2> HIDE DEF c
  <2>3. Replied(c, Tail(mEvents))
    <3>1. PICK w \in Writes(c) \cup {[ok |-> TRUE, pending |-> mPendingWrite[c]]} :
                IF w.ok /\ e.finish
                THEN FinishUnlessStream(c, w.pending, Tail(mEvents))
                ELSE Settle(c, w.pending, mDone[c], Tail(mEvents))
      BY <1>3
    <3>2. w.pending \in BOOLEAN
      <4>1. CASE w \in Writes(c)
        BY <2>1, <4>1, WritesAreBoolean DEF IInv
      <4>2. CASE w = [ok |-> TRUE, pending |-> mPendingWrite[c]]
        BY <2>1, <4>2, WritesAreBoolean DEF IInv
      <4> QED  BY <3>1, <4>1, <4>2
    <3>3. CASE FinishUnlessStream(c, w.pending, Tail(mEvents))
      BY <1>1, <2>1, <3>2, <3>3, FinishUnlessStreamReplies DEF IInv
    <3>4. CASE Settle(c, w.pending, mDone[c], Tail(mEvents))
      BY <1>1, <2>1, <3>2, <3>4, SettleReplies DEF IInv
    <3> QED  BY <3>1, <3>3, <3>4
  <2>4. TypeOK'
    BY <1>1, <2>3 DEF IInv, TypeOK, Replied, WriteType
  <2>5. ConnInv' /\ JobInv'
    <3>1. LeftIn(Tail(mEvents))
      BY <1>1, TailIsLeft DEF IInv
    <3> QED  BY <1>1, <2>1, <2>2, <2>3, <2>4, <3>1, ReplyKeepsInv
  <2>6. MessagesCover'
    BY <1>1, CoverStays DEF IInv
  <2> QED  BY <2>4, <2>5, <2>6 DEF IInv
<1> QED  BY <1>2, <1>3 DEF OnJobOutput

\* The end of a completion lets the file go, or serves who waits: whoever it is
\* that a client that asks once cannot be deleted meanwhile is WaitsOnce.
LEMMA JobFinishedKeepsIInv ==
    ASSUME IInv, OnCompletionJobFinished
    PROVE  IInv'
<1> DEFINE p == Head(mEvents).path
           c == mPendingCompletions[p]
<1>1. /\ mEvents # <<>> /\ p \in Paths /\ Head(mEvents) = Finished(p)
      /\ Tail(mEvents) \in Seq(Events) /\ mPendingCompletions' = TakePending(p)
      /\ UNCHANGED <<peer, asked, messages, isValid>>
  BY HeadIsWhatItSays DEF OnCompletionJobFinished, Dispatch, IInv
<1> HIDE DEF p
<1>2. /\ \A q \in Paths : mPendingCompletions'[q] = IF q = p THEN NoConn ELSE mPendingCompletions[q]
      /\ mPendingCompletions' \in [Paths -> Conns \cup {NoConn}]
  BY <1>1 DEF TakePending, IInv, TypeOK
<1>3. CASE /\ mActiveCompletions' = mActiveCompletions \ {p}
           /\ Ignore(Tail(mEvents))
           /\ UNCHANGED <<jobVars, mPendingLookups, cache>>
  <2>1. TypeOK'
    BY <1>1, <1>2, <1>3 DEF Ignore, IInv, TypeOK, jobVars
  <2> QED  BY <1>1, <1>2, <1>3, <2>1, QuietEventKeepsInv DEF jobVars
<1>4. CASE c # NoConn /\ (Ignore(Tail(mEvents)) /\ NoJob)
  <2>1. UNCHANGED <<lastId, path, phase, mPendingLookups, mActiveCompletions, cache>>
    BY <1>4 DEF NoJob, jobVars
  <2>2. TypeOK'
    BY <1>1, <1>2, <1>4, <2>1 DEF Ignore, IInv, TypeOK
  <2> QED  BY <1>1, <1>2, <1>4, <2>1, <2>2, QuietEventKeepsInv
<1>5. ASSUME c # NoConn
      PROVE  /\ c \in Conns /\ asked[c] /\ mFd[c] # "unborn"
             /\ c \notin Streams => /\ mFd[c] # "deleted"
                                   /\ \A q \in Paths : mPendingCompletions'[q] # c
  <2>1. c \in Conns
    BY <1>1, <1>5 DEF IInv, TypeOK
  <2>2. asked[c] /\ mFd[c] # "unborn"
    BY <1>1, <2>1 DEF IInv, ConnInv, AnsweredHaveAsked
  <2>3. c \notin Streams => /\ mFd[c] # "deleted"
                           /\ \A q \in Paths : mPendingCompletions'[q] # c
    BY <1>1, <1>2, <1>5, <2>1 DEF IInv, ConnInv, ConnectionsAlive, WaitsOnce
  <2> QED  BY <2>1, <2>2, <2>3
<1>6. CASE c # NoConn /\ mFd[c] # "deleted" /\ Replied(c, Tail(mEvents)) /\ NoJob
  <2>1. UNCHANGED <<lastId, path, phase, mPendingLookups, mActiveCompletions, cache>>
    BY <1>6 DEF NoJob, jobVars
  <2>2. TypeOK'
    BY <1>1, <1>2, <1>6, <2>1 DEF IInv, TypeOK, Replied, WriteType
  <2>3. ConnInv' /\ JobInv'
    <3>1. LeftIn(Tail(mEvents))
      BY <1>1, TailIsLeft DEF IInv
    <3>2. c \in Conns /\ mFd[c] \in {"open", "closed"} /\ asked'[c]
          /\ \A d \in Conns \ {c} : asked'[d] = asked[d]
      BY <1>1, <1>5, <1>6 DEF IInv, TypeOK
    <3>3. \A q \in Paths : mPendingCompletions'[q] \in {mPendingCompletions[q], NoConn}
      BY <1>2
    <3> HIDE DEF c
    <3> QED  BY <1>1, <1>5, <1>6, <2>1, <2>2, <3>1, <3>2, <3>3, ReplyKeepsInv
  <2>4. MessagesCover'
    BY <1>1, <1>2, <2>1, CoverStays DEF IInv
  <2> QED  BY <2>2, <2>3, <2>4 DEF IInv
<1>7. CASE c # NoConn /\ StartCompletionJob(p, c, Tail(mEvents))
  <2>1. LeftIn(Tail(mEvents))
    BY <1>1, TailIsLeft DEF IInv
  <2>2. /\ lastId + 1 \in JobIds /\ lastId + 1 <= messages
        /\ lastId' = lastId + 1 => MessagesCover'
    BY <1>1, <1>7, WaitingHasMessage DEF IInv
  <2>3. ~Occurs(Tail(mEvents), Finished(p)) /\ Posted(Finished(p))
    <3>1. AtMostOnce(mEvents, Head(mEvents)) /\ mEvents \in Seq(Events)
      BY <1>1 DEF IInv, TypeOK, JobInv, ReportsHold
    <3> QED  BY <1>1, <3>1, TailDrops DEF Posted
  <2>4. \A j \in JobIds : Holding(j) => path[j] # p
    BY <2>3 DEF IInv, JobInv, ReportsHold
  <2>5. /\ c \in Conns /\ asked'[c] /\ \A d \in Conns \ {c} : asked'[d] = asked[d]
        /\ asked' \in [Conns -> BOOLEAN] /\ messages' \in 0..MaxMessages
        /\ lastId + 1 <= messages' /\ (asked[c] \/ c \notin Streams)
        /\ \A q \in Paths : mPendingCompletions'[q] \in {mPendingCompletions[q], NoConn}
    BY <1>1, <1>2, <1>5, <1>7, <2>2 DEF IInv, TypeOK
  <2> HIDE DEF c
  <2>6. TypeOK' /\ ConnInv' /\ JobInv' /\ lastId' = lastId + 1
    BY <1>1, <1>2, <1>5, <1>7, <2>1, <2>2, <2>3, <2>4, <2>5, CompletionJobKeepsInv
  <2> QED  BY <2>2, <2>6 DEF IInv
<1>8. CASE c # NoConn /\ mFd[c] # "deleted" /\ StartCompletion(p, c, Tail(mEvents))
  <2> HIDE DEF c
  <2> QED  BY <1>1, <1>5, <1>6, <1>7, <1>8, StartCompletionStarts DEF IInv
<1> QED  BY <1>3, <1>4, <1>7, <1>8 DEF OnCompletionJobFinished, p

LEMMA DeleteLaterKeepsIInv ==
    ASSUME IInv, OnDeleteLater
    PROVE  IInv'
<1> DEFINE c == Head(mEvents).conn
<1>1. /\ mEvents # <<>> /\ c \in Conns /\ Head(mEvents) = DeleteLater(c)
      /\ mFd' = [mFd EXCEPT ![c] = "deleted"] /\ mPendingLookups' = ForgetLookups(c)
      /\ mEvents' = Tail(mEvents)
      /\ UNCHANGED <<peer, mPendingWrite, mDone, asked, messages, mCompletionStreams,
                     mActiveCompletions, mPendingCompletions, lastId, path, phase, isValid, cache>>
  BY HeadIsWhatItSays DEF OnDeleteLater, Dispatch, IInv, jobVars, projectVars
<1> HIDE DEF c
<1>2. Posted(DeleteLater(c)) /\ mDone[c] /\ asked[c]
  <2>1. Posted(DeleteLater(c))
    BY <1>1, TailDrops DEF IInv, TypeOK, Posted
  <2> QED  BY <1>1, <2>1 DEF IInv, ConnInv, DeletedAreDone, AnsweredHaveAsked
<1>3. /\ mEvents' \in Seq(Events)
      /\ \A x : Posted(x)' => Posted(x)
      /\ \A x : AtMostOnce(mEvents, x) => AtMostOnce(mEvents', x)
  BY <1>1, TailDrops DEF IInv, TypeOK, Posted
<1>4. /\ \A d \in Conns : mFd'[d] = IF d = c THEN "deleted" ELSE mFd[d]
      /\ \A i \in JobIds :
           mPendingLookups'[i] = IF mPendingLookups[i] = c THEN NoConn ELSE mPendingLookups[i]
  BY <1>1 DEF ForgetLookups, IInv, TypeOK
<1>5. TypeOK'
  <2>1. mPendingLookups' \in [JobIds -> Conns \cup {NoConn}]
    BY <1>1 DEF ForgetLookups, IInv, TypeOK
  <2> QED  BY <1>1, <1>3, <2>1 DEF IInv, TypeOK
<1>6. DeletedAreDone' /\ AnsweredHaveAsked' /\ WaitsOnce'
  BY <1>1, <1>2, <1>3, <1>4, ConnsAssumption
     DEF IInv, ConnInv, DeletedAreDone, AnsweredHaveAsked, WaitsOnce
<1>7. ConnectionsAlive' /\ StreamsStayOpen'
  BY <1>1, <1>2, <1>4, ConnsAssumption
     DEF IInv, ConnInv, ConnectionsAlive, StreamsStayOpen, isConnected, isCompletionStream
<1>8. JobInv'
  <2>1. /\ \A q \in Paths : Posted(Finished(q))' => Posted(Finished(q))
        /\ \A q \in Paths : AtMostOnce(mEvents', Finished(q))
    BY <1>3 DEF IInv, JobInv, ReportsHold
  <2> QED  BY <1>1, <2>1, JobsStay DEF IInv
<1>9. MessagesCover'
  BY <1>1, CoverStays DEF IInv
<1> QED  BY <1>5, <1>6, <1>7, <1>8, <1>9 DEF IInv, ConnInv

---------------------------------------------------------------------------
(* The steps of the jobs and of the rest of rdm.                           *)

\* A job on its thread posts an event; Finished(path) if it gives its file up.
LEMMA RunKeepsIInv ==
    ASSUME IInv, NEW i \in JobIds, Run(i)
    PROVE  IInv'
<1>1. /\ mEvents \in Seq(Events) /\ Len(cache) <= CacheSize /\ cache \in Seq(Paths)
      /\ path[i] \in Paths \cup {NoPath}
  BY DEF IInv, TypeOK
<1>2. UNCHANGED <<mFd, peer, mPendingWrite, mDone, asked, messages, mPendingLookups,
                  mCompletionStreams, mActiveCompletions, mPendingCompletions,
                  lastId, path, isValid>>
  BY DEF Run, Execute, EmitFinished, EndRun, connVars, serverVars, projectVars
<1>3. /\ phase' \in [JobIds -> {"none", "queued", "executed", "reported", "done"}]
      /\ \A j \in JobIds \ {i} : phase'[j] = phase[j]
  BY DEF Run, Execute, EmitFinished, EndRun, IInv, TypeOK
<1>4. /\ mEvents' \in Seq(Events)
      /\ \A c \in Conns : Posted(DeleteLater(c))' => Posted(DeleteLater(c))
  <2>1. ASSUME NEW e \in Events, mEvents' = Append(mEvents, e), \A c : e # DeleteLater(c)
        PROVE  /\ mEvents' \in Seq(Events)
               /\ \A c \in Conns : Posted(DeleteLater(c))' => Posted(DeleteLater(c))
    BY <1>1, <2>1, AppendAdds DEF Posted
  <2>2. CASE Execute(i)
    <3>1. mEvents' = mEvents \/ mEvents' = Append(mEvents, Output(i, FALSE))
      BY <2>2 DEF Execute
    <3>2. Output(i, FALSE) \in Events /\ \A c : Output(i, FALSE) # DeleteLater(c)
      BY EventsAreEvents, EventsDiffer
    <3> QED  BY <1>1, <2>1, <3>1, <3>2 DEF Posted
  <2>3. CASE EmitFinished(i)
    <3>1. path[i] \in Paths /\ mEvents' = Append(mEvents, Finished(path[i]))
      BY <1>1, <2>3 DEF EmitFinished
    <3>2. Finished(path[i]) \in Events /\ \A c : Finished(path[i]) # DeleteLater(c)
      BY <3>1, EventsAreEvents, EventsDiffer
    <3> QED  BY <2>1, <3>1, <3>2
  <2>4. CASE EndRun(i)
    <3>1. mEvents' = Append(mEvents, Output(i, TRUE))
      BY <2>4 DEF EndRun
    <3>2. Output(i, TRUE) \in Events /\ \A c : Output(i, TRUE) # DeleteLater(c)
      BY EventsAreEvents, EventsDiffer
    <3> QED  BY <2>1, <3>1, <3>2
  <2> QED  BY <2>2, <2>3, <2>4 DEF Run
<1>5. TypeOK'
  <2>1. cache' \in Seq(Paths) /\ Len(cache') <= CacheSize
    <3>1. cache' = cache \/ (path[i] \in Paths /\ cache' = AddCachedUnit(cache, path[i]))
      BY <1>1 DEF Run, Execute, EmitFinished, EndRun, projectVars
    <3> QED  BY <1>1, <3>1, AddCachedUnitFits
  <2> QED  BY <1>2, <1>3, <1>4, <2>1 DEF IInv, TypeOK
<1>6. ConnInv'
  <2>1. ConnType /\ ConnType'
    BY <1>5, TypeHasConnType DEF IInv, TypeOK, ConnType
  <2> QED  BY <1>2, <1>4, <2>1, QuietKeepsConnInv DEF IInv
<1>7. \A j \in JobIds \ {i} : Holding(j)' = Holding(j)
  BY <1>2, <1>3 DEF Holding
<1>8. \A j, k \in JobIds : Holding(j) /\ Holding(k) /\ path[j] = path[k] => j = k
  BY DEF IInv, JobInv, OneJobPerPath, Holding
<1>9. ReportsHold' /\ (Holding(i)' => Holding(i))
  <2>1. CASE EmitFinished(i)
    <3>1. /\ path[i] \in Paths /\ Holding(i) /\ ~Holding(i)'
          /\ mEvents' = Append(mEvents, Finished(path[i]))
      BY <1>1, <2>1 DEF EmitFinished, Holding, IInv, TypeOK
    <3>2. /\ \A x : Posted(x)' <=> Posted(x) \/ x = Finished(path[i])
          /\ \A x : AtMostOnce(mEvents, x) /\ (x = Finished(path[i]) => ~Posted(x))
                     => AtMostOnce(mEvents', x)
      BY <1>1, <3>1, AppendAdds, EventsAreEvents DEF Posted
    <3>3. path[i] \in mActiveCompletions /\ ~Posted(Finished(path[i]))
      BY <3>1 DEF IInv, JobInv, ReportsHold
    <3>4. \A j \in JobIds : Holding(j)' => path[j] \in Paths /\ path[j] # path[i] /\ Holding(j)
      <4> TAKE j \in JobIds
      <4> HAVE Holding(j)'
      <4>1. j # i /\ Holding(j)
        BY <1>7, <3>1
      <4>2. path[j] \in Paths
        BY <4>1 DEF Holding, IInv, TypeOK
      <4> QED  BY <1>8, <3>1, <4>1, <4>2
    <3>5. ASSUME NEW j \in JobIds, Holding(j)'
          PROVE  path[j] \in mActiveCompletions /\ ~Occurs(mEvents', Finished(path[j]))
      <4>1. /\ path[j] \in mActiveCompletions /\ path[j] # path[i]
            /\ ~Posted(Finished(path[j]))
        BY <3>4, <3>5 DEF IInv, JobInv, ReportsHold
      <4>2. Finished(path[j]) # Finished(path[i])
        BY <4>1, EventsDiffer
      <4> QED  BY <3>2, <4>1, <4>2 DEF Posted
    <3>6. \A p \in Paths : Posted(Finished(p))' => p \in mActiveCompletions
      BY <3>2, <3>3, EventsDiffer DEF IInv, JobInv, ReportsHold
    <3>7. \A p \in Paths : AtMostOnce(mEvents', Finished(p))
      BY <3>2, <3>3 DEF IInv, JobInv, ReportsHold
    <3> QED  BY <1>2, <3>1, <3>5, <3>6, <3>7 DEF ReportsHold, Posted
  <2>2. CASE Execute(i) \/ EndRun(i)
    <3>1. Holding(i)' => Holding(i)
      BY <1>2, <2>2 DEF Execute, EndRun, Holding, IInv, TypeOK
    <3>2. /\ \A p \in Paths : Posted(Finished(p))' => Posted(Finished(p))
          /\ \A p \in Paths : AtMostOnce(mEvents', Finished(p))
      <4>1. mEvents' = mEvents \/ \E b \in BOOLEAN : mEvents' = Append(mEvents, Output(i, b))
        BY <2>2 DEF Execute, EndRun
      <4>2. CASE mEvents' = mEvents
        BY <4>2 DEF Posted, IInv, JobInv, ReportsHold
      <4>3. CASE \E b \in BOOLEAN : mEvents' = Append(mEvents, Output(i, b))
        <5>1. PICK b \in BOOLEAN : mEvents' = Append(mEvents, Output(i, b))
          BY <4>3
        <5>2. /\ \A x : Posted(x)' <=> Posted(x) \/ x = Output(i, b)
              /\ \A x : AtMostOnce(mEvents, x) /\ (x = Output(i, b) => ~Posted(x))
                         => AtMostOnce(mEvents', x)
          BY <1>1, <5>1, AppendAdds, EventsAreEvents DEF Posted
        <5> QED  BY <5>2, EventsDiffer DEF IInv, JobInv, ReportsHold
      <4> QED  BY <4>1, <4>2, <4>3
    <3>3. \A j \in JobIds : Holding(j)' => Holding(j) /\ path[j] \in Paths
      BY <1>7, <3>1 DEF Holding, IInv, TypeOK
    <3> QED  BY <1>2, <3>1, <3>2, <3>3 DEF IInv, JobInv, ReportsHold
  <2> QED  BY <2>1, <2>2 DEF Run
<1>10. OneJobPerPath'
  <2>1. \A j, k \in JobIds : Holding(j)' /\ Holding(k)' /\ path'[j] = path'[k] => j = k
    BY <1>2, <1>7, <1>8, <1>9
  <2> QED  BY <2>1 DEF OneJobPerPath, Holding
<1>11. MessagesCover'
  BY <1>2, CoverStays DEF IInv
<1> QED  BY <1>5, <1>6, <1>9, <1>10, <1>11 DEF IInv, JobInv

\* The unit cache and the project have no part in the rest.
LEMMA ProjectKeepsIInv ==
    ASSUME IInv, UNCHANGED <<connVars, mEvents, serverVars, jobVars>>,
           isValid' \in BOOLEAN, cache' \in Seq(Paths), Len(cache') <= CacheSize
    PROVE  IInv'
<1>1. UNCHANGED <<mFd, peer, mPendingWrite, mDone, asked, messages, mPendingLookups,
                  mCompletionStreams, mActiveCompletions, mPendingCompletions,
                  mEvents, lastId, path, phase>>
  BY DEF connVars, serverVars, jobVars
<1>2. TypeOK'
  BY <1>1 DEF IInv, TypeOK
<1>3. ConnInv'
  BY <1>1 DEF IInv, ConnInv, DeletedAreDone, AnsweredHaveAsked, WaitsOnce, ConnectionsAlive,
     StreamsStayOpen, Posted, isConnected, isCompletionStream
<1>4. JobInv' /\ MessagesCover'
  BY <1>1, JobsAndWaitsStay DEF jobVars
<1> QED  BY <1>2, <1>3, <1>4 DEF IInv

LEMMA NextKeepsIInv == IInv /\ [Next]_vars => IInv'
<1> SUFFICES ASSUME IInv, [Next]_vars PROVE IInv'
  OBVIOUS
<1>0. isValid \in BOOLEAN /\ cache \in Seq(Paths) /\ Len(cache) <= CacheSize /\ Len(cache) \in Nat
  BY LenProperties DEF IInv, TypeOK
<1>1. ASSUME NEW c \in Conns, OnNewConnection(c) \/ Leave(c) \/ ReadMore(c) PROVE IInv'
  BY <1>1, ComingAndGoingKeepIInv
<1>2. ASSUME NEW c \in Conns, WriteMore(c) PROVE IInv'
  BY <1>2, WriteMoreKeepsIInv
<1>3. ASSUME NEW c \in Conns, HandleCompletionStream(c) PROVE IInv'
  BY <1>3, CompletionStreamKeepsIInv
<1>4. ASSUME NEW c \in Conns, HandleQueryMessage(c) PROVE IInv'
  BY <1>4, QueryMessageKeepsIInv
<1>5. ASSUME NEW c \in Conns, NEW p \in Paths, HandleCompletionMessage(c, p) PROVE IInv'
  BY <1>5, CompletionMessageKeepsIInv
<1>6. CASE HandleEvent
  BY <1>6, JobOutputKeepsIInv, JobFinishedKeepsIInv, DeleteLaterKeepsIInv DEF HandleEvent
<1>7. ASSUME NEW i \in JobIds, Run(i) PROVE IInv'
  BY <1>7, RunKeepsIInv
<1>8. ASSUME NEW p \in Paths, IndexerAddsUnit(p) PROVE IInv'
  BY <1>0, <1>8, AddCachedUnitFits, ProjectKeepsIInv DEF IndexerAddsUnit
<1>9. ASSUME NEW p \in Paths, IndexerTakesUnit(p) PROVE IInv'
  <2>1. /\ Contains(cache, p) /\ cache' = TakeUnit(p)
        /\ UNCHANGED <<connVars, mEvents, serverVars, jobVars, isValid>>
    BY <1>9 DEF IndexerTakesUnit
  <2>2. cache' \in Seq(Paths) /\ Len(cache') = Len(cache) - 1
    BY <1>0, <2>1, TakeUnitTakes
  <2>3. Len(cache') <= CacheSize
    BY <1>0, <2>2, SizesAssumption
  <2> QED  BY <1>0, <2>1, <2>2, <2>3, ProjectKeepsIInv
<1>10. CASE UnloadOrLoad
  <2>1. isValid' \in BOOLEAN /\ UNCHANGED <<connVars, mEvents, serverVars, jobVars, cache>>
    BY <1>10 DEF UnloadOrLoad
  <2> QED  BY <1>0, <2>1, ProjectKeepsIInv
<1>11. CASE UNCHANGED vars
  BY <1>0, <1>11, ProjectKeepsIInv DEF vars, projectVars
<1> QED  BY <1>1, <1>2, <1>3, <1>4, <1>5, <1>6, <1>7, <1>8, <1>9, <1>10, <1>11 DEF Next

LEMMA IInvHolds == Spec => []IInv
<1>1. Init => IInv
  BY InitIInv
<1>2. IInv /\ [Next]_vars => IInv'
  BY NextKeepsIInv
<1> QED  BY <1>1, <1>2, PTL DEF Spec

---------------------------------------------------------------------------
(* What it keeps.                                                          *)

\* The unit cache never outgrows its size, there are numbers for all jobs, and
\* every event names what its handler needs (Project.cpp addCachedUnit, Server.cpp
\* startQueryJob and event).
THEOREM CompletionTypeCorrect == Spec => []TypeOK
<1>1. IInv => TypeOK
  BY DEF IInv
<1> QED  BY <1>1, IInvHolds, PTL

\* The question at Server.cpp:964, "could the connection be deleted by now?": not
\* that of a client that asks once, however many clients, files and messages
\* there are, nor is output routed to one that is gone.
THEOREM ConnectionsAliveHolds == Spec => []ConnectionsAlive
<1>1. IInv => ConnectionsAlive
  BY DEF IInv, ConnInv
<1> QED  BY <1>1, IInvHolds, PTL

\* No answer calls finish() on a completion stream, whatever becomes of the
\* requests on it: it stays open and registered until its client goes.
THEOREM StreamsStayOpenHolds == Spec => []StreamsStayOpen
<1>1. IInv => StreamsStayOpen
  BY DEF IInv, ConnInv
<1> QED  BY <1>1, IInvHolds, PTL

\* Two completions never run in one file: mActiveCompletions holds it from the
\* start of a job until its report has been read (Server.cpp startCompletion and
\* onCompletionJobFinished).
THEOREM OneJobPerPathHolds == Spec => []OneJobPerPath
<1>1. IInv => OneJobPerPath
  BY DEF IInv, JobInv
<1> QED  BY <1>1, IInvHolds, PTL
===========================================================================
